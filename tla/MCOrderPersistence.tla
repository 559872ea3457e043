------------------------- MODULE MCOrderPersistence -------------------------
(***************************************************************************)
(* Instances of OrderPersistence for TLC: which client_order_id the orders *)
(* of a run are submitted with.                                            *)
(***************************************************************************)
EXTENDS OrderPersistence, TLC

CONSTANTS o1, o2, o3

(* Two orders share their client's id: a client that tries again. *)
RetryClientIds == o1 :> "a" @@ o2 :> "a" @@ o3 :> "c"

OwnClientIds == o1 :> "a" @@ o2 :> "b"

RetriedPair == Permutations({o1, o2})

=============================================================================
