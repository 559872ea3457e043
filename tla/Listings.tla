------------------------------ MODULE Listings ------------------------------
(***************************************************************************)
(* Sequences that are sorted or thinned out, said by the place each index  *)
(* gets.  The folds and SelectSeq of the libraries compute the same, but   *)
(* TLAPS cannot reason about an operator that takes an operator, and it    *)
(* can about the cardinality of a set (Sums_proofs).                       *)
(***************************************************************************)
EXTENDS Integers, Sequences, FiniteSets

(* The indices in the order in which before[i] are those up to i.           *)
Placing(before) ==
  [n \in 1..Cardinality(DOMAIN before) |->
     CHOOSE i \in DOMAIN before : Cardinality(before[i]) = n]

Listed(seq, before) ==
  [n \in 1..Cardinality(DOMAIN before) |-> seq[Placing(before)[n]]]

(* A stable sort: key[i] is the key of seq[i]. *)
StablyBefore(key) ==
  [i \in DOMAIN key |->
     {j \in DOMAIN key : key[j] < key[i] \/ (key[j] = key[i] /\ j <= i)}]

SortedOn(seq, key) == Listed(seq, StablyBefore(key))

(* What is left of a sequence when only some of its indices are kept. *)
UpTo(kept) == [i \in kept |-> {j \in kept : j <= i}]

Filtered(seq, kept) == Listed(seq, UpTo(kept))

(* The sequences of a list, one after the other. *)
Joined(list) ==
  LET joined[n \in 0..Len(list)] == IF n = 0 THEN <<>> ELSE joined[n - 1] \o list[n]
  IN  joined[Len(list)]

=============================================================================
