--------------------------- MODULE OrderLifecycle ---------------------------
(***************************************************************************)
(* What an ExecutionHandler promises of its orders, whatever account and   *)
(* market stand behind it (tg-contracts Order and OrderStatus, tg-engine   *)
(* ExecutionHandler): an order is placed once, is filled piece by piece    *)
(* and never beyond its quantity, and ends either Filled, with nothing     *)
(* left, or Cancelled, after which nothing about it changes.               *)
(***************************************************************************)
EXTENDS Integers

CONSTANT Ids

VARIABLES
  phase,   \* the status of each order, "None" before it is placed
  left     \* the shares each order is still waiting for

vars == <<phase, left>>

Init ==
  /\ phase = [o \in Ids |-> "None"]
  /\ left = [o \in Ids |-> 0]

Place(o, q) ==
  /\ phase[o] = "None"
  /\ phase' = [phase EXCEPT ![o] = "New"]
  /\ q \in Nat \ {0}
  /\ left' = [left EXCEPT ![o] = q]

Fill(o, q) ==
  /\ phase[o] \in {"New", "PartiallyFilled"}
  /\ phase' = [phase EXCEPT ![o] = IF q = left[o] THEN "Filled" ELSE "PartiallyFilled"]
  /\ left' = [left EXCEPT ![o] = @ - q]

Cancel(o) ==
  /\ phase[o] \in {"New", "PartiallyFilled"}
  /\ phase' = [phase EXCEPT ![o] = "Cancelled"]
  /\ UNCHANGED left

Next ==
  \E o \in Ids :
    \/ \E q \in {left'[o]} : Place(o, q)
    \/ Cancel(o)
    \/ \E q \in 1..left[o] : Fill(o, q)

Spec == Init /\ [][Next]_vars

=============================================================================
