----------------------------- MODULE PermitPool -----------------------------
(***************************************************************************)
(* What the callers of AsyncRateLimiter::acquire rely on: a pool of at     *)
(* most Burst permits, one taken by each call to the sidecar, none taken   *)
(* when there is none, and new ones handed out as time goes by.            *)
(***************************************************************************)
EXTENDS Integers

CONSTANT Burst

VARIABLE permits

Init == permits = Burst

Take ==
  /\ permits > 0
  /\ permits' = permits - 1

Refill == permits' \in (permits + 1)..Burst

Next == Take \/ Refill

Spec == Init /\ [][Next]_permits

=============================================================================
