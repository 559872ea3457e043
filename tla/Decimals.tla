------------------------------ MODULE Decimals ------------------------------
(***************************************************************************)
(* The rounding of rust_decimal, a library of the system: a quotient, and  *)
(* what round and round_dp return, is the nearest multiple of the last     *)
(* digit that is kept, which is the unit here.                             *)
(***************************************************************************)
EXTENDS Integers

(* n / d to the nearest unit: a half goes to the even neighbour. *)
RoundDp(n, d) ==
  LET q    == n \div d
      rest == 2 * (n % d)
  IN  IF rest < d \/ (rest = d /\ q % 2 = 0) THEN q ELSE q + 1

=============================================================================
