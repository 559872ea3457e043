-------------------------------- MODULE Sums --------------------------------
(***************************************************************************)
(* The sum of natural numbers over a finite set, counted unit by unit: a   *)
(* fold says the same, but TLAPS cannot reason about a fold and it can     *)
(* about the cardinality of a set (Sums_proofs).                           *)
(***************************************************************************)
EXTENDS Integers, FiniteSets

(* One element per unit of f[x], for every x in S. *)
Units(f, S) == UNION {{x} \X (1..f[x]) : x \in S}

SumOver(f, S) == Cardinality(Units(f, S))

=============================================================================
