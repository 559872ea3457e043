------------------------------ MODULE Numbers ------------------------------
(***************************************************************************)
(* Numbers of the analytic code: ratios <<n, d>> in lowest terms, d > 0,   *)
(* for its doubles and decimals, whose rounding is left out, and NaN, that *)
(* every operation passes on.                                              *)
(***************************************************************************)
EXTENDS Integers, Sequences

CONSTANT NaN       \* a value that is not a number

ASSUME NumbersAssumption == NaN \notin Int \X Int

Gcd(a, b) ==
  LET gcd[p \in Nat \X Nat] == IF p[2] = 0 THEN p[1] ELSE gcd[<<p[2], p[1] % p[2]>>]
  IN  gcd[<<a, b>>]

Magnitude(n) == IF n < 0 THEN -n ELSE n

Ratio(n, d) ==
  LET g == Gcd(Magnitude(n), Magnitude(d))
      s == IF d < 0 THEN -1 ELSE 1
  IN  <<(s * n) \div g, (s * d) \div g>>

Whole(n) == <<n, 1>>
Zero == Whole(0)

Undefined(x, y) == x = NaN \/ y = NaN

Plus(x, y)  == IF Undefined(x, y) THEN NaN ELSE Ratio(x[1] * y[2] + y[1] * x[2], x[2] * y[2])
Minus(x, y) == IF Undefined(x, y) THEN NaN ELSE Ratio(x[1] * y[2] - y[1] * x[2], x[2] * y[2])
Times(x, y) == IF Undefined(x, y) THEN NaN ELSE Ratio(x[1] * y[1], x[2] * y[2])
Over(x, y)  == IF Undefined(x, y) THEN NaN ELSE Ratio(x[1] * y[2], x[2] * y[1])

Below(x, y) == x # NaN /\ y # NaN /\ x[1] * y[2] < y[1] * x[2]

Between(x, lowest, highest) == ~Below(x, lowest) /\ ~Below(highest, x)

Distance(x, y) == IF Below(x, y) THEN Minus(y, x) ELSE Minus(x, y)

=============================================================================
