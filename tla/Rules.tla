-------------------------------- MODULE Rules --------------------------------
(***************************************************************************)
(* The rules of the signal engine (rules.rs): trees of conditions on the   *)
(* values of indicators, the ranks of factors and prices.  A condition is  *)
(* known by its reason, so that a tree is judged by the reasons that are   *)
(* met; numbers are those of Numbers, and NaN compares as nothing.         *)
(***************************************************************************)
EXTENDS Numbers, SequencesExt, FiniteSetsExt

(* CmpOp::compare_f64 *)
Compare(op, x, y) ==
  /\ x # NaN /\ y # NaN
  /\ CASE op = "Lt" -> Below(x, y)
       [] op = "Le" -> ~Below(y, x)
       [] op = "Gt" -> Below(y, x)
       [] op = "Ge" -> ~Below(x, y)
       [] op = "Eq" -> x = y

IndicatorThreshold(key, op, level, reason) ==
  [kind |-> "indicators", key |-> key, op |-> op, level |-> level, reason |-> reason]

PriceVsLevel(field, op, level, reason) ==
  [kind |-> "prices", key |-> field, op |-> op, level |-> level, reason |-> reason]

FactorRankThreshold(factor, percent, universe, reason) ==
  [kind |-> "ranks", key |-> factor, percent |-> percent, universe |-> universe,
   reason |-> reason]

Leaf(condition) == [op |-> "leaf", condition |-> condition]
AllOf(children) == [op |-> "and", children |-> children]
AnyOf(children) == [op |-> "or", children |-> children]

(* EvalContext: what is known, each a function on the keys it is known of. *)
Context(indicators, ranks, prices) ==
  [indicators |-> indicators, ranks |-> ranks, prices |-> prices]

(* Condition::evaluate: whether the condition is met *)
Meets(condition, ctx) ==
  LET known == ctx[condition.kind]
  IN  /\ condition.key \in DOMAIN known
      /\ IF condition.kind = "ranks"
         THEN /\ known[condition.key] # NaN /\ condition.universe > 0
              /\ 100 * known[condition.key] <= condition.percent * condition.universe
         ELSE Compare(condition.op, known[condition.key], condition.level)

NotFired == [fired |-> FALSE, reasons |-> <<>>, strength |-> Zero, confidence |-> Zero]

FiredFor(reason) ==
  [fired |-> TRUE, reasons |-> <<reason>>, strength |-> Whole(1), confidence |-> Whole(1)]

LOCAL FiredOf(results) == Cardinality({i \in DOMAIN results : results[i].fired})

LOCAL ReasonsOf(results) ==
  FlattenSeq([i \in DOMAIN results |-> IF results[i].fired THEN results[i].reasons ELSE <<>>])

LOCAL ShareFired(results) == Ratio(FiredOf(results), Len(results))

(* Mutant of EvaluateAnd: reasons are told of a rule that does not fire. *)
EvaluateAndLoudly(results) ==
  IF results = <<>> THEN NotFired
  ELSE [fired |-> FiredOf(results) = Len(results), reasons |-> ReasonsOf(results),
        strength |-> ShareFired(results), confidence |-> ShareFired(results)]

(* evaluate_and, of the results of the children *)
EvaluateAnd(results) ==
  LET all == FiredOf(results) = Len(results)
  IN  IF results = <<>> THEN NotFired
      ELSE [fired |-> all, reasons |-> IF all THEN ReasonsOf(results) ELSE <<>>,
            strength |-> ShareFired(results), confidence |-> ShareFired(results)]

(* evaluate_or *)
EvaluateOr(results) ==
  LET some == FiredOf(results) > 0
      half == Ratio(1, 2)
  IN  IF results = <<>> THEN NotFired
      ELSE [fired |-> some, reasons |-> ReasonsOf(results),
            strength |-> IF ~some THEN Zero
                         ELSE IF Below(ShareFired(results), half) THEN half
                         ELSE ShareFired(results),
            confidence |-> ShareFired(results)]

(* ConditionTree::evaluate, where the conditions of these reasons are met *)
RECURSIVE Evaluate(_, _)
Evaluate(tree, met) ==
  IF tree.op = "leaf"
  THEN IF tree.condition.reason \in met THEN FiredFor(tree.condition.reason) ELSE NotFired
  ELSE LET results == [i \in DOMAIN tree.children |-> Evaluate(tree.children[i], met)]
       IN  IF tree.op = "and" THEN EvaluateAnd(results) ELSE EvaluateOr(results)

RECURSIVE ConditionsOf(_)
ConditionsOf(tree) ==
  IF tree.op = "leaf" THEN {tree.condition}
  ELSE UNION {ConditionsOf(tree.children[i]) : i \in DOMAIN tree.children}

(* Rule::evaluate *)
Judged(tree, ctx) ==
  Evaluate(tree, {c.reason : c \in {d \in ConditionsOf(tree) : Meets(d, ctx)}})

-----------------------------------------------------------------------------
(***************************************************************************)
(* A rule fires if and only if it tells reasons; what it tells is met, and *)
(* enough: the rule would fire on these reasons alone.  No condition more  *)
(* that is met takes a signal back, and what fires has a strength of at    *)
(* least a half and at most one, so that no clamp changes it (evaluate_and *)
(* clears the reasons it collected, evaluate_or does not; an empty list    *)
(* never fires).                                                           *)
(***************************************************************************)
RuleExplains(tree, ctx) ==
  LET result == Judged(tree, ctx)
      all    == {c.reason : c \in ConditionsOf(tree)}
      told   == {result.reasons[i] : i \in DOMAIN result.reasons}
      met    == {c.reason : c \in {d \in ConditionsOf(tree) : Meets(d, ctx)}}
  IN  /\ result.fired = (result.reasons # <<>>)
      /\ told \subseteq met
      /\ result.fired => Evaluate(tree, told).fired
      /\ result.fired => \A more \in SUBSET all : Evaluate(tree, met \cup more).fired
      /\ Between(result.strength, IF result.fired THEN Ratio(1, 2) ELSE Zero, Whole(1))

=============================================================================
