---------------------------- MODULE CrossSection ----------------------------
(***************************************************************************)
(* Ranks, quantiles and rank correlation of a factor over a universe       *)
(* (cross_section.rs, evaluate.rs of tg-factor-engine), and the signal     *)
(* engine's rule that reads the ranks (rules.rs).  A section is a sequence *)
(* of numbers and NaN; ratios are pairs.                                   *)
(***************************************************************************)
EXTENDS Numbers, FiniteSets, Sums

CONSTANTS
  Sections,       \* bound: symbols of a cross section
  Values          \* factor values and returns

ASSUME SectionAssumption ==
  /\ NaN \notin Int
  /\ Values \subseteq Int \cup {NaN}
  /\ Sections \in Nat

VARIABLE section  \* factor values of a day, with the returns that followed

Finite(v) == {i \in DOMAIN v : v[i] # NaN}

(* The order indexed.sort_by gives: by value, then by position. *)
Before(v, i, j) == v[i] < v[j] \/ (v[i] = v[j] /\ i < j)

(* ordinal_ranks, from 0; NaN has none *)
OrdinalRanks(v) ==
  [i \in Finite(v) |-> Cardinality({j \in Finite(v) : Before(v, j, i)})]

(* average_ranks, doubled: the first and the last place of a group of ties *)
AverageRanks(v) ==
  [i \in Finite(v) |->
     LET start == Cardinality({j \in Finite(v) : v[j] < v[i]})
         end   == Cardinality({j \in Finite(v) : v[j] <= v[i]})
     IN  start + end - 1]

(* standardize_cross_section: the value a rank is given to, and its score *)
Adjusted(v, direction) ==
  [i \in DOMAIN v |-> IF v[i] = NaN \/ direction = "Positive" THEN v[i] ELSE -v[i]]

RankScores(v, direction) ==
  LET ranks == OrdinalRanks(Adjusted(v, direction))
      n     == Cardinality(DOMAIN ranks)
  IN  [i \in DOMAIN ranks |-> IF n = 1 THEN <<1, 2>> ELSE <<ranks[i], n - 1>>]

(* fill_cross_section_ranks, of one timestamp *)
FactorRanks(v, direction) == OrdinalRanks(Adjusted(v, direction))

(* The bucket of the index-th smallest of n. *)
Bucket(index, n, q) ==
  IF (index * q) \div n < q THEN (index * q) \div n ELSE q - 1

(* Pairs of a factor and the return that followed, both of them finite. *)
Both(v, w) == Finite(v) \cap Finite(w)

(* Mutant of Paired: ranks are given before the pairs are formed. *)
PairedAlone(v, w) == v

Paired(v, w) == [i \in DOMAIN v |-> IF i \in Both(v, w) THEN v[i] ELSE NaN]

(* quantile_returns of one date: the pairs whose returns a bucket averages *)
QuantileReturns(v, w, q) ==
  LET ranks == OrdinalRanks(Paired(v, w))
  IN  [b \in 0..(q - 1) |->
         {i \in Both(v, w) : Bucket(ranks[i], Cardinality(Both(v, w)), q) = b}]

(* The sum of the products of two functions on S. *)
Dot(x, y, S) == SumOver([i \in S |-> x[i] * y[i]], S)

(* pearson: covariance and both variances of two functions on S, each      *)
(* times the number of points                                              *)
Pearson(x, y, S) ==
  LET n  == Cardinality(S)
      sx == SumOver(x, S)
      sy == SumOver(y, S)
  IN  [num |-> n * Dot(x, y, S) - sx * sy,
       dx  |-> n * Dot(x, x, S) - sx * sx,
       dy  |-> n * Dot(y, y, S) - sy * sy]

(* spearman_rank_ic *)
Spearman(v, w) ==
  Pearson(AverageRanks(Paired(v, w)), AverageRanks(Paired(w, v)), Both(v, w))

(* Condition::FactorRankThreshold: those whose rank is within percent of    *)
(* the universe                                                             *)
RankRuleFires(v, direction, percent, universe) ==
  LET ranks == FactorRanks(v, direction)
  IN  {i \in DOMAIN ranks : universe > 0 /\ 100 * ranks[i] <= percent * universe}

-----------------------------------------------------------------------------
TiesOf(v, i) == {j \in Finite(v) : v[j] = v[i]}

(***************************************************************************)
(* The ranks of a section are 0 up to its finite values, larger values     *)
(* have larger ranks and, in the direction of the factor, larger scores,   *)
(* and a tie's average rank is the mean of the ranks its members have      *)
(* (ordinal_ranks, average_ranks: two sorts that must agree on ties and on *)
(* what is not finite).                                                    *)
(***************************************************************************)
RanksAgree(v) ==
  LET ordinal == OrdinalRanks(v)
      average == AverageRanks(v)
      n       == Cardinality(Finite(v))
      up      == RankScores(v, "Positive")
      down    == RankScores(v, "Negative")
      Lower(x, y) == x[1] * y[2] < y[1] * x[2]
  IN  /\ {ordinal[i] : i \in Finite(v)} = 0..(n - 1)
      /\ \A i, j \in Finite(v) : v[i] < v[j] =>
           ordinal[i] < ordinal[j] /\ Lower(up[i], up[j]) /\ Lower(down[j], down[i])
      /\ \A i \in Finite(v) :
           average[i] * Cardinality(TiesOf(v, i))
             = 2 * SumOver(ordinal, TiesOf(v, i))

(***************************************************************************)
(* The buckets of a date take every pair once, none is more than one pair  *)
(* larger than another, and no bucket has a larger value than the next     *)
(* (quantile_returns: index * quantiles / n).                              *)
(***************************************************************************)
BucketsAreEven(v, w, q) ==
  LET n       == Cardinality(Both(v, w))
      ranks   == OrdinalRanks(Paired(v, w))
      count   == [b \in 0..(q - 1) |-> Cardinality(QuantileReturns(v, w, q)[b])]
      In(i)   == Bucket(ranks[i], n, q)
  IN  n > 0 =>
      /\ SumOver(count, 0..(q - 1)) = n
      /\ \A b, c \in 0..(q - 1) : count[b] <= count[c] + 1
      /\ \A i, j \in Both(v, w) : v[i] < v[j] => In(i) <= In(j)

(***************************************************************************)
(* Without ties the rank correlation is the textbook's                     *)
(* 1 - 6 * sum of d^2 / (n^3 - n), d the difference of two ranks, and with *)
(* ties it stays between -1 and 1 (spearman_rank_ic, pearson).             *)
(***************************************************************************)
SpearmanIsSpearman(v, w) ==
  LET S  == Both(v, w)
      n  == Cardinality(S)
      ic == Spearman(v, w)
      d  == [i \in S |-> OrdinalRanks(Paired(v, w))[i] - OrdinalRanks(Paired(w, v))[i]]
  IN  /\ ic.num * ic.num <= ic.dx * ic.dy
      /\ (\A i, j \in S : i # j => v[i] # v[j] /\ w[i] # w[j]) =>
           /\ ic.dx = ic.dy
           /\ ic.num * (n * n * n - n) = ic.dx * (n * n * n - n - 6 * Dot(d, d, S))

(***************************************************************************)
(* What docs/superpowers/specs/2026-06-14-phase1 says of ranks, that those *)
(* of the largest values of a positive factor are at the top: the rule for *)
(* the top percents fires for a value only if it fires for larger ones.    *)
(***************************************************************************)
RuleTakesTheTop(v, percent) ==
  LET fired == RankRuleFires(v, "Positive", percent, Len(v))
  IN  \A i \in fired, j \in Finite(v) : v[j] > v[i] => j \in fired

-----------------------------------------------------------------------------
(* The rows of a date, one for each symbol *)

factors == [i \in DOMAIN section |-> section[i][1]]
returns == [i \in DOMAIN section |-> section[i][2]]

SectionInit == section = <<>>

AddSymbol(value, ret) ==
  /\ Len(section) < Sections
  /\ section' = Append(section, <<value, ret>>)

SectionNext == \E value, ret \in Values : AddSymbol(value, ret)

SectionSpec == SectionInit /\ [][SectionNext]_section

(***************************************************************************)
(* The two kinds of ranks of every section, its quantile buckets and its   *)
(* rank correlation.                                                       *)
(***************************************************************************)
SectionsAddUp ==
  /\ RanksAgree(factors)
  /\ \A q \in 1..3 : BucketsAreEven(factors, returns, q)
  /\ SpearmanIsSpearman(factors, returns)

=============================================================================
