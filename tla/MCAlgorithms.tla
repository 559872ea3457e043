---------------------------- MODULE MCAlgorithms ----------------------------
(***************************************************************************)
(* The algorithms of the system in one instance: a behaviour picks one     *)
(* of them and builds its input step by step.                              *)
(***************************************************************************)
EXTENDS LotBook, PartitionStore, FillTape, Books, CrossSection, PriceSeries,
        PriceLimits, Strategies

CONSTANTS
  Series,         \* bound: bars of a series
  Nodes           \* bound: conditions and lists of a tree of conditions

VARIABLES
  part,           \* the algorithm this behaviour is about
  series,         \* bars of a symbol
  trees,          \* trees of conditions, the last ones still to be put in a list
  quote           \* a previous close and a snapshot of the day after it

tapeVars == <<deals, worth>>

inputs == <<series, trees, quote>>

allVars == <<part, bookVars, storeVars, tapeVars, section, daily, inputs>>

TapeLots == [symbol : {1, 2}, side : {"Buy", "Sell"}, price : {1, 3}, lots : 1..2, fees : {1}]

(* A bar in which nothing moves, rises, falls and gaps. *)
Kinds ==
  {[low |-> 1, close |-> 1, high |-> 1, volume |-> 1],
   [low |-> 1, close |-> 2, high |-> 2, volume |-> 2],
   [low |-> 2, close |-> 2, high |-> 3, volume |-> 1],
   [low |-> 1, close |-> 3, high |-> 3, volume |-> 3],
   [low |-> 1, close |-> 1, high |-> 2, volume |-> 1]}

Histories == [value : {2, 3}, factor : {1, 2}, traded : BOOLEAN]

AddBar(bar) ==
  /\ Len(series) < Series
  /\ series' = Append(series, bar)
  /\ UNCHANGED <<trees, quote>>

(* A condition is put on the stack, or what is on it becomes one list. *)
Condition ==
  {IndicatorThreshold("rsi", "Lt", Whole(30), "rsi"),
   FactorRankThreshold("momentum", 50, 2, "rank"),
   PriceVsLevel("last", "Ge", Whole(2), "last"),
   PriceVsLevel("close", "Eq", Whole(2), "close")}

RECURSIVE Size(_)
Size(tree) ==
  IF tree.op = "leaf" THEN 1
  ELSE 1 + FoldLeft(LAMBDA n, t : n + Size(t), 0, tree.children)

SizeOf(stack) == FoldLeft(LAMBDA n, t : n + Size(t), 0, stack)

GrowTree ==
  /\ SizeOf(trees) < Nodes
  /\ \/ \E c \in Condition : trees' = Append(trees, Leaf(c))
     \/ \E i \in 0..Len(trees) :
          LET rest == SubSeq(trees, i + 1, Len(trees))
          IN  \/ trees' = Append(SubSeq(trees, 1, i), AllOf(rest))
              \/ trees' = Append(SubSeq(trees, 1, i), AnyOf(rest))
  /\ UNCHANGED <<series, quote>>

(* Closes whose limits round down, up and not at all, and prices around the *)
(* limits.                                                                  *)
Quotes ==
  [pre : {91, 95, 100, 105, 115},
   last : (99..105) \cup (109..111) \cup (115..117) \cup {126, 127},
   bids : {0, 3, 6}, asks : 0..2]

AddQuote(q) ==
  /\ quote = <<>>
  /\ quote' = <<q>>
  /\ UNCHANGED <<series, trees>>

(* Fills and points of TapeNext, each in behaviours of their own. *)
AddToTape ==
  \/ part = "trades" /\ \E f \in Deals : AddFill(f)
  \/ part = "curve" /\ \E value \in Worths : AddPoint(value)

AddInput ==
  \/ part = "series" /\ \E bar \in Kinds : AddBar(bar)
  \/ part = "rules" /\ GrowTree
  \/ part = "limits" /\ \E q \in Quotes : AddQuote(q)

AllInit ==
  /\ part \in {"lots", "store", "trades", "curve", "section", "series", "history", "rules", "limits"}
  /\ IF part = "lots" THEN BookInit ELSE vec = <<>> /\ fillDate = 0 /\ failed = FALSE
  /\ IF part = "store" THEN StoreInit
     ELSE store = "bars" /\ disk = <<>> /\ first = <<>> /\ writes = 0
  /\ TapeInit /\ SectionInit /\ HistoryInit
  /\ series = <<>> /\ trees = <<>> /\ quote = <<>>

AllNext ==
  /\ UNCHANGED part
  /\ \/ part = "lots" /\ BookNext /\ UNCHANGED <<storeVars, tapeVars, section, daily, inputs>>
     \/ part = "store" /\ StoreNext /\ UNCHANGED <<bookVars, tapeVars, section, daily, inputs>>
     \/ part = "section" /\ SectionNext /\ UNCHANGED <<bookVars, storeVars, tapeVars, daily, inputs>>
     \/ part = "history" /\ HistoryNext /\ UNCHANGED <<bookVars, storeVars, tapeVars, section, inputs>>
     \/ AddToTape /\ UNCHANGED <<bookVars, storeVars, section, daily, inputs>>
     \/ AddInput /\ UNCHANGED <<bookVars, storeVars, tapeVars, section, daily>>

AllSpec == AllInit /\ [][AllNext]_allVars

-----------------------------------------------------------------------------
(* What the system has more than once agrees: the indicators of every       *)
(* series in all their implementations, and the books that are kept of      *)
(* every sequence of fills: see Indicators and Books.                       *)
CopiesAgree == SameIndicators(series, 2) /\ BooksAgree(deals, 10)

(* The rule of the signal engine on every section, for the top half: see    *)
(* CrossSection.                                                            *)
TopHalf == RuleTakesTheTop(factors, 50)

(* What is known of a symbol: some of the values, or all of them. *)
Contexts ==
  {Context(i, r, p) :
     i \in {[rsi |-> NaN], [rsi |-> Whole(20)]},
     r \in {<<>>, [momentum |-> 1], [momentum |-> 2]},
     p \in {<<>>, [last |-> Whole(2), close |-> Whole(3)], [last |-> Whole(1), close |-> Whole(2)]}}

Swing ==
  [fast |-> 1, slow |-> 2, signal |-> 2, rsi |-> 2, threshold |-> Whole(80), percent |-> 50,
   universe |-> 2, history |-> 4, days |-> 1]

(* The signals of the strategies: what every rule tells, the swing strategy *)
(* on every series, and the limit-up strategy on every quote, with the      *)
(* price limits that all parts have of it: see Rules, Strategies and        *)
(* PriceLimits.                                                             *)
SignalsAreSound ==
  /\ \A i \in DOMAIN trees, ctx \in Contexts : RuleExplains(trees[i], ctx)
  /\ SwingSound(series, Swing)
  /\ \A i \in DOMAIN quote, board \in Boards :
       /\ BandsNest(quote[i].pre, board)
       /\ SealsAreTraded(quote[i], board, 3, 2, 2)

-----------------------------------------------------------------------------
(* Two years of two timestamps each. *)
HalfOf == [t \in Stamps |-> (t + 1) \div 2]

=============================================================================
