----------------------------- MODULE MCBacktest -----------------------------
(* Instances of BacktestService for TLC: shapes of bars, and fees. *)
EXTENDS BacktestService

Shape(o, l, h, c) == [open |-> o, low |-> l, high |-> h, close |-> c]

(* A bar that falls to the lower limit of its open, and one whose only price *)
(* is the upper limit of the other's open.                                   *)
TwoShapes == {Shape(10, 9, 10, 9), Shape(11, 11, 11, 11)}

(* Two timestamps a day. *)
TwoADay == [t \in 0..3 |-> (t + 1) \div 2]

MainBoards == [s \in {1, 2} |-> "MainBoard"]

OneWorse == [side \in Sides |->
              [price \in Quotes |-> IF side = "Buy" THEN price + 1 ELSE price - 1]]

(* A tax of the notional on top of a commission: a sale of one lot at 8     *)
(* brings in less than its fees.                                            *)
DearSales == [s \in Symbols |-> [side \in Sides |-> [notional \in Notionals |->
               IF side = "Buy" THEN 1 ELSE 9 + notional \div 8]]]

=============================================================================
