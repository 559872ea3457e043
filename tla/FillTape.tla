------------------------------ MODULE FillTape ------------------------------
(***************************************************************************)
(* The fills and the equity curves that perf.rs of tg-backtest is given:   *)
(* a backtest sells only what is available (matcher.rs), so a tape never   *)
(* sells short.  A deal is a fill without its time.                        *)
(***************************************************************************)
EXTENDS Performance

CONSTANTS
  Deals,          \* what a fill may be
  Worths,         \* what an account may be worth
  Tapes,          \* bound: fills of a backtest
  Curves          \* bound: points of an equity curve

(* Prices are in units that whole lots share the fees of. *)
ASSUME TapeAssumption ==
  /\ Deals \subseteq [symbol : Nat, side : {"Buy", "Sell"}, price : Nat, lots : Nat \ {0}, fees : Nat]
  /\ \A f \in Deals : Denom % f.lots = 0
  /\ Worths \subseteq Nat
  /\ Tapes \in Nat /\ Curves \in Nat

VARIABLES
  deals,          \* the fills of a backtest so far
  worth           \* its equity curve so far

Held(symbol) ==
  Len(LotsTraded(deals, symbol, "Buy")) - Len(LotsTraded(deals, symbol, "Sell"))

TapeInit == deals = <<>> /\ worth = <<>>

AddFill(f) ==
  /\ Len(deals) < Tapes
  /\ f.side = "Sell" => f.lots <= Held(f.symbol)
  /\ deals' = Append(deals, [symbol |-> f.symbol, side |-> f.side, price |-> f.price,
                             lots |-> f.lots, ts |-> Len(deals) + 1, fees |-> f.fees])
  /\ UNCHANGED worth

AddPoint(value) ==
  /\ Len(worth) < Curves
  /\ worth' = Append(worth, value)
  /\ UNCHANGED deals

TapeNext == (\E f \in Deals : AddFill(f)) \/ (\E value \in Worths : AddPoint(value))

TapeSpec == TapeInit /\ [][TapeNext]_<<deals, worth>>

-----------------------------------------------------------------------------
(* The closed trades of every tape are its lots matched one by one, first   *)
(* bought first sold, with their part of the fees, and the drawdown of      *)
(* every curve is its worst fall: see Performance (perf.rs).                *)
TapesAddUp == TradesAreFifo(deals) /\ DrawdownIsWorst(worth)

=============================================================================
