----------------------------- MODULE PriceLimits -----------------------------
(***************************************************************************)
(* The daily price limits of a symbol, which five parts of the system work *)
(* out for themselves: the rules and the matcher of the paper engine       *)
(* (rounded to cents), the backtest's matcher and the cleaning of market   *)
(* data (not rounded), and the limit-up strategy (rounded, and always of   *)
(* ten percent).  Prices are in cents.                                     *)
(***************************************************************************)
EXTENDS Decimals

Boards == {"MainBoard", "Star", "ChiNext", "Bj"}

LimitUpPct(board) ==
  CASE board = "MainBoard" -> 10
    [] board \in {"Star", "ChiNext"} -> 20
    [] board = "Bj" -> 30

(* limit_prices *)
LimitPrices(pre, board) ==
  [up   |-> RoundDp(pre * (100 + LimitUpPct(board)), 100),
   down |-> RoundDp(pre * (100 - LimitUpPct(board)), 100)]

(* validate_price_band of the paper engine *)
InPaperBand(price, pre, board) ==
  price \in LimitPrices(pre, board).down..LimitPrices(pre, board).up

(* validate_intent of the backtest: a buy at the close or a limit price *)
BelowUpper(price, pre, board) == 100 * price < pre * (100 + LimitUpPct(board))

(* a sale at the close or a limit price *)
AboveLower(price, pre, board) == pre * (100 - LimitUpPct(board)) < 100 * price

InBacktestBand(price, pre, board) ==
  AboveLower(price, pre, board) /\ BelowUpper(price, pre, board)

(* is_price_within_limit of the cleaning *)
PriceWithinLimit(high, low, pre, board) ==
  /\ pre > 0
  /\ 100 * high <= pre * (100 + LimitUpPct(board))
  /\ 100 * low >= pre * (100 - LimitUpPct(board))

(* at_limit_gate_blocked of the paper engine's matcher *)
GateBlocked(side, snap, board, multiplier) ==
  LET limits == LimitPrices(snap.pre, board)
  IN  \/ side = "Buy" /\ snap.last = limits.up /\ snap.bids <= multiplier * snap.asks
      \/ side = "Sell" /\ snap.last = limits.down /\ snap.asks <= multiplier * snap.bids

(* is_sealed of the limit-up strategy *)
IsSealed(snap, percent, ratio, least) ==
  /\ snap.last = RoundDp(snap.pre * (100 + percent), 100)
  /\ snap.bids >= least
  /\ snap.asks > 0 => snap.bids >= snap.asks * ratio

(* on_snapshot of the limit-up strategy: the signals of a snapshot *)
LimitUpSignals(snap, percent, ratio, least) ==
  IF IsSealed(snap, percent, ratio, least)
  THEN {[direction |-> "Long", price |-> snap.last]} ELSE {}

-----------------------------------------------------------------------------
(***************************************************************************)
(* What one part takes for a price of the day the others do too: a price   *)
(* that the backtest accepts, or a bar the cleaning lets pass, is in the   *)
(* band of the paper engine, and the bands differ by less than a cent on   *)
(* either side (limit_prices, validate_price_band, validate_intent,        *)
(* is_price_within_limit).                                                 *)
(***************************************************************************)
BandsNest(pre, board) ==
  LET limits == LimitPrices(pre, board)
  IN  \A price \in 0..(2 * pre) :
        /\ InBacktestBand(price, pre, board) => InPaperBand(price, pre, board)
        /\ PriceWithinLimit(price, price, pre, board) => InPaperBand(price, pre, board)
        /\ price \in (limits.down + 1)..(limits.up - 1) =>
             InBacktestBand(price, pre, board) /\ PriceWithinLimit(price, price, pre, board)

(***************************************************************************)
(* A limit-up signal can be followed: its price is in the band and the     *)
(* gate of the matcher, which asks for a seal of its own, lets a buy       *)
(* through, on every board, as long as the strategy asks for more than the *)
(* matcher (is_sealed, at_limit_gate_blocked).                             *)
(***************************************************************************)
SealsAreTraded(snap, board, ratio, least, multiplier) ==
  (ratio > multiplier /\ least > 0) =>
    \A signal \in LimitUpSignals(snap, 10, ratio, least) :
      /\ InPaperBand(signal.price, snap.pre, board)
      /\ ~GateBlocked("Buy", snap, board, multiplier)

=============================================================================
