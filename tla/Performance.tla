---------------------------- MODULE Performance ----------------------------
(***************************************************************************)
(* perf.rs of tg-backtest, as far as it counts and compares: the closed    *)
(* trades of a sequence of fills, the largest drawdown, the total return,  *)
(* win rate and profit factor.  Money is in Denom parts of its unit, so    *)
(* that the shares of a cost are whole; ratios are pairs.  The statistics  *)
(* in floating point (Sharpe, beta, annualized) are left out.              *)
(*                                                                         *)
(* A fill is [symbol, side, price, lots, ts, fees].                        *)
(***************************************************************************)
EXTENDS Integers, Sequences, FiniteSets, Listings

CONSTANT Denom

ASSUME DenomAssumption == Denom \in Nat \ {0}

LessOf(a, b) == IF a <= b THEN a ELSE b

SumOf(seq) ==
  LET sum[n \in 0..Len(seq)] == IF n = 0 THEN 0 ELSE sum[n - 1] + seq[n]
  IN  sum[Len(seq)]

OpenLot(fill) ==
  [symbol |-> fill.symbol, lots |-> fill.lots, at |-> fill.ts, price |-> fill.price,
   cost |-> Denom * (fill.price * fill.lots + fill.fees)]

TradeOf(lot, fill, n, cost) ==
  [symbol |-> fill.symbol, lots |-> n, openedAt |-> lot.at, closedAt |-> fill.ts,
   entry |-> lot.price, exit |-> fill.price,
   pnl |-> Denom * fill.price * n - (Denom * fill.fees * n) \div fill.lots - cost]

(* Mutant of CloseLot: what is sold is not taken from the lot's cost. *)
CloseLotAtFullCost(acc, lot, fill) ==
  LET n    == LessOf(acc.left, lot.lots)
      cost == (lot.cost * n) \div lot.lots
      rest == [lot EXCEPT !.lots = @ - n]
  IN  IF lot.symbol # fill.symbol \/ n = 0
      THEN [acc EXCEPT !.lots = Append(@, lot)]
      ELSE [left   |-> acc.left - n,
            lots   |-> IF rest.lots = 0 THEN acc.lots ELSE Append(acc.lots, rest),
            trades |-> Append(acc.trades, TradeOf(lot, fill, n, cost))]

(* One turn of the loop over the lots of a symbol. *)
CloseLot(acc, lot, fill) ==
  LET n    == LessOf(acc.left, lot.lots)
      cost == (lot.cost * n) \div lot.lots
      rest == [lot EXCEPT !.lots = @ - n, !.cost = @ - cost]
  IN  IF lot.symbol # fill.symbol \/ n = 0
      THEN [acc EXCEPT !.lots = Append(@, lot)]
      ELSE [left   |-> acc.left - n,
            lots   |-> IF rest.lots = 0 THEN acc.lots ELSE Append(acc.lots, rest),
            trades |-> Append(acc.trades, TradeOf(lot, fill, n, cost))]

(* A sale of more than is open closes what there is. *)
CloseLots(acc, fill) ==
  LET turn[n \in 0..Len(acc.lots)] ==
        IF n = 0 THEN [left |-> fill.lots, lots |-> <<>>, trades |-> acc.trades]
        ELSE CloseLot(turn[n - 1], acc.lots[n], fill)
  IN  turn[Len(acc.lots)]

(* One turn of the loop over the fills. *)
TakeFill(acc, fill) ==
  IF fill.side = "Buy" THEN [acc EXCEPT !.lots = Append(@, OpenLot(fill))]
  ELSE CloseLots(acc, fill)

(* closed_trades_from_fills, with the lots that are still open. *)
Closed(fills) ==
  LET turn[n \in 0..Len(fills)] ==
        IF n = 0 THEN [left |-> 0, lots |-> <<>>, trades |-> <<>>]
        ELSE TakeFill(turn[n - 1], fills[n])
  IN  turn[Len(fills)]

(* a / b < c / d of pairs with positive denominators *)
Smaller(x, y) == x[1] * y[2] < y[1] * x[2]

(* One turn of the loop in max_drawdown. *)
Fall(acc, value) ==
  LET peak == IF value > acc.peak THEN value ELSE acc.peak
      fall == <<peak - value, peak>>
  IN  [peak |-> peak,
       worst |-> IF peak > 0 /\ Smaller(acc.worst, fall) THEN fall ELSE acc.worst]

(* max_drawdown *)
MaxDrawdown(curve) ==
  LET turn[n \in 0..Len(curve)] ==
        IF n = 0 THEN [peak |-> 0, worst |-> <<0, 1>>] ELSE Fall(turn[n - 1], curve[n])
  IN  turn[Len(curve)].worst

(* total_return: 0 of a curve that is too short or starts at 0 *)
TotalReturn(curve) ==
  IF Len(curve) < 2 \/ curve[1] = 0 THEN <<0, 1>> ELSE <<curve[Len(curve)] - curve[1], curve[1]>>

(* win_rate *)
WinRate(trades) ==
  IF trades = <<>> THEN <<0, 1>>
  ELSE <<Cardinality({i \in DOMAIN trades : trades[i].pnl > 0}), Len(trades)>>

Gross(trades, sign) ==
  SumOf([i \in DOMAIN trades |-> IF sign * trades[i].pnl > 0 THEN sign * trades[i].pnl ELSE 0])

(* profit_factor; a denominator of 0 is infinity *)
ProfitFactor(trades) ==
  LET profit == Gross(trades, 1)
      loss   == Gross(trades, -1)
  IN  IF loss = 0 /\ profit = 0 THEN <<0, 1>> ELSE <<profit, loss>>

-----------------------------------------------------------------------------
(* The number of the fill that bought, or sold, each lot of a symbol. *)
LotsTraded(fills, symbol, side) ==
  Joined([i \in DOMAIN fills |->
                IF fills[i].symbol = symbol /\ fills[i].side = side
                THEN [n \in 1..fills[i].lots |-> i] ELSE <<>>])

(***************************************************************************)
(* The trades of a sequence of fills that never sells more than is held:   *)
(* the n-th lot of a symbol that was sold is the n-th that was bought; a   *)
(* trade has the lots one sale took of one buy, with their part of the     *)
(* fees of both (closed_trades_from_fills and its remaining_cost).         *)
(***************************************************************************)
TradesAreFifo(fills) ==
  LET Met(buy, sale) ==
        LET bought == LotsTraded(fills, fills[sale].symbol, "Buy")
            sold   == LotsTraded(fills, fills[sale].symbol, "Sell")
        IN  Cardinality({n \in DOMAIN sold : <<bought[n], sold[n]>> = <<buy, sale>>})
      ShareOfFees(fill, n) == (Denom * fill.fees * n) \div fill.lots
      Expected(buy, sale) ==
        LET b == fills[buy]
            s == fills[sale]
            n == Met(buy, sale)
        IN  [symbol |-> s.symbol, lots |-> n, openedAt |-> b.ts, closedAt |-> s.ts,
             entry |-> b.price, exit |-> s.price,
             pnl |-> Denom * (s.price - b.price) * n - ShareOfFees(s, n) - ShareOfFees(b, n)]
      TradesOf(sale) ==
        Joined([buy \in DOMAIN fills |->
          IF fills[sale].side = "Sell" /\ fills[buy].symbol = fills[sale].symbol
             /\ fills[buy].side = "Buy" /\ Met(buy, sale) > 0
          THEN <<Expected(buy, sale)>> ELSE <<>>])
  IN  Closed(fills).trades = Joined([sale \in DOMAIN fills |-> TradesOf(sale)])

(***************************************************************************)
(* The drawdown of a curve that is never below zero is its largest         *)
(* relative fall from any point to a later one (max_drawdown: one pass     *)
(* with a running peak).                                                   *)
(***************************************************************************)
DrawdownIsWorst(curve) ==
  LET later == {<<curve[p[1]] - curve[p[2]], curve[p[1]]>> :
                  p \in {q \in (DOMAIN curve) \X (DOMAIN curve) : q[1] <= q[2] /\ curve[q[1]] > 0}}
      worst == MaxDrawdown(curve)
  IN  /\ \A fall \in later : ~Smaller(worst, fall)
      /\ later # {} => \E fall \in later : ~Smaller(fall, worst)

=============================================================================
