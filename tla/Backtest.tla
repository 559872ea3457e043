------------------------------- MODULE Backtest -------------------------------
(***************************************************************************)
(* A backtest (tg-backtest): BacktestRunner loads the bars of a universe,  *)
(* InstrumentedFeed replays them to the event loop, and hands each to      *)
(* HistoricalMatcher and BacktestLedger as it is taken.  A strategy, which *)
(* may do anything here, submits orders while an event is dispatched; they *)
(* are filled in the call at the bar the matcher has, and the fill comes   *)
(* to the ledger a second time through the loop.                           *)
(*                                                                         *)
(* Quantities are in lots of LOT_SIZE, prices are per lot.  A bar's prices *)
(* are drawn when it is taken, which no strategy can tell from a history   *)
(* that is given at the start.  Slippage is any function of a price, fees  *)
(* are any function of a notional, for neither has a bound in the code.    *)
(***************************************************************************)
EXTENDS EventEngine, Sums, PriceLimits

CONSTANTS
  Symbols,      \* the universe: numbers, in the order of the names
  Etfs,         \* the symbols that are ETFs, which the matcher does not ask for
  MaxTs,        \* bound: timestamps of bars are 1..MaxTs
  TradingDate,  \* trading_date of the bars of each timestamp, 0 for time 0
  Shapes,       \* open, low, high and close of a bar
  Limits,       \* prices of limit orders
  Board,        \* board of the bars of each symbol, which infer_board gives them
  InitialCash,  \* MatcherConfig.initial_cash
  Slipped,      \* apply_slippage: the price paid on each side
  Fee,          \* compute_cost: fees by symbol, side and notional
  MaxLots,      \* bound: lots of one order
  MaxOrders,    \* bound: orders that pass the checks of submit
  MayFail       \* whether repositories and strategies may return errors

VARIABLES
  replay,       \* BacktestReplay.bars: what is left of the bars
  current,      \* HistoricalMatcher.current_bars; a time of 0 is no bar
  cash, total, locked, available,  \* BacktestLedger.account
  mark,         \* last_price of each position
  lastDate,     \* last_trading_date, 0 before the first bar
  equity,       \* equity_by_date
  fills,        \* ledger.fills, whose fill_ids are applied_fills
  open,         \* open_orders of the ledger, which are pending of the matcher
  orders,       \* the number of orders that have an id
  sent,         \* fills in the broadcast channel
  handed,       \* fills_processed
  stage,        \* where BacktestRunner is
  row           \* status of the run in backtest_runs

ledger == <<cash, total, locked, available, mark, equity, fills>>
matcher == <<open, orders, sent>>
runner == <<stage, row>>
vars == <<engine, replay, current, ledger, lastDate, matcher, handed, runner>>

Times == 0..MaxTs
Dates == 0..MaxTs
Sides == {"Buy", "Sell"}

Slots == [symbol : Symbols, ts : 1..MaxTs]

NoBar == [ts |-> 0, pre |-> 0, open |-> 0, low |-> 0, high |-> 0, close |-> 0]

CurrentBars == [ts : Times, pre : Nat, open : Nat, low : Nat, high : Nat, close : Nat]

Intents == [symbol : Symbols, side : Sides, type : {"Market"}, price : {0}, lots : 1..MaxLots]
      \cup [symbol : Symbols, side : Sides, type : {"Limit"}, price : Limits, lots : 1..MaxLots]

Closes == {shape.close : shape \in Shapes}

Quotes == Limits \cup Closes

Paid == {Slipped[side][price] : side \in Sides, price \in Quotes}

Notionals == {price * lots : price \in Paid, lots \in 1..MaxLots}

Fills == [id : Nat, symbol : Symbols, side : Sides, price : Paid, lots : 1..MaxLots, ts : Times]

QueuedEvents ==
       [kind : {"Bar"}, ts : Times, subject : Symbols, seq : Nat]
  \cup [kind : {"Fill"}, ts : Times, subject : Fills, seq : Nat]

(* BacktestRunner schedules no timers. *)
ASSUME BacktestAssumption ==
  /\ TimerTimes = {}
  /\ Symbols \subseteq Nat /\ IsFiniteSet(Symbols) /\ Etfs \subseteq Symbols
  /\ MaxTs \in Nat
  /\ TradingDate \in [Times -> Dates] /\ TradingDate[0] = 0
  /\ \A t \in 1..MaxTs : TradingDate[t] > 0
  /\ \A t, u \in Times : t <= u => TradingDate[t] <= TradingDate[u]
  /\ Shapes \subseteq [open : Nat, low : Nat, high : Nat, close : Nat]
  /\ Limits \subseteq Nat /\ Board \in [Symbols -> Boards]
  /\ InitialCash \in Nat
  /\ MaxLots \in Nat /\ MaxOrders \in Nat
  /\ MayFail \in BOOLEAN

(* Slippage does not exceed the price, and no fee is below zero: there is   *)
(* no other limit to slippage_bps and min_commission.                       *)
ASSUME CostAssumption ==
  /\ Slipped \in [Sides -> [Quotes -> Nat]]
  /\ Fee \in [Symbols -> [Sides -> [Notionals -> Nat]]]

-----------------------------------------------------------------------------
(* BacktestLedger *)

(* recalculate_total_value *)
TotalValue(money, position, price) ==
  money + SumOver([s \in Symbols |-> position[s] * price[s]], Symbols)

Recorded(date, value) ==
  [d \in DOMAIN equity \cup {date} |-> IF d = date THEN value ELSE equity[d]]

Notional(f) == f.price * f.lots
FeesOf(f)   == Fee[f.symbol][f.side][Notional(f)]
Cost(f)     == Notional(f) + FeesOf(f)
Proceeds(f) == Notional(f) - FeesOf(f)

(* apply_fill_to_account, Buy *)
Bought(f) ==
  /\ cash' = cash - Cost(f)
  /\ total' = [total EXCEPT ![f.symbol] = @ + f.lots]
  /\ locked' = [locked EXCEPT ![f.symbol] = @ + f.lots]
  /\ mark' = [mark EXCEPT ![f.symbol] = f.price]
  /\ UNCHANGED available

(* apply_fill_to_account, Sell: a position that is sold out is removed. *)
Sold(f) ==
  /\ cash' = cash + Proceeds(f)
  /\ LET s    == f.symbol
         rest == total[s] - f.lots
     IN  \/ /\ rest <= 0
            /\ total' = [total EXCEPT ![s] = 0]
            /\ locked' = [locked EXCEPT ![s] = 0]
            /\ available' = [available EXCEPT ![s] = 0]
            /\ mark' = [mark EXCEPT ![s] = 0]
         \/ /\ rest > 0
            /\ total' = [total EXCEPT ![s] = rest]
            /\ locked' = [locked EXCEPT ![s] = IF @ > rest THEN rest ELSE @]
            /\ available' = [available EXCEPT ![s] = @ - f.lots]
            /\ mark' = [mark EXCEPT ![s] = f.price]

(* Mutant of ApplyFill: applied_fills is not consulted. *)
ApplyFillAgain(f) ==
  /\ IF f.side = "Buy" THEN Bought(f) ELSE Sold(f)
  /\ fills' = fills \cup {f}
  /\ equity' = Recorded(TradingDate[f.ts], TotalValue(cash', total', mark'))

(* BacktestLedger::apply_fill: a fill_id is applied once. *)
ApplyFill(f) ==
  \/ f \in fills /\ UNCHANGED ledger
  \/ /\ f \notin fills
     /\ IF f.side = "Buy" THEN Bought(f) ELSE Sold(f)
     /\ fills' = fills \cup {f}
     /\ equity' = Recorded(TradingDate[f.ts], TotalValue(cash', total', mark'))

(* unlock_for_date *)
UnlockForDate(date) ==
  /\ lastDate' = date
  /\ \/ date = lastDate /\ UNCHANGED <<locked, available>>
     \/ /\ date # lastDate
        /\ locked' = [s \in Symbols |-> 0]
        /\ available' = total

(* Mutant of MarkToMarket: the value is recorded before the position is revalued. *)
MarkTooEarly(s, ts, close) ==
  /\ UnlockForDate(TradingDate[ts])
  /\ mark' = IF total[s] > 0 THEN [mark EXCEPT ![s] = close] ELSE mark
  /\ equity' = Recorded(TradingDate[ts], TotalValue(cash, total, mark))
  /\ UNCHANGED <<cash, total, fills>>

(* mark_to_market, which unlocks first; so does set_current_bar before it. *)
MarkToMarket(s, ts, close) ==
  /\ UnlockForDate(TradingDate[ts])
  /\ mark' = IF total[s] > 0 THEN [mark EXCEPT ![s] = close] ELSE mark
  /\ equity' = Recorded(TradingDate[ts], TotalValue(cash, total, mark'))
  /\ UNCHANGED <<cash, total, fills>>

-----------------------------------------------------------------------------
(* BacktestReplay and InstrumentedFeed *)

(* the order of from_bars *)
Precedes(b, c) == b.ts < c.ts \/ (b.ts = c.ts /\ b.symbol <= c.symbol)

NextBars == {b \in replay : \A c \in replay : Precedes(b, c)}

(* peek_next_ts *)
Heads == {b.ts : b \in NextBars}

PeekFeed ==
  /\ stage = "engine"
  /\ Peek(Heads) \/ GroupTaken(Heads)
  /\ UNCHANGED <<replay, current, ledger, lastDate, matcher, handed, runner>>

(* next_event: set_current_bar, whose previous_close is that of the bar it  *)
(* replaces, and mark_to_market.                                            *)
TakeBar(b, shape) ==
  /\ stage = "engine" /\ b \in NextBars
  /\ Take("Bar", b.ts, b.symbol)
  /\ replay' = replay \ {b}
  /\ LET last == current[b.symbol]
         pre  == IF last.ts > 0 THEN last.close ELSE shape.open
     IN  current' = [current EXCEPT ![b.symbol] =
                       [ts |-> b.ts, pre |-> pre, open |-> shape.open, low |-> shape.low,
                        high |-> shape.high, close |-> shape.close]]
  /\ MarkToMarket(b.symbol, b.ts, shape.close)
  /\ UNCHANGED <<matcher, handed, runner>>

-----------------------------------------------------------------------------
(* Dispatch and the strategy *)

DispatchBar(q) ==
  /\ stage = "engine" /\ q.kind = "Bar"
  /\ Begin(q)
  /\ UNCHANGED <<replay, current, ledger, lastDate, matcher, handed, runner>>

DispatchFill(q) ==
  /\ stage = "engine" /\ q.kind = "Fill"
  /\ Begin(q)
  /\ ApplyFill(q.subject)
  /\ handed' = handed + 1
  /\ UNCHANGED <<replay, current, lastDate, matcher, runner>>

(* Strategies run while an event is dispatched and in on_shutdown; what     *)
(* they submit in on_init is refused, for there is no bar yet.              *)
StrategyRuns == stage = "engine" /\ pc \in {"handling", "done"}

(* lot size and tick aside, which only refuse orders *)
Validated(i, bar) ==
  LET board == Board[i.symbol]
  IN  /\ i.type = "Limit" => InBacktestBand(i.price, bar.pre, board)
      /\ i.side = "Buy" => BelowUpper(bar.close, bar.pre, board)
      /\ i.side = "Sell" => AboveLower(bar.close, bar.pre, board)

Matches(i, bar) == i.type = "Market" \/ (bar.low <= i.price /\ i.price <= bar.high)

(* match_price with apply_slippage *)
MatchPrice(i, bar) == Slipped[i.side][IF i.type = "Market" THEN bar.close ELSE i.price]

(* Mutant of CanFill: a sale is checked against the whole position. *)
CanFillLocked(f) ==
  \/ f.side = "Buy" /\ cash >= Cost(f)
  \/ f.side = "Sell" /\ total[f.symbol] >= f.lots

(* Mutant of CanFill: a buy is checked for its price without the fees. *)
CanFillBare(f) ==
  \/ f.side = "Buy" /\ cash >= Notional(f)
  \/ f.side = "Sell" /\ available[f.symbol] >= f.lots

(* assert_account_can_fill; a sale that its fees exceed is not refused. *)
CanFill(f) ==
  \/ f.side = "Buy" /\ cash >= Cost(f)
  \/ f.side = "Sell" /\ available[f.symbol] >= f.lots

FillOf(i, bar) ==
  [id |-> orders + 1, symbol |-> i.symbol, side |-> i.side, price |-> MatchPrice(i, bar),
   lots |-> i.lots, ts |-> bar.ts]

(* submit, of an order that passes its checks: filled in the call or left   *)
(* open.  Nothing looks at an open order again but cancel.                  *)
Submit(i) ==
  /\ StrategyRuns /\ orders < MaxOrders
  /\ LET bar == current[i.symbol]
         f   == FillOf(i, bar)
     IN  /\ bar.ts > 0 /\ Validated(i, bar)
         /\ \/ /\ ~Matches(i, bar)
               /\ open' = open \cup {f.id}
               /\ UNCHANGED <<ledger, sent>>
            \/ /\ Matches(i, bar) /\ CanFill(f)
               /\ ApplyFill(f)
               /\ sent' = Append(sent, f)
               /\ UNCHANGED open
  /\ orders' = orders + 1
  /\ UNCHANGED <<engine, replay, current, lastDate, handed, runner>>

Cancel(id) ==
  /\ StrategyRuns /\ id \in open
  /\ open' = open \ {id}
  /\ UNCHANGED <<engine, replay, current, ledger, lastDate, orders, sent, handed, runner>>

StrategyReturns ==
  /\ stage = "engine"
  /\ Finish(sent)
  /\ sent' = <<>>
  /\ UNCHANGED <<replay, current, ledger, lastDate, open, orders, handed, runner>>

(* A strategy returns an error, its own or that of a refused order, and     *)
(* Engine::run with it.                                                     *)
StrategyFails ==
  /\ MayFail /\ StrategyRuns
  /\ stage' = "failed"
  /\ UNCHANGED <<engine, replay, current, ledger, lastDate, matcher, handed, row>>

-----------------------------------------------------------------------------
(* BacktestRunner::run *)

outside == <<engine, current, ledger, lastDate, matcher, handed>>

SaveRunning ==
  /\ stage = "start"
  /\ \/ row' = "running" /\ stage' = "load"
     \/ MayFail /\ stage' = "end" /\ UNCHANGED row
  /\ UNCHANGED <<outside, replay>>

(* from_repo; an error of the repository ends the run as failed. *)
LoadBars(bars) ==
  /\ stage = "load"
  /\ replay' = bars
  /\ stage' = "engine"
  /\ UNCHANGED <<outside, row>>

LoadFails ==
  /\ MayFail /\ stage = "load"
  /\ stage' = "failed"
  /\ UNCHANGED <<outside, replay, row>>

(* Engine::run returns after on_shutdown. *)
EngineReturns ==
  /\ stage = "engine" /\ pc = "done"
  /\ stage' = "done"
  /\ UNCHANGED <<outside, replay, row>>

(* save_status at the end; when it fails the row says running for good. *)
SaveResult ==
  /\ stage \in {"done", "failed"}
  /\ row' = stage \/ (MayFail /\ UNCHANGED row)
  /\ stage' = "end"
  /\ UNCHANGED <<outside, replay>>

-----------------------------------------------------------------------------
Init ==
  /\ EngineInit(0)
  /\ replay = {}
  /\ current = [s \in Symbols |-> NoBar]
  /\ cash = InitialCash
  /\ total = [s \in Symbols |-> 0]
  /\ locked = [s \in Symbols |-> 0]
  /\ available = [s \in Symbols |-> 0]
  /\ mark = [s \in Symbols |-> 0]
  /\ lastDate = 0
  /\ equity = [d \in {} |-> 0]
  /\ fills = {}
  /\ open = {} /\ orders = 0 /\ sent = <<>>
  /\ handed = 0
  /\ stage = "start" /\ row = "none"

EngineTask ==
  \/ PeekFeed
  \/ \E b \in replay, shape \in Shapes : TakeBar(b, shape)
  \/ \E q \in pending : DispatchBar(q) \/ DispatchFill(q)
  \/ \E i \in Intents : Submit(i)
  \/ \E id \in open : Cancel(id)
  \/ StrategyReturns
  \/ StrategyFails

Next ==
  \/ SaveRunning
  \/ \E bars \in SUBSET Slots : LoadBars(bars)
  \/ LoadFails
  \/ EngineTask
  \/ EngineReturns
  \/ SaveResult

Spec == Init /\ [][Next]_vars

-----------------------------------------------------------------------------
(* Properties *)

QueueTypes ==
  /\ pending \subseteq QueuedEvents /\ timers = {}
  /\ pc \in {"peek", "taking", "pop", "handling", "done"}
  /\ seq \in Nat /\ now \in Times /\ target \in Times
  /\ replay \subseteq Slots
  /\ sent \in Seq(Fills)

LedgerTypes ==
  /\ current \in [Symbols -> CurrentBars]
  /\ cash \in Int
  /\ total \in [Symbols -> Nat]
  /\ locked \in [Symbols -> Nat]
  /\ available \in [Symbols -> Nat]
  /\ mark \in [Symbols -> Nat]
  /\ lastDate \in Dates
  /\ DOMAIN equity \subseteq Dates /\ \A d \in DOMAIN equity : equity[d] \in Int
  /\ fills \subseteq Fills /\ IsFiniteSet(fills)
  /\ orders \in Nat

RunTypes ==
  /\ open \subseteq Nat
  /\ handed \in Nat
  /\ stage \in {"start", "load", "engine", "done", "failed", "end"}
  /\ row \in {"none", "running", "done", "failed"}

TypeOK == QueueTypes /\ LedgerTypes /\ RunTypes

FillsOn(side) == {f \in fills : f.side = side}

LotsOf(side, s) == SumOver([f \in fills |-> f.lots], {f \in FillsOn(side) : f.symbol = s})

(* What a fill takes out of the account, what it brings in, and by how much *)
(* the fees of a sale exceed what it brings in.                             *)
PaidFor(f) == IF f.side = "Buy" THEN Cost(f) ELSE FeesOf(f)

GotFor(f) == IF f.side = "Sell" THEN Notional(f) ELSE 0

Shortfall(f) == IF f.side = "Sell" /\ Proceeds(f) < 0 THEN -Proceeds(f) ELSE 0

Spent  == SumOver([f \in fills |-> PaidFor(f)], fills)
Earned == SumOver([f \in fills |-> GotFor(f)], fills)
Lost   == SumOver([f \in fills |-> Shortfall(f)], fills)

(***************************************************************************)
(* Every fill reaches the ledger twice, from submit and from the loop, and *)
(* is booked once: cash and positions are those of the fills recorded.     *)
(***************************************************************************)
BooksAreFills ==
  /\ cash + Spent = InitialCash + Earned
  /\ \A s \in Symbols : total[s] + LotsOf("Sell", s) = LotsOf("Buy", s)

(***************************************************************************)
(* What is held of a symbol is locked or available, through every unlock   *)
(* and although a sale lowers one of the two and caps the other.           *)
(***************************************************************************)
SharesSplit == \A s \in Symbols : total[s] = locked[s] + available[s]

(***************************************************************************)
(* No buy overdraws the ledger, although slippage and fees come on top of  *)
(* the price; a sale is not checked for its fees and may, so that the cash *)
(* is below zero by no more than what fees have exceeded sales by.  No     *)
(* position is negative, and the ledger says what the fills amount to.     *)
(***************************************************************************)
LedgerHolds ==
  /\ cash + Lost >= 0
  /\ \A s \in Symbols : locked[s] >= 0 /\ available[s] >= 0
  /\ BooksAreFills /\ SharesSplit

(***************************************************************************)
(* T+1: trading dates move forward only, and until the next one nothing    *)
(* that was bought of a share is sold.  (Nor of an ETF: see                *)
(* EtfsSettleAtOnce.)                                                      *)
(***************************************************************************)
TPlusOne ==
  [][/\ lastDate' >= lastDate
     /\ lastDate' = lastDate => \A s \in Symbols \ Etfs : locked'[s] >= locked[s]]_vars

(* What the documents say of ETFs, which need not wait (ADR-013), and what  *)
(* the code does not do: the matcher has no type of an instrument.          *)
EtfsSettleAtOnce == \A s \in Etfs : locked[s] = 0

(***************************************************************************)
(* No strategy trades on the future: although the feed sets the bars of a  *)
(* whole group before the first of it is dispatched, the matcher has none  *)
(* that is later than a bar still to be handled.                           *)
(***************************************************************************)
NoLookAhead ==
  \A q \in pending : q.kind = "Bar" =>
    \A s \in Symbols : current[s].ts <= q.ts

LastOf(some) == CHOOSE f \in some : \A g \in some : g.id <= f.id

(* The last price anybody saw of a symbol: that of the last fill since its  *)
(* bar, slippage included, or the close of the bar.                         *)
LastPrice(s) ==
  LET since == {f \in fills : f.symbol = s /\ f.ts = current[s].ts}
  IN  IF since = {} THEN current[s].close ELSE LastOf(since).price

(* The account, worked out from the fills alone. *)
WorthOfFills ==
  InitialCash + Earned - Spent
    + SumOver([s \in Symbols |-> (LotsOf("Buy", s) - LotsOf("Sell", s)) * LastPrice(s)], Symbols)

LastFill == {f \in fills : \A g \in fills : g.id <= f.id}

(* The last fill, if any, is of a symbol that has had its bar of the date. *)
LastFillDated == \A f \in LastFill : TradingDate[current[f.symbol].ts] = lastDate

(***************************************************************************)
(* The equity curve follows the fills: over bars and fills of several      *)
(* symbols that overwrite the entry of a date, bars before the fills of    *)
(* earlier orders have come through the loop, and symbols that are         *)
(* suspended, the last entry is what all fills so far are worth, each      *)
(* symbol at its last price.  A fill of a symbol without a bar of the date *)
(* is entered under an earlier one: until the next bar or fill the last    *)
(* entry is without it.                                                    *)
(***************************************************************************)
EquityFollows ==
  lastDate > 0 /\ LastFillDated =>
    lastDate \in DOMAIN equity /\ equity[lastDate] = WorthOfFills

(* What the documents say of an entry, that it values positions at the      *)
(* close of the date: a fill leaves its own price in the position.          *)
EquityAtClose ==
  row = "done" /\ lastDate > 0 /\ LastFillDated =>
    equity[lastDate] = TotalValue(cash, total, [s \in Symbols |-> current[s].close])

(***************************************************************************)
(* A run that is recorded as done has replayed every bar, and its          *)
(* strategies have seen every event and every fill but those of            *)
(* on_shutdown, if the channel is long enough.                             *)
(***************************************************************************)
DoneIsComplete ==
  row = "done" =>
    /\ replay = {} /\ pending = {} /\ timers = {}
    /\ MaxOrders <= Capacity => handed + Len(sent) = Cardinality(fills)

FillsQueued == {q \in pending : q.kind = "Fill"}

(* What Backtest_proofs shows of the end of a run: the loop ends with       *)
(* nothing left ...                                                         *)
EndInv ==
  /\ pc = "done" => replay = {} /\ pending = {}
  /\ stage = "done" \/ row = "done" => pc = "done"
  /\ stage \in {"start", "load"} => pc = "peek"

(* ... and every fill was handed on, or is in the heap or in the channel,   *)
(* which no dispatch fills beyond its capacity.                             *)
HandedInv ==
  /\ IsFiniteSet(pending) /\ \A q \in pending : q.seq <= seq
  /\ Len(sent) <= orders /\ orders <= MaxOrders
  /\ MaxOrders <= Capacity =>
       handed + Cardinality(FillsQueued) + Len(sent) = Cardinality(fills)

(* The last entry is the value of the account ... *)
EquityRecorded ==
  lastDate > 0 /\ LastFillDated =>
    lastDate \in DOMAIN equity /\ equity[lastDate] = TotalValue(cash, total, mark)

(* ... in which a position has the last price of its symbol. *)
MarksFollow ==
  \A s \in Symbols : LastPrice(s) \in Nat /\ (total[s] > 0 => mark[s] = LastPrice(s))

(* What Backtest_proofs shows of the ledger: ids are fresh, no fill is of a *)
(* bar that its symbol has not had.                                         *)
LedgerInv ==
  /\ LedgerTypes
  /\ SharesSplit
  /\ BooksAreFills /\ cash + Lost >= 0
  /\ EquityRecorded /\ MarksFollow
  /\ \A f \in fills : f.id <= orders /\ f.ts <= current[f.symbol].ts
  /\ \A s \in Symbols : current[s].ts > 0 => current[s].close \in Closes

(***************************************************************************)
(* What is on its way agrees with what has happened: a fill in the channel *)
(* or the heap is booked already, the bars that are left are not earlier   *)
(* than those that were taken, and the group that is being taken is not    *)
(* later than what is queued.                                              *)
(***************************************************************************)
QueueInv ==
  /\ QueueTypes
  /\ NoLookAhead
  /\ \A i \in DOMAIN sent : sent[i] \in fills
  /\ \A q \in pending : q.kind = "Fill" => q.subject \in fills
  /\ \A b \in replay : lastDate <= TradingDate[b.ts] /\ \A s \in Symbols : current[s].ts <= b.ts
  /\ \A b \in replay : current[b.symbol].ts < b.ts
  /\ pc = "taking" => \A q \in pending : q.kind = "Bar" => q.ts >= target
  /\ stage \in {"start", "load"} => lastDate = 0 /\ \A s \in Symbols : current[s].ts = 0

(***************************************************************************)
(* The inductive invariant of Backtest_proofs.                             *)
(***************************************************************************)
IInv == LedgerInv /\ QueueInv /\ RunTypes

=============================================================================
