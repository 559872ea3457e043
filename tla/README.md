# TradeGlance in TLA+

TradeGlance is a quantitative-trading platform for A-shares: a Rust workspace
under `src/crates/` of nine crates, with a C++ indicator library, a C++ tool
server and a Python data sidecar beside it. This directory models what moves
(paper) money and what it decides by: orders, accounts, the event loop, the tables,
backtests, market data, signals, decisions and the arithmetic under them. TLC checks
it and TLAPS proves its central invariants. Every definition is translated from the source; `PROJECT.json`
gives the lines for each.

## 1. Inventory

| Component | State | Operations | Hard behaviour | What makes it correct |
|---|---|---|---|---|
| **Paper-trading engine** `tg-mock-order-engine/src/handler.rs`, `matcher.rs`, `rules.rs`, `risk.rs` | `State` behind one mutex: account, orders, reservations, latest quotes, instrument metadata, `hard_exit_triggered`, `today` | `submit`, `cancel`, `set_instrument_meta`, `on_snapshot` (match all orders, decide hard exits, save, submit exits), queries | any number of gRPC tasks against one engine task; saving happens outside the mutex and may fail in the middle; stop-losses are submitted by the same path | reservations follow orders, nothing is released twice, no overfill, T+1, no two stop-losses of a symbol at once, none dropped |
| **Virtual account** `account.rs`, `cost.rs` | cash, frozen cash, lots per symbol, reserved shares | freeze/release, reserve/release, `apply_fill`, FIFO consumption | rounding and clamping at zero, locked lots in the middle of the FIFO walk, an error after half the changes | totals agree with the orders, locked lots stay, exactly q shares leave |
| **Event engine** `tg-engine/src/engine.rs` | event heap, timer heap, fill receiver, sequence number, summary | `run`, timestamp groups, timers, drain of fills, shutdown | order of simultaneous events, fills that arrive late, lagging receiver, peeking at a live feed | every event dispatched once and in order |
| **In-memory portfolio** `tg-engine/src/portfolio.rs` | positions, cash, universe | `apply_fill`, `update_bar`, `update_snapshot` | follows the account with a delay | agrees with the account once all fills are dispatched |
| **Realtime feed, pump** `feed.rs`, `main.rs` | last timestamp per symbol, one buffered event | `fill_buffer`, `next_event`, `peek_next_ts` | fixed scan order, waiting inside a peek | no symbol is neglected, snapshots of a symbol stay in order |
| **Backtest ledger and matcher** `tg-backtest/src/matcher.rs` | account, positions, T+1 availability, open orders, fills, equity per date, current bars | `set_current_bar`, `submit`, `cancel`, `apply_fill`, mark to market, unlock | a fill is booked in `submit` and comes back through the loop; bars are set before the strategies see them; any symbol may have no bar today | cash and positions are those of the fills, T+1, no look-ahead, the equity curve follows the account |
| **Backtest runner, jobs** `runner.rs`, `replay.rs`, `grpc.rs` | what is left of the bars, the row of the run, job table, results | load, replay, run, save status; submit, status, result | failing repositories and strategies; a spawned run against polling clients | a run saved as done is complete; a job ends once, with its result |
| **Market-data sync** `tg-market-data/src/sync/mod.rs`, `rate_limit.rs` | fetch states, jobs, watchlist, token bucket, partitions | full and incremental sync, realtime poll, retries, edits of the watchlist | concurrent syncs of one symbol, retries, failure in the middle, late quotes | no gap in what was fetched, job records are truthful, the rate is bounded, the newest quote wins |
| **Market-data cleaning** `cleaning.rs` | none | missing days, adjustment gaps, price limits | splits on days without trading; the limits of a day, which five parts work out for themselves | a price path free of its splits shows no gap; all parts agree on the limits to the cent |
| **Market-data sidecar client, service** | none | decoding | - | - |
| **Signal engine** `tg-signal-engine` | bounded signal buffer, subscriptions, strategy state | evaluate rules and strategies, publish, query, subscribe | slow subscribers, buffer limit, publishing against querying; trees of conditions, short histories | subscribers see what was published, in order; nothing falls between history and stream; a rule tells why it fires, a signal neither knows the future nor is repainted |
| **Decision agent** `tg-decision-agent` | flag of the LLM's availability, decision log, stream | `decide`: probe, analyst, trader, risk; fallback | probe racing with failing calls, callers that hang up | without an LLM: hold; what is told is saved and within the caps; the flag recovers |
| **Persistence** `tg-persistence` | PostgreSQL tables, Parquet partitions | upserts, queries, merge and rename of a partition, adjustment | last writer wins, several statements per event, read and rename apart | the tables can be explained by the engine's states; first write of a key stays |
| **Factor engine, C++ indicators, quantization-mcp** | factor values by day | ranks, quantiles, indicators | ties, NaN, warm-up, the same formula written two or three times | all implementations of a formula agree |
| **Contracts, Python sidecar** | none | conversions, adapters | - | - |

How they interact: market-data writes the latest snapshots; the realtime feed
polls them; the event engine hands each to the `ExecutionPump` strategy, which
calls `MockExecutionHandler::on_snapshot`; decision agents and operators call
`submit` and `cancel` of the same handler over gRPC; fills go out on a broadcast
channel, on which the event engine itself is a receiver; orders, fills and the
account are saved to PostgreSQL. The backtest runs the same event engine with a
`HistoricalMatcher` as `ExecutionHandler`.

The hazards this code is exposed to, each at its line, are the `hazards` of
`PROJECT.json`, with the properties that would catch them going wrong; the few
without one say why.

## 2. Modules

| Module | Models | State and actions |
|---|---|---|
| `Sums` | sum of a function over a finite set | counted in units so that it can be reasoned about with cardinalities |
| `VirtualAccount` | lots, T+1, FIFO and fees of `account.rs`, `cost.rs` | operators only: `AddLot`, `ConsumeFifo`, `Available`, `Fees` |
| `Listings` | a stable sort, a `retain` and appended sequences, by the place each index gets | operators, said with cardinalities so that they can be reasoned about |
| `LotBook` | one symbol's `Vec<PositionLot>` with its stable sort, walk and `retain`, from any lots that were added before | `vec`; `Buy`, `Sell`, `NextDay`; implements the bag of `VirtualAccount` (proved) |
| `OrderLifecycle` | what an `ExecutionHandler` promises of its orders | abstract specification: `Place`, `Fill`, `Cancel` |
| `MockExecution` | `MockExecutionHandler` with its gRPC callers and its pump | see below |
| `MCMockExecution` | the instances of `MockExecution` that TLC checks | requests and feeds of each run |
| `OrderPersistence` | what the engine writes to PostgreSQL, by whom and in which order | see below |
| `MCOrderPersistence` | its instances for TLC | which client's id each order carries |
| `EventEngine` | the event loop of `tg-engine/src/engine.rs`, shared by paper trading and backtest | operators for the steps of its one task: `Peek`, `Take`, `GroupTaken`, `Dispatch` (or `Begin` and `Finish`, for a strategy with steps of its own), `Stop`, `Abort` |
| `RealtimeEngine` | that loop with `RealtimeDataFeed`, the `latest_snapshots` table, the pump and `InMemoryPortfolio` | see below |
| `MCRealtimeEngine` | its instances for TLC | the list of symbols polled |
| `Backtest` | that loop with `BacktestReplay`, `InstrumentedFeed`, `HistoricalMatcher`, `BacktestLedger` and the runner | see below |
| `MCBacktest` | its instances for TLC | shapes of bars, calendar, fees |
| `BacktestService`, `Performance` | `grpc.rs` and `perf.rs` of the backtest, around the whole run | a job and its task; operators for closed trades, drawdown, returns |
| `FillTape` | what `perf.rs` is given: fills that never sell short, and equity curves | `deals`, `worth`; `AddFill`, `AddPoint` |
| `MarketSync`, `MCMarketSync` | full and incremental syncs as concurrent tasks, with fetch states, jobs, partitions and restarts | see below |
| `TokenBucket`, `PermitPool` | `AsyncRateLimiter`, and what its callers rely on | `Acquire`, `Tick`; `Take`, `Refill`: the first refines the second |
| `SnapshotPoller` | `realtime_poll` and the watchlist, over `TokenBucket` | see below |
| `BroadcastStream` | a tokio broadcast with one forwarding task per gRPC client | `Send`, `Lagged`, `Receive`, `Forward`, `Read`, `HangUp` |
| `SignalBus` | `SignalCollector` on a `BroadcastStream` | `Push`, `SendSignal`, `QuerySignals` |
| `DecisionAgent` | `decide` with its agents, fallback and availability flag | one action per await; see below |
| `MCAgents` | signals composed with decisions through a client that reads the one and asks the other | its instance for TLC |
| `Partitions`, `PartitionStore` | merging records into Parquet files and querying them, three stores | `Write`; `Query` |
| `Books` | the account, the in-memory portfolio and the closed trades, fed with the same fills; the T0 strategy that reads a position of the first two | operators |
| `CrossSection` | ranks, rank correlation, quantile buckets of the factor engine; the rule about ranks of the signal engine | `section`, the factor and return of each symbol; `AddSymbol` |
| `Indicators`, `Numbers` | eleven indicators in C++ and in quantization-mcp, two of them also as factors, in exact ratios | operators |
| `Rules`, `Strategies` | trees of conditions; the swing strategy over the indicator service or a source in memory | operators: `Judged`; `EvaluateBar`, `Pushing`, `SwingRun` |
| `Decimals` | what a division and `round_dp` of `rust_decimal` do at their last digit: to the nearest, ties to even | `RoundDp` |
| `PriceLimits` | the limits of a day as the paper engine, the backtest, the cleaning and the limit-up strategy compute them | operators; `Backtest` is guarded by `BelowUpper` and `AboveLower` |
| `PriceSeries` | splits: factor rows, `adjust_bars`, missing days, adjustment gaps | `daily`, the days of a symbol; `AddDay`; `QueryBars` |
| `MCAlgorithms` | one instance that grows the inputs of all those operators, and the states of `LotBook`, `PartitionStore`, `FillTape`, `CrossSection` and `PriceSeries` | a behaviour is about one of them (`part`) |
| `Sums_proofs`, `MockExecution_proofs`, `OrderPersistence_proofs`, `RealtimeEngine_proofs`, `Backtest_proofs`, `MarketSync_proofs`, `SnapshotPoller_proofs`, `Agents_proofs` | theorems | - |

### MockExecution and the code

| TLA+ | `handler.rs` |
|---|---|
| `cash`, `frozen`, `lots`, `reservedSell` | `State.account` (a `VirtualAccount`) |
| `orders`, `reservations`, `latest`, `meta`, `hardExit`, `today` | the other fields of `State` |
| `pc`, `snap`, `fills`, `hardIntents` | where the one engine task is in `on_snapshot`, and its local variables |
| `Submit`, `Cancel`, `SetInstrumentMeta` | one critical section of a gRPC task each |
| `BeginSnapshot` | lines 126-135: today, quote, default metadata |
| `MatchOne(o)` | one iteration of the loop over the orders, 137-146, in any order: the code walks a hash map |
| `EndMatching` | 148-164: hard exits decided and remembered, mutex released |
| `PersistFill(o)` | one iteration of 167-171 |
| `SubmitHardExit`, `RejectHardExit` | 172-174 |

While `pc = "matching"` the mutex is held and no gRPC task can run; while it is
`"persisting"` or `"exiting"` they can. `pc = "stopped"` is the end of
`Engine::run`: `main.rs` logs the error and the gRPC service goes on without the
pump.

What is abstracted, and why it is safe:

* A rejected `submit` changes nothing, so only accepted ones are actions. The
  soft caps of `risk.rs`, the blacklist, the ST filter, the order-type check
  and the price band can only refuse more orders; without them the model has
  more behaviours, and limit prices are taken from inside the band.
* `Decimal` amounts are integers, in units of the last digit; the proportional
  release of a reservation is a quotient and is rounded to the nearest unit, up or
  down, as `Decimal` rounds it at its 28th digit (`RoundDp`). Sums and products are
  exact here; in the code they round at that digit when they need more than 28. Fees
  are one amount with a floor and a proportional part (`Fees`).
* A snapshot is what it decides: best bid and ask, how many shares each side's
  orders may get (0 in a call auction, on an empty book, behind a sealed limit),
  and whether `last` is beyond the stop or take-profit price of the position.
  The last is chosen freely because the average cost is not modelled.
* Lots are a bag of shares per trading date and T+0 flag. Within one date the
  code takes lots in order of insertion; the bag allows every order. That the
  vector of `LotBook` with its loop is such a bag is checked and proved.
* `PersistFill` and saving an accepted order either succeed or, if `RepoMayFail`,
  fail. What is in the database is the matter of `OrderPersistence`.
* The feed yields, per symbol, snapshots whose trading date never goes back
  (`RealtimeDataFeed::is_newer` compares timestamps per symbol); between symbols
  dates may go back.

### OrderPersistence and the code

`OrderPersistence` takes the other half of the handler. What an order does in
memory is an `OrderLifecycle` step (`MockExecution` is proved to take no other);
what is added is the copy of the order that leaves the mutex and the statement
that saves it later.

| TLA+ | Code |
|---|---|
| `phase`, `left` | status and unfilled quantity in `State.orders` |
| `booked` | the account, as the set of fills it has applied |
| `inflight` | the copies that gRPC tasks carry from the mutex to `save_order` |
| `pc`, `unsaved`, `current`, `carried`, `balance` | the engine task in the loop over the fills of a snapshot, and its local variables |
| `rows`, `fillRows`, `accountRow` | tables `orders`, `fills`, newest row of `accounts` |
| `lost`, `restarts` | orders of earlier lives of the process |
| `Submit`, `Cancel`, `SaveCopy` | the critical section of a gRPC call; the `save_order` at its end |
| `MatchOne`, `EndMatching`, `ReadOrder`, `SaveOrder`, `SaveFill`, `ReadAccount`, `SaveAccount` | `on_snapshot`: each critical section and each statement of `persist_order`, `persist_fill` |
| `PlaceExit`, `SaveExit` | the `submit` of a hard exit by the same task |
| `Stop` | an error leaves `Engine::run` |
| `Restart` | the process ends anywhere; `main` starts a new handler on the old tables |

A gRPC task is no more than the copy it has in flight, so any number of them
run. A task whose client hangs up is dropped between mutex and save; that is a
failing save. `Cancel` needs the order's row: a client learns an id from the
answer to `submit`, which is sent after the save, or from the table. Statements
are atomic and see each other's rows; one may fail for no reason (`SaveMayFail`),
and must fail where a constraint of the schema forbids it (`Unique`, `FillRefused`).

### EventEngine, RealtimeEngine and the code

`EventEngine` declares the state of `Engine` and the steps of its one task;
`RealtimeEngine` extends it with what paper trading plugs in. What the pump's
handler does with a snapshot is `MockExecution`; here it is only how many lots of
the symbol it buys and sells, one by one.

| TLA+ | Code |
|---|---|
| `pending`, `timers`, `seq`, `now` | `pending_events`, `timer_queue`, `seq`, `current_time` |
| `target`, `pc` | `next_ts` and the place in `load_next_timestamp_group`, `run` |
| `Before` | `QueuedEvent::cmp` |
| `Peek` | one round of the loop: the least time of feed, heap and timers, and the timers due then |
| `Take`, `GroupTaken` | the inner loop that takes the feed's events of that time |
| `Dispatch` | `drain_due_timers`, `pop`, `dispatch`, `drain_fills`, `drain_due_timers` |
| `Received` | the broadcast channel of fills: a lagging receiver misses the oldest |
| `Stop`, `Abort` | an error of the feed, of a strategy |
| `table`, `Publish` | `latest_snapshots`, `upsert_latest_snapshot` |
| `latestTs`, `buffered`, `scan`, `Poll` | `RealtimeDataFeed`, one `get_latest` of `fill_buffer` |
| `crossSection`, `portfolio` | `InMemoryCrossSection`, `InMemoryPortfolio` |
| `held` | the account behind the handler |

`peek_next_ts` does not return while nothing is buffered: `PeekFeed` needs
`buffered # {}`, and until then only `Poll` can run. Between two statements of the
feed the market-data service may publish. A dispatch is one action: nothing else
touches the heap, the portfolio or the cross section while it runs. `Publish` of a
snapshot with the time of the row replaces its prices and changes nothing here.
`main` schedules no timers (`TimerTimes`); the loop offers them, so they are a
parameter.

### Backtest and the code

| TLA+ | Code |
|---|---|
| `replay`, `NextBars`, `Precedes` | the bars left in `BacktestReplay`, its front, the order of `from_bars` |
| `current` | `HistoricalMatcher.current_bars`, with `previous_close` |
| `cash`, `total`, `locked`, `available`, `mark` | `BacktestLedger.account`: cash and, of each position, the quantities and `last_price` |
| `lastDate`, `equity`, `fills` | `last_trading_date`, `equity_by_date`, `fills` with `applied_fills` |
| `open` | `open_orders` of the ledger, which are `pending` of the matcher |
| `sent`, `handed` | the fill channel during a dispatch; `fills_processed` |
| `stage`, `row` | where `BacktestRunner::run` is; the run's status in `backtest_runs` |
| `PeekFeed`, `TakeBar` | `InstrumentedFeed`: a bar is taken, set in the matcher and marked in the ledger |
| `DispatchBar`, `DispatchFill`, `StrategyReturns` | `dispatch` up to the strategies; `drain_fills` after them |
| `Submit`, `Cancel`, `StrategyFails` | what a strategy does while it is called |
| `SaveRunning`, `LoadBars`, `LoadFails`, `EngineReturns`, `SaveResult` | `run`, `from_repo`, `execute_run`, `save_status` |

The strategies are left open: while an event is dispatched, and in `on_shutdown`,
they may submit and cancel anything, any number of times, and fail. A `submit` that
is refused changes nothing. What they submit in `on_init` is refused for want of a
bar, so `on_init` is no action.

The prices of a bar are drawn when it is taken rather than when the history is
loaded; nobody sees them before. Commission, stamp duty and transfer fee are one
amount, any function of symbol, side and notional (`Fee`), and slippage is any function of
a price (`Slipped`). `MatcherConfig` bounds neither: `min_commission` is a floor of any
size (`matcher.rs:522`), so a small sale may bring in less than its fees, and the
instance has such sales. `CostAssumption` asks only that no fee and no price after
slippage is below zero, that is `slippage_bps` up to 10000 and no negative
commission, which the code does not check. Lot and tick checks only refuse orders; average cost
and profit are read by no decision. `BacktestRunner` schedules no timers
(`TimerTimes = {}`).

`BacktestService` adds the client. `SubmitBacktest` enters the job and spawns its task
(`StartJob`); `RunnerStep` is any step of the runner above; `Compute` turns the ledger's
fills and equity curve into metrics, with the operators of `Performance`, before
`save_status`; `FinishJob` and `FailJob` are `update_job`. Money is a count of units and
a fee an amount, so sums are exact; ratios are pairs.

### MarketSync, SnapshotPoller, TokenBucket and the code

| TLA+ | `sync/mod.rs`, `rate_limit.rs` |
|---|---|
| `task`, `Trigger` | the tasks `trigger_full_sync`, `trigger_incremental_sync` and the startup spawn; each is where its loop over symbols and periods is, and its local variables |
| `jobs`, `JobIds` | `sync_jobs`; the id is made of the current millisecond, so that a new job may get the id of the newest |
| `fetch`, `MarkRunning`, `MarkIdle`, `MarkFailed` | `fetch_state` and its upserts |
| `Ask`, `permits`, `Refill` | `call_sidecar`: permit, call, bounded retry |
| `files`, `ReadPartition`, `RenamePartition` | `write_bars` of the Parquet store: what is read is local until the rename |
| `raced` | history: partitions that a task replaced although another had, since it read them |
| `Start`, `Exit`, `exits` | `main` and the end of the process, at any point |
| `NextDay`, `"open"`, `"closed"` | the bar of the running day differs from the day's last bar |
| `List`, `Admit`, `Answered`, `Refused` | `realtime_poll` with `call_sidecar` |
| `StorePartition`, `UpsertLatest` | the two halves of `write_snapshot`, for all symbols at once (`join_all`) |
| `Level`, `Acquire`, `WaitFor` | `refill`, one turn of the loop of `acquire`, how long it sleeps |

Tokens are counted in `Scale`ths and time in ticks: what the code does in `f64` seconds,
without its rounding. `WaitFor` rounds up to a tick. `MarketSync` uses the bucket through
`PermitPool`, which `TokenBucket` is proved to implement. A bar is its day and whether
the day was over; whatever else a cleaning step would say of it is not modelled, and nothing calls one.

### Signals, decisions and the code

Publishing takes two steps: into the buffer under its lock (`Push`), then onto the
broadcast (`SendSignal`). `sub[c]` is the forwarding task of a client with its receiver's
position (`next`), the bounded channel to the client (`room`) and what the client has
read. A subscription to decisions is the same code; decisions told are `told`.

`DecisionAgent` has one action per await of `decide`: `Probe` and `Raise` (the flag is
raised after the answer), `Analyze` (which, like `Draft`, may fail for a model that is up),
`Lower`, `Draft`, `Save`, `Tell`. `ClampToLot`, `Capped` and `Risked` are `RiskAgent`. The
logger is modelled as the one that saves; `main.rs` of the agent wires
`NoopDecisionLogger`, for which "saved" is trivially true.

### Algorithms and the code

`PartitionStore` reads a file, appends, sorts stably, drops neighbours with one key and
replaces it, and is compared with the map of first writes, `KeepFirst`, which is what
`MarketSync` uses; a query joins the files of its range, filters and sorts. `LotBook` (the vector of lots) is compared with the bag of
`VirtualAccount`. `Performance`, `Books`, `CrossSection`, `Indicators`, `PriceSeries`,
`PriceLimits`, `Rules` and `Strategies` hold each algorithm as the code computes it and a reference definition or a second
implementation. `TapesAddUp` of `FillTape` says it of closed trades and drawdown, `SectionsAddUp`
of `CrossSection` of ranks, quantile buckets and rank correlation, `SplitsLeaveNoGap` of `PriceSeries`
of every query of adjusted prices. A history says of each day what a holder's share is worth and how many
shares of today it has become, so that what adjustment must restore is known. The loops of `Performance` and
the greatest common divisor of `Numbers` are recursive functions and the buckets are sets of
pairs, so that they can be reasoned about. What the two must agree on is a named operator (`TradesAreFifo`,
`BooksAgree`, `DrawdownIsWorst`, `RanksAgree`, `SpearmanIsSpearman`, `BucketsAreEven`,
`SameIndicators`, `NoGapLeft`, `BandsNest`, `SealsAreTraded`, `RuleExplains`, `SwingSound`).
A condition of a tree is known by its reason, so that `RuleExplains` can judge the tree on the
reasons it told, or on more. Prices in `PriceLimits` are cents, whose limits `round_dp`
rounds (`RoundDp`: a half goes to the even neighbour) or nobody does. Doubles and decimals are ratios, so an agreement up to
rounding becomes equality; a square root is replaced by the variance under it.

Where the implementations differ on purpose, or in a corner, the operator says so:

* The C++ ADX is NaN for good after a start in which nothing moves, the server's a number.
  Of a series without falls the C++ RSI is 100, the server's 100 - 100/101 and the factor's
  100, or 50 if nothing rises either. The C++ MACD histogram is doubled. The two ATRs differ
  in the first range, less with every bar. KDJ and the stochastic oscillator are two
  indicators; only their bounds are compared.
* The account keeps a cost per lot, the portfolio one average per symbol: realized
  profits differ, while cash, quantities and total value agree. The T0 strategy reads a
  position with available shares; the in-memory portfolio enters purchases as locked and
  unlocks none, so T0 is silent there, which `BooksAgree` states.
* `adjust.rs` refuses a zero factor of a bar but not a zero anchor; factors in a history
  are positive here. What a factor means is up to the sidecar's source (`app.py:167`,
  the qfq factors of akshare).
* The factor store excludes the end of a range (`storage.rs:139`), the signal engine's
  in-memory source includes it (`sources.rs:127`).

The cleaning functions, strategies and rules are library code that no `main` of the
repository calls; they are modelled as functions of any input.

## 3. Runs

| Run | Shows | States |
|---|---|---|
| `exec_shares` | two symbols, two dates, three orders and a hard exit, fills of 1 or 2 of 2 shares, T+0 and ordinary lots of the same day, metadata replaced under way: `ReservedSellIsOpenSells`, `HoldingsAreFills`, `SellsCovered`, `TPlusOne` | 748,306 |
| `exec_cash` | limit and market buys with slippage, minimum fee and odd fills, cancelled at any point, saving may fail: `FrozenIsReserved`, `BuysStayFunded` (releases rounded up and down, of 40 units of cash), and `ImplementsLifecycle` (every step maps to a step of `OrderLifecycle` or a stutter) | 204,383 |
| `exec_exit` | the stop price is crossed again and again, saving may fail: `ExitsDoNotOverlap` (no exit of a symbol is made while one is open or on its way), `HardExitResolved` (a triggered exit is booked or the engine stops) | 54,288 |
| `exec_stoploss` | **violated**: `HardExitNotLost`, see findings | - |
| `persist_rows` | three orders, two of them with one client's id, saves in any order, failing statements, a restart: `RowsWereTrue`, `FillsHaveOrders`, `AccountCoversFills`, `FillsReachTheTable` | 707,873 |
| `persist_retry` | **violated**: `NoFillDropped`, see findings | - |
| `realtime` | two symbols, snapshots of any order of time, a timer, up to two fills each, a loop that may stop anywhere: `SnapshotsInOrder`, `PortfolioFollows`, `QuietMarketTaken` | 59,370 |
| `backtest` | a job from submit to result around a run of two symbols, three timestamps on two days, every choice of bars, three orders, failing repositories and strategies, an ETF beside a share, sales that bring in less than their fees: `LedgerHolds` (no buy overdraws the ledger, sales only by their fees, and it is what the fills amount to), `TPlusOne` (of shares), `NoLookAhead`, `EquityFollows` (the last entry is what the fills are worth at the last prices), `DoneIsComplete`, `ReportExplainsCash` (cash is what the closed trades won, the open lots cost and the fees took) | 3,166,275 |
| `market_sync` | a full and an incremental sync of two symbols at once, two days, failing calls and statements, ids that collide, a restart: `CompletedIsStored`, `JobsTellTheTruth`, `JobsEnd` | 726,180 |
| `market_poll` | the poller and another task on one bucket, any window of observation, late quotes, failing writes, restarts: `WindowBound`, `LatestForward`, `ImplementsPool` | 1,274,766 |
| `agents` | two strategies publish three signals into a buffer and a broadcast of two, a client with room for one subscribes, queries, hangs up, asks for a decision; the model goes down and back: `InOrderOnce`, `NoGap`, `ToldIsSavedAndAllowed`, `ReadersCatchUp`, `FlagFollows` | 692,903 |
| `algorithms` | every input up to a bound of each algorithm: `VectorIsBag`, `QueriesAreKeptFirst`, `TapesAddUp` (closed trades and drawdown), `SectionsAddUp` (ranks, buckets, correlation), `CopiesAgree` (the indicators in all implementations; the account, the portfolio and the closed trades of the same fills), `SplitsLeaveNoGap`, `SignalsAreSound` (what the rules and the two strategies tell, and the price limits) | 97,792 |

Eight more sentences of the design do not hold (section 5). Each is an operator beside the
properties, violated when a run checks it in place of its own ones, with these constants:

| Operator | Run | Constants that differ |
|---|---|---|
| `FrozenIsUnfilledNotional` | `exec_cash` | `Requests <- EvenRequests`, `Feed <- EvenFeed`, `Prices = {4}`, `LotSize = 4`, `Slippage = 0`, `InitialCash = 100`, `MinFee = 0`, `FeePer = 1000`, `RepoMayFail = FALSE` |
| `ExitAtEachCrossing` (a PROPERTY) | `exec_exit` | `SPECIFICATION Spec` |
| `QuietRowsAgree` | `persist_rows` | `OrderIds = {o1, o2}`, `ClientIdOf <- OwnClientIds`, `MaxRestarts = 0`, `SaveMayFail = FALSE` |
| `TakenIsDispatched` | `realtime` | `TimerTimes = {}`, `MaxFills = 0`, `MayFail = FALSE` |
| `EtfsSettleAtOnce` | `backtest` | none |
| `EquityAtClose` | `backtest` | none |
| `RunningIsWorking` | `market_sync` | `MaxExits = 0` |
| `TopHalf` | `algorithms` | none |

Bounds of `OrderPersistence`: two or three orders of at most two shares (a partial
fill and a last one; two orders filled by one snapshot; a stranger between two
orders of one client's id), one restart. Two statements race for a row as soon
as there are two tasks, and nothing counts tasks.

Bounds (all constants of `MockExecution`): `ClientIds`, `PumpIds` bound how many
orders are ever placed; `Requests` and `Feed` what is asked and quoted; `MaxDay`
the trading dates. Three orders on two symbols are enough for a buy, its sale and an
order of the other symbol that moves the date; on one symbol for a buy, a sale and
a second buy that competes for cash or leaves a lot of the other kind; a lot of 2 to 4 shares filled 1 or 2 at a time gives partial fills, odd
lots and completion by the last share; two dates give a locked and an unlocked
day, and three in `LotBook` a locked lot between others. `ClientIds` is a
symmetric set in the runs without liveness: no definition orders or chooses
among ids. Deadlock is checked in every run of `MockExecution`; `SetInstrumentMeta`
and the feed are always possible, so no run ends. It is not checked in the runs of
`OrderPersistence`, which end when all orders are over and saved: clients need not
ask for more.

Bounds of `RealtimeEngine`: three times, so that a snapshot can fall before, at and
after the timer and the other symbol's; two symbols, of which the first in the list
can stay ahead of the second; two fills of one snapshot, whose order in the heap
matters (a sale after a purchase). `Capacity` is 2 there: a snapshot never has more
fills than the channel has places, as with the code's 1024. Deadlock is not checked:
a stopped loop and a market that has gone quiet may both be.

Bounds of `Backtest`: both symbols on the main board (what the other boards change is a
percentage, which `SignalsAreSound` and `BandsAgree` vary); three orders, so that after a purchase on the day before one
can buy and sell the same symbol, with locked and available shares side by side; cash
for two lots and no more, so that buys compete; sales of one lot at the lower price that cost more
than they bring in, so that the ledger does go below zero; a day with two timestamps and a next
one, so that a sale on the day of its purchase is tried and refused; a bar that falls to the lower
limit and one whose only price is the upper limit, so that every check of
`validate_intent` accepts and refuses and limit orders fill or rest. `LoadBars` takes
any subset of the six bars: a symbol may be suspended on any of them. `Capacity` is not
less than the number of orders, as with the code's 1024. Deadlock is not checked: a run ends.

Bounds of `BacktestService`: one job, as jobs share nothing but the map they are in. The
report is compared in the states after `Compute`, over at most three fills; longer
sequences of fills, and of two symbols, are the business of `TapesAddUp`. Both are proved for any.

Bounds of `MarketSync`: two tasks, since two writers of one partition are what races and
a third adds no other kind of interleaving; two symbols, of which one is suspended on the first
day, so that an incremental sync meets a symbol with and one without a fetch state; two days of one
year, so that the open bar of today meets the closed one of the same partition; two
attempts, so that a retry succeeds or is the last; a burst of one, so that tasks and
poller really wait for each other. Deadlock is not checked: all jobs may be over.
`SnapshotPoller`: two tasks on a bucket of two permits, half-permit units, windows of up
to two ticks, and quotes with two timestamps, so that an old one can come late.
`MaxIdle` is the time after which a bucket is full anyway.

Bounds of `MCAgents`: three signals on a ring and a buffer of two, so that a slow receiver
lags and a query misses one; a client's channel of one, so that its task waits in the middle; quantities of
which the caps let a part through that is not a whole lot; the model turns twice, so that
it goes and comes back. Deadlock is not checked: signals and turns run out.

Bounds of `MCAlgorithms`: vectors of up to three lots of up to three shares over three days, in any
order at first; two writes of two records
over two partitions and two symbols; sequences of four fills of one or two lots at two prices and two
symbols; curves of four points; sections of three values or NaN with returns; series of
five bars of five kinds with a period of 2 (so that every indicator has warmed up, and the slowest has
taken a step); histories of four days with a split on any of them; stacks of trees of five
conditions and lists, over what is known, not known and not a number; closes whose limits round
up, down and not at all, with prices around all limits of all boards. The inputs of one part do not
multiply with those of another.

Fairness is needed by the properties that say something happens. For
`HardExitResolved` and `QuietMarketTaken` it is
`WF_vars(PumpWork)` and `WF_vars(EngineTask)`. Both are what the one tokio task of
the engine does, the first once it has a snapshot; it never waits for a client (the mutex is
held for short critical sections only), and saving either returns or fails. `JobsEnd` needs that spawned sync tasks are polled
(`SF_vars(Step(j))`) and that time hands out permits (`WF_vars(Refill)`). It is strong
fairness because a waiting task is not enabled all the time: the poller may take
the permit it waits for, but not every one: it asks for one in a few seconds and the
limiter hands out two a second. `ReadersCatchUp` and `FlagFollows` need that the forwarding
tasks, the probing task and the calls in progress are polled, and, of the outside, that a
client that listens reads (one that does not may hang up) and that a call to the model returns. No
fairness is assumed of the feed, of strategies, of the model's health or of clients otherwise.

Every property of a passing run has a mutant of a mapped definition that breaks
it, defined just before the definition it mutates (`PROJECT.json`, `mutants`).

## 4. Proofs

The theorems hold for every value of the constants that satisfies the assumptions of
the modules. Type invariants, `ReservationsFollowOrders`, `OrdersConsistent`, `OnePerSymbol`,
`SharesSplit` and the inductive invariants are proved here and were checked with TLC
before; no run repeats them. The assumptions of `MockExecution` are
`ExecutionAssumption`, `MaxDayAssumption` and `FeeAssumption`: prices and bounds
are natural numbers, slippage is below every price, ids of clients and of the
pump differ, the intents clients ask for are well-formed. Those of `Backtest` are
`BacktestAssumption` and `CostAssumption` (section 2).

* `MockExecution_proofs`. `TypeOK`, `ReservationsFollowOrders`, `OrdersConsistent`
  and `ExitsDoNotOverlap` are not inductive one by one: a fill keeps
  `OrdersConsistent` only because what is filled is bounded by what remains,
  `Enter` keeps exits apart only because a hard exit under way is remembered in
  `hardExit` (`ExitsRemembered`) and nothing clears it, so that the code does more than
  `ExitsDoNotOverlap` asks: a symbol gets one exit in its life (`ExitsLatched`). Their conjunction `IInv` is inductive:
  `Invariance`, one lemma per action. `Refinement` maps every action to a step of
  `OrderLifecycle` or a stutter under `IInv`.
  For the account, `AccountInv` adds what ties the account to the orders. The
  core is `SellsCovered`: `SellReserveAfter` lowers the reserved shares by exactly
  what a sale takes; `Available` can only grow when a symbol's date advances
  (`LaterDayUnlocks`), which needs that no lot is younger than its symbol's last
  quote (`LotsDated`) and that the snapshot being matched is that quote
  (`MatchesLatest`). It follows that a sale during matching always finds enough
  unlocked shares, so that `consume_lots_fifo` never fails there and
  `HoldingsAreFills` is kept. `FrozenIsReserved` and `ReservedSellIsOpenSells` are
  sums over sets that change by one element, for which `Sums_proofs` has the
  lemmas (`SumInsert`, `SumChange`, `SumSplit`). `TPlusOneKept` is the action
  property: the bucket of the current date without T+0 never shrinks.
  `BuysFunded`: a fill of `q` of the `n` shares that are left releases `cash * q / original`,
  rounded to the nearest unit, of a reservation that was worth `n` parts of the estimate; as
  `n` is at most `original`, `n - q` parts stay, but for half a unit. What earlier fills were
  short of is released in the same proportion, so the halves add up and do not grow: the
  reservation is short of its share by half a unit for each fill at most. It is nonlinear, so
  each product is a lemma.
  The last section is about `LotBook`. `VectorImplementsBag` says that every buy, sale and day
  of the vector is one of the bag, for any lots in any order. Sorting and `retain`
  are numberings of the indices (`Listings`), of which `Sums_proofs` shows that they are
  bijections (`PlaceIsBijection`), so that a bucket's sum is the same before and after
  (`SumReindex`, `SumGrouped`). The loop is a recursive function; that it exists and what it
  leaves is an induction over the places of the vector (`LeftToSellIs`, `WalkIsFifoTake`):
  an earlier date is taken out before a later one is touched because the sort put it first.
* `OrderPersistence_proofs`. `RowsWereTrue` is not inductive: a row gets its copy
  from a task. `IInv` says the same of every copy on its way (`inflight`, `carried`);
  what was true of an order stays true, because `OrderLifecycle` steps only lower
  `left` and never leave an end (the lemmas `AfterPlace`, `AfterCancel`, `AfterFill`).
  `FillsHaveOrders` rests on the pump saving the order of the very fill it is at
  (`PumpAtWork`), `AccountCoversFills` on the account being read after the fill was
  saved, `FillsReachTheTable` on the fills being at every moment among those left to
  save, the one being saved and those in the table. Ids of earlier lives are `lost` and never used again.
* `RealtimeEngine_proofs`. Neither `SnapshotsInOrder` nor `OnePerSymbol` is inductive:
  a snapshot that is taken is newer than the one that waits in the heap only because
  the feed's is newer than the heap's (the last conjunct of `SnapshotsInOrder`), and
  there is no one in the heap then because the group being taken is the earliest
  (`pc = "taking" => \A q \in pending : q.ts >= target`): the two together contradict
  a second snapshot of the symbol. `latestTs` lies between what was dispatched and
  the table, which orders each new snapshot after the last. A dispatch only removes
  snapshots from the heap (`DispatchWaiting`), whatever fills come back.
  `PortfolioFollowed` needs to know in which order the fills of a snapshot leave the heap.
  They are numbered by `seq`; `Followed` says that there is a path of the position along these
  numbers, which starts at what the portfolio holds, changes at each fill that waits by what it
  trades and nowhere else, and ends at what the account holds. Its hypothesis `MaxFills <= Capacity` is no restriction of the model but of the code:
  a receiver that lags loses fills, the engine logs it and the portfolio is wrong for good.
* `Backtest_proofs`. For any universe, calendar, prices and strategies. `IInv` is the
  ledger's half and the queue's. A fill that comes back is booked already because what
  is in the channel and in the heap is always in `fills` (`DispatchFillLedger`), and the
  fill of a `submit` is new because its id is (`BookFill`); so `BooksAreFills` changes
  by one term (`SumsGrow`, `LotsGrow`). A sale does not touch
  `locked`, though the code caps it, because of `SharesSplit` (`SaleBooked`).
  `EquityFollows` compares the last entry with what the fills alone are worth
  (`WorthOfFills`), which no writer computes. Both writers record the total they leave
  (`EquityRecorded`); that this total is the worth of the fills needs the books and that every
  mark is the last price of its symbol (`MarksFollow`): a fill is the newest of its symbol
  (`FillLast`), and a bar is one its symbol has no fill of yet (`BarPrice`).
  `NoLookAhead` needs that what is queued is not earlier than the group being taken,
  and `TPlusOne` that the bars left are not earlier than those taken.
  `LedgerSound` puts type, split of the shares and books together; that the cash is at least
  `-Lost` is kept because a buy is checked and a sale lowers both sides by the same
  (`BuyBooked`, `SaleBooked`). `DoneComplete` counts: the fills handed
  to the loop, those in the heap and those in the channel are as many as were recorded
  (`HandedInv`), and the loop ends only with an empty heap and no bar left (`EndInv`).
  `BandsAgree` and `SealsTrade` are about `PriceLimits`: rounding keeps the order of prices
  (`RoundingKeepsOrder`) and moves one by less than a cent, on every board and for every close.
  The rest is about `perf.rs` and the job that calls it.
  `TradesExplainMoney` is about any list of fills, of any length, that never sells more of a
  symbol than it has bought before (`NeverShort`, which the ledger ensures): by induction over
  its two loops, a trade moves into profit exactly what leaves the cost of the lot it closes,
  the last rest included.
  `ReportExplained` is about the whole job. `ServiceRuns` says that a job is a run of
  `Backtest`, so that `IInv` holds of it. `TapeInv` (ids are those of one fill each; no fill
  sells more than was bought under a smaller id) makes the list of fills, ordered by id, one that
  never sells short; `AccountExplained` puts the three sums together; `JobInv` carries the
  metrics from `Compute` to the job's end. `SharesAssumption` asks that the unit of
  money can be divided among the lots of any fill: then fees are shared without a remainder,
  which `Decimal` leaves in its 28th digit. `DrawdownWorst` is an induction over the curve.
  `TradesMatchFifo` is the strongest statement about closed trades: they are, in order, those of the lots
  matched one by one. All lots of a symbol are numbered in the order in which they were bought, and
  again as they were sold; a fill is the interval of numbers between two sums
  (`Upto`), and a sale closes of a buy the overlap of their intervals (`MetIs`). The inner
  loop has at every lot exactly the overlaps so far behind it (`LeftAt`, `ClosedBy`, `PieceStep`) and the outer
  one at every fill exactly the unsold ends of the buys (`StillOpen`, `SaleStep`, `BuyStep`). `NoTradeLater`
  says that no trade is missed because a buy comes after the sale: as nothing is sold short,
  it has nothing to give. `TapesSound` is that of every behaviour of `FillTape`; its
  inductive invariant is that the deals never sell short (`TapeFair`), and `TapeAssumption`
  asks of the lots what `SharesAssumption` does.
* `MarketSync_proofs`. `CompletedIsStored` is about the end of a job, so the invariant is about
  the way there: a task that is past a symbol, a period or a year has stored all of it, and what
  it has read and not yet renamed is in its locals (`IInv`, one lemma per action of `Step`). Other
  tasks may rename the same partition meanwhile; that keeps what a task has stored unless the
  partition is in `raced` (`RenameKeeps`). That the loops over a set of symbols end is the
  existence of its list in the order of the table (`ListingExists`), by induction on its size.
  `JobsTellTheTruth` is about a record that two tasks may share: `TruthStays`.
  The last section is about `PartitionStore`. `StoreInv` is inductive: every file is strictly
  in order, holds only records of its own path, and a record is in the file of its path exactly
  when the map of first writes has it (`WriteStep`). The steps of a write each have a lemma: a
  file's part of a batch has the first of each of its keys (`FirstInPart`), appended after what
  was read it yields to what is there (`FirstInBoth`), and the stable sort with `dedup_by` of
  neighbours keeps of each key the first (`MergedIs`), because two records of one file have one sort key
  only when they have one key (`FileKeySame`). `QueriesKeptFirst` adds that the files a query
  opens are distinct and that every time of its range lies in one of them (`CollectedIs`,
  `OpenedParts`). `StoreAssumption` asks that the part of a time does not go back, which years and
  days do not.
  After it comes `PriceSeries`. `AdjustmentLeavesNoGap` is about ratios in lowest terms, so it
  begins with Euclid's algorithm: the function exists, one bound of its second argument at a time
  (`EuclidExists`), and what it computes divides both numbers and scales with them, so that two
  ratios are equal exactly when they are across (`RatioSame`) and each operation on them is the one on
  fractions (`TimesIs`, `OverIs`, `DistanceIs`, `BelowIs`). A factor holds
  between two of its ex-dates (`FactorHolds`), so that the last row up to a day has the
  factor of that day (`FactorFound`), and every bar of a query is divided by one anchor (`PricesAdjusted`):
  that the anchor of backward adjustment is the first row, whatever the range, is why a bar is the
  same in all of them. A raw gap needs a change of factor after the previous bar and up to this one
  (`ExDateBetween`), on the bar's own day or on one that the range has no bar of. `HistoryAssumption`
  asks for positive prices and factors, `NumbersAssumption` that NaN is no pair.
* `SnapshotPoller_proofs`. `WindowBound` is not inductive: a call may be admitted late in a
  window with tokens saved before it. `IInv` bounds the calls of the window together with
  what the bucket still holds, `granted * Scale + Level <= Capacity + Rate * elapsed`
  (`BucketInv`); the cap can only lower the left side. `BucketImplementsPool` maps the
  permits to `Level \div Scale`. `PollerBounded` carries the bound over to the composition
  with the poller, whose steps are steps of the bucket or leave it alone, except for a restart,
  which opens a new window with a full bucket. `RowsGoForward` needs that a row is only
  written after its partition (`toUpsert` is what `StorePartition` has stored).
* `Agents_proofs`. `DecisionsAllowed` needs that the draft a call carries is allowed from
  the moment the risk agent has seen it, and that a call which may tell its decision has it
  in the log (`AgentInv`); `CappedBounds` is the lemma about the two clamps.
  `HistoryMeetsStream` needs that only who has subscribed has asked, and that a receiver
  begins no later than behind the last item, so that what is still to be sent is sent to
  it too (`BusInv`). `StreamsDeliver` says with `StreamInv` where a task stands:
  what it has received, forwarded or skipped is exactly what was sent between `since` and
  `next`, and what it skipped had been overwritten.
  The last section is about `CrossSection`, for any values, missing ones included, and any number of them
  (`SectionsOrdered`, and `SectionsRanked` of its behaviours). That the ordinal
  ranks are all of 0 to n - 1 is counting along a strict order (`CountedUp`); the members of a
  tie have neighbouring ranks, whose sum gives the mean. A bucket is then an interval of
  ranks, of which it has n / q rounded down or up. The correlation is between -1 and 1 by
  Cauchy and Schwarz: the variance of a line through both variables is never negative
  (`SpreadHolds`, one point at a time), so its discriminant is not positive; without ties both
  variables are the numbers 0 to n - 1 in some order, so that their sums and sums of squares are known and
  the textbook's formula is arithmetic. `SectionAssumption` says that values are numbers or NaN.
* `Sums_proofs`. Sums over finite sets: an element enters, leaves or changes its value, a set is
  split, renumbered or grouped; counting along a strict order (`CountedUp`, `CountIsSum`, `SumOfRun`);
  that a loop written as a recursive function exists (`Iterates`, `Climb`);
  and the numberings of `Listings`: what a stable sort, a
  `retain` and a list of appended sequences have at each place (`SortedIs`, `FilteredIs`,
  `JoinedIs`), and appending as a loop does it (`JoinedSteps`).

`InOrder` of `RealtimeEngine_proofs` is what `MockExecution` assumes of its feed, that
the dates of a symbol's snapshots never go back.

Only model-checked: liveness (`HardExitResolved`, `QuietMarketTaken`, `JobsEnd`,
`ReadersCatchUp`, `FlagFollows`; fairness and ENABLED are beyond the prover);
of the properties of `MCAlgorithms`, `CopiesAgree` and the part of
`SignalsAreSound` about rules and the swing strategy (the two operators about price limits, `BandsNest` and
`SealsAreTraded`, are proved): they are said with folds, `SelectSeq` and recursive operators, which take
operators as parameters and cannot be expanded by the prover, over ratios that are reduced
at every step; and the violated properties.

## 5. Findings

The first two are runs. The others are named after the operators listed under the
table of runs.

1. `exec_stoploss`. `on_snapshot` enters the symbol in `hard_exit_triggered` before
   its exit order is accepted, and the exit goes through the same `submit` as any
   other order. A position that is no multiple of `LOT_SIZE` (after a partial
   fill), or part of which an open sell has reserved, is refused; the error ends
   the engine task and the symbol is never tried again. The design says that rule
   stop-losses are always executed.
2. `persist_retry`. A failed save in `on_snapshot` is not tried again: the rest of the
   snapshot's fills are dropped from the tables and the engine task ends. With a
   `client_order_id` used twice it is bound to fail: `submit` accepts the order in
   memory before the table's UNIQUE refuses its row, and the next snapshot that fills
   it stops the engine. The design says a failed save is retried and calls the
   client's id the idempotency key.
3. `FrozenIsUnfilledNotional`. `apply_fill_to_state` releases `quantity / original_quantity` of
   what is *left* of a reservation, so a buy filled in several parts keeps more
   frozen than its unfilled part needs, until it completes or is cancelled. The
   design says each fill unfreezes its own part. The error is on the safe side but for the
   last digit of the quotient, which may be rounded up (1003 frozen for 300 shares, 200 of them
   filled, releases 668.66..67): `BuysStayFunded`, which is proved, allows half a digit for each fill.
4. `QuietRowsAgree`. An order changes inside the mutex and its copy is saved outside;
   `save_order` overwrites whatever is there. The New copy of a slow `submit` may be
   saved after the pump has saved `Filled`, and the row stays New for good. The
   design says each state transition is atomic under a transaction. What does hold
   is `RowsWereTrue`.
5. `TakenIsDispatched`. After it has taken an event the loop peeks at the feed again, and
   the peek of the realtime feed returns only with a further new snapshot. A snapshot,
   and the stop-loss it triggers, is dispatched when the next one has arrived, and is
   held back again by one of another symbol with an earlier time; the last snapshot
   before a break is not dispatched until trading goes on. The design says stop-losses
   are triggered within seconds.
6. `RunningIsWorking`. A statement that fails after `mark_running` (writing the bars, marking
   idle) leaves the loop by `?` and not through `mark_failed`, so the fetch state goes on
   saying running when the job has failed; the same after the end of the process. The design (phase 0) says a failed fetch is
   recorded as failed. The next sync overwrites it.
7. `TopHalf`. The rule about factor ranks fires up to a percentage of the universe
   counted from rank 0, and `fill_cross_section_ranks` gives rank 0 to the smallest value of a
   positive factor. The design (phase 1) says the largest are at the top.
8. `ExitAtEachCrossing`. `hard_exit_triggered` (`handler.rs:154-162`) is never cleared: after its
   first exit was cancelled, or filled and the symbol bought again, a symbol is without a
   stop-loss for good. The design (phase 3, :248 and :252) has every position stopped when the price
   crosses, at a stop price recomputed after each fill. What the code does ensure is
   `ExitsDoNotOverlap`.
9. `EtfsSettleAtOnce`. The design of the backtest relaxes T+1 for ETFs by `InstrumentType` (phase 2,
   :364, and ADR-013 at :723). `HistoricalMatcher` has no type of an instrument and locks
   everything until the next trading date; fees make no difference either. `TPlusOne` says nothing of ETFs.
10. `EquityAtClose`. The design (phase 2, :387) values positions at the close of the day. A fill leaves
   its own price, slippage included, in the position (`matcher.rs:627-628`), and the entry of
   the date is written with it (`matcher.rs:235`); unless another bar of the symbol follows, it
   stays. `EquityFollows` says what is recorded: the last price, of a fill or a bar.

Seen while modelling, without a run: a sale of the backtest is not checked for its
fees (`matcher.rs:398-430`), and a `min_commission` above what it brings in takes the cash below zero
(`LedgerHolds` says how far); the maximum drawdown of such a curve is that of the running
peak, which is then not always the largest relative fall (`DrawdownIsWorst` is about curves that
are not below zero); the decision agent leaves its fallback after one good probe
(`fallback.rs:45`), where phase 3 (:267) asks for several in a row, so `FlagFollows` claims only that the
flag ends up true to the model; a restarted process reads nothing from the tables
(`main.rs:83-106`; `Restart` models it), although the design says the state in memory is
replayed from them; and the engine's clock goes back when the feed yields an older
snapshot of another symbol than the one dispatched last (`engine.rs:201`), although the
design consumes events in the order of time. Within a symbol time does not go back:
that is `SnapshotsInOrder`. Of the backtest: a market order is filled at the close of
the bar that the strategy has just seen and a limit order only inside the bar's range
(`matcher.rs:374-396`), where the design fills at the open, and limits at the better of
limit and open; an order that is not filled in its `submit` is never matched again; and
a fill of a symbol without a bar today is recorded under the date of its last bar, so
that the equity of a past day is overwritten (`EquityFollows` claims the last date only).
The backtest refuses a buy when the close is at or above the limit before rounding, so it buys at
a limit that was rounded down, where the design (phase 2, :351) refuses buys at the limit; `round_dp` is
half-even where phase 3 (:332) rounds half up; and the limit-up strategy has ten percent
for every board where phase 2 (:559) has `limit_up_pct(board)`. The swing strategy with the indicator service as
its source ends at its first bar, whose history the service refuses (`SwingSound` says so), and it
keeps the bars of all symbols in one history (`swing.rs:179-183`).

## 6. Plan

Done: (1) `VirtualAccount`, `LotBook`; (2) `OrderLifecycle`, `MockExecution` and its
runs; (3) their proofs; (4) `OrderPersistence`, its runs and proofs; (5) `EventEngine`
with `RealtimeDataFeed`, the fill channel and the portfolio, its runs and proofs; (6)
`Backtest` on the same `EventEngine`, its run and proofs; (7) `MarketSync`,
`TokenBucket`, `SnapshotPoller`, their runs and proofs; (8) `BacktestService`,
`SignalBus`, `DecisionAgent` and their composition; (9) the algorithms; (10) rules, strategies
and price limits; (11) theorems for the loops of `MarketSync`, the money of open buys, the
portfolio, completed backtests, the lot vector, the Parquet files and the price limits; (12) theorems for the
money and the matching of closed trades, the report of a backtest job, the drawdown, the cross sections and
adjusted prices.

Left:

* the clients of the indicator and factor services beyond what `Strategies` asks of them;
* `CostConfig` with its three fees, and a bound on what the fills of a buy may cost beyond
  what was frozen (`account.rs:98`);
* a snapshot that fills more orders than the fill channel holds (`engine.rs:339`), which needs an instance
  with `Capacity` below `MaxFills` and a property that survives it;
* `Backtest` as a second refinement of `OrderLifecycle`.

## 7. Not modelled

Floating-point statistics (Sharpe ratio, beta, annualized return, attribution) and the
factors that are one formula over one window; encoding and decoding (protobuf, JSON,
Parquet, SQL rows); configuration, health and wiring; prompt texts; the Python adapters
to third-party data sources: functions without state, over data TLC cannot
usefully enumerate. Of components marked "partly", `PROJECT.json` says what is missing.
Checks that can only refuse an order (risk caps, lots, ticks, price band) are left out of
the state machines, which have more behaviours without them.
