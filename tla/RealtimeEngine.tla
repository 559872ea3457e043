--------------------------- MODULE RealtimeEngine ---------------------------
(***************************************************************************)
(* Paper trading as main.rs of tg-mock-order-engine puts it together: the  *)
(* market-data service writes the latest snapshot of each symbol to a      *)
(* table, RealtimeDataFeed polls the table, the event loop dispatches each *)
(* snapshot to ExecutionPump, whose handler may fill orders, and the fills *)
(* come back to the loop, which books them in its InMemoryPortfolio.       *)
(*                                                                         *)
(* The handler itself is MockExecution; here a snapshot fills at most      *)
(* MaxFills lots of its symbol.                                            *)
(***************************************************************************)
EXTENDS EventEngine

CONSTANTS
  Watchlist,    \* the symbols, in the order in which the feed polls them
  MaxTs,        \* bound: timestamps of snapshots
  MaxFills,     \* bound: fills of one snapshot
  MaxHeld,      \* bound: lots held of one symbol
  MayFail       \* whether polling or the handler may return an error

VARIABLES
  table,          \* latest_snapshots: the timestamp of each symbol's row, 0 for none
  latestTs,       \* RealtimeDataFeed.latest_ts
  buffered,       \* RealtimeDataFeed.buffered
  scan,           \* the place in the list that fill_buffer reads next
  crossSection,   \* InMemoryCrossSection: the snapshot of each symbol dispatched last
  held,           \* VirtualAccount: lots held
  portfolio       \* InMemoryPortfolio: lots held

feed == <<latestTs, buffered, scan>>
books == <<crossSection, held, portfolio>>
vars == <<engine, table, feed, books>>

Symbols == {Watchlist[i] : i \in DOMAIN Watchlist}
Times   == 0..MaxTs

ASSUME RealtimeAssumption ==
  /\ Watchlist \in Seq(Symbols) /\ Len(Watchlist) > 0
  /\ MaxTs \in Nat /\ MaxFills \in Nat /\ MaxHeld \in Nat
  /\ MayFail \in BOOLEAN

(* A fill buys or sells one lot. *)
Fills == [symbol : Symbols, ts : Times, lots : {1, -1}]

Snapshots == [symbol : Symbols, ts : Times]

QueuedEvents ==
       [kind : {"Snapshot"}, ts : Times, subject : Symbols, seq : Nat]
  \cup [kind : {"Fill"}, ts : Times, subject : Fills, seq : Nat]
  \cup [kind : {"Timer"}, ts : TimerTimes, subject : TimerTimes, seq : Nat]

TypeOK ==
  /\ pending \subseteq QueuedEvents
  /\ timers \subseteq QueuedEvents
  /\ seq \in Nat
  /\ now \in Times \cup TimerTimes /\ target \in Times \cup TimerTimes
  /\ pc \in {"peek", "taking", "pop", "done", "stopped"}
  /\ table \in [Symbols -> Times]
  /\ latestTs \in [Symbols -> Times]
  /\ buffered \subseteq Snapshots
  /\ scan \in DOMAIN Watchlist
  /\ crossSection \in [Symbols -> Times]
  /\ held \in [Symbols -> Nat]
  /\ portfolio \in [Symbols -> Nat]

Init ==
  /\ EngineInit(0)
  /\ table = [s \in Symbols |-> 0]
  /\ latestTs = [s \in Symbols |-> 0]
  /\ buffered = {} /\ scan = 1
  /\ crossSection = [s \in Symbols |-> 0]
  /\ held = [s \in Symbols |-> 0]
  /\ portfolio = [s \in Symbols |-> 0]

(* The market-data service saves a snapshot; the upsert keeps the newer     *)
(* one (a snapshot of the same time replaces the row and changes no time).  *)
Publish(s, t) ==
  /\ t > table[s]
  /\ table' = [table EXCEPT ![s] = t]
  /\ UNCHANGED <<engine, feed, books>>

-----------------------------------------------------------------------------
(* RealtimeDataFeed *)

(* Mutant of IsNewer: a snapshot that was seen counts as new. *)
IsNotOlder(s) == table[s] > 0 /\ table[s] >= latestTs[s]

(* ts > seen, or nothing seen yet *)
IsNewer(s) == table[s] > latestTs[s]

(* Mutant of Poll: a symbol without a newer snapshot ends the round. *)
PollFirst ==
  /\ pc \in {"peek", "taking"} /\ buffered = {}
  /\ LET s == Watchlist[scan]
     IN  \/ /\ IsNewer(s)
            /\ buffered' = {[symbol |-> s, ts |-> table[s]]}
            /\ latestTs' = [latestTs EXCEPT ![s] = table[s]]
            /\ scan' = 1
         \/ /\ ~IsNewer(s)
            /\ scan' = 1
            /\ UNCHANGED <<buffered, latestTs>>
  /\ UNCHANGED <<engine, table, books>>

(* fill_buffer, one get_latest: the loop stops at the first newer snapshot, *)
(* and after the last symbol sleeps and starts again.                       *)
Poll ==
  /\ pc \in {"peek", "taking"} /\ buffered = {}
  /\ LET s == Watchlist[scan]
     IN  \/ /\ IsNewer(s)
            /\ buffered' = {[symbol |-> s, ts |-> table[s]]}
            /\ latestTs' = [latestTs EXCEPT ![s] = table[s]]
            /\ scan' = 1
         \/ /\ ~IsNewer(s)
            /\ scan' = IF scan = Len(Watchlist) THEN 1 ELSE scan + 1
            /\ UNCHANGED <<buffered, latestTs>>
  /\ UNCHANGED <<engine, table, books>>

(* peek_next_ts returns when something is buffered, not before. *)
Heads == {snap.ts : snap \in buffered}

PeekFeed ==
  /\ buffered # {}
  /\ Peek(Heads) \/ GroupTaken(Heads)
  /\ UNCHANGED <<table, feed, books>>

TakeSnapshot(snap) ==
  /\ snap \in buffered
  /\ Take("Snapshot", snap.ts, snap.symbol)
  /\ buffered' = {}
  /\ UNCHANGED <<table, latestTs, scan, books>>

-----------------------------------------------------------------------------
(* The strategy and the portfolio *)

(* What is held of a symbol while a snapshot fills n lots of it, one by one. *)
Paths(n) == {path \in [0..n -> 0..MaxHeld] :
               \A i \in 1..n : path[i] - path[i - 1] \in {1, -1}}

FillsOf(s, ts, n, path) ==
  [i \in 1..n |-> [symbol |-> s, ts |-> ts, lots |-> path[i] - path[i - 1]]]

(* on_snapshot of the pump: the handler fills orders of the symbol. *)
DispatchSnapshot(q, n, path) ==
  /\ q.kind = "Snapshot" /\ path[0] = held[q.subject]
  /\ Dispatch(q, FillsOf(q.subject, q.ts, n, path))
  /\ crossSection' = [crossSection EXCEPT ![q.subject] = q.ts]
  /\ held' = [held EXCEPT ![q.subject] = path[n]]
  /\ UNCHANGED <<table, feed, portfolio>>

(* InMemoryPortfolio::apply_fill: a sale without a position changes none. *)
DispatchFill(q) ==
  /\ q.kind = "Fill"
  /\ Dispatch(q, <<>>)
  /\ portfolio' = [portfolio EXCEPT ![q.subject.symbol] =
                     IF @ + q.subject.lots < 0 THEN 0 ELSE @ + q.subject.lots]
  /\ UNCHANGED <<table, feed, crossSection, held>>

DispatchTimer(q) ==
  /\ q.kind = "Timer"
  /\ Dispatch(q, <<>>)
  /\ UNCHANGED <<table, feed, books>>

(* A query of the feed fails. *)
PollFails ==
  /\ MayFail
  /\ Stop
  /\ UNCHANGED <<table, feed, books>>

(* The handler fails to save a fill or to submit a hard exit: what it had   *)
(* filled before is booked in the account, and in no portfolio.             *)
SnapshotFails(q, n, path) ==
  /\ MayFail
  /\ q.kind = "Snapshot" /\ path[0] = held[q.subject]
  /\ Abort(q)
  /\ crossSection' = [crossSection EXCEPT ![q.subject] = q.ts]
  /\ held' = [held EXCEPT ![q.subject] = path[n]]
  /\ UNCHANGED <<table, feed, portfolio>>

EngineTask ==
  \/ Poll
  \/ PeekFeed
  \/ \E snap \in buffered : TakeSnapshot(snap)
  \/ \E q \in pending \cup timers :
       \/ \E n \in 0..MaxFills : \E path \in Paths(n) :
            DispatchSnapshot(q, n, path) \/ SnapshotFails(q, n, path)
       \/ DispatchFill(q)
       \/ DispatchTimer(q)

Next ==
  \/ \E s \in Symbols, t \in 1..MaxTs : Publish(s, t)
  \/ EngineTask
  \/ PollFails

Spec == Init /\ [][Next]_vars

(* tokio runs the engine task; nothing is assumed of the market. *)
FairSpec == Spec /\ WF_vars(EngineTask)

-----------------------------------------------------------------------------
(* Properties *)

Waiting(kind) == {q \in pending : q.kind = kind}

(***************************************************************************)
(* The snapshots of a symbol reach the pump in the order of their times    *)
(* and each at most once, although those of different symbols overtake     *)
(* each other: what the feed or the heap holds of a symbol is newer than   *)
(* what was dispatched of it, and the feed's is newer than the heap's.     *)
(***************************************************************************)
SnapshotsInOrder ==
  /\ \A q \in Waiting("Snapshot") : q.ts > crossSection[q.subject]
  /\ \A snap \in buffered :
       /\ snap.ts > crossSection[snap.symbol]
       /\ \A q \in Waiting("Snapshot") : q.subject = snap.symbol => q.ts < snap.ts

(***************************************************************************)
(* However far the feed runs ahead, at most one snapshot of each symbol    *)
(* waits in the heap: load_next_timestamp_group takes no event that is     *)
(* later than one it already has.                                          *)
(***************************************************************************)
OnePerSymbol ==
  \A q, r \in Waiting("Snapshot") : q.subject = r.subject => q = r

(***************************************************************************)
(* The inductive invariant of RealtimeEngine_proofs.                       *)
(***************************************************************************)
IInv ==
  /\ TypeOK
  /\ SnapshotsInOrder
  /\ OnePerSymbol
  /\ \A q \in timers : q.kind = "Timer"
  /\ \A s \in Symbols : crossSection[s] <= latestTs[s] /\ latestTs[s] <= table[s]
  /\ \A q \in Waiting("Snapshot") : q.ts <= latestTs[q.subject]
  /\ \A snap \in buffered : snap.ts = latestTs[snap.symbol]
  /\ pc = "taking" => \A q \in pending : q.ts >= target

(***************************************************************************)
(* InMemoryPortfolio follows the account through the fill channel: once no *)
(* fill is on its way it holds what the account holds, whatever order the  *)
(* fills of several snapshots were dispatched in, unless the loop has      *)
(* stopped at an error.                                                    *)
(***************************************************************************)
PortfolioFollows == pc # "stopped" /\ Waiting("Fill") = {} => portfolio = held

(***************************************************************************)
(* fill_buffer neglects no symbol for good: when the market-data service   *)
(* goes quiet the feed has taken the newest snapshot of every symbol,      *)
(* unless the loop has stopped.                                            *)
(***************************************************************************)
QuietMarketTaken ==
  <>[](pc = "stopped" \/ \A s \in Symbols : latestTs[s] = table[s])

(***************************************************************************)
(* What the design says of stop-losses, that they are triggered within     *)
(* seconds in the event loop: a snapshot the feed has taken is dispatched. *)
(***************************************************************************)
TakenIsDispatched ==
  \A s \in Symbols, t \in 1..MaxTs : latestTs[s] = t ~> crossSection[s] >= t

=============================================================================
