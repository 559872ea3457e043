----------------------------- MODULE MarketSync -----------------------------
(***************************************************************************)
(* The market-data process (tg-market-data): full and incremental syncs    *)
(* run as tasks, each a loop over symbols and periods that asks the        *)
(* sidecar, writes Parquet partitions and keeps a fetch state; clients     *)
(* trigger jobs.  The tasks share the sidecar's permits and the tables,    *)
(* with no other lock.  The poller and the clients' edits of the watchlist *)
(* are SnapshotPoller; here the watchlist is the one of the startup, and   *)
(* the poller is somebody who takes permits and may end the process.       *)
(*                                                                         *)
(* A partition (symbol, period, year) is the function from timestamps to   *)
(* the bars stored; KeepFirst is what parquet_io.rs does to the sequence   *)
(* (theorem QueriesKeptFirst, of PartitionStore).  Days are the            *)
(* timestamps: the sidecar's bar of the running day is "open", and         *)
(* "closed" once the day is over.                                          *)
(***************************************************************************)
EXTENDS Partitions, FiniteSets, Functions

CONSTANTS
  SymbolOrder,    \* symbols, in the order of ORDER BY symbol
  Periods,        \* the periods a sync goes through, in its order
  Configured,     \* watchlist.yaml: symbols, in its order
  Seeded,         \* instruments the database has at first
  Requests,       \* the symbols a client asks a full sync for, a sequence each
  Jobs,           \* bound: the sync jobs that clients trigger
  MaxAttempts,    \* retry.max_attempts
  Burst,          \* rate_limit.burst
  MaxDay,         \* bound: days that pass
  YearOf(_),      \* the year of a day
  Suspended,      \* <<symbol, day>> for which the sidecar has no bar
  MaxExits,       \* bound: how often the process ends
  RepoMayFail     \* whether a statement or a file operation can fail

Symbols   == Range(SymbolOrder)
PeriodSet == Range(Periods)
Days      == 1..MaxDay
Keys      == Symbols \X PeriodSet
None      == 0       \* Option::None of a timestamp

VARIABLES
  up,             \* the process has passed its startup
  exits,          \* how often it ended
  day,            \* today
  until,          \* history_end, set when the process starts
  permits,        \* what the rate limiter has left
  task,           \* the spawned tasks
  jobs,           \* SyncEngine.jobs
  instruments,    \* table instruments
  watchlist,      \* table watchlist
  calendar,       \* table trading_calendar
  factors,        \* symbols of table adjustment_factors
  fetch,          \* table fetch_state
  files,          \* the partitions, those of a key in one function
  raced           \* history: partitions two writers have replaced at once

process   == <<up, exits, until>>
reference == <<instruments, calendar, factors>>
bars      == <<fetch, files, raced>>
vars      == <<process, day, permits, task, jobs, watchlist, reference, bars>>

Pool == INSTANCE PermitPool

Nothing == [x \in {} |-> x]

ASSUME SyncAssumption ==
  /\ SymbolOrder \in Seq(Symbols) /\ Periods \in Seq(PeriodSet) /\ Periods # <<>>
  /\ Configured \in Seq(Symbols) /\ Seeded \subseteq Symbols
  /\ \A wanted \in Requests : wanted \in Seq(Symbols)
  /\ MaxAttempts \in Nat \ {0} /\ Burst \in Nat /\ MaxDay \in Nat \ {0}
  /\ MaxExits \in Nat

(* A task: what it is for, where it is, and the locals of its functions.   *)
Idle == [pc |-> "off", kind |-> "full", id |-> 0, ok |-> TRUE, todo |-> <<>>,
         covers |-> {}, from |-> 1, to |-> 1, p |-> 1, attempt |-> 0,
         got |-> Nothing, base |-> Nothing, years |-> {}, year |-> 0, asof |-> 1]

CallPcs == {"stocks", "etfs", "calendar", "factors", "bars"}

SavePcs == {"upsert", "resolve", "save calendar", "save factors", "mark", "read",
            "rename", "idle", "failed", "finish"}

Live(t) == t.pc \notin {"off", "done"}

Bar  == {"open", "closed"}
Bars == UNION {[known -> Bar] : known \in SUBSET Days}

Years     == {YearOf(d) : d \in Days}
Partition == Symbols \X PeriodSet \X Years

Tasks ==
  [pc : CallPcs \cup SavePcs \cup {"off", "done"}, kind : {"full", "incremental"},
   id : Nat, ok : BOOLEAN, todo : Seq(Symbols), covers : SUBSET Symbols,
   from : Days, to : 0..(MaxDay + 1), p : 1..Len(Periods), attempt : 0..(MaxAttempts - 1),
   got : Bars, base : Bars, years : SUBSET Years, year : Years \cup {0}, asof : Days]

TypeOK ==
  /\ up \in BOOLEAN /\ exits \in 0..MaxExits /\ day \in Days /\ until \in 0..(MaxDay + 1)
  /\ permits \in 0..Burst
  /\ task \in [Jobs -> Tasks]
  /\ IsFiniteSet(DOMAIN jobs) /\ DOMAIN jobs \subseteq Nat
  /\ jobs \in [DOMAIN jobs -> {"running", "completed", "failed"}]
  /\ instruments \subseteq Symbols /\ watchlist \subseteq Symbols
  /\ calendar \subseteq 1..(MaxDay + 1) /\ factors \subseteq Symbols
  /\ fetch \in [Keys -> [status : {"none", "idle", "running", "failed"}, last : 0..MaxDay]]
  /\ files \in [Keys -> Bars]
  /\ raced \subseteq Partition

Init ==
  /\ up = FALSE /\ exits = 0 /\ day = 1 /\ until = 0
  /\ permits = Burst
  /\ task = [j \in Jobs |-> Idle]
  /\ jobs = Nothing
  /\ instruments = Seeded /\ watchlist = {} /\ calendar = {} /\ factors = {}
  /\ fetch = [k \in Keys |-> [status |-> "none", last |-> None]]
  /\ files = [k \in Keys |-> Nothing] /\ raced = {}

-----------------------------------------------------------------------------
(* The process *)

(* Symbols of a sequence before the first one the foreign key refuses.  *)
Accepted(seq) ==
  {seq[i] : i \in {n \in 1..Len(seq) : \A m \in 1..n : seq[m] \in instruments}}

(* main: apply_watchlist_config, then the poller and the server.  An error  *)
(* ends the process; what was inserted before it stays.                     *)
Start ==
  /\ ~up
  /\ watchlist' = watchlist \cup Accepted(Configured)
  /\ up' = (Accepted(Configured) = Range(Configured))
  /\ until' = day + 1
  /\ permits' = Burst
  /\ UNCHANGED <<exits, day, task, jobs, reference, bars>>

(* Tasks and the table of jobs end with the process.  The files a task was  *)
(* about to rename are never seen again.                                    *)
Exit ==
  /\ up /\ exits < MaxExits
  /\ up' = FALSE
  /\ exits' = exits + 1
  /\ jobs' = Nothing
  /\ task' = [j \in Jobs |-> IF Live(task[j]) THEN [Idle EXCEPT !.pc = "done", !.ok = FALSE]
                             ELSE task[j]]
  /\ UNCHANGED <<until, day, permits, watchlist, reference, bars>>

NextDay ==
  /\ day < MaxDay
  /\ day' = day + 1
  /\ UNCHANGED <<process, permits, task, jobs, watchlist, reference, bars>>

(* The rate limiter hands out permits as time goes by, and the poller takes *)
(* some of them.                                                            *)
Refill ==
  /\ Pool!Refill
  /\ UNCHANGED <<process, day, task, jobs, watchlist, reference, bars>>

PollerTakes ==
  /\ up /\ Pool!Take
  /\ UNCHANGED <<process, day, task, jobs, watchlist, reference, bars>>

-----------------------------------------------------------------------------
(* Jobs *)

(* create_job: the id is the current millisecond, a new one or that of the  *)
(* job triggered just before, which may be over already.                    *)
JobIds == {Cardinality(DOMAIN jobs), Cardinality(DOMAIN jobs) + 1} \ {0}

(* trigger_full_sync, trigger_incremental_sync: the record, then the task. *)
Trigger(j, kind, wanted) ==
  /\ up /\ task[j].pc = "off"
  /\ \E id \in JobIds :
       /\ jobs' = [i \in DOMAIN jobs \cup {id} |-> IF i = id THEN "running" ELSE jobs[i]]
       /\ task' = [task EXCEPT ![j] =
                     [Idle EXCEPT !.pc = "stocks", !.kind = kind, !.id = id, !.todo = wanted]]
  /\ UNCHANGED <<process, day, permits, watchlist, reference, bars>>

Goes(j, pc) == task' = [task EXCEPT ![j].pc = pc]

(* Mutant of Fails: the error leaves the task before finish_job. *)
FailsUnseen(j) ==
  task' = [task EXCEPT ![j] = [Idle EXCEPT !.pc = "done", !.id = task[j].id, !.ok = FALSE]]

(* The error leaves the function, and its locals are gone. *)
Fails(j) ==
  task' = [task EXCEPT ![j] = [Idle EXCEPT !.pc = "finish", !.id = task[j].id, !.ok = FALSE]]

(* finish_job *)
Finish(j) ==
  /\ task[j].pc = "finish"
  /\ jobs' = [jobs EXCEPT ![task[j].id] = IF task[j].ok THEN "completed" ELSE "failed"]
  /\ Goes(j, "done")
  /\ UNCHANGED <<process, day, permits, watchlist, reference, bars>>

-----------------------------------------------------------------------------
(* call_sidecar *)

Available(s, from, to) == {d \in from..to : d <= day /\ <<s, d>> \notin Suspended}

Answer(s, from, to) ==
  [d \in Available(s, from, to) |-> IF d = day THEN "open" ELSE "closed"]

AfterCall(pc) ==
  CASE pc = "stocks" -> "etfs"
    [] pc = "etfs" -> "upsert"
    [] pc = "calendar" -> "save calendar"
    [] pc = "factors" -> "save factors"
    [] pc = "bars" -> "read"

(* Mutant of Ask: every error is tried again. *)
AskForever(j) ==
  LET t == task[j]
  IN  /\ t.pc \in CallPcs
      /\ Pool!Take
      /\ \/ task' = [task EXCEPT ![j].pc = AfterCall(t.pc), ![j].attempt = 0,
                       ![j].got = IF t.pc = "bars" THEN Answer(Head(t.todo), t.from, t.to)
                                  ELSE Nothing,
                       ![j].years = IF t.pc = "bars"
                                    THEN {YearOf(d) : d \in Available(Head(t.todo), t.from, t.to)}
                                    ELSE {}]
         \/ UNCHANGED task
      /\ UNCHANGED <<process, day, jobs, watchlist, reference, bars>>

(* A permit, a request and its answer.  After an error the task sleeps and  *)
(* tries again; the last error is the call's, which a full sync reports in  *)
(* the fetch state when it asked for bars.                                  *)
Ask(j) ==
  LET t == task[j]
  IN  /\ t.pc \in CallPcs
      /\ Pool!Take
      /\ \/ task' = [task EXCEPT ![j].pc = AfterCall(t.pc), ![j].attempt = 0,
                       ![j].got = IF t.pc = "bars" THEN Answer(Head(t.todo), t.from, t.to)
                                  ELSE Nothing,
                       ![j].years = IF t.pc = "bars"
                                    THEN {YearOf(d) : d \in Available(Head(t.todo), t.from, t.to)}
                                    ELSE {}]
         \/ /\ t.attempt + 1 < MaxAttempts
            /\ task' = [task EXCEPT ![j].attempt = @ + 1]
         \/ /\ t.attempt + 1 = MaxAttempts
            /\ IF t.pc = "bars" /\ t.kind = "full" THEN Goes(j, "failed") ELSE Fails(j)
      /\ UNCHANGED <<process, day, jobs, watchlist, reference, bars>>

-----------------------------------------------------------------------------
(* full_sync and incremental_sync, between the calls *)

(* sync_instruments: one statement after the other. *)
UpsertInstruments(j) ==
  /\ task[j].pc = "upsert"
  /\ \/ instruments' = Symbols /\ Goes(j, "resolve")
     \/ /\ RepoMayFail /\ Fails(j)
        /\ \E some \in SUBSET Symbols : instruments' = instruments \cup some
  /\ UNCHANGED <<process, day, permits, jobs, watchlist, calendar, factors, bars>>

(* ORDER BY symbol *)
Place(s) == CHOOSE n \in 1..Len(SymbolOrder) : SymbolOrder[n] = s

Ordered(set) ==
  CHOOSE seq \in [1..Cardinality(set) -> set] :
    \A m, n \in 1..Cardinality(set) : m < n => Place(seq[m]) < Place(seq[n])

(* resolve_symbols, or list_watchlist; and the range of days. *)
Resolve(j) ==
  LET t    == task[j]
      todo == IF t.kind = "full" /\ t.todo # <<>> THEN t.todo ELSE Ordered(watchlist)
  IN  /\ t.pc = "resolve"
      /\ \/ task' = [task EXCEPT ![j].pc = "calendar", ![j].todo = todo,
                       ![j].covers = Range(todo), ![j].asof = day,
                       ![j].from = IF t.kind = "full" THEN 1 ELSE day,
                       ![j].to = IF t.kind = "full" THEN until ELSE day]
         \/ RepoMayFail /\ Fails(j)
      /\ UNCHANGED <<process, day, permits, jobs, watchlist, reference, bars>>

(* Where the loop over the symbols goes on. *)
NextSymbol(todo) == IF todo = <<>> THEN "finish" ELSE "factors"

SaveCalendar(j) ==
  LET t == task[j]
  IN  /\ t.pc = "save calendar"
      /\ \/ calendar' = calendar \cup (t.from..t.to) /\ Goes(j, NextSymbol(t.todo))
         \/ RepoMayFail /\ Fails(j) /\ UNCHANGED calendar
      /\ UNCHANGED <<process, day, permits, jobs, watchlist, instruments, factors, bars>>

SaveFactors(j) ==
  LET t == task[j]
  IN  /\ t.pc = "save factors"
      /\ \/ factors' = factors \cup {Head(t.todo)} /\ Goes(j, "mark")
         \/ RepoMayFail /\ Fails(j) /\ UNCHANGED factors
      /\ UNCHANGED <<process, day, permits, jobs, watchlist, instruments, calendar, bars>>

KeyOf(t) == <<Head(t.todo), Periods[t.p]>>

(* upsert_fetch_state *)
Mark(t, status, last) == fetch' = [fetch EXCEPT ![KeyOf(t)] = [status |-> status, last |-> last]]

MarkRunning(j) ==
  LET t == task[j]
  IN  /\ t.pc = "mark"
      /\ \/ Mark(t, "running", None) /\ Goes(j, "bars")
         \/ RepoMayFail /\ Fails(j) /\ UNCHANGED fetch
      /\ UNCHANGED <<process, day, permits, jobs, watchlist, reference, files, raced>>

MarkFailed(j) ==
  LET t == task[j]
  IN  /\ t.pc = "failed"
      /\ \/ Mark(t, "failed", None)
         \/ RepoMayFail /\ UNCHANGED fetch
      /\ Fails(j)
      /\ UNCHANGED <<process, day, permits, jobs, watchlist, reference, files, raced>>

NewestOf(bs) == IF DOMAIN bs = {} THEN None ELSE CHOOSE d \in DOMAIN bs : \A e \in DOMAIN bs : e <= d

(* mark_idle with the newest bar of the answer; then the next period, or   *)
(* the next symbol.                                                        *)
MarkIdle(j) ==
  LET t    == task[j]
      rest == Tail(t.todo)
  IN  /\ t.pc = "idle"
      /\ \/ /\ Mark(t, "idle", NewestOf(t.got))
            /\ task' = [task EXCEPT
                 ![j].pc = IF t.p < Len(Periods) THEN "mark" ELSE NextSymbol(rest),
                 ![j].todo = IF t.p < Len(Periods) THEN @ ELSE rest,
                 ![j].p = IF t.p < Len(Periods) THEN @ + 1 ELSE 1,
                 ![j].got = Nothing]
         \/ RepoMayFail /\ Fails(j) /\ UNCHANGED fetch
      /\ UNCHANGED <<process, day, permits, jobs, watchlist, reference, files, raced>>

-----------------------------------------------------------------------------
(* write_bars: one partition after the other, in any order *)

OfYear(bs, y) == Restrict(bs, {d \in DOMAIN bs : YearOf(d) = y})

(* read_bar_partition *)
ReadPartition(j) ==
  LET t == task[j]
  IN  /\ t.pc = "read"
      /\ \/ /\ t.years = {}
            /\ Goes(j, "idle")
         \/ \E y \in t.years :
              task' = [task EXCEPT ![j].pc = "rename", ![j].year = y,
                         ![j].base = OfYear(files[KeyOf(t)], y)]
         \/ RepoMayFail /\ Fails(j)
      /\ UNCHANGED <<process, day, permits, jobs, watchlist, reference, bars>>

(* Mutant of RenamePartition: only the bars of this answer are written. *)
RenamePartitionAlone(j) ==
  LET t    == task[j]
      key  == KeyOf(t)
      rest == Restrict(files[key], {d \in DOMAIN files[key] : YearOf(d) # t.year})
  IN  /\ t.pc = "rename"
      /\ files' = [files EXCEPT ![key] = KeepFirst(rest, OfYear(t.got, t.year))]
      /\ task' = [task EXCEPT ![j].pc = "read", ![j].years = @ \ {t.year}, ![j].base = Nothing]
      /\ UNCHANGED <<process, day, permits, jobs, watchlist, reference, fetch, raced>>

(* write_batch_atomic: the partition is replaced by what was read and the   *)
(* new bars, whatever it has become since it was read.                      *)
RenamePartition(j) ==
  LET t    == task[j]
      key  == KeyOf(t)
      rest == Restrict(files[key], {d \in DOMAIN files[key] : YearOf(d) # t.year})
      new  == KeepFirst(t.base, OfYear(t.got, t.year))
  IN  /\ t.pc = "rename"
      /\ \/ /\ files' = [files EXCEPT ![key] = KeepFirst(rest, new)]
            /\ raced' = raced \cup {q \in {<<key[1], key[2], t.year>>} :
                                      OfYear(files[key], t.year) # t.base}
            /\ task' = [task EXCEPT ![j].pc = "read", ![j].years = @ \ {t.year},
                                    ![j].base = Nothing]
         \/ RepoMayFail /\ Fails(j) /\ UNCHANGED <<files, raced>>
      /\ UNCHANGED <<process, day, permits, jobs, watchlist, reference, fetch>>

-----------------------------------------------------------------------------
Step(j) ==
  \/ Ask(j) \/ UpsertInstruments(j) \/ Resolve(j) \/ SaveCalendar(j) \/ SaveFactors(j)
  \/ MarkRunning(j) \/ MarkFailed(j) \/ MarkIdle(j)
  \/ ReadPartition(j) \/ RenamePartition(j) \/ Finish(j)

Client ==
  \/ \E j \in Jobs : Trigger(j, "incremental", <<>>)
  \/ \E j \in Jobs, wanted \in Requests : Trigger(j, "full", wanted)

Next ==
  \/ Start \/ Exit \/ NextDay \/ Refill \/ PollerTakes
  \/ Client
  \/ \E j \in Jobs : Step(j)

(* Spawned tasks are polled to their end, and time hands out permits.  A   *)
(* task that sleeps for a permit again and again gets one in the end: the  *)
(* poller asks for one every few seconds, the limiter has two each second. *)
Fairness ==
  /\ WF_vars(Refill)
  /\ \A j \in Jobs : SF_vars(Step(j))

Spec == Init /\ [][Next]_vars

FairSpec == Spec /\ Fairness

-----------------------------------------------------------------------------
(* Properties *)

(***************************************************************************)
(* A job that completed has stored every bar the sidecar had of its        *)
(* symbols, for its days, through any retry, for every period and year -   *)
(* and no later job takes one away, unless two writers replaced the same   *)
(* partition at once (full_sync, incremental_sync, write_bars_sync).       *)
(***************************************************************************)
CompletedIsStored ==
  \A j \in Jobs :
    task[j].pc = "done" /\ task[j].ok =>
      \A s \in task[j].covers, p \in PeriodSet :
        \A d \in task[j].from..task[j].to :
          (d <= task[j].asof /\ <<s, d>> \notin Suspended
             /\ <<s, p, YearOf(d)>> \notin raced) =>
            d \in DOMAIN files[<<s, p>>]

(***************************************************************************)
(* What the table says of a job, two of which may share an id, is true of  *)
(* one of them: while it says running one is, and an end it tells of is    *)
(* that of a task of this id (create_job, finish_job).                     *)
(***************************************************************************)
JobsTellTheTruth ==
  \A id \in DOMAIN jobs :
    \E j \in Jobs :
      /\ task[j].id = id
      /\ CASE jobs[id] = "running"   -> Live(task[j])
           [] jobs[id] = "completed" -> task[j].pc = "done" /\ task[j].ok
           [] jobs[id] = "failed"    -> task[j].pc = "done" /\ ~task[j].ok

(***************************************************************************)
(* The inductive invariant behind CompletedIsStored (MarketSync_proofs):   *)
(* how far a task's own loops over symbols, periods and years have come    *)
(* says which bars are stored, whatever the other tasks did meanwhile.     *)
(***************************************************************************)
KeptBars ==
  {b \in Symbols \X PeriodSet \X Days :
     b[3] \in DOMAIN files[<<b[1], b[2]>>] \/ <<b[1], b[2], YearOf(b[3])>> \in raced}

(* The sidecar had a bar of the symbol when the task chose its days. *)
Had(t, s, d) == d <= t.asof /\ <<s, d>> \notin Suspended

StoredFor(t, s, p, kept) == \A d \in t.from..t.to : Had(t, s, d) => <<s, p, d>> \in kept

SymbolsDone(t, kept) ==
  \A s \in t.covers \ Range(t.todo), p \in PeriodSet : StoredFor(t, s, p, kept)

PeriodsDone(t, kept) ==
  \A q \in 1..(t.p - 1) : StoredFor(t, Head(t.todo), Periods[q], kept)

YearsDone(t, kept) ==
  t.pc \in {"read", "rename", "idle"} =>
    /\ t.pc = "idle" => t.years = {}
    /\ t.pc = "rename" => t.year \in t.years
    /\ \A d \in t.from..t.to :
         Had(t, Head(t.todo), d) =>
           /\ d \in DOMAIN t.got
           /\ YearOf(d) \in t.years \/ <<Head(t.todo), Periods[t.p], d>> \in kept

(* Which locals are in use where. *)
LocalsInUse(t) ==
  /\ t.pc \in {"factors", "save factors", "mark", "bars", "read", "rename", "idle",
               "failed"} => t.todo # <<>>
  /\ t.pc \notin {"mark", "bars", "read", "rename", "idle", "failed"} => t.p = 1
  /\ t.pc \in {"finish", "done"} /\ t.ok => t.todo = <<>>
  /\ t.pc \in {"off", "stocks", "etfs", "upsert", "resolve"} => t.covers = {}

Progress(t, kept) ==
  LocalsInUse(t) /\ SymbolsDone(t, kept) /\ PeriodsDone(t, kept) /\ YearsDone(t, kept)

IInv ==
  /\ TypeOK
  /\ \A j \in Jobs : Progress(task[j], KeptBars) /\ task[j].asof <= day

(***************************************************************************)
(* Every job comes to an end, whatever the sidecar and the database answer *)
(* and although the poller takes permits all the time: as no task is run   *)
(* twice, a moment comes again and again when none is running              *)
(* (call_sidecar's bounded retry, finish_job).                             *)
(***************************************************************************)
JobsEnd == []<>(\A j \in Jobs : ~Live(task[j]))

(***************************************************************************)
(* What docs/.../phase0 say of a failed fetch, that the state is marked    *)
(* failed: a state that says running is one some task is working on.       *)
(***************************************************************************)
RunningIsWorking ==
  exits = 0 =>
    \A k \in Keys :
      fetch[k].status = "running" =>
        \E j \in Jobs : Live(task[j]) /\ task[j].todo # <<>> /\ KeyOf(task[j]) = k

=============================================================================
