--------------------------- MODULE SnapshotPoller ---------------------------
(***************************************************************************)
(* realtime_poll of tg-market-data, and the edits of the watchlist it      *)
(* reads: a loop that asks the sidecar for the newest quotes of the        *)
(* watchlist and stores each in two places, a Parquet partition and the    *)
(* row of latest_snapshots that the trading engines read.  It shares the   *)
(* token bucket with the other tasks of the process.                       *)
(***************************************************************************)
EXTENDS TokenBucket, FiniteSets

CONSTANTS
  Symbols,
  Poller,         \* the task that polls
  MaxQuote,       \* bound: timestamps of quotes
  MaxAttempts,    \* retry.max_attempts
  RepoMayFail     \* whether a statement or a file operation can fail

ASSUME PollerAssumption ==
  /\ Poller \in Tasks
  /\ MaxQuote \in Nat /\ MaxAttempts \in Nat \ {0} /\ RepoMayFail \in BOOLEAN

Never == 0

VARIABLES
  instruments,    \* table instruments
  watchlist,      \* table watchlist
  pc,             \* where the poller is
  attempt,        \* attempts of the call that have failed
  asked,          \* symbols of the call
  quote,          \* the answer: a timestamp for each symbol
  toStore,        \* symbols whose partition is to be written
  toUpsert,       \* symbols whose row is to be written
  history,        \* the snapshot partitions, as sets of timestamps
  latest          \* latest_snapshots: the timestamp of the row, or Never

tables == <<instruments, watchlist>>
answer == <<asked, quote>>
writes == <<toStore, toUpsert>>
stored == <<history, latest>>
pvars  == <<tables, pc, attempt, answer, writes, stored>>
all    == <<vars, pvars>>

PollerTypeOK ==
  /\ watchlist \subseteq Symbols /\ instruments \subseteq Symbols
  /\ pc \in {"list", "acquire", "call", "write", "ended"}
  /\ attempt \in 0..(MaxAttempts - 1)
  /\ asked \subseteq Symbols /\ quote \in [Symbols -> 0..MaxQuote]
  /\ toStore \subseteq asked /\ toUpsert \subseteq asked
  /\ history \in [Symbols -> SUBSET (1..MaxQuote)]
  /\ latest \in [Symbols -> 0..MaxQuote]

PollerInit ==
  /\ Init
  /\ instruments \in SUBSET Symbols /\ watchlist = {}
  /\ pc = "list" /\ attempt = 0
  /\ asked = {} /\ quote = [s \in Symbols |-> Never]
  /\ toStore = {} /\ toUpsert = {}
  /\ history = [s \in Symbols |-> {}] /\ latest = [s \in Symbols |-> Never]

-----------------------------------------------------------------------------
(* Clients: update_watchlist inserts, then deletes, a statement each; the   *)
(* foreign key on instruments refuses an unknown symbol, which ends it.     *)
Watch(s) ==
  /\ s \in instruments
  /\ watchlist' = watchlist \cup {s}
  /\ UNCHANGED <<vars, instruments, pc, attempt, answer, writes, stored>>

Unwatch(s) ==
  /\ s \in watchlist
  /\ watchlist' = watchlist \ {s}
  /\ UNCHANGED <<vars, instruments, pc, attempt, answer, writes, stored>>

-----------------------------------------------------------------------------
(* The poller *)

(* Between two polls nothing of the last one is kept. *)
Sleep ==
  /\ pc' = "list" /\ attempt' = 0
  /\ asked' = {} /\ quote' = [s \in Symbols |-> Never]
  /\ toStore' = {} /\ toUpsert' = {}

(* list_watchlist, after the interval; its error ends the poller, and main  *)
(* with it.  Nobody is asked about an empty watchlist.                      *)
List ==
  /\ pc = "list"
  /\ \/ /\ watchlist # {}
        /\ pc' = "acquire" /\ asked' = watchlist
     \/ /\ RepoMayFail
        /\ pc' = "ended" /\ UNCHANGED asked
  /\ UNCHANGED <<vars, tables, attempt, quote, writes, stored>>

(* call_sidecar: the limiter first. *)
Admit ==
  /\ pc = "acquire"
  /\ Acquire(Poller)
  /\ pc' = IF granted' > granted THEN "call" ELSE pc
  /\ UNCHANGED <<tables, attempt, answer, writes, stored>>

(* The quotes may be ones the poller has seen, or older ones. *)
Answered ==
  /\ pc = "call"
  /\ \E q \in [asked -> 1..MaxQuote] :
       quote' = [s \in Symbols |-> IF s \in asked THEN q[s] ELSE Never]
  /\ pc' = "write" /\ attempt' = 0
  /\ toStore' = asked /\ UNCHANGED <<asked, toUpsert>>
  /\ UNCHANGED <<vars, tables, stored>>

(* The error of the last attempt is only logged. *)
Refused ==
  /\ pc = "call"
  /\ IF attempt + 1 < MaxAttempts
       THEN pc' = "acquire" /\ attempt' = attempt + 1 /\ UNCHANGED <<answer, writes>>
       ELSE Sleep
  /\ UNCHANGED <<vars, tables, stored>>

(* Mutant of StorePartition: the row may be written first. *)
StorePartitionLater(s) ==
  /\ pc = "write" /\ s \in toStore
  /\ toStore' = toStore \ {s}
  /\ toUpsert' = toUpsert \cup {s}
  /\ UNCHANGED <<vars, tables, pc, attempt, answer, stored>>

(* write_snapshot, first half: the partition is read, merged and renamed.   *)
(* Its error skips the second half; other symbols go on (join_all).         *)
StorePartition(s) ==
  /\ pc = "write" /\ s \in toStore
  /\ toStore' = toStore \ {s}
  /\ \/ /\ history' = [history EXCEPT ![s] = @ \cup {quote[s]}]
        /\ toUpsert' = toUpsert \cup {s}
     \/ RepoMayFail /\ UNCHANGED <<history, toUpsert>>
  /\ UNCHANGED <<vars, tables, pc, attempt, answer, latest>>

(* Second half: upsert_latest_snapshot, WHERE ts <= EXCLUDED.ts. *)
UpsertLatest(s) ==
  /\ pc = "write" /\ s \in toUpsert
  /\ toUpsert' = toUpsert \ {s}
  /\ \/ latest' = [latest EXCEPT ![s] = IF @ <= quote[s] THEN quote[s] ELSE @]
     \/ RepoMayFail /\ UNCHANGED latest
  /\ UNCHANGED <<vars, tables, pc, attempt, answer, toStore, history>>

EndPoll ==
  /\ pc = "write" /\ toStore = {} /\ toUpsert = {}
  /\ Sleep
  /\ UNCHANGED <<vars, tables, stored>>

(* The process ends at any point, or after the poller, and starts again:   *)
(* the tables and the files are what is left.                              *)
Restart ==
  /\ pc # "list"
  /\ Sleep
  /\ tokens' = Capacity /\ idle' = 0 /\ asleep' = [t \in Tasks |-> 0]
  /\ granted' = 0 /\ elapsed' = 0
  /\ UNCHANGED <<tables, stored>>

Poll ==
  \/ List \/ Admit \/ Answered \/ Refused \/ EndPoll \/ Restart
  \/ \E s \in Symbols : StorePartition(s) \/ UpsertLatest(s)

PollerNext ==
  \/ Poll
  \/ \E s \in Symbols : Watch(s) \/ Unwatch(s)
  \/ UNCHANGED pvars /\ ((\E t \in Tasks \ {Poller} : Acquire(t)) \/ Tick \/ OpenWindow)

PollerSpec == PollerInit /\ [][PollerNext]_all

-----------------------------------------------------------------------------
(***************************************************************************)
(* The row of latest_snapshots is one of the snapshots stored, and never   *)
(* an older one than before, although the two are written one after the    *)
(* other, either may fail, the sidecar may answer with an old quote and    *)
(* the process may end in between (write_snapshot, upsert_latest_snapshot).*)
(***************************************************************************)
LatestForward ==
  [][\A s \in Symbols :
       /\ latest'[s] >= latest[s]
       /\ latest'[s] \in history'[s] \cup {Never}]_all

=============================================================================
