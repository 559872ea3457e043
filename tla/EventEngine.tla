---------------------------- MODULE EventEngine ----------------------------
(***************************************************************************)
(* The event loop of tg-engine (Engine in engine.rs), which paper trading  *)
(* and backtests share.  One task takes events from a feed, keeps them     *)
(* with timers and fills in a heap, and hands them to the strategies one   *)
(* by one.  Every operator below is a step of that task; a module that     *)
(* extends this one adds the feed, the strategy and the portfolio.         *)
(***************************************************************************)
EXTENDS Integers, Sequences, FiniteSets

CONSTANTS
  TimerTimes,   \* when the timers scheduled before run() are due
  Capacity      \* fills the broadcast channel keeps for a receiver

VARIABLES
  pending,      \* pending_events, a heap of queued events
  timers,       \* timer_queue, another
  seq,          \* the number of the last event queued
  now,          \* current_time
  target,       \* next_ts of load_next_timestamp_group
  pc            \* where the task is

engine == <<pending, timers, seq, now, target, pc>>

Priority == [Fill |-> 0, Bar |-> 1, Snapshot |-> 2, Timer |-> 3]

Queued(kind, ts, subject, n) == [kind |-> kind, ts |-> ts, subject |-> subject, seq |-> n]

ASSUME EngineAssumption ==
  /\ TimerTimes \subseteq Nat /\ IsFiniteSet(TimerTimes)
  /\ Capacity \in Nat \ {0}

EngineInit(start) ==
  /\ pending = {}
  /\ timers = {Queued("Timer", t, t, Cardinality({u \in TimerTimes : u <= t})) : t \in TimerTimes}
  /\ seq = Cardinality(TimerTimes)
  /\ now = start /\ target = start
  /\ pc = "peek"

(* Mutant of Before: the numbers are compared the wrong way round. *)
BeforeNewest(a, b) ==
  \/ a.ts < b.ts
  \/ /\ a.ts = b.ts
     /\ \/ Priority[a.kind] < Priority[b.kind]
        \/ Priority[a.kind] = Priority[b.kind] /\ a.seq > b.seq

(* QueuedEvent::cmp: the heap gives the earliest event first, fills before  *)
(* bars before snapshots before timers, then in order of queuing.           *)
Before(a, b) ==
  \/ a.ts < b.ts
  \/ /\ a.ts = b.ts
     /\ \/ Priority[a.kind] < Priority[b.kind]
        \/ Priority[a.kind] = Priority[b.kind] /\ a.seq < b.seq

-----------------------------------------------------------------------------
(* load_next_timestamp_group.  The feed's next time is in heads, which is   *)
(* empty for a feed that has ended.                                         *)

(* Mutant of Peek: the feed's next event is taken, however late it is. *)
PeekGreedy(heads) ==
  /\ pc = "peek"
  /\ target' \in heads
  /\ pc' = "taking"
  /\ UNCHANGED <<pending, timers, seq, now>>

(* Mutant of Peek: the loop ends with the feed, whatever is still queued. *)
PeekEnds(heads) ==
  /\ pc = "peek"
  /\ \/ heads = {} /\ pc' = "done" /\ UNCHANGED <<pending, timers, target>>
     \/ \E next \in heads \cup {q.ts : q \in pending \cup timers} :
          /\ heads # {} /\ \A t \in heads \cup {q.ts : q \in pending \cup timers} : next <= t
          /\ target' = next
          /\ pending' = pending \cup {q \in timers : q.ts = next}
          /\ timers' = {q \in timers : q.ts # next}
          /\ pc' = IF next \in heads THEN "taking" ELSE "pop"
  /\ UNCHANGED <<seq, now>>

(* The next timestamp of feed, heap and timers; its timers are moved. *)
Peek(heads) ==
  /\ pc = "peek"
  /\ LET times == heads \cup {q.ts : q \in pending \cup timers}
     IN  \/ /\ times = {} /\ pc' = "done"
            /\ UNCHANGED <<pending, timers, target>>
         \/ \E next \in times :
              /\ \A t \in times : next <= t
              /\ target' = next
              /\ pending' = pending \cup {q \in timers : q.ts = next}
              /\ timers' = {q \in timers : q.ts # next}
              /\ pc' = IF next \in heads THEN "taking" ELSE "pop"
  /\ UNCHANGED <<seq, now>>

(* next_event and push_pending, as long as the feed stays at the timestamp *)
Take(kind, ts, subject) ==
  /\ pc = "taking" /\ ts = target
  /\ seq' = seq + 1
  /\ pending' = pending \cup {Queued(kind, ts, subject, seq + 1)}
  /\ UNCHANGED <<timers, now, target, pc>>

(* The feed is past the timestamp: back to the top of the loop. *)
GroupTaken(heads) ==
  /\ pc = "taking" /\ target \notin heads
  /\ pc' = "peek"
  /\ UNCHANGED <<pending, timers, seq, now, target>>

-----------------------------------------------------------------------------
(* What drain_fills receives of the fills sent during a dispatch: a lagging *)
(* receiver misses the oldest ones.                                         *)
Received(fills) ==
  IF Len(fills) <= Capacity THEN fills
  ELSE SubSeq(fills, Len(fills) - Capacity + 1, Len(fills))

(* pick_next_event after the group is loaded, dispatch, drain_fills and     *)
(* drain_due_timers: q is dispatched, and the executor sends the fills.     *)
Dispatch(q, fills) ==
  /\ pc = "pop"
  /\ LET heap     == pending \cup {t \in timers : t.ts <= now}
         received == Received(fills)
     IN  /\ q \in heap /\ \A r \in heap \ {q} : Before(q, r)
         /\ now' = q.ts
         /\ pending' = (heap \ {q})
              \cup {Queued("Fill", received[i].ts, received[i], seq + i) : i \in DOMAIN received}
              \cup {t \in timers \ {q} : t.ts <= q.ts}
         /\ timers' = {t \in timers : t.ts > now /\ t.ts > q.ts}
         /\ seq' = seq + Len(received)
  /\ pc' = "peek"
  /\ UNCHANGED target

(* The same step in two, for a strategy whose calls are steps of their own: *)
(* q is taken from the heap and dispatched ...                              *)
Begin(q) ==
  /\ pc = "pop"
  /\ LET heap == pending \cup {t \in timers : t.ts <= now}
     IN  /\ q \in heap /\ \A r \in heap \ {q} : Before(q, r)
         /\ now' = q.ts
         /\ pending' = heap \ {q}
         /\ timers' = {t \in timers : t.ts > now}
  /\ pc' = "handling"
  /\ UNCHANGED <<seq, target>>

(* ... and when the strategies are done, drain_fills and drain_due_timers. *)
Finish(fills) ==
  /\ pc = "handling"
  /\ LET received == Received(fills)
     IN  /\ pending' = pending
              \cup {Queued("Fill", received[i].ts, received[i], seq + i) : i \in DOMAIN received}
              \cup {t \in timers : t.ts <= now}
         /\ seq' = seq + Len(received)
  /\ timers' = {t \in timers : t.ts > now}
  /\ pc' = "peek"
  /\ UNCHANGED <<now, target>>

(* An error of the feed ends run(). *)
Stop ==
  /\ pc \in {"peek", "taking"}
  /\ pc' = "stopped"
  /\ UNCHANGED <<pending, timers, seq, now, target>>

(* A strategy returns an error while q is dispatched: run() ends, and the   *)
(* fills sent until then stay in the channel.                               *)
Abort(q) ==
  /\ pc = "pop"
  /\ LET heap == pending \cup {t \in timers : t.ts <= now}
     IN  /\ q \in heap /\ \A r \in heap \ {q} : Before(q, r)
         /\ now' = q.ts
         /\ pending' = heap \ {q}
         /\ timers' = {t \in timers : t.ts > now}
  /\ pc' = "stopped"
  /\ UNCHANGED <<seq, target>>

=============================================================================
