------------------------ MODULE RealtimeEngine_proofs ------------------------
(***************************************************************************)
(* Theorems about RealtimeEngine: the snapshots of each symbol are         *)
(* dispatched once and in order, at most one of each waits in the heap,    *)
(* and the portfolio follows the account, for any list of symbols, timers  *)
(* and market.                                                             *)
(***************************************************************************)
EXTENDS RealtimeEngine, SequenceTheorems, FiniteSetTheorems, TLAPS

(* A dispatch receives some of the fills that were sent, and no other. *)
LEMMA ReceivedAreSent ==
  ASSUME NEW fills \in Seq(Fills)
  PROVE  Received(fills) \in Seq(Fills)
<1>1. CASE Len(fills) <= Capacity
  BY <1>1 DEF Received
<1>2. CASE ~(Len(fills) <= Capacity)
  <2>1. Len(fills) \in Nat /\ Capacity \in Nat \ {0}
    BY LenProperties, EngineAssumption
  <2>2. Len(fills) - Capacity + 1 \in 1..Len(fills)
    BY <1>2, <2>1
  <2>3. SubSeq(fills, Len(fills) - Capacity + 1, Len(fills)) \in Seq(Fills)
    BY <2>1, <2>2, SubSeqProperties
  <2>4. QED
    BY <1>2, <2>3 DEF Received
<1>3. QED
  BY <1>1, <1>2

(* What is queued after a dispatch. *)
LEMMA DispatchTypes ==
  ASSUME TypeOK, NEW q \in pending \cup timers, NEW fills \in Seq(Fills), Dispatch(q, fills)
  PROVE  /\ pending' \subseteq QueuedEvents /\ timers' \subseteq timers
         /\ seq' \in Nat
         /\ now' \in Times \cup TimerTimes /\ UNCHANGED target
         /\ pc' = "peek"
<1> DEFINE received == Received(fills)
<1>1. received \in Seq(Fills)
  BY ReceivedAreSent
<1>2. Len(received) \in Nat /\ DOMAIN received = 1..Len(received)
      /\ \A i \in 1..Len(received) : received[i] \in Fills
  BY <1>1, LenProperties, ElementOfSeq
<1> HIDE DEF received
<1>3. \A i \in DOMAIN received :
        Queued("Fill", received[i].ts, received[i], seq + i) \in QueuedEvents
  BY <1>2 DEF TypeOK, Queued, QueuedEvents, Fills
<1>4. pending' \subseteq pending \cup timers
        \cup {Queued("Fill", received[i].ts, received[i], seq + i) : i \in DOMAIN received}
  BY DEF Dispatch, received
<1>5. pending' \subseteq QueuedEvents
  BY <1>3, <1>4 DEF TypeOK
<1>6. seq' \in Nat
  BY <1>2 DEF Dispatch, received, TypeOK
<1>7. now' \in Times \cup TimerTimes
  BY DEF Dispatch, TypeOK, QueuedEvents
<1>8. QED
  BY <1>5, <1>6, <1>7 DEF Dispatch

(* What snapshots wait after one event was dispatched. *)
LEMMA DispatchWaiting ==
  ASSUME IInv, NEW q \in pending \cup timers, NEW fills \in Seq(Fills), Dispatch(q, fills)
  PROVE  Waiting("Snapshot")' \subseteq Waiting("Snapshot") \ {q}
<1> DEFINE received == Received(fills)
           entries == {Queued("Fill", received[i].ts, received[i], seq + i) : i \in DOMAIN received}
<1>1. pending' \subseteq ((pending \cup timers) \ {q}) \cup entries
                          \cup {t \in timers \ {q} : t.ts <= q.ts}
  BY DEF Dispatch
<1>2. \A e \in entries : e.kind = "Fill"
  BY DEF Queued
<1>3. \A t \in timers : t.kind = "Timer"
  BY DEF IInv
<1>4. QED
  BY <1>1, <1>2, <1>3 DEF Waiting

LEMMA InitInv == Init => IInv
<1> SUFFICES ASSUME Init PROVE IInv
  OBVIOUS
<1>1. Watchlist \in Seq(Symbols) /\ Len(Watchlist) > 0 /\ DOMAIN Watchlist = 1..Len(Watchlist)
      /\ Len(Watchlist) \in Nat
  BY RealtimeAssumption, LenProperties
<1>2. \A t \in TimerTimes : Cardinality({u \in TimerTimes : u <= t}) \in Nat
  BY EngineAssumption, FS_Subset, FS_CardinalityType
<1>3. Cardinality(TimerTimes) \in Nat
  BY EngineAssumption, FS_CardinalityType
<1>4. timers \subseteq QueuedEvents /\ \A q \in timers : q.kind = "Timer"
  <2>1. SUFFICES ASSUME NEW q \in timers PROVE q \in QueuedEvents /\ q.kind = "Timer"
    OBVIOUS
  <2>2. PICK t \in TimerTimes :
          q = Queued("Timer", t, t, Cardinality({u \in TimerTimes : u <= t}))
    BY DEF Init, EngineInit
  <2> DEFINE n == Cardinality({u \in TimerTimes : u <= t})
  <2>3. n \in Nat
    BY <1>2
  <2> HIDE DEF n
  <2>4. q = [kind |-> "Timer", ts |-> t, subject |-> t, seq |-> n]
    BY <2>2 DEF Queued, n
  <2>5. q \in [kind : {"Timer"}, ts : TimerTimes, subject : TimerTimes, seq : Nat]
    BY <2>3, <2>4
  <2>6. QED
    BY <2>4, <2>5 DEF QueuedEvents
<1>5. 0 \in Times
  BY RealtimeAssumption DEF Times
<1>6. TypeOK
  BY <1>1, <1>3, <1>4, <1>5 DEF Init, EngineInit, TypeOK
<1>7. QED
  BY <1>4, <1>5, <1>6 DEF Init, EngineInit, IInv, SnapshotsInOrder, OnePerSymbol, Waiting

LEMMA PublishInv ==
  ASSUME IInv, NEW s \in Symbols, NEW t \in 1..MaxTs, Publish(s, t)
  PROVE  IInv'
<1>0. t \in Times
  BY RealtimeAssumption DEF Times
<1>1. TypeOK'
  <2>1. table' \in [Symbols -> Times]
    BY <1>0 DEF IInv, TypeOK, Publish
  <2>2. QED
    BY <2>1 DEF IInv, TypeOK, Publish, engine, feed, books
<1>2. (SnapshotsInOrder /\ OnePerSymbol)'
  BY DEF IInv, Publish, engine, feed, books, SnapshotsInOrder, OnePerSymbol, Waiting
<1>3. \A x \in Symbols : crossSection'[x] <= latestTs'[x] /\ latestTs'[x] <= table'[x]
  <2>1. \A x \in Symbols : table[x] <= table'[x] /\ table[x] \in Nat /\ table'[x] \in Nat
    <3>1. SUFFICES ASSUME NEW x \in Symbols
                   PROVE  table[x] <= table'[x] /\ table[x] \in Nat /\ table'[x] \in Nat
      OBVIOUS
    <3>2. table'[x] = IF x = s THEN t ELSE table[x]
      BY DEF Publish, IInv, TypeOK
    <3>3. t > table[s] /\ table[s] \in Nat /\ table[x] \in Nat /\ t \in Nat
      BY <1>0 DEF Publish, IInv, TypeOK, Times
    <3>4. QED
      BY <3>2, <3>3
  <2>2. \A x \in Symbols : latestTs[x] \in Nat /\ latestTs[x] <= table[x]
    BY DEF IInv, TypeOK, Times
  <2>3. QED
    BY <2>1, <2>2 DEF IInv, Publish, feed, books
<1>4. QED
  BY <1>1, <1>2, <1>3 DEF IInv, Publish, engine, feed, books, Waiting

LEMMA PollInv == IInv /\ Poll => IInv'
<1> SUFFICES ASSUME IInv, Poll PROVE IInv'
  OBVIOUS
<1> DEFINE s == Watchlist[scan]
<1>1. scan \in DOMAIN Watchlist /\ DOMAIN Watchlist = 1..Len(Watchlist) /\ Len(Watchlist) \in Nat
  BY RealtimeAssumption, LenProperties DEF IInv, TypeOK
<1>2. s \in Symbols
  BY <1>1 DEF Symbols
<1>3. UNCHANGED <<engine, table, books>>
  BY DEF Poll
<1>4. scan' \in DOMAIN Watchlist
  BY <1>1 DEF Poll
<1> HIDE DEF s
<1>5. CASE UNCHANGED <<buffered, latestTs>>
  <2>1. TypeOK'
    BY <1>3, <1>4, <1>5 DEF IInv, TypeOK, engine, books
  <2>2. QED
    BY <2>1, <1>3, <1>5 DEF IInv, engine, books, SnapshotsInOrder, OnePerSymbol, Waiting
<1>6. CASE /\ IsNewer(s) /\ buffered' = {[symbol |-> s, ts |-> table[s]]}
           /\ latestTs' = [latestTs EXCEPT ![s] = table[s]]
  <2>1. table[s] \in Times /\ latestTs[s] \in Times /\ crossSection[s] \in Times
        /\ table[s] > latestTs[s] /\ crossSection[s] <= latestTs[s]
    BY <1>2, <1>6 DEF IInv, TypeOK, IsNewer
  <2>2. TypeOK'
    BY <1>2, <1>3, <1>4, <1>6, <2>1 DEF IInv, TypeOK, engine, books, Snapshots
  <2>3. \A x \in Symbols : latestTs[x] <= latestTs'[x] /\ latestTs'[x] <= table[x]
    BY <1>2, <1>6, <2>1 DEF IInv, TypeOK, Times
  <2>4. \A x \in Symbols : crossSection[x] <= latestTs'[x]
    BY <2>3, RealtimeAssumption, <2>2 DEF IInv, TypeOK, Times
  <2>5. \A q \in Waiting("Snapshot") : q.subject \in Symbols /\ q.ts \in Times
    BY DEF IInv, TypeOK, QueuedEvents, Waiting
  <2>6. \A q \in Waiting("Snapshot") : q.ts <= latestTs'[q.subject]
    <3>1. SUFFICES ASSUME NEW q \in Waiting("Snapshot") PROVE q.ts <= latestTs'[q.subject]
      OBVIOUS
    <3>2. q.ts <= latestTs[q.subject] /\ latestTs[q.subject] <= latestTs'[q.subject]
      BY <2>3, <2>5 DEF IInv
    <3>3. q.ts \in Nat /\ latestTs[q.subject] \in Nat /\ latestTs'[q.subject] \in Nat
      BY <2>2, <2>5 DEF IInv, TypeOK, Times
    <3>4. QED
      BY <3>2, <3>3
  <2>7. \A q \in Waiting("Snapshot") : q.subject = s => q.ts < table[s]
    BY <2>1, <2>5, RealtimeAssumption DEF IInv, Times
  <2>8. table[s] > crossSection[s]
    BY <2>1 DEF Times
  <2>9. SnapshotsInOrder'
    BY <1>3, <1>6, <2>7, <2>8 DEF IInv, SnapshotsInOrder, Waiting, engine, books
  <2>10. \A snap \in buffered' : snap.ts = latestTs'[snap.symbol]
    BY <1>2, <1>6 DEF IInv, TypeOK
  <2>11. QED
    BY <2>10, <1>3, <2>2, <2>3, <2>4, <2>6, <2>9 DEF IInv, OnePerSymbol, Waiting, engine, books
<1>7. QED
  BY <1>5, <1>6 DEF Poll, s

LEMMA PeekFeedInv == IInv /\ PeekFeed => IInv'
<1> SUFFICES ASSUME IInv, PeekFeed PROVE IInv'
  OBVIOUS
<1>1. UNCHANGED <<table, feed, books>>
  BY DEF PeekFeed
<1>2. CASE GroupTaken(Heads)
  <2>1. TypeOK'
    BY <1>1, <1>2 DEF IInv, TypeOK, GroupTaken, feed, books
  <2>2. QED
    BY <1>1, <1>2, <2>1 DEF IInv, GroupTaken, feed, books, SnapshotsInOrder, OnePerSymbol, Waiting
<1>3. CASE Peek(Heads)
  <2> DEFINE times == Heads \cup {q.ts : q \in pending \cup timers}
  <2>1. Heads \subseteq Times /\ \A q \in pending \cup timers : q.ts \in Times \cup TimerTimes
    BY DEF IInv, TypeOK, Heads, Snapshots, QueuedEvents
  <2>2. times \subseteq Times \cup TimerTimes
    BY <2>1
  <2>3. \A q \in timers : q.kind = "Timer"
    BY DEF IInv
  <2>4. CASE pc' = "done" /\ UNCHANGED <<pending, timers, target>>
    <3>1. TypeOK'
      BY <1>1, <1>3, <2>4 DEF IInv, TypeOK, Peek, feed, books
    <3>2. QED
      BY <1>1, <2>4, <3>1 DEF IInv, feed, books, SnapshotsInOrder, OnePerSymbol, Waiting
  <2>5. CASE \E next \in times :
               /\ \A t \in times : next <= t
               /\ target' = next
               /\ pending' = pending \cup {q \in timers : q.ts = next}
               /\ timers' = {q \in timers : q.ts # next}
               /\ pc' = IF next \in Heads THEN "taking" ELSE "pop"
    <3>1. PICK next \in times :
               /\ \A t \in times : next <= t
               /\ target' = next
               /\ pending' = pending \cup {q \in timers : q.ts = next}
               /\ timers' = {q \in timers : q.ts # next}
               /\ pc' = IF next \in Heads THEN "taking" ELSE "pop"
      BY <2>5
    <3>2. TypeOK'
      BY <1>1, <1>3, <2>2, <3>1 DEF IInv, TypeOK, Peek, feed, books
    <3>3. Waiting("Snapshot")' = Waiting("Snapshot")
      BY <2>3, <3>1 DEF Waiting
    <3>4. \A q \in pending' : q.ts >= next
      <4>1. SUFFICES ASSUME NEW q \in pending \cup timers PROVE q.ts >= next
        BY <3>1
      <4>2. q.ts \in times /\ next <= q.ts
        BY <3>1
      <4>3. q.ts \in Nat /\ next \in Nat
        BY <2>2, <3>1, <4>2, EngineAssumption, RealtimeAssumption DEF Times
      <4>4. QED
        BY <4>2, <4>3
    <3>5. \A q \in timers' : q.kind = "Timer"
      BY <2>3, <3>1
    <3>6. QED
      BY <1>1, <3>1, <3>2, <3>3, <3>4, <3>5 DEF IInv, feed, books, SnapshotsInOrder, OnePerSymbol
  <2>6. QED
    BY <1>3, <2>4, <2>5 DEF Peek
<1>4. QED
  BY <1>2, <1>3 DEF PeekFeed

LEMMA TakeSnapshotInv ==
  ASSUME IInv, NEW snap \in buffered, TakeSnapshot(snap)
  PROVE  IInv'
<1> DEFINE new == Queued("Snapshot", snap.ts, snap.symbol, seq + 1)
<1>1. /\ pc = "taking" /\ snap.ts = target /\ buffered' = {}
      /\ pending' = pending \cup {new}
      /\ UNCHANGED <<timers, now, target, pc, table, latestTs, scan, books>>
      /\ seq' = seq + 1
  BY DEF TakeSnapshot, Take
<1>2. snap.ts \in Times /\ snap.symbol \in Symbols
  BY DEF IInv, TypeOK, Snapshots
<1>3. new \in QueuedEvents /\ new.kind = "Snapshot" /\ new.ts = snap.ts
      /\ new.subject = snap.symbol
  BY <1>2 DEF IInv, TypeOK, Queued, QueuedEvents
<1> HIDE DEF new
<1>4. TypeOK'
  BY <1>1, <1>3 DEF IInv, TypeOK, books
<1>5. Waiting("Snapshot")' = Waiting("Snapshot") \cup {new}
  BY <1>1, <1>3 DEF Waiting
<1>6. \A q \in Waiting("Snapshot") : q.ts \in Times /\ q.ts >= target
  BY <1>1 DEF IInv, TypeOK, QueuedEvents, Waiting
<1>7. \A q \in Waiting("Snapshot") : q.subject # snap.symbol
  <2> SUFFICES ASSUME NEW q \in Waiting("Snapshot"), q.subject = snap.symbol PROVE FALSE
    OBVIOUS
  <2>1. q.ts < snap.ts
    BY DEF IInv, SnapshotsInOrder
  <2>2. QED
    BY <1>1, <1>2, <1>6, <2>1 DEF Times
<1>8. OnePerSymbol'
  BY <1>3, <1>5, <1>7 DEF IInv, OnePerSymbol
<1>9. SnapshotsInOrder'
  BY <1>1, <1>3, <1>5 DEF IInv, SnapshotsInOrder, books
<1>10. \A q \in Waiting("Snapshot")' : q.ts <= latestTs'[q.subject]
  <2>1. snap.ts <= latestTs[snap.symbol]
    BY <1>2 DEF IInv, TypeOK, Times
  <2>2. QED
    BY <1>1, <1>3, <1>5, <2>1 DEF IInv
<1>11. \A q \in pending' : q.ts >= target'
  BY <1>1, <1>2, <1>3 DEF IInv, Times
<1>12. QED
  BY <1>1, <1>4, <1>8, <1>9, <1>10, <1>11 DEF IInv, books

(* The fills of a snapshot are fills of its symbol at its time. *)
LEMMA FillsOfType ==
  ASSUME NEW s \in Symbols, NEW ts \in Times, NEW n \in 0..MaxFills, NEW path \in Paths(n)
  PROVE  FillsOf(s, ts, n, path) \in Seq(Fills)
<1>1. n \in Nat
  BY RealtimeAssumption
<1>2. \A i \in 1..n : path[i] - path[i - 1] \in {1, -1}
  BY DEF Paths
<1>3. \A i \in 1..n : [symbol |-> s, ts |-> ts, lots |-> path[i] - path[i - 1]] \in Fills
  BY <1>2 DEF Fills
<1>4. QED
  BY <1>1, <1>3 DEF FillsOf

(* What a dispatch keeps whatever it dispatches. *)
LEMMA DispatchKeeps ==
  ASSUME IInv, NEW q \in pending \cup timers, NEW fills \in Seq(Fills), Dispatch(q, fills),
         UNCHANGED <<table, feed>>, crossSection' = crossSection,
         held' \in [Symbols -> Nat], portfolio' \in [Symbols -> Nat]
  PROVE  IInv'
<1>1. Waiting("Snapshot")' \subseteq Waiting("Snapshot")
  BY DispatchWaiting
<1>2. pc' = "peek"
  BY DispatchTypes DEF IInv
<1>3. TypeOK'
  BY DispatchTypes DEF IInv, TypeOK, feed
<1>4. \A t \in timers' : t.kind = "Timer"
  BY DispatchTypes DEF IInv
<1>5. QED
  BY <1>1, <1>2, <1>3, <1>4 DEF IInv, SnapshotsInOrder, OnePerSymbol, feed

(* A snapshot has reached the pump, and the handler has answered or failed. *)
LEMMA SnapshotReached ==
  ASSUME IInv, NEW q \in pending \cup timers, q.kind = "Snapshot",
         NEW n \in 0..MaxFills, NEW path \in Paths(n),
         pending' \subseteq QueuedEvents /\ timers' \subseteq timers,
         seq' \in Nat /\ UNCHANGED target /\ now' \in Times \cup TimerTimes,
         pc' \in {"peek", "stopped"},
         Waiting("Snapshot")' \subseteq Waiting("Snapshot") \ {q},
         crossSection' = [crossSection EXCEPT ![q.subject] = q.ts],
         held' = [held EXCEPT ![q.subject] = path[n]],
         UNCHANGED <<table, feed, portfolio>>
  PROVE  IInv'
<1>1. q \in Waiting("Snapshot")
  BY DEF Waiting, IInv
<1>2. q.subject \in Symbols /\ q.ts \in Times
  BY <1>1 DEF IInv, TypeOK, QueuedEvents, Waiting
<1>5. /\ crossSection' = [crossSection EXCEPT ![q.subject] = q.ts]
      /\ held' = [held EXCEPT ![q.subject] = path[n]]
      /\ UNCHANGED <<table, feed, portfolio>>
  OBVIOUS
<1>6. path[n] \in Nat
  BY RealtimeAssumption DEF Paths
<1>7. TypeOK'
  BY <1>2, <1>5, <1>6 DEF IInv, TypeOK, feed
<1>8. Waiting("Snapshot")' \subseteq Waiting("Snapshot") \ {q}
  OBVIOUS
<1>9. \A r \in Waiting("Snapshot") \ {q} : r.subject # q.subject
  BY <1>1 DEF IInv, OnePerSymbol
<1>10. \A snap \in buffered : snap.symbol = q.subject => snap.ts > q.ts
  <2>1. SUFFICES ASSUME NEW snap \in buffered, snap.symbol = q.subject PROVE snap.ts > q.ts
    OBVIOUS
  <2>2. q.ts < snap.ts /\ snap.ts \in Times
    BY <1>1, <2>1 DEF IInv, SnapshotsInOrder, TypeOK, Snapshots
  <2>3. QED
    BY <1>2, <2>2 DEF Times
<1>11. SnapshotsInOrder'
  <2>1. \A r \in Waiting("Snapshot")' : r.ts > crossSection'[r.subject]
    <3>1. SUFFICES ASSUME NEW r \in Waiting("Snapshot") \ {q}
                   PROVE  r.ts > crossSection'[r.subject]
      BY <1>8
    <3>2. r.ts > crossSection[r.subject] /\ r.subject \in Symbols
      BY DEF IInv, SnapshotsInOrder, TypeOK, QueuedEvents, Waiting
    <3>3. crossSection'[r.subject] = crossSection[r.subject]
      BY <1>5, <1>9, <3>2 DEF IInv, TypeOK
    <3>4. QED
      BY <3>2, <3>3
  <2>2. \A snap \in buffered : snap.ts > crossSection'[snap.symbol]
    BY <1>2, <1>5, <1>10 DEF IInv, SnapshotsInOrder, TypeOK, Snapshots
  <2>3. QED
    BY <1>5, <1>8, <2>1, <2>2 DEF IInv, SnapshotsInOrder, feed
<1>12. OnePerSymbol'
  BY <1>8 DEF IInv, OnePerSymbol
<1>13. \A s \in Symbols : crossSection'[s] <= latestTs'[s] /\ latestTs'[s] <= table'[s]
  <2>1. q.ts <= latestTs[q.subject]
    BY <1>1 DEF IInv
  <2>2. QED
    BY <1>2, <1>5, <2>1 DEF IInv, TypeOK, feed
<1>14. \A t \in timers' : t.kind = "Timer"
  BY DEF IInv
<1>15. pc' # "taking"
  OBVIOUS
<1>16. QED
  BY <1>5, <1>7, <1>8, <1>11, <1>12, <1>13, <1>14, <1>15 DEF IInv, feed

LEMMA DispatchSnapshotInv ==
  ASSUME IInv, NEW q \in pending \cup timers, NEW n \in 0..MaxFills, NEW path \in Paths(n),
         DispatchSnapshot(q, n, path)
  PROVE  IInv'
<1> DEFINE fills == FillsOf(q.subject, q.ts, n, path)
<1>1. q.subject \in Symbols /\ q.ts \in Times
  BY DEF DispatchSnapshot, IInv, TypeOK, QueuedEvents
<1>2. fills \in Seq(Fills) /\ Dispatch(q, fills)
  BY <1>1, FillsOfType DEF DispatchSnapshot
<1> HIDE DEF fills
<1>3. /\ pending' \subseteq QueuedEvents /\ timers' \subseteq timers
      /\ seq' \in Nat /\ UNCHANGED target /\ pc' \in {"peek", "stopped"}
      /\ now' \in Times \cup TimerTimes
  BY <1>2, DispatchTypes DEF IInv
<1>4. Waiting("Snapshot")' \subseteq Waiting("Snapshot") \ {q}
  BY <1>2, DispatchWaiting
<1>5. QED
  BY <1>3, <1>4, SnapshotReached DEF DispatchSnapshot

LEMMA DispatchFillInv ==
  ASSUME IInv, NEW q \in pending \cup timers, DispatchFill(q)
  PROVE  IInv'
<1>1. q.subject \in Fills
  BY DEF DispatchFill, IInv, TypeOK, QueuedEvents
<1>2. q.subject.symbol \in Symbols /\ q.subject.lots \in Int
  BY <1>1 DEF Fills
<1>3. portfolio' \in [Symbols -> Nat]
  BY <1>2 DEF DispatchFill, IInv, TypeOK
<1>4. Dispatch(q, <<>>) /\ <<>> \in Seq(Fills)
      /\ UNCHANGED <<table, feed, crossSection, held>>
  BY DEF DispatchFill
<1>5. held' \in [Symbols -> Nat]
  BY <1>4 DEF IInv, TypeOK
<1>6. QED
  BY <1>3, <1>4, <1>5, DispatchKeeps

LEMMA DispatchTimerInv ==
  ASSUME IInv, NEW q \in pending \cup timers, DispatchTimer(q)
  PROVE  IInv'
<1>1. Dispatch(q, <<>>) /\ <<>> \in Seq(Fills) /\ UNCHANGED <<table, feed, books>>
  BY DEF DispatchTimer
<1>2. held' \in [Symbols -> Nat] /\ portfolio' \in [Symbols -> Nat]
      /\ crossSection' = crossSection
  BY <1>1 DEF IInv, TypeOK, books
<1>3. QED
  BY <1>1, <1>2, DispatchKeeps

LEMMA PollFailsInv == IInv /\ PollFails => IInv'
<1> SUFFICES ASSUME IInv, PollFails PROVE IInv'
  OBVIOUS
<1>1. TypeOK'
  BY DEF IInv, TypeOK, PollFails, Stop, feed, books
<1>2. QED
  BY <1>1 DEF IInv, PollFails, Stop, feed, books, SnapshotsInOrder, OnePerSymbol, Waiting

(* What the end of the loop in the middle of a dispatch leaves. *)
LEMMA AbortLeaves ==
  ASSUME IInv, NEW q \in pending \cup timers, Abort(q)
  PROVE  /\ pending' \subseteq QueuedEvents /\ timers' \subseteq timers
         /\ seq' \in Nat /\ UNCHANGED target /\ pc' = "stopped"
         /\ now' \in Times \cup TimerTimes
         /\ Waiting("Snapshot")' \subseteq Waiting("Snapshot") \ {q}
<1>1. \A t \in timers : t.kind = "Timer"
  BY DEF IInv
<1>2. Waiting("Snapshot")' \subseteq Waiting("Snapshot") \ {q}
  BY <1>1 DEF Abort, Waiting
<1>3. pending' \subseteq QueuedEvents /\ timers' \subseteq timers
  BY DEF Abort, IInv, TypeOK
<1>4. now' \in Times \cup TimerTimes
  BY DEF Abort, IInv, TypeOK, QueuedEvents
<1>5. QED
  BY <1>2, <1>3, <1>4 DEF Abort, IInv, TypeOK

LEMMA SnapshotFailsInv ==
  ASSUME IInv, NEW q \in pending \cup timers, NEW n \in 0..MaxFills, NEW path \in Paths(n),
         SnapshotFails(q, n, path)
  PROVE  IInv'
<1>1. Abort(q)
  BY DEF SnapshotFails
<1>2. QED
  BY <1>1, AbortLeaves, SnapshotReached DEF SnapshotFails

LEMMA StutterInv == IInv /\ UNCHANGED vars => IInv'
<1> SUFFICES ASSUME IInv, UNCHANGED vars PROVE IInv'
  OBVIOUS
<1>1. TypeOK'
  BY DEF IInv, TypeOK, vars, engine, feed, books
<1>2. QED
  BY <1>1 DEF IInv, vars, engine, feed, books, SnapshotsInOrder, OnePerSymbol, Waiting

LEMMA NextInv == IInv /\ [Next]_vars => IInv'
<1> SUFFICES ASSUME IInv, [Next]_vars PROVE IInv'
  OBVIOUS
<1>1. CASE \E s \in Symbols, t \in 1..MaxTs : Publish(s, t)
  BY <1>1, PublishInv
<1>2. CASE Poll
  BY <1>2, PollInv
<1>3. CASE PeekFeed
  BY <1>3, PeekFeedInv
<1>4. CASE \E snap \in buffered : TakeSnapshot(snap)
  BY <1>4, TakeSnapshotInv
<1>5. CASE \E q \in pending \cup timers :
             \E n \in 0..MaxFills : \E path \in Paths(n) : DispatchSnapshot(q, n, path)
  BY <1>5, DispatchSnapshotInv
<1>6. CASE \E q \in pending \cup timers : DispatchFill(q)
  BY <1>6, DispatchFillInv
<1>7. CASE \E q \in pending \cup timers : DispatchTimer(q)
  BY <1>7, DispatchTimerInv
<1>8. CASE PollFails
  BY <1>8, PollFailsInv
<1>9. CASE UNCHANGED vars
  BY <1>9, StutterInv
<1>10. CASE \E q \in pending \cup timers :
              \E n \in 0..MaxFills : \E path \in Paths(n) : SnapshotFails(q, n, path)
  BY <1>10, SnapshotFailsInv
<1>11. QED
  BY <1>1, <1>2, <1>3, <1>4, <1>5, <1>6, <1>7, <1>8, <1>9, <1>10 DEF Next, EngineTask

(***************************************************************************)
(* Feed, heap and cross section stay in order with each other: IInv holds  *)
(* in every state, for every list of symbols, every set of timers and      *)
(* whatever the market-data service publishes.                             *)
(***************************************************************************)
THEOREM Invariance == Spec => []IInv
<1>1. Init => IInv
  BY InitInv
<1>2. IInv /\ [Next]_vars => IInv'
  BY NextInv
<1>3. QED
  BY <1>1, <1>2, PTL DEF Spec

(* No snapshot of a symbol is dispatched twice, or after a later one. *)
THEOREM InOrder == Spec => []SnapshotsInOrder
<1>1. IInv => SnapshotsInOrder
  BY DEF IInv
<1>2. QED
  BY <1>1, Invariance, PTL

(* The heap never holds two snapshots of one symbol. *)
THEOREM NoPileUp == Spec => []OnePerSymbol
<1>1. IInv => OnePerSymbol
  BY DEF IInv
<1>2. QED
  BY <1>1, Invariance, PTL

-----------------------------------------------------------------------------
(***************************************************************************)
(* The portfolio follows the account.  The argument numbers what the       *)
(* account holds: level[k] is what it held of a symbol when k events had   *)
(* been queued, restarted at what the portfolio holds.  It changes at the  *)
(* numbers of the fills that wait, by what they trade, and nowhere else.   *)
(***************************************************************************)
OnTheirWay(s) == {q \in Waiting("Fill") : q.subject.symbol = s}

Tracks(W, level, first, last, n) ==
  /\ level \in [Nat -> Nat] /\ level[0] = first /\ level[n] = last
  /\ \A q \in W : q.seq \in 1..n /\ level[q.seq] = level[q.seq - 1] + q.subject.lots
  /\ \A j, k \in Nat :
       j <= k /\ (\A q \in W : ~(j < q.seq /\ q.seq <= k)) => level[j] = level[k]

(* Fills that were queued later are not of an earlier time. *)
Ordered(W, t) ==
  /\ \A q \in W : q.ts <= t
  /\ \A q, r \in W : q.seq < r.seq => q.ts <= r.ts
  /\ \A q, r \in W : q.seq = r.seq => q = r

Followed(s) ==
  /\ Ordered(OnTheirWay(s), crossSection[s])
  /\ \E level : Tracks(OnTheirWay(s), level, portfolio[s], held[s], seq)

FInv == pc # "stopped" => \A s \in Symbols : Followed(s)

(* The first fill is booked in the portfolio, which stays at least zero. *)
LEMMA FirstFillBooked ==
  ASSUME NEW W, NEW level, NEW first, NEW last, NEW n \in Nat, Tracks(W, level, first, last, n),
         NEW q \in W, q.subject.lots \in Int, \A r \in W : r # q => q.seq < r.seq
  PROVE  /\ first + q.subject.lots \in Nat
         /\ \E other : Tracks(W \ {q}, other, first + q.subject.lots, last, n)
<1> DEFINE m == q.seq
           other == [k \in Nat |-> IF k < m THEN level[m] ELSE level[k]]
<1>1. m \in 1..n /\ m \in Nat /\ m - 1 \in Nat /\ level \in [Nat -> Nat]
      /\ \A r \in W : r.seq \in 1..n /\ r.seq \in Nat
  BY DEF Tracks
<1>2. level[m - 1] = first
  <2>1. \A r \in W : ~(0 < r.seq /\ r.seq <= m - 1)
    BY <1>1
  <2>2. QED
    BY <1>1, <2>1 DEF Tracks
<1>3. level[m] = first + q.subject.lots
  BY <1>2 DEF Tracks
<1>4. level[m] \in Nat
  BY <1>1
<1>5. other \in [Nat -> Nat]
  BY <1>1, <1>4
<1>6. other[0] = first + q.subject.lots /\ other[n] = last
  BY <1>1, <1>3 DEF Tracks
<1>7. ASSUME NEW r \in W \ {q}
      PROVE  r.seq \in 1..n /\ other[r.seq] = other[r.seq - 1] + r.subject.lots
  <2>1. r.seq \in 1..n /\ m < r.seq /\ r.seq - 1 \in Nat /\ r.seq \in Nat
    BY <1>1
  <2>2. other[r.seq] = level[r.seq] /\ other[r.seq - 1] = level[r.seq - 1]
    BY <1>1, <2>1
  <2>3. QED
    BY <2>1, <2>2 DEF Tracks
<1>8. ASSUME NEW j \in Nat, NEW k \in Nat, j <= k,
             \A r \in W \ {q} : ~(j < r.seq /\ r.seq <= k)
      PROVE  other[j] = other[k]
  <2>1. CASE k < m
    BY <1>1, <1>8, <2>1
  <2>2. CASE m <= j
    <3>1. \A r \in W : ~(j < r.seq /\ r.seq <= k)
      BY <1>1, <1>8, <2>2
    <3>2. level[j] = level[k]
      BY <1>8, <3>1 DEF Tracks
    <3>3. other[j] = level[j] /\ other[k] = level[k]
      BY <1>1, <1>8, <2>2
    <3>4. QED
      BY <3>2, <3>3
  <2>3. CASE j < m /\ m <= k
    <3>1. \A r \in W : ~(m < r.seq /\ r.seq <= k)
      BY <1>1, <1>8, <2>3
    <3>2. level[m] = level[k]
      BY <1>1, <1>8, <2>3, <3>1 DEF Tracks
    <3>3. other[j] = level[m] /\ other[k] = level[k]
      BY <1>1, <1>8, <2>3
    <3>4. QED
      BY <3>2, <3>3
  <2>4. QED
    BY <1>1, <2>1, <2>2, <2>3
<1> HIDE DEF other
<1>9. Tracks(W \ {q}, other, first + q.subject.lots, last, n)
  BY <1>5, <1>6, <1>7, <1>8 DEF Tracks
<1>10. QED
  BY <1>3, <1>4, <1>9

(* Numbers of other events are given out. *)
LEMMA NumbersPass ==
  ASSUME NEW W, NEW level, NEW first, NEW last, NEW n \in Nat, Tracks(W, level, first, last, n),
         NEW top \in Nat, n <= top
  PROVE  \E other : Tracks(W, other, first, last, top)
<1> DEFINE other == [k \in Nat |-> IF k <= n THEN level[k] ELSE last]
<1>1. level \in [Nat -> Nat] /\ level[n] = last /\ level[0] = first /\ last \in Nat
      /\ \A r \in W : r.seq \in 1..n /\ r.seq \in Nat
  BY DEF Tracks
<1>2. other \in [Nat -> Nat] /\ other[0] = first /\ other[top] = last
  BY <1>1
<1>3. ASSUME NEW r \in W
      PROVE  r.seq \in 1..top /\ other[r.seq] = other[r.seq - 1] + r.subject.lots
  <2>1. other[r.seq] = level[r.seq] /\ other[r.seq - 1] = level[r.seq - 1]
    BY <1>1
  <2>2. QED
    BY <1>1, <2>1 DEF Tracks
<1>4. ASSUME NEW j \in Nat, NEW k \in Nat, j <= k,
             \A r \in W : ~(j < r.seq /\ r.seq <= k)
      PROVE  other[j] = other[k]
  <2>1. CASE k <= n
    BY <1>4, <2>1 DEF Tracks
  <2>2. CASE j <= n /\ n < k
    <3>1. \A r \in W : ~(j < r.seq /\ r.seq <= n)
      BY <1>1, <1>4, <2>2
    <3>2. level[j] = level[n]
      BY <2>2, <3>1 DEF Tracks
    <3>3. QED
      BY <1>1, <2>2, <3>2
  <2>3. CASE n < j
    BY <1>4, <2>3
  <2>4. QED
    BY <2>1, <2>2, <2>3
<1> HIDE DEF other
<1>5. QED
  BY <1>2, <1>3, <1>4 DEF Tracks

(* A snapshot's fills X are queued, which trade along path. *)
LEMMA PathFollows ==
  ASSUME NEW W, NEW level, NEW first, NEW last, NEW n \in Nat, Tracks(W, level, first, last, n),
         NEW m \in Nat, NEW path, \A i \in 0..m : path[i] \in Nat, path[0] = last,
         NEW X, \A i \in 1..m : \E r \in X : r.seq = n + i,
         \A r \in X : \E i \in 1..m : r.seq = n + i /\ r.subject.lots = path[i] - path[i - 1]
  PROVE  \E other : Tracks(W \cup X, other, first, path[m], n + m)
<1> DEFINE other == [k \in Nat |-> IF k <= n THEN level[k]
                                   ELSE IF k <= n + m THEN path[k - n] ELSE path[m]]
<1>1. level \in [Nat -> Nat] /\ level[n] = last /\ level[0] = first /\ last \in Nat
      /\ \A r \in W : r.seq \in 1..n /\ r.seq \in Nat
  BY DEF Tracks
<1>2. other \in [Nat -> Nat]
  <2>1. \A k \in Nat : n < k /\ k <= n + m => path[k - n] \in Nat
    BY DEF Tracks
  <2>2. path[m] \in Nat
    OBVIOUS
  <2>3. QED
    BY <1>1, <2>1, <2>2
<1>3. \A i \in 0..m : other[n + i] = path[i]
  <2>1. SUFFICES ASSUME NEW i \in 0..m PROVE other[n + i] = path[i]
    OBVIOUS
  <2>2. CASE i = 0
    BY <1>1, <2>2
  <2>3. CASE i # 0
    <3>1. n + i \in Nat /\ n < n + i /\ n + i <= n + m /\ (n + i) - n = i
      BY <2>3
    <3>2. QED
      BY <3>1
  <2>4. QED
    BY <2>2, <2>3
<1>4. other[0] = first /\ other[n + m] = path[m]
  BY <1>1, <1>3
<1>5. ASSUME NEW r \in W
      PROVE  r.seq \in 1..(n + m) /\ other[r.seq] = other[r.seq - 1] + r.subject.lots
  <2>1. other[r.seq] = level[r.seq] /\ other[r.seq - 1] = level[r.seq - 1]
    BY <1>1
  <2>2. QED
    BY <1>1, <2>1 DEF Tracks
<1>6. \A k \in Nat : k <= n => other[k] = level[k]
  OBVIOUS
<1>7. \A k \in Nat : n + m < k => other[k] = path[m]
  OBVIOUS
<1> HIDE DEF other
<1>8. ASSUME NEW r \in X
      PROVE  r.seq \in 1..(n + m) /\ other[r.seq] = other[r.seq - 1] + r.subject.lots
  <2>1. PICK i \in 1..m : r.seq = n + i /\ r.subject.lots = path[i] - path[i - 1]
    OBVIOUS
  <2>2. i \in 0..m /\ i - 1 \in 0..m /\ r.seq - 1 = n + (i - 1)
    BY <2>1
  <2>3. other[r.seq] = path[i] /\ other[r.seq - 1] = path[i - 1]
    BY <1>3, <2>1, <2>2
  <2>4. path[i] \in Nat /\ path[i - 1] \in Nat
    BY <2>2
  <2>5. QED
    BY <2>1, <2>3, <2>4
<1>9. ASSUME NEW j \in Nat, NEW k \in Nat, j <= k,
             \A r \in W \cup X : ~(j < r.seq /\ r.seq <= k)
      PROVE  other[j] = other[k]
  <2>1. \A i \in 1..m : ~(j < n + i /\ n + i <= k)
    BY <1>9
  <2>2. CASE k <= n
    BY <1>6, <1>9, <2>2 DEF Tracks
  <2>3. CASE j <= n /\ n < k
    <3>1. m = 0
      <4>1. SUFFICES ASSUME m # 0 PROVE FALSE
        OBVIOUS
      <4>2. 1 \in 1..m /\ j < n + 1 /\ n + 1 <= k
        BY <2>3, <4>1
      <4>3. QED
        BY <2>1, <4>2
    <3>2. \A r \in W : ~(j < r.seq /\ r.seq <= n)
      BY <1>1, <1>9, <2>3
    <3>3. level[j] = level[n]
      BY <2>3, <3>2 DEF Tracks
    <3>4. other[k] = last
      BY <1>7, <2>3, <3>1
    <3>5. QED
      BY <1>1, <1>6, <2>3, <3>3, <3>4
  <2>4. CASE n < j
    <3>1. CASE j = k
      BY <3>1
    <3>2. CASE n + m < k
      <4>1. n + m <= j
        <5>1. SUFFICES ASSUME j < n + m PROVE FALSE
          OBVIOUS
        <5>2. m \in 1..m
          BY <2>4, <5>1
        <5>3. ~(j < n + m /\ n + m <= k)
          BY <2>1, <5>2
        <5>4. QED
          BY <3>2, <5>1, <5>3
      <4>2. other[n + m] = path[m]
        BY <1>4
      <4>3. QED
        BY <1>7, <3>2, <4>1, <4>2
    <3>3. CASE j < k /\ k <= n + m
      <4>1. k - n \in 1..m /\ n + (k - n) = k
        BY <2>4, <3>3
      <4>2. ~(j < n + (k - n) /\ n + (k - n) <= k)
        BY <2>1, <4>1
      <4>3. QED
        BY <3>3, <4>1, <4>2
    <3>4. QED
      BY <1>9, <3>1, <3>2, <3>3
  <2>5. QED
    BY <2>2, <2>3, <2>4
<1>10. QED
  BY <1>2, <1>4, <1>5, <1>8, <1>9 DEF Tracks

(* The fills of one symbol are left alone while others are numbered. *)
LEMMA SymbolUntouched ==
  ASSUME IInv, NEW s \in Symbols, Followed(s), OnTheirWay(s)' = OnTheirWay(s),
         crossSection'[s] = crossSection[s], portfolio'[s] = portfolio[s],
         held'[s] = held[s], seq' \in Nat, seq <= seq'
  PROVE  Followed(s)'
<1>1. PICK level : Tracks(OnTheirWay(s), level, portfolio[s], held[s], seq)
  BY DEF Followed
<1>2. seq \in Nat
  BY DEF IInv, TypeOK
<1>3. \E other : Tracks(OnTheirWay(s), other, portfolio[s], held[s], seq')
  BY <1>1, <1>2, NumbersPass
<1>4. QED
  BY <1>3 DEF Followed

(* A channel that is large enough loses no fill. *)
LEMMA DispatchQueues ==
  ASSUME IInv, NEW q \in pending \cup timers, NEW fills \in Seq(Fills), Dispatch(q, fills),
         Len(fills) <= Capacity, NEW s \in Symbols
  PROVE  /\ OnTheirWay(s)' = (OnTheirWay(s) \ {q}) \cup
              {Queued("Fill", fills[i].ts, fills[i], seq + i) :
                 i \in {j \in 1..Len(fills) : fills[j].symbol = s}}
         /\ seq' = seq + Len(fills)
         /\ \A r \in OnTheirWay(s) \ {q} : Before(q, r)
<1> DEFINE entries == {Queued("Fill", fills[i].ts, fills[i], seq + i) : i \in 1..Len(fills)}
<1>1. Received(fills) = fills /\ DOMAIN fills = 1..Len(fills)
  BY LenProperties DEF Received
<1>2. pending' = ((pending \cup {t \in timers : t.ts <= now}) \ {q}) \cup entries
                  \cup {t \in timers \ {q} : t.ts <= q.ts}
  BY <1>1 DEF Dispatch
<1>3. \A t \in timers : t.kind # "Fill"
  BY DEF IInv
<1>4. \A i \in 1..Len(fills) :
         /\ Queued("Fill", fills[i].ts, fills[i], seq + i).kind = "Fill"
         /\ Queued("Fill", fills[i].ts, fills[i], seq + i).subject.symbol = fills[i].symbol
  BY DEF Queued
<1>5. {r \in pending' : r.kind = "Fill"} = (Waiting("Fill") \ {q}) \cup entries
  BY <1>2, <1>3, <1>4 DEF Waiting
<1>6. OnTheirWay(s)' = {r \in (Waiting("Fill") \ {q}) \cup entries : r.subject.symbol = s}
  BY <1>5 DEF OnTheirWay, Waiting
<1>7. OnTheirWay(s)' = (OnTheirWay(s) \ {q}) \cup
              {Queued("Fill", fills[i].ts, fills[i], seq + i) :
                 i \in {j \in 1..Len(fills) : fills[j].symbol = s}}
  BY <1>4, <1>6 DEF OnTheirWay
<1>8. \A r \in OnTheirWay(s) \ {q} : Before(q, r)
  BY DEF Dispatch, OnTheirWay, Waiting
<1>9. QED
  BY <1>1, <1>7, <1>8 DEF Dispatch

(* What waits is of its type. *)
LEMMA OnTheirWayTypes ==
  ASSUME IInv, NEW s \in Symbols, NEW q \in OnTheirWay(s)
  PROVE  /\ q \in pending /\ q.kind = "Fill" /\ q.ts \in Times /\ q.seq \in Nat
         /\ q.subject \in Fills /\ q.subject.symbol = s /\ q.subject.lots \in {1, -1}
BY DEF IInv, TypeOK, QueuedEvents, OnTheirWay, Waiting, Fills

(* The fill that is dispatched is the first of its symbol that was queued. *)
LEMMA FirstIsFirst ==
  ASSUME IInv, NEW s \in Symbols, Followed(s), NEW q \in OnTheirWay(s),
         NEW r \in OnTheirWay(s), r # q, Before(q, r)
  PROVE  q.seq < r.seq
<1>1. /\ q.ts \in Nat /\ r.ts \in Nat /\ q.seq \in Nat /\ r.seq \in Nat
      /\ q.kind = "Fill" /\ r.kind = "Fill"
  BY OnTheirWayTypes DEF Times
<1>2. q.ts < r.ts \/ (q.ts = r.ts /\ q.seq < r.seq)
  <2>1. Priority[q.kind] = 0 /\ Priority[r.kind] = 0
    BY <1>1 DEF Priority
  <2>2. QED
    BY <2>1 DEF Before
<1>3. r.seq < q.seq => r.ts <= q.ts
  BY DEF Followed, Ordered
<1>4. q.seq # r.seq
  BY DEF Followed, Ordered
<1>5. QED
  BY <1>1, <1>2, <1>3, <1>4

LEMMA DispatchFillFollowed ==
  ASSUME IInv, NEW s \in Symbols, Followed(s), NEW q \in pending \cup timers, DispatchFill(q)
  PROVE  Followed(s)'
<1>1. Dispatch(q, <<>>) /\ <<>> \in Seq(Fills) /\ Len(<<>>) = 0 /\ 0 <= Capacity
  BY EngineAssumption DEF DispatchFill
<1>2. OnTheirWay(s)' = OnTheirWay(s) \ {q} /\ seq' = seq
      /\ \A r \in OnTheirWay(s) \ {q} : Before(q, r)
  <2> DEFINE none == <<>>
  <2>1. none \in Seq(Fills) /\ Len(none) = 0 /\ Len(none) <= Capacity /\ Dispatch(q, none)
    BY <1>1
  <2>2. seq \in Nat
    BY DEF IInv, TypeOK
  <2> HIDE DEF none
  <2>3. {Queued("Fill", none[i].ts, none[i], seq + i) :
           i \in {j \in 1..Len(none) : none[j].symbol = s}} = {}
    BY <2>1
  <2>4. /\ OnTheirWay(s)' = (OnTheirWay(s) \ {q}) \cup
              {Queued("Fill", none[i].ts, none[i], seq + i) :
                 i \in {j \in 1..Len(none) : none[j].symbol = s}}
        /\ seq' = seq + Len(none)
        /\ \A r \in OnTheirWay(s) \ {q} : Before(q, r)
    BY <2>1, DispatchQueues
  <2>5. OnTheirWay(s)' = OnTheirWay(s) \ {q}
    BY <2>3, <2>4
  <2>6. QED
    BY <2>1, <2>2, <2>4, <2>5
<1>3. q \in pending /\ q.kind = "Fill" /\ q.subject \in Fills
  BY DEF DispatchFill, IInv, TypeOK, QueuedEvents
<1>4. /\ UNCHANGED <<crossSection, held>>
      /\ portfolio' = [portfolio EXCEPT ![q.subject.symbol] =
                         IF @ + q.subject.lots < 0 THEN 0 ELSE @ + q.subject.lots]
  BY DEF DispatchFill
<1>5. seq \in Nat /\ portfolio \in [Symbols -> Nat]
  BY DEF IInv, TypeOK
<1>6. CASE q.subject.symbol = s
  <2>1. q \in OnTheirWay(s) /\ q.subject.lots \in Int
    BY <1>3, <1>6 DEF OnTheirWay, Waiting, Fills
  <2>2. PICK level : Tracks(OnTheirWay(s), level, portfolio[s], held[s], seq)
    BY DEF Followed
  <2>3. \A r \in OnTheirWay(s) : r # q => q.seq < r.seq
    BY <1>2, <2>1, FirstIsFirst
  <2> DEFINE next == portfolio[s] + q.subject.lots
  <2>4. next \in Nat /\ \E other : Tracks(OnTheirWay(s) \ {q}, other, next, held[s], seq)
    BY <1>5, <2>1, <2>2, <2>3, FirstFillBooked
  <2>5. portfolio'[s] = next
    BY <1>4, <1>5, <1>6, <2>4
  <2> HIDE DEF next
  <2>6. Ordered(OnTheirWay(s) \ {q}, crossSection[s])
    BY DEF Followed, Ordered
  <2>7. QED
    BY <1>2, <1>4, <2>4, <2>5, <2>6 DEF Followed
<1>7. CASE q.subject.symbol # s
  <2>1. OnTheirWay(s)' = OnTheirWay(s)
    BY <1>2, <1>7 DEF OnTheirWay
  <2>2. portfolio'[s] = portfolio[s]
    BY <1>4, <1>5, <1>7
  <2>3. QED
    BY <1>2, <1>4, <1>5, <2>1, <2>2, SymbolUntouched
<1>8. QED
  BY <1>6, <1>7

LEMMA DispatchSnapshotFollowed ==
  ASSUME IInv, MaxFills <= Capacity, NEW s \in Symbols, Followed(s),
         NEW q \in pending \cup timers, NEW n \in 0..MaxFills, NEW path \in Paths(n),
         DispatchSnapshot(q, n, path)
  PROVE  Followed(s)'
<1> DEFINE fills == FillsOf(q.subject, q.ts, n, path)
           X == {Queued("Fill", fills[i].ts, fills[i], seq + i) :
                   i \in {j \in 1..Len(fills) : fills[j].symbol = s}}
<1>1. q \in Waiting("Snapshot") /\ q.subject \in Symbols /\ q.ts \in Times /\ q.kind = "Snapshot"
      /\ q.ts > crossSection[q.subject]
  BY DEF DispatchSnapshot, IInv, TypeOK, QueuedEvents, Waiting, SnapshotsInOrder
<1>2. fills \in Seq(Fills) /\ Dispatch(q, fills)
  BY <1>1, FillsOfType DEF DispatchSnapshot
<1>3. n \in Nat /\ n <= Capacity /\ Len(fills) = n
  BY RealtimeAssumption, EngineAssumption DEF FillsOf
<1>4. \A i \in 1..n :
        fills[i] = [symbol |-> q.subject, ts |-> q.ts, lots |-> path[i] - path[i - 1]]
  BY DEF FillsOf
<1>5. /\ path[0] = held[q.subject]
      /\ crossSection' = [crossSection EXCEPT ![q.subject] = q.ts]
      /\ held' = [held EXCEPT ![q.subject] = path[n]]
      /\ UNCHANGED portfolio
  BY DEF DispatchSnapshot
<1>6. \A i \in 0..n : path[i] \in Nat
  BY RealtimeAssumption DEF Paths
<1>7. seq \in Nat /\ crossSection \in [Symbols -> Times] /\ held \in [Symbols -> Nat]
  BY DEF IInv, TypeOK
<1> HIDE DEF fills
<1>8. OnTheirWay(s)' = (OnTheirWay(s) \ {q}) \cup X /\ seq' = seq + n
  BY <1>2, <1>3, DispatchQueues
<1>9. OnTheirWay(s) \ {q} = OnTheirWay(s)
  BY <1>1 DEF OnTheirWay, Waiting
<1>10. CASE q.subject = s
  <2>1. \A i \in 1..n : \E r \in X : r.seq = seq + i
    <3>1. SUFFICES ASSUME NEW i \in 1..n PROVE \E r \in X : r.seq = seq + i
      OBVIOUS
    <3>2. fills[i] = [symbol |-> q.subject, ts |-> q.ts, lots |-> path[i] - path[i - 1]]
      BY <1>4
    <3>3. fills[i].symbol = s
      BY <1>10, <3>2
    <3>4. i \in {j \in 1..Len(fills) : fills[j].symbol = s}
      BY <1>3, <3>3
    <3>5. Queued("Fill", fills[i].ts, fills[i], seq + i) \in X
      BY <3>4
    <3>6. Queued("Fill", fills[i].ts, fills[i], seq + i).seq = seq + i
      BY DEF Queued
    <3>7. QED
      BY <3>5, <3>6
  <2>2. \A r \in X : \E i \in 1..n :
          r.seq = seq + i /\ r.subject.lots = path[i] - path[i - 1] /\ r.ts = q.ts
          /\ r = Queued("Fill", fills[i].ts, fills[i], seq + i)
    <3>1. SUFFICES ASSUME NEW r \in X
                   PROVE  \E i \in 1..n :
          r.seq = seq + i /\ r.subject.lots = path[i] - path[i - 1] /\ r.ts = q.ts
          /\ r = Queued("Fill", fills[i].ts, fills[i], seq + i)
      OBVIOUS
    <3>2. PICK i \in 1..n : r = Queued("Fill", fills[i].ts, fills[i], seq + i)
      BY <1>3
    <3>3. r.seq = seq + i /\ r.subject = fills[i] /\ r.ts = fills[i].ts
      BY <3>2 DEF Queued
    <3>4. fills[i] = [symbol |-> q.subject, ts |-> q.ts, lots |-> path[i] - path[i - 1]]
      BY <1>4
    <3>5. fills[i].lots = path[i] - path[i - 1] /\ fills[i].ts = q.ts
      BY <3>4
    <3>6. QED
      BY <3>2, <3>3, <3>5
  <2> HIDE DEF X
  <2>3. PICK level : Tracks(OnTheirWay(s), level, portfolio[s], held[s], seq)
    BY DEF Followed
  <2>4. path[0] = held[s]
    BY <1>5, <1>10
  <2>5. \A r \in X : \E i \in 1..n : r.seq = seq + i /\ r.subject.lots = path[i] - path[i - 1]
    BY <2>2
  <2>6. \E other : Tracks(OnTheirWay(s) \cup X, other, portfolio[s], path[n], seq + n)
    BY <1>3, <1>6, <1>7, <2>1, <2>3, <2>4, <2>5, PathFollows
  <2>7. held'[s] = path[n] /\ crossSection'[s] = q.ts
    BY <1>5, <1>7, <1>10
  <2>8. Ordered(OnTheirWay(s) \cup X, q.ts)
    <3>1. \A r \in OnTheirWay(s) : r.ts \in Nat /\ r.ts <= crossSection[s]
      BY OnTheirWayTypes DEF Followed, Ordered, Times
    <3>2. crossSection[s] \in Nat /\ q.ts \in Nat /\ crossSection[s] < q.ts
      BY <1>1, <1>7, <1>10 DEF Times
    <3>3. \A r \in OnTheirWay(s) : r.ts <= q.ts /\ r.seq \in 1..seq /\ r.seq \in Nat
      BY <1>7, <2>3, <3>1, <3>2 DEF Tracks
    <3>4. \A r \in X : r.ts = q.ts /\ r.seq > seq /\ r.seq \in Nat
      BY <1>7, <2>2
    <3>5. \A r, t \in X : r.seq = t.seq => r = t
      <4>1. SUFFICES ASSUME NEW r \in X, NEW t \in X, r.seq = t.seq PROVE r = t
        OBVIOUS
      <4>2. PICK i \in 1..n : r.seq = seq + i /\ r = Queued("Fill", fills[i].ts, fills[i], seq + i)
        BY <2>2
      <4>3. PICK j \in 1..n : t.seq = seq + j /\ t = Queued("Fill", fills[j].ts, fills[j], seq + j)
        BY <2>2
      <4>4. seq + i = seq + j
        BY <4>1, <4>2, <4>3
      <4>5. i = j
        BY <1>7, <4>4
      <4>6. QED
        BY <4>2, <4>3, <4>5
    <3>6. Ordered(OnTheirWay(s), crossSection[s])
      BY DEF Followed
    <3>7. ASSUME NEW r \in OnTheirWay(s) \cup X, NEW t \in OnTheirWay(s) \cup X
          PROVE  /\ r.seq < t.seq => r.ts <= t.ts
                 /\ r.seq = t.seq => r = t
      <4>1. CASE r \in OnTheirWay(s) /\ t \in OnTheirWay(s)
        BY <3>6, <4>1 DEF Ordered
      <4>2. CASE r \in OnTheirWay(s) /\ t \in X
        BY <1>7, <3>3, <3>4, <4>2
      <4>3. CASE r \in X /\ t \in OnTheirWay(s)
        BY <1>7, <3>3, <3>4, <4>3
      <4>4. CASE r \in X /\ t \in X
        BY <3>2, <3>4, <3>5, <4>4
      <4>5. QED
        BY <4>1, <4>2, <4>3, <4>4
    <3>8. \A r \in OnTheirWay(s) \cup X : r.ts <= q.ts
      BY <3>2, <3>3, <3>4
    <3>9. QED
      BY <3>7, <3>8 DEF Ordered
  <2>9. QED
    BY <1>5, <1>8, <1>9, <2>6, <2>7, <2>8 DEF Followed
<1>11. CASE q.subject # s
  <2>1. X = {}
    BY <1>3, <1>4, <1>11
  <2>2. OnTheirWay(s)' = OnTheirWay(s)
    BY <1>8, <1>9, <2>1
  <2>3. held'[s] = held[s] /\ crossSection'[s] = crossSection[s] /\ portfolio'[s] = portfolio[s]
    BY <1>5, <1>7, <1>11
  <2>4. seq' \in Nat /\ seq <= seq'
    BY <1>3, <1>7, <1>8
  <2>5. QED
    BY <2>2, <2>3, <2>4, SymbolUntouched
<1>12. QED
  BY <1>10, <1>11

(* Every other step adds no fill and takes none away. *)
LEMMA OthersFollowed ==
  ASSUME IInv, FInv, UNCHANGED <<crossSection, held, portfolio>>,
         Waiting("Fill")' = Waiting("Fill"), seq' \in Nat, seq <= seq',
         pc' # "stopped" => pc # "stopped"
  PROVE  FInv'
<1>1. SUFFICES ASSUME pc' # "stopped", NEW s \in Symbols PROVE Followed(s)'
  BY DEF FInv
<1>2. Followed(s)
  BY <1>1 DEF FInv
<1>3. OnTheirWay(s)' = OnTheirWay(s)
  BY DEF OnTheirWay
<1>4. QED
  BY <1>2, <1>3, SymbolUntouched

LEMMA NextFollowed ==
  ASSUME IInv, FInv, MaxFills <= Capacity, [Next]_vars
  PROVE  FInv'
<1>0. seq \in Nat /\ seq <= seq /\ \A q \in timers : q.kind = "Timer"
  BY DEF IInv, TypeOK
<1>1. CASE \E s \in Symbols, t \in 1..MaxTs : Publish(s, t)
  BY <1>0, <1>1, OthersFollowed DEF Publish, engine, books, Waiting
<1>2. CASE Poll
  BY <1>0, <1>2, OthersFollowed DEF Poll, engine, books, Waiting
<1>3. CASE PeekFeed
  <2>1. Waiting("Fill")' = Waiting("Fill") /\ seq' = seq /\ pc # "stopped"
    BY <1>0, <1>3 DEF PeekFeed, Peek, GroupTaken, Waiting
  <2>2. UNCHANGED <<crossSection, held, portfolio>>
    BY <1>3 DEF PeekFeed, books
  <2>3. QED
    BY <1>0, <2>1, <2>2, OthersFollowed
<1>4. CASE \E snap \in buffered : TakeSnapshot(snap)
  <2>1. Waiting("Fill")' = Waiting("Fill") /\ seq' = seq + 1 /\ pc # "stopped"
    BY <1>4 DEF TakeSnapshot, Take, Waiting, Queued
  <2>2. UNCHANGED <<crossSection, held, portfolio>>
    BY <1>4 DEF TakeSnapshot, books
  <2>3. seq' \in Nat /\ seq <= seq'
    BY <1>0, <2>1
  <2>4. QED
    BY <2>1, <2>2, <2>3, OthersFollowed
<1>5. ASSUME NEW q \in pending \cup timers, NEW n \in 0..MaxFills, NEW path \in Paths(n),
             DispatchSnapshot(q, n, path)
      PROVE  FInv'
  <2>1. pc # "stopped"
    BY <1>5 DEF DispatchSnapshot, Dispatch
  <2>2. QED
    BY <1>5, <2>1, DispatchSnapshotFollowed DEF FInv
<1>6. ASSUME NEW q \in pending \cup timers, DispatchFill(q)
      PROVE  FInv'
  <2>1. pc # "stopped"
    BY <1>6 DEF DispatchFill, Dispatch
  <2>2. QED
    BY <1>6, <2>1, DispatchFillFollowed DEF FInv
<1>7. ASSUME NEW q \in pending \cup timers, DispatchTimer(q)
      PROVE  FInv'
  <2>1. Dispatch(q, <<>>) /\ <<>> \in Seq(Fills) /\ Len(<<>>) = 0 /\ 0 <= Capacity
        /\ UNCHANGED <<crossSection, held, portfolio>> /\ q.kind = "Timer"
    BY <1>7, EngineAssumption DEF DispatchTimer, books
  <2>2. seq' = seq /\ pc # "stopped" /\ Received(<<>>) = <<>>
    BY <1>0, <2>1 DEF Dispatch, Received
  <2>3. Waiting("Fill")' = Waiting("Fill")
    BY <1>0, <2>1, <2>2 DEF Dispatch, Waiting
  <2>4. QED
    BY <1>0, <2>1, <2>2, <2>3, OthersFollowed
<1>8. CASE PollFails
  BY <1>8 DEF PollFails, Stop, FInv
<1>9. ASSUME NEW q \in pending \cup timers, NEW n \in 0..MaxFills, NEW path \in Paths(n),
             SnapshotFails(q, n, path)
      PROVE  FInv'
  BY <1>9 DEF SnapshotFails, Abort, FInv
<1>10. CASE UNCHANGED vars
  BY <1>0, <1>10, OthersFollowed DEF vars, engine, books, Waiting
<1>11. QED
  BY <1>1, <1>2, <1>3, <1>4, <1>5, <1>6, <1>7, <1>8, <1>9, <1>10 DEF Next, EngineTask

LEMMA InitFollowed == Init => FInv
<1> SUFFICES ASSUME Init, NEW s \in Symbols PROVE Followed(s)
  BY DEF FInv
<1> DEFINE level == [k \in Nat |-> 0]
<1>1. OnTheirWay(s) = {} /\ portfolio[s] = 0 /\ held[s] = 0
  BY DEF Init, EngineInit, OnTheirWay, Waiting
<1>2. seq \in Nat
  BY InitInv DEF IInv, TypeOK
<1>3. Tracks({}, level, 0, 0, seq)
  BY <1>2 DEF Tracks
<1>4. QED
  BY <1>1, <1>3 DEF Followed, Ordered

(***************************************************************************)
(* If the channel holds the fills of one snapshot, InMemoryPortfolio       *)
(* follows the account: when no fill is on its way it holds what the       *)
(* account holds, whatever was dispatched between a snapshot and its fills *)
(* and whatever the fills of other symbols do.                             *)
(***************************************************************************)
THEOREM PortfolioFollowed ==
  ASSUME MaxFills <= Capacity
  PROVE  Spec => []PortfolioFollows
<1>1. Init => FInv
  BY InitFollowed
<1>2. IInv /\ FInv /\ [Next]_vars => FInv'
  BY NextFollowed
<1>3. IInv /\ FInv => PortfolioFollows
  <2>1. SUFFICES ASSUME IInv, FInv, pc # "stopped", Waiting("Fill") = {} PROVE portfolio = held
    BY DEF PortfolioFollows
  <2>2. ASSUME NEW s \in Symbols PROVE portfolio[s] = held[s]
    <3>1. OnTheirWay(s) = {} /\ Followed(s) /\ seq \in Nat
      BY <2>1 DEF OnTheirWay, FInv, IInv, TypeOK
    <3>2. PICK level : Tracks({}, level, portfolio[s], held[s], seq)
      BY <3>1 DEF Followed
    <3>3. level[0] = level[seq]
      BY <3>1, <3>2 DEF Tracks
    <3>4. QED
      BY <3>2, <3>3 DEF Tracks
  <2>3. QED
    BY <2>1, <2>2 DEF IInv, TypeOK
<1>4. QED
  BY <1>1, <1>2, <1>3, Invariance, PTL DEF Spec

=============================================================================
