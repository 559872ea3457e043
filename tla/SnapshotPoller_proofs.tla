------------------------ MODULE SnapshotPoller_proofs ------------------------
(***************************************************************************)
(* Theorems about TokenBucket - its bound on the calls of a window, for    *)
(* any number of tasks, any rate and burst and windows of any length, and  *)
(* the pool of permits it implements - and about SnapshotPoller: the bound *)
(* again, with the poller and restarts, and that the row of a symbol never *)
(* goes back.                                                              *)
(***************************************************************************)
EXTENDS SnapshotPoller, TLAPS

(* Division by the units of a token. *)
LEMMA DivBounds ==
  ASSUME NEW a \in Nat, NEW b \in Nat \ {0}
  PROVE  /\ a \div b \in Nat
         /\ (a \div b) * b <= a
         /\ a < (a \div b) * b + b
  OBVIOUS

LEMMA DivUnique ==
  ASSUME NEW a \in Nat, NEW b \in Nat \ {0}, NEW q \in Nat,
         q * b <= a, a < q * b + b
  PROVE  a \div b = q
  <1>1. /\ a \div b \in Nat
        /\ (a \div b) * b <= a
        /\ a < (a \div b) * b + b
    BY DivBounds
  <1> DEFINE p == a \div b
  <1>2. CASE p < q
    <2>1. (p + 1) * b <= q * b
      BY <1>1, <1>2
    <2>2. (p + 1) * b = p * b + b
      BY <1>1
    <2> QED BY <1>1, <2>1, <2>2
  <1>3. CASE q < p
    <2>1. (q + 1) * b <= p * b
      BY <1>1, <1>3
    <2>2. (q + 1) * b = q * b + b
      OBVIOUS
    <2> QED BY <1>1, <2>1, <2>2
  <1> QED BY <1>1, <1>2, <1>3

LEMMA DivMonotone ==
  ASSUME NEW a \in Nat, NEW c \in Nat, NEW b \in Nat \ {0}, a <= c
  PROVE  a \div b <= c \div b
  <1> DEFINE p == a \div b
             q == c \div b
  <1>1. p \in Nat /\ p * b <= a /\ q \in Nat /\ c < q * b + b
    BY DivBounds
  <1>2. CASE q < p
    <2>1. (q + 1) * b <= p * b
      BY <1>1, <1>2
    <2>2. (q + 1) * b = q * b + b
      BY <1>1
    <2> QED BY <1>1, <2>1, <2>2
  <1> QED BY <1>1, <1>2

-----------------------------------------------------------------------------
(* What refill leaves in the bucket. *)
LEMMA CapacityType == Capacity \in Nat /\ Scale <= Capacity
  <1>1. Burst \in Nat /\ Scale \in Nat /\ 1 <= Burst
    BY BucketAssumption
  <1>2. Burst * Scale \in Nat /\ 1 * Scale <= Burst * Scale
    BY <1>1
  <1> QED BY <1>1, <1>2 DEF Capacity

LEMMA GainType ==
  ASSUME NEW n \in Nat
  PROVE  Rate * n \in Nat
  <1>1. Rate \in Nat
    BY BucketAssumption
  <1> QED BY <1>1

LEMMA LevelType ==
  ASSUME TypeOK
  PROVE  Level \in 0..Capacity /\ Level <= tokens + Rate * idle
  <1>1. tokens \in Nat /\ tokens <= Capacity /\ idle \in Nat
    BY CapacityType, BucketAssumption DEF TypeOK
  <1>2. Rate * idle \in Nat
    BY <1>1, GainType
  <1> QED BY <1>1, <1>2, CapacityType DEF Level, Lesser

(* Right after a refill the bucket holds its tokens. *)
LEMMA LevelFresh ==
  ASSUME tokens \in 0..Capacity, idle = 0
  PROVE  Level = tokens
  <1>1. Rate * 0 = 0
    BY BucketAssumption
  <1> QED BY <1>1, CapacityType DEF Level, Lesser

LEMMA WaitType ==
  ASSUME NEW level \in Nat, level < Scale
  PROVE  WaitFor(level) \in Nat
  <1>1. Scale - level + Rate - 1 \in Nat /\ Rate \in Nat \ {0}
    BY BucketAssumption
  <1> QED BY <1>1, DivBounds DEF WaitFor

(* What each step does to the level: a call admitted takes a token, one     *)
(* refused nothing, and a tick gives Rate units at most.                    *)
LEMMA AdmitLevel ==
  ASSUME TypeOK, NEW t \in Tasks, Acquire(t), Level >= Scale
  PROVE  /\ Level' = Level - Scale /\ Level' \in 0..Capacity
         /\ granted' = granted + 1 /\ UNCHANGED <<asleep, elapsed>>
         /\ tokens' = Level' /\ idle' = 0
  <1>1. /\ tokens' = Level - Scale /\ idle' = 0
        /\ granted' = granted + 1 /\ UNCHANGED <<asleep, elapsed>>
    BY DEF Acquire
  <1>2. Level - Scale \in 0..Capacity
    BY LevelType, CapacityType, BucketAssumption
  <1>3. tokens' \in 0..Capacity /\ idle' = 0
    BY <1>1, <1>2
  <1>4. Level' = tokens'
    <2>1. Rate * 0 = 0
      BY BucketAssumption
    <2> QED BY <1>3, <2>1, CapacityType DEF Level, Lesser, Capacity
  <1> QED BY <1>1, <1>2, <1>4

LEMMA RefuseLevel ==
  ASSUME TypeOK, NEW t \in Tasks, Acquire(t), ~(Level >= Scale)
  PROVE  /\ Level' = Level
         /\ tokens' = Level /\ idle' = 0
         /\ asleep' = [asleep EXCEPT ![t] = WaitFor(Level)]
         /\ UNCHANGED <<granted, elapsed>>
  <1>1. /\ tokens' = Level /\ idle' = 0
        /\ asleep' = [asleep EXCEPT ![t] = WaitFor(Level)]
        /\ UNCHANGED <<granted, elapsed>>
    BY DEF Acquire
  <1>2. tokens' \in 0..Capacity
    BY <1>1, LevelType
  <1>3. Level' = tokens'
    <2>1. Rate * 0 = 0
      BY BucketAssumption
    <2> QED BY <1>1, <1>2, <2>1, CapacityType DEF Level, Lesser, Capacity
  <1> QED BY <1>1, <1>3

LEMMA TickLevel ==
  ASSUME TypeOK, Tick
  PROVE  Level <= Level' /\ Level' <= Level + Rate /\ Level' \in 0..Capacity
  <1>1. /\ tokens' = tokens /\ tokens \in Nat /\ tokens <= Capacity
        /\ idle \in Nat /\ idle <= MaxIdle
        /\ idle' = Lesser(idle + 1, MaxIdle)
    BY CapacityType, BucketAssumption DEF TypeOK, Tick
  <1>2. Rate \in Nat /\ MaxIdle \in Nat
    BY BucketAssumption
  <1>3. Rate * idle \in Nat /\ Rate * (idle + 1) = Rate * idle + Rate
    BY <1>1, <1>2
  <1>4. Rate * idle' \in {Rate * idle, Rate * idle + Rate}
    <2>1. CASE idle + 1 <= MaxIdle
      BY <1>1, <1>3, <2>1 DEF Lesser
    <2>2. CASE ~(idle + 1 <= MaxIdle)
      <3>1. idle' = idle
        BY <1>1, <1>2, <2>2 DEF Lesser
      <3> QED BY <3>1
    <2> QED BY <2>1, <2>2
  <1> DEFINE gain == Rate * idle
             gain2 == Rate * idle'
  <1>5. gain \in Nat /\ gain2 \in {gain, gain + Rate}
    BY <1>3, <1>4
  <1>6. Level = Lesser(tokens + gain, Capacity) /\ Level' = Lesser(tokens + gain2, Capacity)
    BY <1>1 DEF Level, Lesser, Capacity
  <1> HIDE DEF gain, gain2
  <1> QED BY <1>1, <1>2, <1>5, <1>6, CapacityType DEF Lesser

-----------------------------------------------------------------------------
(* The bound *)

LEMMA InitInv == Init => IInv
  <1> SUFFICES ASSUME Init PROVE IInv
    OBVIOUS
  <1>1. TypeOK
    BY CapacityType, BucketAssumption DEF Init, TypeOK
  <1>2. Level = Capacity
    BY LevelFresh, CapacityType DEF Init
  <1>3. granted * Scale = 0 /\ Rate * elapsed = 0
    BY BucketAssumption DEF Init
  <1> QED BY <1>1, <1>2, <1>3, CapacityType DEF IInv

(* A call of acquire keeps the invariant: what it is granted, the bucket    *)
(* loses.                                                                   *)
LEMMA AcquireInv ==
  ASSUME IInv, NEW t \in Tasks, Acquire(t)
  PROVE  IInv'
  <1>0. /\ TypeOK /\ granted * Scale + Level <= Capacity + Rate * elapsed
        /\ granted \in Nat /\ elapsed \in 0..MaxWindow /\ asleep \in [Tasks -> Nat]
        /\ Scale \in Nat
    BY BucketAssumption DEF IInv, TypeOK
  <1>1. CASE Level >= Scale
    <2>1. /\ Level' = Level - Scale /\ Level' \in 0..Capacity
          /\ granted' = granted + 1 /\ UNCHANGED <<asleep, elapsed>>
          /\ tokens' = Level' /\ idle' = 0
      BY <1>0, <1>1, AdmitLevel
    <2>2. TypeOK'
      BY <1>0, <2>1, BucketAssumption DEF TypeOK, Capacity
    <2>3. granted' * Scale = granted * Scale + Scale /\ granted * Scale \in Nat
      BY <1>0, <2>1
    <2>4. Rate * elapsed' = Rate * elapsed /\ Rate * elapsed \in Nat
      BY <1>0, <2>1, GainType
    <2>5. Level \in Nat
      BY <1>0, LevelType, CapacityType
    <2>6. granted' * Scale + Level' <= Capacity + Rate * elapsed'
      BY <1>0, <2>1, <2>3, <2>4, <2>5
    <2> QED BY <2>2, <2>6 DEF IInv, Capacity
  <1>2. CASE ~(Level >= Scale)
    <2>1. /\ Level' = Level
          /\ tokens' = Level /\ idle' = 0
          /\ asleep' = [asleep EXCEPT ![t] = WaitFor(Level)]
          /\ UNCHANGED <<granted, elapsed>>
      BY <1>0, <1>2, RefuseLevel
    <2>2. Level \in 0..Capacity /\ Level \in Nat
      BY <1>0, LevelType, CapacityType
    <2>3. WaitFor(Level) \in Nat
      BY <1>0, <1>2, <2>2, WaitType
    <2>4. TypeOK'
      BY <1>0, <2>1, <2>2, <2>3, BucketAssumption DEF TypeOK, Capacity
    <2>5. (granted * Scale + Level <= Capacity + Rate * elapsed)'
      BY <1>0, <2>1 DEF Capacity
    <2> QED BY <2>4, <2>5 DEF IInv
  <1> QED BY <1>1, <1>2

LEMMA TickInv ==
  ASSUME IInv, Tick
  PROVE  IInv'
  <1>0. /\ TypeOK /\ granted * Scale + Level <= Capacity + Rate * elapsed
        /\ granted \in Nat /\ elapsed \in Nat /\ asleep \in [Tasks -> Nat]
        /\ Scale \in Nat /\ Rate \in Nat /\ MaxIdle \in Nat /\ MaxWindow \in Nat
        /\ idle \in 0..MaxIdle
    BY BucketAssumption DEF IInv, TypeOK
  <1>1. /\ elapsed < MaxWindow /\ elapsed' = elapsed + 1
        /\ idle' = Lesser(idle + 1, MaxIdle)
        /\ asleep' = [t \in Tasks |-> IF asleep[t] = 0 THEN 0 ELSE asleep[t] - 1]
        /\ tokens' = tokens /\ granted' = granted
    BY DEF Tick
  <1>2. asleep' \in [Tasks -> Nat]
    <2>1. \A t \in Tasks : (IF asleep[t] = 0 THEN 0 ELSE asleep[t] - 1) \in Nat
      BY <1>0
    <2> QED BY <1>1, <2>1
  <1>3. TypeOK'
    BY <1>0, <1>1, <1>2 DEF TypeOK, Lesser, Capacity
  <1>4. Level \in Nat /\ Level' \in Nat /\ Level' <= Level + Rate
    BY <1>0, TickLevel, LevelType, CapacityType
  <1>5. Rate * elapsed' = Rate * elapsed + Rate /\ Rate * elapsed \in Nat
    BY <1>0, <1>1
  <1>6. granted' * Scale = granted * Scale /\ granted * Scale \in Nat
    BY <1>0, <1>1
  <1>7. granted' * Scale + Level' <= Capacity + Rate * elapsed'
    BY <1>0, <1>4, <1>5, <1>6, CapacityType
  <1> QED BY <1>3, <1>7 DEF IInv, Capacity

LEMMA WindowInv ==
  ASSUME IInv, OpenWindow
  PROVE  IInv'
  <1>0. TypeOK
    BY DEF IInv
  <1>1. granted' = 0 /\ elapsed' = 0 /\ UNCHANGED <<tokens, idle, asleep>>
    BY DEF OpenWindow, bucket
  <1>2. TypeOK'
    BY <1>0, <1>1, BucketAssumption DEF TypeOK, Capacity
  <1>3. Level' = Level
    BY <1>1 DEF Level, Lesser, Capacity
  <1>4. granted' * Scale = 0 /\ Rate * elapsed' = 0
    BY <1>1, BucketAssumption
  <1>5. granted' * Scale + Level' <= Capacity + Rate * elapsed'
    BY <1>0, <1>3, <1>4, LevelType, CapacityType
  <1> QED BY <1>2, <1>5 DEF IInv, Capacity

(* The inductive invariant: what was granted and what the bucket holds      *)
(* together are no more than it held at first and gained since.             *)
THEOREM BucketInv == Spec => []IInv
  <1>1. IInv /\ [Next]_vars => IInv'
    <2> SUFFICES ASSUME IInv, [Next]_vars PROVE IInv'
      OBVIOUS
    <2>1. CASE \E t \in Tasks : Acquire(t)
      BY <2>1, AcquireInv
    <2>2. CASE Tick
      BY <2>2, TickInv
    <2>3. CASE OpenWindow
      BY <2>3, WindowInv
    <2>4. CASE UNCHANGED vars
      BY <2>4 DEF IInv, TypeOK, Level, Lesser, Capacity, vars, bucket, window
    <2> QED BY <2>1, <2>2, <2>3, <2>4 DEF Next
  <1> QED BY InitInv, <1>1, PTL DEF Spec

LEMMA InvBounds == IInv => WindowBound
  <1> SUFFICES ASSUME IInv PROVE WindowBound
    OBVIOUS
  <1>1. TypeOK /\ granted * Scale + Level <= Capacity + Rate * elapsed
    BY DEF IInv
  <1>2. granted \in Nat /\ elapsed \in Nat /\ Scale \in Nat
    BY <1>1, BucketAssumption DEF TypeOK
  <1>3. granted * Scale \in Nat /\ Rate * elapsed \in Nat
    BY <1>2, GainType
  <1>4. Level \in Nat
    BY <1>1, LevelType, CapacityType
  <1> QED BY <1>1, <1>3, <1>4, CapacityType DEF WindowBound

(* In no window are more calls admitted than a full bucket and the rate     *)
(* allow (AsyncRateLimiter::acquire, TokenBucket::refill).                  *)
THEOREM WindowBounded == Spec => []WindowBound
  BY InvBounds, BucketInv, PTL

-----------------------------------------------------------------------------
(* The pool of permits *)

(* A full bucket is all the permits there are. *)
LEMMA PoolInit == Init => Pool!Init
  <1> SUFFICES ASSUME Init PROVE Level \div Scale = Burst
    BY DEF Pool!Init
  <1>1. Level = Capacity
    BY LevelFresh, CapacityType DEF Init
  <1>2. Burst * Scale <= Capacity /\ Capacity < Burst * Scale + Scale /\ Capacity \in Nat
    BY CapacityType, BucketAssumption DEF Capacity
  <1>3. Scale \in Nat \ {0} /\ Burst \in Nat
    BY BucketAssumption
  <1> QED BY <1>1, <1>2, <1>3, DivUnique

(* A call admitted takes a permit, one refused none. *)
LEMMA PoolAcquire ==
  ASSUME TypeOK, NEW t \in Tasks, Acquire(t)
  PROVE  [Pool!Next]_(Level \div Scale)
  <1>0. Level \in Nat /\ Scale \in Nat \ {0}
    BY LevelType, CapacityType, BucketAssumption
  <1>1. CASE Level >= Scale
    <2> DEFINE n == Level \div Scale
    <2>1. n \in Nat /\ n * Scale <= Level /\ Level < n * Scale + Scale
      BY <1>0, DivBounds
    <2>2. n # 0
      BY <1>0, <1>1, <2>1
    <2>3. (n - 1) * Scale = n * Scale - Scale /\ n - 1 \in Nat
      BY <1>0, <2>1, <2>2
    <2>4. Level - Scale \in Nat /\ (n - 1) * Scale <= Level - Scale
          /\ Level - Scale < (n - 1) * Scale + Scale
      BY <1>0, <1>1, <2>1, <2>3
    <2>5. (Level - Scale) \div Scale = n - 1
      BY <1>0, <2>3, <2>4, DivUnique
    <2>6. Level' \div Scale = n - 1
      BY <1>1, <2>5, AdmitLevel
    <2>7. n > 0
      BY <2>1, <2>2
    <2> QED BY <2>6, <2>7 DEF Pool!Next, Pool!Take
  <1>2. CASE ~(Level >= Scale)
    BY <1>2, RefuseLevel
  <1> QED BY <1>1, <1>2

(* Time hands out new permits, or none yet. *)
LEMMA PoolTick ==
  ASSUME TypeOK, TypeOK', Tick
  PROVE  [Pool!Next]_(Level \div Scale)
  <1>1. Level \in Nat /\ Level' \in Nat /\ Level <= Level' /\ Scale \in Nat \ {0}
    BY TickLevel, LevelType, CapacityType, BucketAssumption
  <1>2. Level \div Scale <= Level' \div Scale /\ Level \div Scale \in Nat
        /\ Level' \div Scale \in Nat
    BY <1>1, DivMonotone, DivBounds
  <1>3. Level' \div Scale \in 0..Burst
    <2>1. Level' <= Capacity
      BY TickLevel, CapacityType
    <2>2. Level' \div Scale <= Capacity \div Scale
      BY <1>1, <2>1, CapacityType, DivMonotone
    <2>3. Capacity \div Scale = Burst
      <3>1. Burst * Scale <= Capacity /\ Capacity < Burst * Scale + Scale
        BY CapacityType, BucketAssumption DEF Capacity
      <3> QED BY <1>1, <3>1, DivUnique, CapacityType, BucketAssumption
    <2> QED BY <1>2, <2>2, <2>3, BucketAssumption
  <1>4. CASE Level' \div Scale = Level \div Scale
    BY <1>4
  <1>5. CASE Level' \div Scale # Level \div Scale
    <2>1. Level' \div Scale \in ((Level \div Scale) + 1)..Burst
      BY <1>2, <1>3, <1>5, BucketAssumption
    <2> QED BY <2>1 DEF Pool!Next, Pool!Refill
  <1> QED BY <1>4, <1>5

(* To its callers the lazily refilled bucket is a pool of permits.          *)
THEOREM BucketImplementsPool == Spec => ImplementsPool
  <1>1. IInv /\ IInv' /\ [Next]_vars => [Pool!Next]_(Level \div Scale)
    <2> SUFFICES ASSUME IInv, IInv', [Next]_vars PROVE [Pool!Next]_(Level \div Scale)
      OBVIOUS
    <2>0. TypeOK /\ TypeOK'
      BY DEF IInv
    <2>1. CASE \E t \in Tasks : Acquire(t)
      BY <2>0, <2>1, PoolAcquire
    <2>2. CASE Tick
      BY <2>0, <2>2, PoolTick
    <2>3. CASE OpenWindow
      BY <2>3 DEF OpenWindow, bucket, Level, Lesser, Capacity
    <2>4. CASE UNCHANGED vars
      BY <2>4 DEF vars, bucket, Level, Lesser, Capacity
    <2> QED BY <2>1, <2>2, <2>3, <2>4 DEF Next
  <1> QED BY PoolInit, BucketInv, <1>1, PTL DEF Spec, ImplementsPool, Pool!Spec

-----------------------------------------------------------------------------
(* The poller *)

(* Quotes are timestamps; what is to be written to the table, and what the  *)
(* table holds, is a stored snapshot.                                       *)
StoredFirst ==
  /\ quote \in [Symbols -> Nat]
  /\ latest \in [Symbols -> Nat]
  /\ history \in [Symbols -> SUBSET Nat]
  /\ toUpsert \subseteq Symbols
  /\ pc # "write" => toUpsert = {}
  /\ \A s \in toUpsert : quote[s] \in history[s]
  /\ \A s \in Symbols : latest[s] \in history[s] \cup {Never}

LEMMA StoredFirstInit == PollerInit => StoredFirst
  BY DEF PollerInit, StoredFirst, Never

(* A partition written makes its row due. *)
LEMMA StoreKeeps ==
  ASSUME StoredFirst, NEW s \in Symbols, StorePartition(s)
  PROVE  StoredFirst' /\ latest' = latest
         /\ \A r \in Symbols : history[r] \subseteq history'[r]
  <1>1. latest' = latest /\ quote' = quote /\ pc = "write" /\ pc' = pc
    BY DEF StorePartition, answer
  <1>2. CASE /\ history' = [history EXCEPT ![s] = @ \cup {quote[s]}]
             /\ toUpsert' = toUpsert \cup {s}
    <2>1. \A r \in Symbols : history'[r] = IF r = s THEN history[s] \cup {quote[s]} ELSE history[r]
      BY <1>2 DEF StoredFirst
    <2>2. history' \in [Symbols -> SUBSET Nat]
      BY <1>2 DEF StoredFirst
    <2>3. \A r \in toUpsert' : quote'[r] \in history'[r]
      BY <1>1, <1>2, <2>1 DEF StoredFirst
    <2>4. \A r \in Symbols : latest'[r] \in history'[r] \cup {Never}
      BY <1>1, <2>1 DEF StoredFirst
    <2>5. \A r \in Symbols : history[r] \subseteq history'[r]
      BY <2>1
    <2> QED BY <1>1, <1>2, <2>2, <2>3, <2>4, <2>5 DEF StoredFirst
  <1>3. CASE UNCHANGED <<history, toUpsert>>
    BY <1>1, <1>3 DEF StoredFirst
  <1> QED BY <1>2, <1>3 DEF StorePartition

(* A row takes a stored quote, or stays. *)
LEMMA UpsertKeeps ==
  ASSUME StoredFirst, NEW s \in Symbols, UpsertLatest(s)
  PROVE  StoredFirst' /\ history' = history
         /\ \A r \in Symbols : latest'[r] >= latest[r]
  <1>1. /\ s \in toUpsert /\ toUpsert' = toUpsert \ {s}
        /\ quote' = quote /\ history' = history /\ pc = "write" /\ pc' = pc
    BY DEF UpsertLatest, answer
  <1>2. \A r \in Symbols : latest'[r] = latest[r] \/ (r = s /\ latest[s] <= quote[s] /\ latest'[r] = quote[s])
    BY DEF UpsertLatest, StoredFirst
  <1>3. latest' \in [Symbols -> Nat]
    <2>1. CASE latest' = [latest EXCEPT ![s] = IF @ <= quote[s] THEN quote[s] ELSE @]
      BY <2>1 DEF StoredFirst
    <2>2. CASE latest' = latest
      BY <2>2 DEF StoredFirst
    <2> QED BY <2>1, <2>2 DEF UpsertLatest
  <1>4. quote[s] \in history[s]
    BY <1>1 DEF StoredFirst
  <1>5. \A r \in Symbols : latest'[r] \in history'[r] \cup {Never}
    BY <1>1, <1>2, <1>4 DEF StoredFirst
  <1>6. \A r \in Symbols : latest'[r] >= latest[r]
    BY <1>2, <1>3 DEF StoredFirst
  <1> QED BY <1>1, <1>3, <1>5, <1>6 DEF StoredFirst

(* What every step does to rows and snapshots. *)
LEMMA PollerStep ==
  ASSUME StoredFirst, [PollerNext]_all
  PROVE  /\ StoredFirst'
         /\ \A s \in Symbols : latest'[s] >= latest[s] /\ latest'[s] \in history'[s] \cup {Never}
  <1>0. latest' = latest => \A s \in Symbols : latest'[s] >= latest[s]
    BY DEF StoredFirst
  <1> SUFFICES StoredFirst' /\ \A s \in Symbols : latest'[s] >= latest[s]
    BY DEF StoredFirst
  <1>1. CASE \E s \in Symbols : StorePartition(s)
    BY <1>0, <1>1, StoreKeeps
  <1>2. CASE \E s \in Symbols : UpsertLatest(s)
    BY <1>2, UpsertKeeps
  <1>3. CASE List \/ Admit
    <2>1. UNCHANGED <<quote, toUpsert, history, latest>> /\ pc # "write" /\ pc' # "write"
      BY <1>3 DEF List, Admit, answer, writes, stored
    <2> QED BY <1>0, <2>1 DEF StoredFirst
  <1>4. CASE Answered
    <2>1. PICK q \in [asked -> 1..MaxQuote] :
            quote' = [s \in Symbols |-> IF s \in asked THEN q[s] ELSE Never]
      BY <1>4 DEF Answered
    <2>2. quote' \in [Symbols -> Nat]
      BY <2>1, PollerAssumption DEF Never
    <2>3. pc = "call" /\ UNCHANGED <<toUpsert, history, latest>>
      BY <1>4 DEF Answered, stored
    <2>4. toUpsert = {}
      BY <2>3 DEF StoredFirst
    <2> QED BY <1>0, <2>2, <2>3, <2>4 DEF StoredFirst
  <1>5. CASE Refused \/ EndPoll \/ Restart
    <2>1. UNCHANGED <<history, latest>>
      BY <1>5 DEF Refused, EndPoll, Restart, stored
    <2>2. CASE Sleep
      <3>1. quote' = [s \in Symbols |-> Never] /\ toUpsert' = {} /\ pc' = "list"
        BY <2>2 DEF Sleep
      <3> QED BY <1>0, <2>1, <3>1 DEF StoredFirst, Never
    <2>3. CASE pc' = "acquire" /\ UNCHANGED <<answer, writes>> /\ pc = "call"
      BY <1>0, <2>1, <2>3 DEF StoredFirst, answer, writes
    <2> QED BY <1>5, <2>2, <2>3 DEF Refused, EndPoll, Restart
  <1>6. CASE \/ \E s \in Symbols : Watch(s) \/ Unwatch(s)
             \/ UNCHANGED pvars
             \/ UNCHANGED all
    <2>1. UNCHANGED <<quote, toUpsert, history, latest, pc>>
      BY <1>6 DEF Watch, Unwatch, pvars, all, answer, writes, stored
    <2> QED BY <1>0, <2>1 DEF StoredFirst
  <1> QED BY <1>1, <1>2, <1>3, <1>4, <1>5, <1>6 DEF PollerNext, Poll

(* The row of latest_snapshots is a stored snapshot and never an older one *)
(* than before (write_snapshot, upsert_latest_snapshot).                   *)
THEOREM RowsGoForward == PollerSpec => LatestForward
  <1>1. StoredFirst /\ [PollerNext]_all => StoredFirst'
    BY PollerStep
  <1>2. StoredFirst /\ [PollerNext]_all =>
          [\A s \in Symbols : /\ latest'[s] >= latest[s]
                              /\ latest'[s] \in history'[s] \cup {Never}]_all
    BY PollerStep
  <1> QED BY StoredFirstInit, <1>1, <1>2, PTL DEF PollerSpec, LatestForward

(* A process that starts again has a full bucket. *)
LEMMA RestartInv ==
  ASSUME Restart
  PROVE  IInv'
  <1>1. /\ tokens' = Capacity /\ idle' = 0 /\ asleep' = [t \in Tasks |-> 0]
        /\ granted' = 0 /\ elapsed' = 0
    BY DEF Restart
  <1>2. TypeOK'
    BY <1>1, CapacityType, BucketAssumption DEF TypeOK, Capacity
  <1>3. Level' = Capacity
    <2>1. Rate * 0 = 0
      BY BucketAssumption
    <2> QED BY <1>1, <2>1, CapacityType DEF Level, Lesser, Capacity
  <1>4. granted' * Scale = 0 /\ Rate * elapsed' = 0
    BY <1>1, BucketAssumption
  <1> QED BY <1>2, <1>3, <1>4, CapacityType DEF IInv, Capacity

(* The poller is one of the tasks the bucket bounds. *)
THEOREM PollerBounded == PollerSpec => []WindowBound
  <1>1. PollerInit => IInv
    BY InitInv DEF PollerInit
  <1>2. IInv /\ [PollerNext]_all => IInv'
    <2> SUFFICES ASSUME IInv, [PollerNext]_all PROVE IInv'
      OBVIOUS
    <2>1. CASE Restart
      BY <2>1, RestartInv
    <2>2. CASE Admit
      BY <2>2, AcquireInv, PollerAssumption DEF Admit
    <2>3. CASE UNCHANGED pvars /\ ((\E t \in Tasks \ {Poller} : Acquire(t)) \/ Tick \/ OpenWindow)
      BY <2>3, AcquireInv, TickInv, WindowInv
    <2>4. CASE UNCHANGED vars
      BY <2>4 DEF IInv, TypeOK, Level, Lesser, Capacity, vars, bucket, window
    <2>5. CASE List \/ Answered \/ Refused \/ EndPoll
      BY <2>4, <2>5 DEF List, Answered, Refused, EndPoll
    <2>6. CASE \E s \in Symbols : StorePartition(s) \/ UpsertLatest(s) \/ Watch(s) \/ Unwatch(s)
      BY <2>4, <2>6 DEF StorePartition, UpsertLatest, Watch, Unwatch
    <2>7. CASE UNCHANGED all
      BY <2>4, <2>7 DEF all
    <2> QED BY <2>1, <2>2, <2>3, <2>5, <2>6, <2>7 DEF PollerNext, Poll
  <1>3. IInv => WindowBound
    BY InvBounds
  <1> QED BY <1>1, <1>2, <1>3, PTL DEF PollerSpec

=============================================================================
