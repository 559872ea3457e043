------------------------- MODULE MarketSync_proofs -------------------------
(***************************************************************************)
(* Theorems about the syncs of market data, for any symbols, periods,      *)
(* years, number of jobs, retries and restarts; and about the files they   *)
(* write, for any batches in any order; and about the prices read back     *)
(* across splits, for any history.                                         *)
(***************************************************************************)
EXTENDS MarketSync, PartitionStore, PriceSeries, Sums_proofs, SequenceTheorems

(* ORDER BY symbol: every set of symbols has its list. *)

LEMMA PlaceOf ==
  ASSUME NEW s \in Symbols
  PROVE  Place(s) \in 1..Len(SymbolOrder) /\ SymbolOrder[Place(s)] = s
<1>1. \E n \in 1..Len(SymbolOrder) : SymbolOrder[n] = s
  BY SyncAssumption DEF Symbols, Range
<1>2. QED
  BY <1>1 DEF Place

LEMMA SymbolsFinite == IsFiniteSet(Symbols)
<1> DEFINE D == 1..Len(SymbolOrder)
<1>1. IsFiniteSet(D)
  BY FS_Interval, SyncAssumption
<1>2. Symbols = {SymbolOrder[n] : n \in D}
  BY SyncAssumption DEF Symbols, Range
<1>3. SymbolOrder \in Surjection(D, Symbols)
  BY SyncAssumption, <1>2 DEF Surjection
<1>4. QED
  BY <1>1, <1>3, FS_Surjection

(* A list of a set of symbols in the order of the table. *)
IsListing(seq, set) ==
  /\ seq \in [1..Cardinality(set) -> set]
  /\ \A m, n \in 1..Cardinality(set) : m < n => Place(seq[m]) < Place(seq[n])

LEMMA ListingExists ==
  \A set \in SUBSET Symbols : \E seq : IsListing(seq, set)
<1> DEFINE Bad == {k \in Nat : \E set \in SUBSET Symbols :
                      Cardinality(set) = k /\ ~ \E seq : IsListing(seq, set)}
<1>1. \A set \in SUBSET Symbols : IsFiniteSet(set) /\ Cardinality(set) \in Nat
  BY SymbolsFinite, FS_Subset, FS_CardinalityType
<1>2. CASE Bad = {}
  BY <1>1, <1>2
<1>3. CASE Bad # {}
  <2>1. PICK k \in Bad : \A m \in Bad : k <= m
    <3>1. Bad \subseteq Nat
      OBVIOUS
    <3> HIDE DEF Bad
    <3>2. QED
      BY <1>3, <3>1, LeastNat
  <2>2. PICK set \in SUBSET Symbols : Cardinality(set) = k /\ ~ \E seq : IsListing(seq, set)
    OBVIOUS
  <2>3. IsFiniteSet(set) /\ k \in Nat
    BY <1>1, <2>2
  <2>4. CASE set = {}
    <3>1. Cardinality(set) = 0
      BY <2>4, FS_EmptySet
    <3>2. 1..Cardinality(set) = {}
      BY <3>1
    <3>3. IsListing([x \in {} |-> x], set)
      BY <3>2 DEF IsListing
    <3>4. QED
      BY <2>2, <3>3
  <2>5. CASE set # {}
    <3> DEFINE P == {Place(s) : s \in set}
    <3>1. P \subseteq 0..Len(SymbolOrder) /\ P # {} /\ Len(SymbolOrder) \in Nat
      BY <2>5, PlaceOf, SyncAssumption
    <3>2. PICK p \in P : \A q \in P : q <= p
      <4> HIDE DEF P
      <4>1. QED
        BY <3>1, GreatestBounded
    <3>3. PICK last \in set : p = Place(last)
      OBVIOUS
    <3> DEFINE rest == set \ {last}
    <3>4. rest \in SUBSET Symbols /\ Cardinality(rest) = k - 1 /\ k - 1 \in Nat
      <4>1. Cardinality(rest) = Cardinality(set) - 1
        BY <2>3, FS_RemoveElement
      <4>2. Cardinality(rest) \in Nat
        BY <1>1
      <4>3. QED
        BY <2>2, <2>3, <4>1, <4>2
    <3>5. k - 1 \notin Bad
      <4> HIDE DEF Bad
      <4>1. QED
        BY <2>1, <2>3, <3>4
    <3>6. PICK seq : IsListing(seq, rest)
      <4> HIDE DEF rest
      <4>1. QED
        BY <3>4, <3>5
    <3> DEFINE longer == [n \in 1..k |-> IF n = k THEN last ELSE seq[n]]
    <3>7. \A n \in 1..(k - 1) : seq[n] \in rest
      BY <3>4, <3>6 DEF IsListing
    <3>8. longer \in [1..k -> set]
      BY <2>3, <3>4, <3>7
    <3>9. ASSUME NEW m \in 1..k, NEW n \in 1..k, m < n
          PROVE  Place(longer[m]) < Place(longer[n])
      <4>1. m \in 1..(k - 1) /\ longer[m] = seq[m]
        BY <2>3, <3>9
      <4>2. CASE n = k
        <5>1. longer[n] = last /\ seq[m] \in set /\ seq[m] # last
          BY <2>3, <3>7, <4>1, <4>2
        <5>2. Place(seq[m]) \in P
          BY <5>1
        <5>3. Place(seq[m]) <= Place(last)
          BY <3>2, <3>3, <5>2
        <5>4. Place(seq[m]) # Place(last) /\ Place(seq[m]) \in Nat /\ Place(last) \in Nat
          BY <5>1, PlaceOf
        <5>5. QED
          BY <4>1, <5>1, <5>3, <5>4
      <4>3. CASE n # k
        <5>1. n \in 1..(k - 1) /\ longer[n] = seq[n]
          BY <2>3, <4>3
        <5>2. QED
          BY <3>4, <3>6, <3>9, <4>1, <5>1 DEF IsListing
      <4>4. QED
        BY <4>2, <4>3
    <3>10. IsListing(longer, set)
      BY <2>2, <3>8, <3>9 DEF IsListing
    <3>11. QED
      BY <2>2, <3>10
  <2>6. QED
    BY <2>4, <2>5
<1>4. QED
  BY <1>2, <1>3

LEMMA OrderedType ==
  ASSUME NEW set \in SUBSET Symbols
  PROVE  Ordered(set) \in Seq(Symbols)
<1>1. PICK seq : IsListing(seq, set)
  BY ListingExists
<1>2. Ordered(set) \in [1..Cardinality(set) -> set]
  BY <1>1 DEF IsListing, Ordered
<1>3. Cardinality(set) \in Nat
  BY SymbolsFinite, FS_Subset, FS_CardinalityType
<1>4. QED
  BY <1>2, <1>3

-----------------------------------------------------------------------------
(* The values of the locals of a task *)

LEMMA NothingType == Nothing \in Bars /\ DOMAIN Nothing = {}
<1>1. DOMAIN Nothing = {}
  BY DEF Nothing
<1>2. Nothing \in [{} -> Bar] /\ {} \in SUBSET Days
  BY DEF Nothing
<1>3. QED
  BY <1>1, <1>2 DEF Bars

LEMMA BarsOf ==
  ASSUME NEW b
  PROVE  /\ b \in Bars => DOMAIN b \subseteq Days /\ b \in [DOMAIN b -> Bar]
         /\ DOMAIN b \subseteq Days /\ b \in [DOMAIN b -> Bar] => b \in Bars
BY DEF Bars

LEMMA KeepFirstType ==
  ASSUME NEW a \in Bars, NEW b \in Bars
  PROVE  /\ KeepFirst(a, b) \in Bars
         /\ DOMAIN KeepFirst(a, b) = DOMAIN a \cup DOMAIN b
<1>1. /\ DOMAIN a \subseteq Days /\ a \in [DOMAIN a -> Bar]
      /\ DOMAIN b \subseteq Days /\ b \in [DOMAIN b -> Bar]
  BY BarsOf
<1> DEFINE c == KeepFirst(a, b)
<1>2. DOMAIN c = DOMAIN a \cup DOMAIN b /\ c \in [DOMAIN c -> Bar]
  BY <1>1 DEF KeepFirst
<1>3. DOMAIN c \subseteq Days
  BY <1>1, <1>2
<1> HIDE DEF c
<1>4. c \in Bars
  BY <1>2, <1>3, BarsOf
<1>5. QED
  BY <1>2, <1>4 DEF c

LEMMA RestrictType ==
  ASSUME NEW a \in Bars, NEW D, D \subseteq DOMAIN a
  PROVE  Restrict(a, D) \in Bars /\ DOMAIN Restrict(a, D) = D
<1>1. DOMAIN a \subseteq Days /\ a \in [DOMAIN a -> Bar]
  BY BarsOf
<1>2. DOMAIN Restrict(a, D) = D /\ Restrict(a, D) \in [D -> Bar]
  BY <1>1 DEF Restrict
<1>3. QED
  BY <1>1, <1>2, BarsOf

LEMMA OfYearType ==
  ASSUME NEW a \in Bars, NEW y
  PROVE  /\ OfYear(a, y) \in Bars
         /\ DOMAIN OfYear(a, y) = {d \in DOMAIN a : YearOf(d) = y}
BY RestrictType DEF OfYear

LEMMA AnswerType ==
  ASSUME day \in Days, NEW s, NEW from \in Days, NEW to \in 0..(MaxDay + 1)
  PROVE  /\ Available(s, from, to) \subseteq Days
         /\ Answer(s, from, to) \in Bars
         /\ DOMAIN Answer(s, from, to) = Available(s, from, to)
<1>1. Available(s, from, to) \subseteq Days
  BY SyncAssumption DEF Available, Days
<1>2. DOMAIN Answer(s, from, to) = Available(s, from, to)
  BY DEF Answer
<1>3. Answer(s, from, to) \in [Available(s, from, to) -> Bar]
  BY DEF Answer, Bar
<1>4. QED
  BY <1>1, <1>2, <1>3, BarsOf

LEMMA RangeTail ==
  ASSUME NEW S, NEW seq \in Seq(S), seq # <<>>
  PROVE  /\ Head(seq) \in S /\ Tail(seq) \in Seq(S)
         /\ Range(seq) = {Head(seq)} \cup Range(Tail(seq))
<1>1. Head(seq) = seq[1] /\ Head(seq) \in S /\ Tail(seq) \in Seq(S)
  BY HeadTailProperties
<1>2. /\ Len(Tail(seq)) = Len(seq) - 1 /\ Len(seq) \in Nat /\ Len(seq) >= 1
      /\ \A i \in 1..(Len(seq) - 1) : Tail(seq)[i] = seq[i + 1]
  BY HeadTailProperties, EmptySeq
<1>3. /\ DOMAIN seq = 1..Len(seq) /\ DOMAIN Tail(seq) = 1..(Len(seq) - 1)
  BY <1>1, <1>2
<1>4. ASSUME NEW i \in 1..Len(seq) PROVE seq[i] \in {Head(seq)} \cup Range(Tail(seq))
  <2>1. CASE i = 1
    BY <1>1, <2>1
  <2>2. CASE i # 1
    <3>1. i - 1 \in 1..(Len(seq) - 1) /\ (i - 1) + 1 = i
      BY <1>2, <2>2
    <3>2. Tail(seq)[i - 1] = seq[i]
      BY <1>2, <3>1
    <3>3. QED
      BY <1>3, <3>1, <3>2 DEF Range
  <2>3. QED
    BY <2>1, <2>2
<1>5. ASSUME NEW i \in 1..(Len(seq) - 1) PROVE Tail(seq)[i] \in Range(seq)
  <2>1. i + 1 \in 1..Len(seq) /\ Tail(seq)[i] = seq[i + 1]
    BY <1>2
  <2>2. QED
    BY <1>3, <2>1 DEF Range
<1>6. Head(seq) \in Range(seq)
  <2>1. 1 \in 1..Len(seq)
    BY <1>2
  <2>2. QED
    BY <1>1, <1>3, <2>1 DEF Range
<1>7. QED
  BY <1>1, <1>3, <1>4, <1>5, <1>6 DEF Range

LEMMA IdleType == Idle \in Tasks
<1>1. 1 \in Days /\ 1 \in 0..(MaxDay + 1) /\ 0 \in 0..(MaxAttempts - 1)
  BY SyncAssumption DEF Days
<1>2. 1 \in 1..Len(Periods)
  <2>1. Len(Periods) \in Nat /\ Len(Periods) # 0
    BY SyncAssumption, EmptySeq
  <2>2. QED
    BY <2>1
<1>3. <<>> \in Seq(Symbols)
  OBVIOUS
<1>4. QED
  BY <1>1, <1>2, <1>3, NothingType DEF Idle, Tasks

-----------------------------------------------------------------------------
(* A step of one task *)

Moves(j, n) == task' = [i \in Jobs |-> IF i = j THEN n ELSE task[i]]

LEMMA MovedTask ==
  ASSUME task \in [Jobs -> Tasks], NEW j \in Jobs, NEW n \in Tasks, Moves(j, n)
  PROVE  task' \in [Jobs -> Tasks]
BY DEF Moves

(* More bars that are kept never make a task's progress less. *)
LEMMA KeptGrows ==
  ASSUME NEW t, NEW a, NEW b, a \subseteq b, Progress(t, a)
  PROVE  Progress(t, b)
BY DEF Progress, SymbolsDone, PeriodsDone, YearsDone, StoredFor

LEMMA MovedProgress ==
  ASSUME IInv, NEW j \in Jobs, NEW n \in Tasks, Moves(j, n),
         KeptBars \subseteq KeptBars', day' = day,
         Progress(n, KeptBars'), n.asof <= day, TypeOK'
  PROVE  IInv'
<1>1. ASSUME NEW i \in Jobs PROVE Progress(task'[i], KeptBars') /\ task'[i].asof <= day'
  <2>1. CASE i = j
    BY <2>1 DEF Moves
  <2>2. CASE i # j
    <3>1. task'[i] = task[i]
      BY <2>2 DEF Moves
    <3>2. Progress(task[i], KeptBars) /\ task[i].asof <= day
      BY DEF IInv
    <3>3. QED
      BY <3>1, <3>2, KeptGrows
  <2>3. QED
    BY <2>1, <2>2
<1>2. QED
  BY <1>1 DEF IInv

LEMMA KeptSame ==
  ASSUME UNCHANGED <<files, raced>>
  PROVE  KeptBars' = KeptBars
BY DEF KeptBars

(* A task that has not chosen its symbols, or has given up, owes nothing. *)
LEMMA OwesNothing ==
  ASSUME NEW n, NEW kept, n.covers = {}, n.p = 1, LocalsInUse(n),
         n.pc \notin {"read", "rename", "idle"}
  PROVE  Progress(n, kept)
<1>1. SymbolsDone(n, kept)
  BY DEF SymbolsDone
<1>2. 1..(n.p - 1) = {}
  OBVIOUS
<1>3. PeriodsDone(n, kept)
  BY <1>2 DEF PeriodsDone
<1>4. QED
  BY <1>1, <1>3 DEF Progress, YearsDone

(* A step that goes on with the same symbol and period. *)
LEMMA SameWork ==
  ASSUME NEW t, NEW n, NEW kept, Progress(t, kept),
         n.covers = t.covers, n.todo = t.todo, n.from = t.from, n.to = t.to,
         n.asof = t.asof, n.p = t.p, LocalsInUse(n), YearsDone(n, kept)
  PROVE  Progress(n, kept)
BY DEF Progress, SymbolsDone, PeriodsDone, StoredFor, Had

Failed(t) == [Idle EXCEPT !.pc = "finish", !.id = t.id, !.ok = FALSE]

LEMMA FailedProgress ==
  ASSUME NEW t \in Tasks, NEW kept
  PROVE  /\ Failed(t) \in Tasks /\ Progress(Failed(t), kept) /\ Failed(t).asof = 1
         /\ Failed(t).id = t.id /\ Failed(t).pc = "finish"
<1>1. t.id \in Nat
  BY DEF Tasks
<1>2. Failed(t) \in Tasks
  BY <1>1, IdleType DEF Failed, Tasks, SavePcs
<1>3. /\ Failed(t).covers = {} /\ Failed(t).p = 1 /\ Failed(t).pc = "finish"
      /\ Failed(t).asof = 1 /\ ~Failed(t).ok /\ Failed(t).id = t.id
  BY DEF Failed, Idle
<1>4. LocalsInUse(Failed(t))
  BY <1>3 DEF LocalsInUse
<1>5. QED
  BY <1>2, <1>3, <1>4, OwesNothing

LEMMA FailsMoves ==
  ASSUME task \in [Jobs -> Tasks], NEW j \in Jobs, Fails(j)
  PROVE  Moves(j, Failed(task[j]))
BY DEF Fails, Moves, Failed

LEMMA GoesMoves ==
  ASSUME task \in [Jobs -> Tasks], NEW j \in Jobs, NEW pc, Goes(j, pc)
  PROVE  Moves(j, [task[j] EXCEPT !.pc = pc])
BY DEF Goes, Moves

LEMMA GoesType ==
  ASSUME NEW t \in Tasks, NEW pc \in CallPcs \cup SavePcs \cup {"off", "done"}
  PROVE  [t EXCEPT !.pc = pc] \in Tasks
BY DEF Tasks

(* What a step does when the call or the statement in it fails. *)
LEMMA FailsStep ==
  ASSUME IInv, NEW j \in Jobs, Fails(j), UNCHANGED <<day, files, raced>>,
         task' \in [Jobs -> Tasks] => TypeOK'
  PROVE  IInv'
<1>1. task \in [Jobs -> Tasks] /\ task[j] \in Tasks /\ day \in Days
  BY DEF IInv, TypeOK
<1>2. /\ Failed(task[j]) \in Tasks /\ Progress(Failed(task[j]), KeptBars')
      /\ Failed(task[j]).asof = 1
  BY <1>1, FailedProgress
<1>3. Moves(j, Failed(task[j]))
  BY <1>1, FailsMoves
<1>4. Failed(task[j]).asof <= day
  BY <1>1, <1>2 DEF Days
<1>5. TypeOK'
  BY <1>1, <1>2, <1>3, MovedTask
<1>6. QED
  BY <1>2, <1>3, <1>4, <1>5, KeptSame, MovedProgress

(* A step that leaves everything but the task's place alone. *)
LEMMA GoesStep ==
  ASSUME IInv, NEW j \in Jobs, NEW pc \in SavePcs \cup CallPcs \cup {"done"}, Goes(j, pc),
         UNCHANGED <<day, files, raced>>, task' \in [Jobs -> Tasks] => TypeOK',
         LocalsInUse([task[j] EXCEPT !.pc = pc]),
         YearsDone([task[j] EXCEPT !.pc = pc], KeptBars)
  PROVE  IInv'
<1> DEFINE n == [task[j] EXCEPT !.pc = pc]
<1>1. /\ task \in [Jobs -> Tasks] /\ task[j] \in Tasks
      /\ Progress(task[j], KeptBars) /\ task[j].asof <= day
  BY DEF IInv, TypeOK
<1>2. n \in Tasks /\ Moves(j, n)
  BY <1>1, GoesType, GoesMoves
<1>3. /\ n.covers = task[j].covers /\ n.todo = task[j].todo /\ n.from = task[j].from
      /\ n.to = task[j].to /\ n.asof = task[j].asof /\ n.p = task[j].p
  BY <1>1 DEF Tasks
<1>4. LocalsInUse(n) /\ YearsDone(n, KeptBars)
  OBVIOUS
<1> HIDE DEF n
<1>5. Progress(n, KeptBars)
  BY <1>1, <1>3, <1>4, SameWork
<1>6. TypeOK'
  BY <1>1, <1>2, MovedTask
<1>7. QED
  BY <1>1, <1>2, <1>3, <1>5, <1>6, KeptSame, MovedProgress

-----------------------------------------------------------------------------
(* call_sidecar *)

LEMMA AskStep ==
  ASSUME IInv, NEW j \in Jobs, Ask(j)
  PROVE  IInv'
<1> DEFINE t == task[j]
           had == Available(Head(t.todo), t.from, t.to)
<1>1. /\ task \in [Jobs -> Tasks] /\ t \in Tasks /\ day \in Days
      /\ Progress(t, KeptBars) /\ t.asof <= day /\ t.pc \in CallPcs
      /\ LocalsInUse(t)
      /\ UNCHANGED <<day, files, raced>>
  BY DEF IInv, TypeOK, Ask, bars, Progress
<1>2. task' \in [Jobs -> Tasks] => TypeOK'
  <2>1. permits' \in 0..Burst
    BY SyncAssumption DEF Ask, Pool!Take, IInv, TypeOK
  <2>2. QED
    BY <2>1 DEF Ask, IInv, TypeOK, process, reference, bars
<1>3. CASE task' = [task EXCEPT ![j].pc = AfterCall(t.pc), ![j].attempt = 0,
                      ![j].got = IF t.pc = "bars" THEN Answer(Head(t.todo), t.from, t.to)
                                 ELSE Nothing,
                      ![j].years = IF t.pc = "bars" THEN {YearOf(d) : d \in had} ELSE {}]
  <2> DEFINE answer == IF t.pc = "bars" THEN Answer(Head(t.todo), t.from, t.to) ELSE Nothing
             years == IF t.pc = "bars" THEN {YearOf(d) : d \in had} ELSE {}
             next == AfterCall(t.pc)
             n == [t EXCEPT !.pc = next, !.attempt = 0, !.got = answer, !.years = years]
  <2>1. next \in {"etfs", "upsert", "save calendar", "save factors", "read"}
        /\ (next = "etfs" => t.pc = "stocks") /\ (next = "upsert" => t.pc = "etfs")
        /\ (next = "save calendar" => t.pc = "calendar")
        /\ (next = "save factors" => t.pc = "factors") /\ (next = "read" <=> t.pc = "bars")
    BY <1>1 DEF AfterCall, CallPcs
  <2>2. had \subseteq Days /\ answer \in Bars /\ (t.pc = "bars" => DOMAIN answer = had)
    <3>1. t.from \in Days /\ t.to \in 0..(MaxDay + 1)
      BY <1>1 DEF Tasks
    <3>2. QED
      BY <1>1, <3>1, AnswerType, NothingType
  <2>3. years \in SUBSET Years
    BY <2>2 DEF Years
  <2>4. Moves(j, n)
    BY <1>1, <1>3 DEF Moves
  <2> HIDE DEF next, answer, years
  <2>5. n \in Tasks
    <3>1. next \in CallPcs \cup SavePcs \cup {"off", "done"}
      BY <2>1 DEF CallPcs, SavePcs
    <3>2. 0 \in 0..(MaxAttempts - 1)
      BY SyncAssumption
    <3>3. QED
      BY <1>1, <2>2, <2>3, <3>1, <3>2 DEF Tasks
  <2>6. /\ n.covers = t.covers /\ n.todo = t.todo /\ n.from = t.from /\ n.to = t.to
        /\ n.asof = t.asof /\ n.p = t.p /\ n.pc = next /\ n.got = answer /\ n.years = years
        /\ n.ok = t.ok
    BY <1>1 DEF Tasks
  <2> HIDE DEF n
  <2>7. LocalsInUse(n)
    BY <1>1, <2>1, <2>6 DEF LocalsInUse
  <2>8. YearsDone(n, KeptBars)
    <3> SUFFICES ASSUME n.pc \in {"read", "rename", "idle"},
                        NEW d \in n.from..n.to, Had(n, Head(n.todo), d)
                 PROVE  d \in DOMAIN n.got /\ YearOf(d) \in n.years
      BY <2>1, <2>6 DEF YearsDone
    <3>1. t.pc = "bars"
      BY <2>1, <2>6
    <3>2. d \in had
      <4>1. d <= t.asof /\ <<Head(t.todo), d>> \notin Suspended /\ d \in t.from..t.to
        BY <2>6 DEF Had
      <4>2. d <= day
        <5>1. d \in Int /\ t.asof \in Int /\ day \in Int
          BY <1>1, <4>1 DEF Tasks, Days
        <5>2. QED
          BY <1>1, <4>1, <5>1
      <4>3. QED
        BY <4>1, <4>2 DEF Available
    <3>3. QED
      BY <2>2, <2>6, <3>1, <3>2 DEF years
  <2>9. Progress(n, KeptBars)
    BY <1>1, <2>6, <2>7, <2>8, SameWork
  <2>10. QED
    BY <1>1, <1>2, <2>4, <2>5, <2>6, <2>9, KeptSame, MovedTask, MovedProgress
<1>4. CASE t.attempt + 1 < MaxAttempts /\ task' = [task EXCEPT ![j].attempt = @ + 1]
  <2> DEFINE n == [t EXCEPT !.attempt = t.attempt + 1]
  <2>1. Moves(j, n)
    BY <1>1, <1>4 DEF Moves
  <2>2. n \in Tasks
    <3>1. t.attempt \in 0..(MaxAttempts - 1) /\ t.attempt + 1 \in 0..(MaxAttempts - 1)
      BY <1>1, <1>4, SyncAssumption DEF Tasks
    <3>2. QED
      BY <1>1, <3>1 DEF Tasks
  <2>3. /\ n.covers = t.covers /\ n.todo = t.todo /\ n.from = t.from /\ n.to = t.to
        /\ n.asof = t.asof /\ n.p = t.p /\ n.pc = t.pc /\ n.ok = t.ok
    BY <1>1 DEF Tasks
  <2> HIDE DEF n
  <2>4. LocalsInUse(n) /\ YearsDone(n, KeptBars)
    BY <1>1, <2>3 DEF LocalsInUse, YearsDone, CallPcs
  <2>5. Progress(n, KeptBars)
    BY <1>1, <2>3, <2>4, SameWork
  <2>6. QED
    BY <1>1, <1>2, <2>1, <2>2, <2>3, <2>5, KeptSame, MovedTask, MovedProgress
<1>5. CASE t.pc = "bars" /\ Goes(j, "failed")
  <2>1. /\ [t EXCEPT !.pc = "failed"].pc = "failed"
        /\ [t EXCEPT !.pc = "failed"].todo = t.todo
    BY <1>1 DEF Tasks
  <2>2. /\ LocalsInUse([t EXCEPT !.pc = "failed"])
        /\ YearsDone([t EXCEPT !.pc = "failed"], KeptBars)
    BY <1>1, <1>5, <2>1 DEF LocalsInUse, YearsDone
  <2>3. "failed" \in SavePcs \cup CallPcs \cup {"done"}
    BY DEF SavePcs
  <2>4. QED
    BY <1>1, <1>2, <1>5, <2>2, <2>3, GoesStep
<1>6. CASE Fails(j)
  BY <1>1, <1>2, <1>6, FailsStep
<1>7. QED
  BY <1>3, <1>4, <1>5, <1>6 DEF Ask

-----------------------------------------------------------------------------
(* The steps between the calls *)

LEMMA UpsertInstrumentsStep ==
  ASSUME IInv, NEW j \in Jobs, UpsertInstruments(j)
  PROVE  IInv'
<1> DEFINE t == task[j]
           n == [t EXCEPT !.pc = "resolve"]
<1>1. /\ t \in Tasks /\ t.pc = "upsert" /\ LocalsInUse(t)
      /\ UNCHANGED <<day, files, raced>>
  BY DEF IInv, TypeOK, Progress, UpsertInstruments, bars
<1>2. task' \in [Jobs -> Tasks] => TypeOK'
  BY DEF UpsertInstruments, IInv, TypeOK, process, bars
<1>3. n.pc = "resolve" /\ n.p = t.p /\ n.covers = t.covers /\ n.ok = t.ok
  BY <1>1 DEF Tasks
<1>4. LocalsInUse(n) /\ YearsDone(n, KeptBars)
  BY <1>1, <1>3 DEF LocalsInUse, YearsDone
<1>5. "resolve" \in SavePcs \cup CallPcs \cup {"done"}
  BY DEF SavePcs
<1>6. QED
  BY <1>1, <1>2, <1>4, <1>5, GoesStep, FailsStep DEF UpsertInstruments

LEMMA ResolveStep ==
  ASSUME IInv, NEW j \in Jobs, Resolve(j)
  PROVE  IInv'
<1> DEFINE t == task[j]
           todo == IF t.kind = "full" /\ t.todo # <<>> THEN t.todo ELSE Ordered(watchlist)
           from == IF t.kind = "full" THEN 1 ELSE day
           to == IF t.kind = "full" THEN until ELSE day
           n == [t EXCEPT !.pc = "calendar", !.todo = todo, !.covers = Range(todo),
                          !.asof = day, !.from = from, !.to = to]
<1>1. /\ task \in [Jobs -> Tasks] /\ t \in Tasks /\ t.pc = "resolve" /\ LocalsInUse(t)
      /\ day \in Days /\ until \in 0..(MaxDay + 1) /\ watchlist \in SUBSET Symbols
      /\ UNCHANGED <<day, files, raced>>
  BY DEF IInv, TypeOK, Progress, Resolve, bars
<1>2. task' \in [Jobs -> Tasks] => TypeOK'
  BY DEF Resolve, IInv, TypeOK, process, reference, bars
<1>3. CASE task' = [task EXCEPT ![j].pc = "calendar", ![j].todo = todo,
                      ![j].covers = Range(todo), ![j].asof = day,
                      ![j].from = from, ![j].to = to]
  <2>1. Moves(j, n)
    BY <1>1, <1>3 DEF Moves
  <2>2. todo \in Seq(Symbols)
    BY <1>1, OrderedType DEF Tasks
  <2>3. from \in Days /\ to \in 0..(MaxDay + 1)
    BY <1>1, SyncAssumption DEF Days
  <2> HIDE DEF todo, from, to
  <2>4. Range(todo) \in SUBSET Symbols
    BY <2>2, RangeOfSeq DEF Range
  <2>5. n \in Tasks
    BY <1>1, <2>2, <2>3, <2>4 DEF Tasks, CallPcs
  <2>6. /\ n.pc = "calendar" /\ n.covers = Range(n.todo) /\ n.p = t.p /\ n.asof = day
    BY <1>1 DEF Tasks
  <2> HIDE DEF n
  <2>7. n.p = 1 /\ LocalsInUse(n)
    BY <1>1, <2>6 DEF LocalsInUse
  <2>8. SymbolsDone(n, KeptBars) /\ YearsDone(n, KeptBars)
    BY <2>6 DEF SymbolsDone, YearsDone
  <2>9. PeriodsDone(n, KeptBars)
    <3>1. 1..(n.p - 1) = {}
      BY <2>7
    <3>2. QED
      BY <3>1 DEF PeriodsDone
  <2>10. Progress(n, KeptBars)
    BY <2>7, <2>8, <2>9 DEF Progress
  <2>11. n.asof <= day
    BY <1>1, <2>6 DEF Days
  <2>12. QED
    BY <1>1, <1>2, <2>1, <2>5, <2>10, <2>11, KeptSame, MovedTask, MovedProgress
<1>4. CASE Fails(j)
  BY <1>1, <1>2, <1>4, FailsStep
<1>5. QED
  BY <1>3, <1>4 DEF Resolve

(* The steps that only go on: the calendar, the factors, the fetch state. *)
LEMMA SaveCalendarStep ==
  ASSUME IInv, NEW j \in Jobs, SaveCalendar(j)
  PROVE  IInv'
<1> DEFINE t == task[j]
           next == NextSymbol(t.todo)
           n == [t EXCEPT !.pc = next]
<1>1. /\ t \in Tasks /\ t.pc = "save calendar" /\ LocalsInUse(t)
      /\ UNCHANGED <<day, files, raced>>
  BY DEF IInv, TypeOK, Progress, SaveCalendar, bars
<1>2. task' \in [Jobs -> Tasks] => TypeOK'
  <2>1. t.from \in Days /\ t.to \in 0..(MaxDay + 1)
    BY <1>1 DEF Tasks
  <2>2. t.from..t.to \subseteq 1..(MaxDay + 1)
    BY <2>1, SyncAssumption DEF Days
  <2>3. calendar' \subseteq 1..(MaxDay + 1)
    BY <2>2 DEF SaveCalendar, IInv, TypeOK
  <2>4. QED
    BY <2>3 DEF SaveCalendar, IInv, TypeOK, process, bars
<1>3. /\ next = IF t.todo = <<>> THEN "finish" ELSE "factors"
      /\ next \in SavePcs \cup CallPcs \cup {"done"}
  BY DEF NextSymbol, SavePcs, CallPcs
<1>4. Goes(j, next) \/ Fails(j)
  BY DEF SaveCalendar
<1> HIDE DEF next
<1>5. n.pc = next /\ n.p = t.p /\ n.covers = t.covers /\ n.ok = t.ok /\ n.todo = t.todo
  BY <1>1 DEF Tasks
<1>6. LocalsInUse(n) /\ YearsDone(n, KeptBars)
  <2> HIDE DEF n
  <2>1. t.p = 1
    BY <1>1 DEF LocalsInUse
  <2>2. (n.pc = "finish" /\ n.todo = <<>>) \/ (n.pc = "factors" /\ n.todo # <<>>)
    BY <1>3, <1>5
  <2>3. QED
    BY <1>5, <2>1, <2>2 DEF LocalsInUse, YearsDone
<1>7. CASE Goes(j, next)
  BY <1>1, <1>2, <1>3, <1>6, <1>7, GoesStep
<1>8. CASE Fails(j)
  BY <1>1, <1>2, <1>8, FailsStep
<1>9. QED
  BY <1>4, <1>7, <1>8

LEMMA SaveFactorsStep ==
  ASSUME IInv, NEW j \in Jobs, SaveFactors(j)
  PROVE  IInv'
<1> DEFINE t == task[j]
           n == [t EXCEPT !.pc = "mark"]
<1>1. /\ t \in Tasks /\ t.pc = "save factors" /\ LocalsInUse(t)
      /\ UNCHANGED <<day, files, raced>>
  BY DEF IInv, TypeOK, Progress, SaveFactors, bars
<1>2. task' \in [Jobs -> Tasks] => TypeOK'
  <2>1. Head(t.todo) \in Symbols
    BY <1>1, RangeTail DEF Tasks, LocalsInUse
  <2>2. factors' \subseteq Symbols
    BY <2>1 DEF SaveFactors, IInv, TypeOK
  <2>3. QED
    BY <2>2 DEF SaveFactors, IInv, TypeOK, process, bars
<1>3. n.pc = "mark" /\ n.covers = t.covers /\ n.ok = t.ok /\ n.todo = t.todo
  BY <1>1 DEF Tasks
<1>4. LocalsInUse(n) /\ YearsDone(n, KeptBars)
  BY <1>1, <1>3 DEF LocalsInUse, YearsDone
<1>5. "mark" \in SavePcs \cup CallPcs \cup {"done"}
  BY DEF SavePcs
<1>6. QED
  BY <1>1, <1>2, <1>4, <1>5, GoesStep, FailsStep DEF SaveFactors

LEMMA KeyType ==
  ASSUME NEW t \in Tasks, t.todo # <<>>
  PROVE  KeyOf(t) \in Keys /\ Head(t.todo) \in Symbols /\ Periods[t.p] \in PeriodSet
<1>1. Head(t.todo) \in Symbols
  BY RangeTail DEF Tasks
<1>2. Periods[t.p] \in PeriodSet
  BY SyncAssumption DEF Tasks
<1>3. QED
  BY <1>1, <1>2 DEF KeyOf, Keys

LEMMA MarkType ==
  ASSUME TypeOK, NEW t \in Tasks, t.todo # <<>>,
         NEW status \in {"idle", "running", "failed"}, NEW last \in 0..MaxDay,
         Mark(t, status, last) \/ UNCHANGED fetch
  PROVE  fetch' \in [Keys -> [status : {"none", "idle", "running", "failed"}, last : 0..MaxDay]]
<1> DEFINE entry == [status |-> status, last |-> last]
<1>1. entry \in [status : {"none", "idle", "running", "failed"}, last : 0..MaxDay]
  OBVIOUS
<1>2. fetch' = [fetch EXCEPT ![KeyOf(t)] = entry] \/ fetch' = fetch
  BY DEF Mark
<1> HIDE DEF entry
<1>3. QED
  BY <1>1, <1>2, KeyType DEF TypeOK

LEMMA MarkRunningStep ==
  ASSUME IInv, NEW j \in Jobs, MarkRunning(j)
  PROVE  IInv'
<1> DEFINE t == task[j]
           n == [t EXCEPT !.pc = "bars"]
<1>1. /\ t \in Tasks /\ t.pc = "mark" /\ LocalsInUse(t) /\ TypeOK
      /\ UNCHANGED <<day, files, raced>>
  BY DEF IInv, TypeOK, Progress, MarkRunning
<1>2. task' \in [Jobs -> Tasks] => TypeOK'
  <2>1. t.todo # <<>> /\ None \in 0..MaxDay
    BY <1>1, SyncAssumption DEF LocalsInUse, None
  <2>2. fetch' \in [Keys -> [status : {"none", "idle", "running", "failed"}, last : 0..MaxDay]]
    BY <1>1, <2>1, MarkType DEF MarkRunning
  <2>3. QED
    BY <2>2 DEF MarkRunning, IInv, TypeOK, process, reference
<1>3. n.pc = "bars" /\ n.covers = t.covers /\ n.ok = t.ok /\ n.todo = t.todo
  BY <1>1 DEF Tasks
<1>4. LocalsInUse(n) /\ YearsDone(n, KeptBars)
  BY <1>1, <1>3 DEF LocalsInUse, YearsDone
<1>5. "bars" \in SavePcs \cup CallPcs \cup {"done"}
  BY DEF CallPcs
<1>6. QED
  BY <1>1, <1>2, <1>4, <1>5, GoesStep, FailsStep DEF MarkRunning

LEMMA MarkFailedStep ==
  ASSUME IInv, NEW j \in Jobs, MarkFailed(j)
  PROVE  IInv'
<1> DEFINE t == task[j]
<1>1. /\ t \in Tasks /\ t.pc = "failed" /\ LocalsInUse(t) /\ TypeOK
      /\ UNCHANGED <<day, files, raced>>
  BY DEF IInv, TypeOK, Progress, MarkFailed
<1>2. task' \in [Jobs -> Tasks] => TypeOK'
  <2>1. t.todo # <<>> /\ None \in 0..MaxDay
    BY <1>1, SyncAssumption DEF LocalsInUse, None
  <2>2. fetch' \in [Keys -> [status : {"none", "idle", "running", "failed"}, last : 0..MaxDay]]
    BY <1>1, <2>1, MarkType DEF MarkFailed
  <2>3. QED
    BY <2>2 DEF MarkFailed, IInv, TypeOK, process, reference
<1>3. QED
  BY <1>1, <1>2, FailsStep DEF MarkFailed

LEMMA FinishStep ==
  ASSUME IInv, NEW j \in Jobs, Finish(j)
  PROVE  IInv'
<1> DEFINE t == task[j]
           n == [t EXCEPT !.pc = "done"]
<1>1. /\ t \in Tasks /\ t.pc = "finish" /\ LocalsInUse(t)
      /\ UNCHANGED <<day, files, raced>>
  BY DEF IInv, TypeOK, Progress, Finish, bars
<1>2. task' \in [Jobs -> Tasks] => TypeOK'
  BY DEF Finish, IInv, TypeOK, process, reference, bars
<1>3. n.pc = "done" /\ n.p = t.p /\ n.covers = t.covers /\ n.ok = t.ok /\ n.todo = t.todo
  BY <1>1 DEF Tasks
<1>4. LocalsInUse(n) /\ YearsDone(n, KeptBars)
  BY <1>1, <1>3 DEF LocalsInUse, YearsDone
<1>5. QED
  BY <1>1, <1>2, <1>4, GoesStep DEF Finish

(* The newest day of a set of bars. *)
LEMMA NewestType ==
  ASSUME NEW b \in Bars
  PROVE  NewestOf(b) \in 0..MaxDay
<1>1. DOMAIN b \subseteq 1..MaxDay /\ MaxDay \in Nat
  BY BarsOf, SyncAssumption DEF Days
<1>2. CASE DOMAIN b = {}
  BY <1>1, <1>2 DEF NewestOf, None
<1>3. CASE DOMAIN b # {}
  <2>1. \E d \in DOMAIN b : \A e \in DOMAIN b : e <= d
    <3>1. DOMAIN b \subseteq 0..MaxDay
      BY <1>1
    <3>2. QED
      BY <1>1, <1>3, <3>1, GreatestBounded
  <2>2. NewestOf(b) \in DOMAIN b
    BY <1>3, <2>1 DEF NewestOf
  <2>3. QED
    BY <1>1, <2>2
<1>4. QED
  BY <1>2, <1>3

(* When every year is written, the loop's period is stored as well. *)
LEMMA PeriodStored ==
  ASSUME NEW t \in Tasks, NEW kept, Progress(t, kept), t.pc = "idle",
         NEW q \in 1..t.p
  PROVE  StoredFor(t, Head(t.todo), Periods[q], kept)
<1>1. t.p \in Nat
  BY SyncAssumption DEF Tasks
<1>2. CASE q = t.p
  BY <1>2 DEF Progress, YearsDone, StoredFor
<1>3. CASE q # t.p
  <2>1. q \in 1..(t.p - 1)
    BY <1>1, <1>3
  <2>2. QED
    BY <2>1 DEF Progress, PeriodsDone
<1>4. QED
  BY <1>2, <1>3

LEMMA MarkIdleStep ==
  ASSUME IInv, NEW j \in Jobs, MarkIdle(j)
  PROVE  IInv'
<1> DEFINE t == task[j]
           rest == Tail(t.todo)
           again == t.p < Len(Periods)
           next == IF again THEN "mark" ELSE NextSymbol(rest)
           left == IF again THEN t.todo ELSE rest
           place == IF again THEN t.p + 1 ELSE 1
           n == [t EXCEPT !.pc = next, !.todo = left, !.p = place, !.got = Nothing]
<1>1. /\ task \in [Jobs -> Tasks] /\ t \in Tasks /\ t.pc = "idle" /\ LocalsInUse(t)
      /\ TypeOK /\ Progress(t, KeptBars) /\ t.asof <= day
      /\ UNCHANGED <<day, files, raced>>
  BY DEF IInv, TypeOK, Progress, MarkIdle
<1>2. t.todo # <<>> /\ t.todo \in Seq(Symbols)
  BY <1>1 DEF LocalsInUse, Tasks
<1>3. Head(t.todo) \in Symbols /\ rest \in Seq(Symbols)
      /\ Range(t.todo) = {Head(t.todo)} \cup Range(rest)
  BY <1>2, RangeTail
<1>4. Len(Periods) \in Nat /\ t.p \in 1..Len(Periods)
  BY <1>1, SyncAssumption DEF Tasks
<1>5. task' \in [Jobs -> Tasks] => TypeOK'
  <2>1. NewestOf(t.got) \in 0..MaxDay
    BY <1>1, NewestType DEF Tasks
  <2>2. fetch' \in [Keys -> [status : {"none", "idle", "running", "failed"}, last : 0..MaxDay]]
    BY <1>1, <1>2, <2>1, MarkType DEF MarkIdle
  <2>3. QED
    BY <2>2 DEF MarkIdle, IInv, TypeOK, process, reference
<1>6. CASE task' = [task EXCEPT ![j].pc = next, ![j].todo = left, ![j].p = place,
                               ![j].got = Nothing]
  <2>1. Moves(j, n)
    BY <1>1, <1>6 DEF Moves
  <2>2. next \in {"mark", "finish", "factors"}
    BY DEF NextSymbol
  <2>3. /\ again => next = "mark" /\ left = t.todo /\ place = t.p + 1
        /\ ~again => /\ left = rest /\ place = 1 /\ t.p = Len(Periods)
                     /\ next = IF rest = <<>> THEN "finish" ELSE "factors"
    <3> HIDE DEF rest
    <3>1. CASE again
      BY <3>1
    <3>2. CASE ~again
      <4>1. t.p = Len(Periods)
        BY <1>4, <3>2
      <4> HIDE DEF again
      <4>2. QED
        BY <3>2, <4>1 DEF NextSymbol
    <3>3. QED
      BY <3>1, <3>2
  <2>4. left \in Seq(Symbols) /\ place \in 1..Len(Periods)
    BY <1>2, <1>3, <1>4
  <2> HIDE DEF next, left, place
  <2>5. n \in Tasks
    <3>1. next \in CallPcs \cup SavePcs \cup {"off", "done"}
      BY <2>2 DEF CallPcs, SavePcs
    <3>2. QED
      BY <1>1, <2>4, <3>1, NothingType DEF Tasks
  <2>6. /\ n.pc = next /\ n.todo = left /\ n.p = place /\ n.covers = t.covers
        /\ n.from = t.from /\ n.to = t.to /\ n.asof = t.asof /\ n.ok = t.ok
    BY <1>1 DEF Tasks
  <2> HIDE DEF n, again
  <2>7. LocalsInUse(n) /\ YearsDone(n, KeptBars)
    BY <1>2, <2>2, <2>3, <2>6 DEF LocalsInUse, YearsDone
  <2>8. \A s, p : StoredFor(n, s, p, KeptBars) <=> StoredFor(t, s, p, KeptBars)
    BY <2>6 DEF StoredFor, Had
  <2>9. PeriodsDone(n, KeptBars)
    <3>1. CASE again
      <4>1. n.p - 1 = t.p /\ Head(n.todo) = Head(t.todo)
        BY <1>4, <2>3, <2>6, <3>1
      <4>2. QED
        BY <1>1, <2>8, <4>1, PeriodStored DEF PeriodsDone
    <3>2. CASE ~again
      <4>1. 1..(n.p - 1) = {}
        BY <2>3, <2>6, <3>2
      <4>2. QED
        BY <4>1 DEF PeriodsDone
    <3>3. QED
      BY <3>1, <3>2
  <2>10. SymbolsDone(n, KeptBars)
    <3>1. CASE again
      <4>1. n.todo = t.todo
        BY <2>3, <2>6, <3>1
      <4>2. QED
        BY <1>1, <2>6, <2>8, <4>1 DEF Progress, SymbolsDone
    <3>2. CASE ~again
      <4> SUFFICES ASSUME NEW s \in t.covers \ Range(rest), NEW p \in PeriodSet
                   PROVE  StoredFor(t, s, p, KeptBars)
        BY <2>3, <2>6, <2>8, <3>2 DEF SymbolsDone
      <4>1. CASE s = Head(t.todo)
        <5>1. PICK q \in 1..Len(Periods) : p = Periods[q]
          BY SyncAssumption DEF PeriodSet, Range
        <5>2. q \in 1..t.p
          BY <2>3, <3>2, <5>1
        <5>3. QED
          BY <1>1, <4>1, <5>1, <5>2, PeriodStored
      <4>2. CASE s # Head(t.todo)
        <5>1. s \in t.covers \ Range(t.todo)
          BY <1>3, <4>2
        <5>2. QED
          BY <1>1, <5>1 DEF Progress, SymbolsDone
      <4>3. QED
        BY <4>1, <4>2
    <3>3. QED
      BY <3>1, <3>2
  <2>11. Progress(n, KeptBars)
    BY <2>7, <2>9, <2>10 DEF Progress
  <2>12. QED
    BY <1>1, <1>5, <2>1, <2>5, <2>6, <2>11, KeptSame, MovedTask, MovedProgress
<1>7. CASE Fails(j)
  BY <1>1, <1>5, <1>7, FailsStep
<1>8. QED
  BY <1>6, <1>7 DEF MarkIdle

-----------------------------------------------------------------------------
(* write_bars *)

LEMMA ReadPartitionStep ==
  ASSUME IInv, NEW j \in Jobs, ReadPartition(j)
  PROVE  IInv'
<1> DEFINE t == task[j]
<1>1. /\ task \in [Jobs -> Tasks] /\ t \in Tasks /\ t.pc = "read" /\ LocalsInUse(t)
      /\ TypeOK /\ Progress(t, KeptBars) /\ t.asof <= day
      /\ UNCHANGED <<day, files, raced>>
  BY DEF IInv, TypeOK, Progress, ReadPartition, bars
<1>2. task' \in [Jobs -> Tasks] => TypeOK'
  BY DEF ReadPartition, IInv, TypeOK, process, reference, bars
<1>3. ASSUME t.years = {}, Goes(j, "idle") PROVE IInv'
  <2> DEFINE n == [t EXCEPT !.pc = "idle"]
  <2>1. /\ n.pc = "idle" /\ n.p = t.p /\ n.covers = t.covers /\ n.ok = t.ok
        /\ n.todo = t.todo /\ n.years = t.years /\ n.got = t.got /\ n.from = t.from
        /\ n.to = t.to /\ n.asof = t.asof
    BY <1>1 DEF Tasks
  <2>2. LocalsInUse(n)
    BY <1>1, <2>1 DEF LocalsInUse
  <2>3. YearsDone(n, KeptBars)
    BY <1>1, <1>3, <2>1 DEF Progress, YearsDone, Had
  <2>4. "idle" \in SavePcs \cup CallPcs \cup {"done"}
    BY DEF SavePcs
  <2>5. QED
    BY <1>1, <1>2, <1>3, <2>2, <2>3, <2>4, GoesStep
<1>4. ASSUME NEW y \in t.years,
             task' = [task EXCEPT ![j].pc = "rename", ![j].year = y,
                        ![j].base = OfYear(files[KeyOf(t)], y)]
      PROVE  IInv'
  <2> DEFINE base == OfYear(files[KeyOf(t)], y)
             n == [t EXCEPT !.pc = "rename", !.year = y, !.base = base]
  <2>1. Moves(j, n)
    BY <1>1, <1>4 DEF Moves
  <2>2. base \in Bars
    <3>1. t.todo # <<>>
      BY <1>1 DEF LocalsInUse
    <3>2. files[KeyOf(t)] \in Bars
      BY <1>1, <3>1, KeyType DEF TypeOK
    <3>3. QED
      BY <3>2, OfYearType
  <2> HIDE DEF base
  <2>3. n \in Tasks
    <3>1. y \in Years
      BY <1>1 DEF Tasks
    <3>2. QED
      BY <1>1, <2>2, <3>1 DEF Tasks, SavePcs
  <2>4. /\ n.pc = "rename" /\ n.p = t.p /\ n.covers = t.covers /\ n.ok = t.ok
        /\ n.todo = t.todo /\ n.years = t.years /\ n.got = t.got /\ n.from = t.from
        /\ n.to = t.to /\ n.asof = t.asof /\ n.year = y
    BY <1>1 DEF Tasks
  <2> HIDE DEF n
  <2>5. LocalsInUse(n)
    BY <1>1, <2>4 DEF LocalsInUse
  <2>6. YearsDone(n, KeptBars)
    BY <1>1, <2>4 DEF Progress, YearsDone, Had
  <2>7. Progress(n, KeptBars)
    BY <1>1, <2>4, <2>5, <2>6, SameWork
  <2>8. QED
    BY <1>1, <1>2, <2>1, <2>3, <2>4, <2>7, KeptSame, MovedTask, MovedProgress
<1>5. CASE Fails(j)
  BY <1>1, <1>2, <1>5, FailsStep
<1>6. QED
  BY <1>3, <1>4, <1>5 DEF ReadPartition

(***************************************************************************)
(* write_batch_atomic: replacing a partition by what was read of it and    *)
(* the new bars takes no bar away, unless somebody replaced it meanwhile.  *)
(***************************************************************************)
LEMMA RenameKeeps ==
  ASSUME TypeOK, NEW t \in Tasks, t.todo # <<>>, NEW rest, NEW new, NEW key,
         key = KeyOf(t),
         rest = Restrict(files[key], {d \in DOMAIN files[key] : YearOf(d) # t.year}),
         new = KeepFirst(t.base, OfYear(t.got, t.year)),
         files' = [files EXCEPT ![key] = KeepFirst(rest, new)],
         raced' = raced \cup {q \in {<<key[1], key[2], t.year>>} :
                                OfYear(files[key], t.year) # t.base}
  PROVE  /\ files' \in [Keys -> Bars]
         /\ KeptBars \subseteq KeptBars'
         /\ \A d \in DOMAIN t.got : YearOf(d) = t.year =>
              <<Head(t.todo), Periods[t.p], d>> \in KeptBars'
<1>1. /\ key \in Keys /\ key = <<Head(t.todo), Periods[t.p]>>
      /\ Head(t.todo) \in Symbols /\ Periods[t.p] \in PeriodSet
  BY KeyType DEF KeyOf
<1>2. files \in [Keys -> Bars] /\ files[key] \in Bars /\ t.base \in Bars /\ t.got \in Bars
  BY <1>1 DEF TypeOK, Tasks
<1>3. /\ rest \in Bars
      /\ DOMAIN rest = {d \in DOMAIN files[key] : YearOf(d) # t.year}
  BY <1>2, RestrictType
<1>4. /\ new \in Bars
      /\ DOMAIN new = DOMAIN t.base \cup {d \in DOMAIN t.got : YearOf(d) = t.year}
  <2> DEFINE mine == OfYear(t.got, t.year)
  <2>1. mine \in Bars /\ DOMAIN mine = {d \in DOMAIN t.got : YearOf(d) = t.year}
    BY <1>2, OfYearType
  <2> HIDE DEF mine
  <2>2. KeepFirst(t.base, mine) \in Bars
        /\ DOMAIN KeepFirst(t.base, mine) = DOMAIN t.base \cup DOMAIN mine
    BY <1>2, <2>1, KeepFirstType
  <2>3. new = KeepFirst(t.base, mine)
    BY DEF mine
  <2>4. QED
    BY <2>1, <2>2, <2>3
<1>5. /\ KeepFirst(rest, new) \in Bars
      /\ DOMAIN KeepFirst(rest, new) = DOMAIN rest \cup DOMAIN new
  BY <1>3, <1>4, KeepFirstType
<1>6. /\ files' \in [Keys -> Bars] /\ files'[key] = KeepFirst(rest, new)
      /\ \A k \in Keys : k # key => files'[k] = files[k]
  BY <1>1, <1>2, <1>5
<1>7. DOMAIN OfYear(files[key], t.year) = {d \in DOMAIN files[key] : YearOf(d) = t.year}
  BY <1>2, OfYearType
<1>8. ASSUME NEW b \in KeptBars PROVE b \in KeptBars'
  <2>1. b \in Symbols \X PeriodSet \X Days
    BY DEF KeptBars
  <2> DEFINE k == <<b[1], b[2]>>
             part == <<b[1], b[2], YearOf(b[3])>>
  <2>2. k \in Keys
    BY <2>1 DEF Keys
  <2>3. CASE part \in raced
    BY <2>1, <2>3 DEF KeptBars
  <2>4. CASE b[3] \in DOMAIN files[k] /\ k # key
    BY <1>6, <2>1, <2>2, <2>4 DEF KeptBars
  <2>5. CASE b[3] \in DOMAIN files[k] /\ k = key /\ YearOf(b[3]) # t.year
    <3>1. b[3] \in DOMAIN files'[k]
      BY <1>3, <1>5, <1>6, <2>5
    <3>2. QED
      BY <2>1, <3>1 DEF KeptBars
  <2>6. CASE b[3] \in DOMAIN files[k] /\ k = key /\ YearOf(b[3]) = t.year
    <3>1. CASE OfYear(files[key], t.year) = t.base
      <4>1. b[3] \in DOMAIN t.base
        BY <1>7, <2>6, <3>1
      <4>2. b[3] \in DOMAIN files'[k]
        BY <1>4, <1>5, <1>6, <2>6, <4>1
      <4>3. QED
        BY <2>1, <4>2 DEF KeptBars
    <3>2. CASE OfYear(files[key], t.year) # t.base
      <4>1. part = <<key[1], key[2], t.year>>
        BY <2>6
      <4>2. part \in raced'
        BY <3>2, <4>1
      <4>3. QED
        BY <2>1, <4>2 DEF KeptBars
    <3>3. QED
      BY <3>1, <3>2
  <2>7. QED
    BY <2>3, <2>4, <2>5, <2>6 DEF KeptBars
<1>9. ASSUME NEW d \in DOMAIN t.got, YearOf(d) = t.year
      PROVE  <<Head(t.todo), Periods[t.p], d>> \in KeptBars'
  <2>1. d \in DOMAIN files'[<<Head(t.todo), Periods[t.p]>>]
    BY <1>1, <1>4, <1>5, <1>6, <1>9
  <2>2. d \in Days
    BY <1>2, BarsOf
  <2>3. QED
    BY <1>1, <2>1, <2>2 DEF KeptBars
<1>10. QED
  BY <1>6, <1>8, <1>9

LEMMA RenamePartitionStep ==
  ASSUME IInv, NEW j \in Jobs, RenamePartition(j)
  PROVE  IInv'
<1> DEFINE t == task[j]
           key == KeyOf(t)
           rest == Restrict(files[key], {d \in DOMAIN files[key] : YearOf(d) # t.year})
           new == KeepFirst(t.base, OfYear(t.got, t.year))
<1>1. /\ task \in [Jobs -> Tasks] /\ t \in Tasks /\ t.pc = "rename" /\ LocalsInUse(t)
      /\ TypeOK /\ Progress(t, KeptBars) /\ t.asof <= day /\ t.todo # <<>>
      /\ day' = day
  BY DEF IInv, TypeOK, Progress, RenamePartition, LocalsInUse
<1>2. CASE /\ files' = [files EXCEPT ![key] = KeepFirst(rest, new)]
           /\ raced' = raced \cup {q \in {<<key[1], key[2], t.year>>} :
                                     OfYear(files[key], t.year) # t.base}
           /\ task' = [task EXCEPT ![j].pc = "read", ![j].years = @ \ {t.year},
                                   ![j].base = Nothing]
  <2> DEFINE n == [t EXCEPT !.pc = "read", !.years = t.years \ {t.year}, !.base = Nothing]
  <2>1. Moves(j, n)
    BY <1>1, <1>2 DEF Moves
  <2>2. n \in Tasks
    BY <1>1, NothingType DEF Tasks, SavePcs
  <2>3. /\ n.pc = "read" /\ n.p = t.p /\ n.covers = t.covers /\ n.ok = t.ok
        /\ n.todo = t.todo /\ n.years = t.years \ {t.year} /\ n.got = t.got
        /\ n.from = t.from /\ n.to = t.to /\ n.asof = t.asof
    BY <1>1 DEF Tasks
  <2>4. /\ files' \in [Keys -> Bars]
        /\ KeptBars \subseteq KeptBars'
        /\ \A d \in DOMAIN t.got : YearOf(d) = t.year =>
             <<Head(t.todo), Periods[t.p], d>> \in KeptBars'
    BY <1>1, <1>2, RenameKeeps
  <2> HIDE DEF n
  <2>5. LocalsInUse(n)
    BY <1>1, <2>3 DEF LocalsInUse
  <2>6. YearsDone(n, KeptBars')
    BY <1>1, <2>3, <2>4 DEF Progress, YearsDone, Had
  <2>7. Progress(n, KeptBars')
    <3>1. Progress(t, KeptBars')
      BY <1>1, <2>4, KeptGrows
    <3>2. QED
      BY <2>3, <2>5, <2>6, <3>1, SameWork
  <2>8. TypeOK'
    <3>1. t.year \in Years
      BY <1>1 DEF Progress, YearsDone, Tasks
    <3>2. key[1] \in Symbols /\ key[2] \in PeriodSet
      BY <1>1, KeyType DEF Keys
    <3>3. raced' \subseteq Partition
      BY <1>1, <1>2, <3>1, <3>2 DEF TypeOK, Partition
    <3>4. task' \in [Jobs -> Tasks]
      BY <1>1, <2>1, <2>2, MovedTask
    <3>5. QED
      BY <1>1, <2>4, <3>3, <3>4 DEF RenamePartition, TypeOK, process, reference
  <2>9. QED
    BY <1>1, <2>1, <2>2, <2>3, <2>4, <2>7, <2>8, MovedProgress
<1>3. CASE Fails(j) /\ UNCHANGED <<files, raced>>
  <2>1. task' \in [Jobs -> Tasks] => TypeOK'
    BY <1>1, <1>3 DEF RenamePartition, TypeOK, process, reference
  <2>2. QED
    BY <1>1, <1>3, <2>1, FailsStep
<1>4. QED
  BY <1>2, <1>3 DEF RenamePartition

-----------------------------------------------------------------------------
(* The process, its clients and the invariant *)

(* A step that leaves the tasks and the partitions alone. *)
LEMMA StandsStep ==
  ASSUME IInv, UNCHANGED <<task, files, raced>>, day' \in Days, day <= day', TypeOK'
  PROVE  IInv'
<1>1. ASSUME NEW j \in Jobs PROVE Progress(task'[j], KeptBars') /\ task'[j].asof <= day'
  <2>1. Progress(task[j], KeptBars) /\ task[j].asof <= day
    BY DEF IInv
  <2>2. task[j].asof \in Int /\ day \in Int /\ day' \in Int
    BY DEF IInv, TypeOK, Tasks, Days
  <2>3. task[j].asof <= day'
    BY <2>1, <2>2
  <2>4. QED
    BY <2>1, <2>3, KeptSame
<1>2. QED
  BY <1>1 DEF IInv

LEMMA StartStep ==
  ASSUME IInv, Start
  PROVE  IInv'
<1>1. Accepted(Configured) \subseteq Symbols
  BY SyncAssumption DEF Accepted
<1>2. day + 1 \in 0..(MaxDay + 1) /\ Burst \in 0..Burst /\ day <= day
  BY SyncAssumption DEF IInv, TypeOK, Days
<1>3. TypeOK'
  <2>1. up' \in BOOLEAN /\ watchlist' \subseteq Symbols /\ until' \in 0..(MaxDay + 1)
        /\ permits' \in 0..Burst
    BY <1>1, <1>2 DEF Start, IInv, TypeOK
  <2>2. UNCHANGED <<exits, day, task, jobs, reference, bars>>
    BY DEF Start
  <2>3. QED
    BY <2>1, <2>2 DEF IInv, TypeOK, reference, bars
<1>4. QED
  BY <1>2, <1>3, StandsStep DEF Start, IInv, TypeOK, bars

LEMMA NextDayStep ==
  ASSUME IInv, NextDay
  PROVE  IInv'
<1>1. day' \in Days /\ day <= day'
  BY SyncAssumption DEF NextDay, IInv, TypeOK, Days
<1>2. TypeOK'
  BY <1>1 DEF NextDay, IInv, TypeOK, process, reference, bars
<1>3. QED
  BY <1>1, <1>2, StandsStep DEF NextDay, bars

LEMMA PermitsStep ==
  ASSUME IInv, Refill \/ PollerTakes
  PROVE  IInv'
<1>1. permits' \in 0..Burst /\ UNCHANGED <<process, day, task, jobs, watchlist, reference, bars>>
  BY SyncAssumption DEF Refill, PollerTakes, Pool!Refill, Pool!Take, IInv, TypeOK
<1>2. TypeOK'
  BY <1>1 DEF IInv, TypeOK, process, reference, bars
<1>3. day' \in Days /\ day <= day'
  BY <1>1 DEF IInv, TypeOK, Days
<1>4. QED
  BY <1>1, <1>2, <1>3, StandsStep DEF bars

Ended == [Idle EXCEPT !.pc = "done", !.ok = FALSE]

LEMMA EndedProgress ==
  ASSUME NEW kept
  PROVE  Ended \in Tasks /\ Progress(Ended, kept) /\ Ended.asof = 1
         /\ Ended.pc = "done" /\ ~Ended.ok
<1>1. Ended \in Tasks
  BY IdleType DEF Ended, Tasks
<1>2. /\ Ended.covers = {} /\ Ended.p = 1 /\ Ended.pc = "done" /\ Ended.asof = 1 /\ ~Ended.ok
  BY DEF Ended, Idle
<1>3. LocalsInUse(Ended)
  BY <1>2 DEF LocalsInUse
<1>4. QED
  BY <1>1, <1>2, <1>3, OwesNothing

LEMMA ExitStep ==
  ASSUME IInv, Exit
  PROVE  IInv'
<1>1. /\ task \in [Jobs -> Tasks] /\ day \in Days /\ UNCHANGED <<day, files, raced>>
      /\ task' = [j \in Jobs |-> IF Live(task[j]) THEN Ended ELSE task[j]]
  BY DEF IInv, TypeOK, Exit, Ended, bars
<1>2. TypeOK'
  <2>1. task' \in [Jobs -> Tasks]
    BY <1>1, EndedProgress
  <2>2. exits' \in 0..MaxExits /\ up' \in BOOLEAN
    <3>1. exits \in 0..MaxExits /\ exits < MaxExits /\ exits' = exits + 1 /\ up' = FALSE
      BY DEF Exit, IInv, TypeOK
    <3>2. exits + 1 \in 0..MaxExits
      BY <3>1, SyncAssumption
    <3>3. QED
      BY <3>1, <3>2
  <2>3. jobs' = Nothing /\ IsFiniteSet(DOMAIN Nothing) /\ DOMAIN Nothing \subseteq Nat
        /\ Nothing \in [DOMAIN Nothing -> {"running", "completed", "failed"}]
    BY NothingType, FS_EmptySet DEF Exit, Nothing
  <2>4. QED
    BY <2>1, <2>2, <2>3 DEF Exit, IInv, TypeOK, reference, bars
<1>3. ASSUME NEW j \in Jobs PROVE Progress(task'[j], KeptBars') /\ task'[j].asof <= day'
  <2>1. Progress(task[j], KeptBars) /\ task[j].asof <= day
    BY DEF IInv
  <2>2. Progress(Ended, KeptBars) /\ Ended.asof <= day
    BY <1>1, EndedProgress DEF Days
  <2>3. task'[j] = Ended \/ task'[j] = task[j]
    BY <1>1
  <2>4. QED
    BY <1>1, <2>1, <2>2, <2>3, KeptSame
<1>4. QED
  BY <1>2, <1>3 DEF IInv

(* trigger_full_sync, trigger_incremental_sync *)
LEMMA TriggerStep ==
  ASSUME IInv, NEW j \in Jobs, NEW kind \in {"full", "incremental"},
         NEW wanted \in Seq(Symbols), Trigger(j, kind, wanted)
  PROVE  IInv'
<1>1. /\ task \in [Jobs -> Tasks] /\ day \in Days /\ UNCHANGED <<day, files, raced>>
      /\ IsFiniteSet(DOMAIN jobs) /\ DOMAIN jobs \subseteq Nat
  BY DEF IInv, TypeOK, Trigger, bars
<1>2. PICK id \in JobIds :
        /\ jobs' = [i \in DOMAIN jobs \cup {id} |-> IF i = id THEN "running" ELSE jobs[i]]
        /\ task' = [task EXCEPT ![j] =
                     [Idle EXCEPT !.pc = "stocks", !.kind = kind, !.id = id, !.todo = wanted]]
  BY DEF Trigger
<1>3. id \in Nat
  BY <1>1, <1>2, FS_CardinalityType DEF JobIds
<1> DEFINE n == [Idle EXCEPT !.pc = "stocks", !.kind = kind, !.id = id, !.todo = wanted]
<1>4. Moves(j, n)
  BY <1>1, <1>2 DEF Moves
<1>5. n \in Tasks
  BY <1>3, IdleType DEF Tasks, CallPcs
<1>6. n.covers = {} /\ n.p = 1 /\ n.pc = "stocks" /\ n.asof = 1
  BY DEF Idle
<1> HIDE DEF n
<1>7. LocalsInUse(n)
  BY <1>6 DEF LocalsInUse
<1>8. Progress(n, KeptBars') /\ n.asof <= day
  BY <1>1, <1>6, <1>7, OwesNothing DEF Days
<1>9. TypeOK'
  <2>1. task' \in [Jobs -> Tasks]
    BY <1>1, <1>4, <1>5, MovedTask
  <2>2. DOMAIN jobs' = DOMAIN jobs \cup {id} /\ IsFiniteSet(DOMAIN jobs \cup {id})
    BY <1>1, <1>2, FS_AddElement
  <2>3. jobs' \in [DOMAIN jobs' -> {"running", "completed", "failed"}]
    BY <1>2 DEF IInv, TypeOK
  <2>4. QED
    BY <1>1, <1>3, <2>1, <2>2, <2>3 DEF Trigger, IInv, TypeOK, process, reference, bars
<1>10. QED
  BY <1>1, <1>4, <1>5, <1>8, <1>9, KeptSame, MovedProgress

LEMMA InitIInv == Init => IInv
<1> SUFFICES ASSUME Init PROVE IInv
  OBVIOUS
<1>1. 1 \in Days /\ 0 \in 0..(MaxDay + 1) /\ 0 \in 0..MaxExits /\ 0 \in 0..MaxDay
      /\ Burst \in 0..Burst
  BY SyncAssumption DEF Days
<1>2. IsFiniteSet(DOMAIN Nothing) /\ DOMAIN Nothing \subseteq Nat
      /\ Nothing \in [DOMAIN Nothing -> {"running", "completed", "failed"}]
  BY NothingType, FS_EmptySet DEF Nothing
<1>3. TypeOK
  BY <1>1, <1>2, IdleType, NothingType, SyncAssumption DEF Init, TypeOK, None
<1>4. Idle.covers = {} /\ Idle.p = 1 /\ Idle.pc = "off" /\ Idle.asof = 1
  BY DEF Idle
<1>5. LocalsInUse(Idle)
  BY <1>4 DEF LocalsInUse
<1>6. Progress(Idle, KeptBars)
  BY <1>4, <1>5, OwesNothing
<1>7. QED
  BY <1>3, <1>4, <1>6 DEF Init, IInv

LEMMA NextIInv == IInv /\ [Next]_vars => IInv'
<1> SUFFICES ASSUME IInv, [Next]_vars PROVE IInv'
  OBVIOUS
<1>1. CASE Start
  BY <1>1, StartStep
<1>2. CASE Exit
  BY <1>2, ExitStep
<1>3. CASE NextDay
  BY <1>3, NextDayStep
<1>4. CASE Refill \/ PollerTakes
  BY <1>4, PermitsStep
<1>5. CASE Client
  <2>1. \A wanted \in Requests : wanted \in Seq(Symbols)
    BY SyncAssumption
  <2>2. <<>> \in Seq(Symbols)
    OBVIOUS
  <2>3. QED
    BY <1>5, <2>1, <2>2, TriggerStep DEF Client
<1>6. ASSUME NEW j \in Jobs, Step(j) PROVE IInv'
  BY <1>6, AskStep, UpsertInstrumentsStep, ResolveStep, SaveCalendarStep, SaveFactorsStep,
     MarkRunningStep, MarkFailedStep, MarkIdleStep, ReadPartitionStep, RenamePartitionStep,
     FinishStep DEF Step
<1>7. CASE UNCHANGED vars
  <2>1. UNCHANGED <<task, files, raced>> /\ day' = day /\ day \in Days
    BY <1>7 DEF vars, bars, IInv, TypeOK
  <2>2. TypeOK'
    BY <1>7 DEF vars, process, reference, bars, IInv, TypeOK
  <2>3. QED
    BY <2>1, <2>2, StandsStep DEF Days
<1>8. QED
  BY <1>1, <1>2, <1>3, <1>4, <1>5, <1>6, <1>7 DEF Next

(***************************************************************************)
(* The loops of full_sync, incremental_sync and write_bars keep their      *)
(* invariant at every step of every task, restart and failed statement.    *)
(***************************************************************************)
THEOREM Invariance == Spec => []IInv
BY InitIInv, NextIInv, PTL DEF Spec

(* Every variable and every local of a task keeps its type. *)
THEOREM TypeCorrectness == Spec => []TypeOK
<1>1. IInv => TypeOK
  BY DEF IInv
<1>2. QED
  BY <1>1, Invariance, PTL

(***************************************************************************)
(* A job that completed has stored all the bars there were: its loops over *)
(* symbols are at their end, and what they stored no later job takes away. *)
(***************************************************************************)
THEOREM StoredWhenCompleted == Spec => []CompletedIsStored
<1>1. IInv => CompletedIsStored
  <2> SUFFICES ASSUME IInv, NEW j \in Jobs, task[j].pc = "done", task[j].ok,
                      NEW s \in task[j].covers, NEW p \in PeriodSet,
                      NEW d \in task[j].from..task[j].to,
                      d <= task[j].asof, <<s, d>> \notin Suspended,
                      <<s, p, YearOf(d)>> \notin raced
               PROVE  d \in DOMAIN files[<<s, p>>]
    BY DEF CompletedIsStored
  <2>1. Progress(task[j], KeptBars)
    BY DEF IInv
  <2>2. task[j].todo = <<>>
    BY <2>1 DEF Progress, LocalsInUse
  <2>3. Range(<<>>) = {}
    BY DEF Range
  <2>4. StoredFor(task[j], s, p, KeptBars)
    BY <2>1, <2>2, <2>3 DEF Progress, SymbolsDone
  <2>5. <<s, p, d>> \in KeptBars
    BY <2>4 DEF StoredFor, Had
  <2>6. QED
    BY <2>5 DEF KeptBars
<1>2. QED
  BY <1>1, Invariance, PTL

-----------------------------------------------------------------------------
(* The table of jobs *)

(* What a step of a task leaves of its id and of the table. *)
LEMMA StepKeepsJob ==
  ASSUME IInv, NEW j \in Jobs, Step(j), ~Finish(j)
  PROVE  /\ UNCHANGED jobs /\ Live(task[j]) /\ Live(task'[j])
         /\ task'[j].id = task[j].id
         /\ \A i \in Jobs : i # j => task'[i] = task[i]
<1>1. task \in [Jobs -> Tasks] /\ task[j] \in Tasks
  BY DEF IInv, TypeOK
<1>2. Live(task[j])
  BY <1>1 DEF Step, Ask, UpsertInstruments, Resolve, SaveCalendar, SaveFactors, MarkRunning,
     MarkFailed, MarkIdle, ReadPartition, RenamePartition, Live, CallPcs
<1>3. UNCHANGED jobs
  BY DEF Step, Ask, UpsertInstruments, Resolve, SaveCalendar, SaveFactors, MarkRunning,
     MarkFailed, MarkIdle, ReadPartition, RenamePartition
<1> DEFINE Keeps == /\ Live(task'[j]) /\ task'[j].id = task[j].id
                    /\ \A i \in Jobs : i # j => task'[i] = task[i]
<1>4. ASSUME Fails(j) PROVE Keeps
  BY <1>1, <1>4 DEF Fails, Idle, Live
<1>5. ASSUME NEW pc, pc \notin {"off", "done"}, Goes(j, pc) PROVE Keeps
  BY <1>1, <1>5 DEF Goes, Live, Tasks
<1>6. NextSymbol(task[j].todo) \notin {"off", "done"}
      /\ NextSymbol(Tail(task[j].todo)) \notin {"off", "done"}
  BY DEF NextSymbol
<1>7. CASE Ask(j)
  <2> DEFINE pc == AfterCall(task[j].pc)
             answer == IF task[j].pc = "bars"
                       THEN Answer(Head(task[j].todo), task[j].from, task[j].to) ELSE Nothing
             years == IF task[j].pc = "bars"
                      THEN {YearOf(d) : d \in Available(Head(task[j].todo), task[j].from, task[j].to)}
                      ELSE {}
  <2>1. pc \notin {"off", "done"}
    BY <1>7 DEF Ask, CallPcs, AfterCall
  <2>2. \/ task' = [task EXCEPT ![j].pc = pc, ![j].attempt = 0, ![j].got = answer,
                                ![j].years = years]
        \/ task' = [task EXCEPT ![j].attempt = @ + 1]
        \/ Goes(j, "failed") \/ Fails(j)
    BY <1>7 DEF Ask
  <2> HIDE DEF pc, answer, years
  <2>3. CASE task' = [task EXCEPT ![j].pc = pc, ![j].attempt = 0, ![j].got = answer,
                                ![j].years = years]
    BY <1>1, <1>2, <1>3, <2>1, <2>3 DEF Live, Tasks
  <2>4. CASE task' = [task EXCEPT ![j].attempt = @ + 1]
    BY <1>1, <1>2, <1>3, <2>4 DEF Live, Tasks
  <2>5. QED
    BY <1>3, <1>4, <1>5, <1>2, <2>2, <2>3, <2>4
<1>8. CASE UpsertInstruments(j) \/ SaveCalendar(j) \/ SaveFactors(j) \/ MarkRunning(j)
           \/ MarkFailed(j)
  BY <1>2, <1>3, <1>4, <1>5, <1>6, <1>8 DEF UpsertInstruments, SaveCalendar, SaveFactors,
     MarkRunning, MarkFailed
<1>9. CASE Resolve(j)
  <2>1. CASE Fails(j)
    BY <1>2, <1>3, <1>4, <2>1
  <2>2. CASE ~Fails(j)
    <3>1. PICK todo, covers, from, to :
            task' = [task EXCEPT ![j].pc = "calendar", ![j].todo = todo, ![j].covers = covers,
                                 ![j].asof = day, ![j].from = from, ![j].to = to]
      <4> DEFINE todo == IF task[j].kind = "full" /\ task[j].todo # <<>> THEN task[j].todo
                         ELSE Ordered(watchlist)
                 covers == Range(todo)
                 from == IF task[j].kind = "full" THEN 1 ELSE day
                 to == IF task[j].kind = "full" THEN until ELSE day
      <4>1. task' = [task EXCEPT ![j].pc = "calendar", ![j].todo = todo,
                       ![j].covers = covers, ![j].asof = day, ![j].from = from, ![j].to = to]
        BY <1>9, <2>2 DEF Resolve
      <4> HIDE DEF todo, covers, from, to
      <4>2. QED
        BY <4>1
    <3>2. QED
      BY <1>1, <1>2, <1>3, <3>1 DEF Live, Tasks
  <2>3. QED
    BY <2>1, <2>2
<1>10. CASE MarkIdle(j)
  <2>1. CASE Fails(j)
    BY <1>2, <1>3, <1>4, <2>1
  <2>2. CASE ~Fails(j)
    <3> DEFINE pc == IF task[j].p < Len(Periods) THEN "mark" ELSE NextSymbol(Tail(task[j].todo))
    <3>1. pc \notin {"off", "done"}
      BY <1>6
    <3>2. PICK todo, p :
            task' = [task EXCEPT ![j].pc = pc, ![j].todo = todo, ![j].p = p, ![j].got = Nothing]
      <4> DEFINE todo == IF task[j].p < Len(Periods) THEN task[j].todo ELSE Tail(task[j].todo)
                 p == IF task[j].p < Len(Periods) THEN task[j].p + 1 ELSE 1
      <4>1. task' = [task EXCEPT ![j].pc = pc, ![j].todo = todo, ![j].p = p, ![j].got = Nothing]
        BY <1>10, <2>2 DEF MarkIdle
      <4> HIDE DEF pc, todo, p
      <4>2. QED
        BY <4>1
    <3> HIDE DEF pc
    <3>3. QED
      BY <1>1, <1>2, <1>3, <3>1, <3>2 DEF Live, Tasks
  <2>3. QED
    BY <2>1, <2>2
<1>11. CASE ReadPartition(j)
  <2>1. PICK y, base :
          \/ Fails(j) \/ Goes(j, "idle")
          \/ task' = [task EXCEPT ![j].pc = "rename", ![j].year = y, ![j].base = base]
    BY <1>11 DEF ReadPartition
  <2>2. CASE task' = [task EXCEPT ![j].pc = "rename", ![j].year = y, ![j].base = base]
    BY <1>1, <1>2, <1>3, <2>2 DEF Live, Tasks
  <2>3. QED
    BY <1>2, <1>3, <1>4, <1>5, <2>1, <2>2
<1>12. CASE RenamePartition(j)
  <2>1. CASE task' = [task EXCEPT ![j].pc = "read", ![j].years = @ \ {task[j].year},
                                ![j].base = Nothing]
    BY <1>1, <1>2, <1>3, <2>1 DEF Live, Tasks
  <2>2. QED
    BY <1>2, <1>3, <1>4, <1>12, <2>1 DEF RenamePartition
<1>13. QED
  BY <1>7, <1>8, <1>9, <1>10, <1>11, <1>12 DEF Step

LEMMA TruthStays ==
  ASSUME IInv, JobsTellTheTruth, [Next]_vars
  PROVE  JobsTellTheTruth'
<1>1. task \in [Jobs -> Tasks] /\ jobs \in [DOMAIN jobs -> {"running", "completed", "failed"}]
      /\ DOMAIN jobs \subseteq Nat
  BY DEF IInv, TypeOK
<1> DEFINE Tells(state, t) ==
             CASE state = "running"   -> Live(t)
               [] state = "completed" -> t.pc = "done" /\ t.ok
               [] state = "failed"    -> t.pc = "done" /\ ~t.ok
<1>2. ASSUME NEW id \in DOMAIN jobs
      PROVE  \E j \in Jobs : task[j].id = id /\ Tells(jobs[id], task[j])
  BY <1>2 DEF JobsTellTheTruth
<1>3. ASSUME UNCHANGED <<jobs, task>> PROVE JobsTellTheTruth'
  <2>1. ASSUME NEW id \in DOMAIN jobs'
        PROVE  \E j \in Jobs : task'[j].id = id /\ Tells(jobs'[id], task'[j])
    <3> HIDE DEF Tells
    <3>1. QED
      BY <1>2, <1>3
  <2>2. QED
    BY <2>1 DEF JobsTellTheTruth, Live
<1>4. CASE Exit
  <2>1. DOMAIN jobs' = {}
    BY <1>4, NothingType DEF Exit
  <2>2. QED
    BY <2>1 DEF JobsTellTheTruth
<1>5. ASSUME NEW j \in Jobs, NEW kind, NEW wanted, Trigger(j, kind, wanted)
      PROVE  JobsTellTheTruth'
  <2>1. PICK new \in JobIds :
        /\ jobs' = [i \in DOMAIN jobs \cup {new} |-> IF i = new THEN "running" ELSE jobs[i]]
        /\ task' = [task EXCEPT ![j] =
                     [Idle EXCEPT !.pc = "stocks", !.kind = kind, !.id = new, !.todo = wanted]]
    BY <1>5 DEF Trigger
  <2>2. task'[j].id = new /\ Live(task'[j]) /\ task[j].pc = "off"
    BY <1>1, <1>5, <2>1 DEF Trigger, Idle, Live
  <2>3. ASSUME NEW id \in DOMAIN jobs'
        PROVE  \E i \in Jobs : task'[i].id = id /\ Tells(jobs'[id], task'[i])
    <3>1. CASE id = new
      <4>1. jobs'[id] = "running"
        BY <2>1, <3>1
      <4>2. QED
        BY <2>2, <3>1, <4>1
    <3>2. CASE id # new
      <4>1. id \in DOMAIN jobs /\ jobs'[id] = jobs[id]
        BY <2>1, <3>2
      <4>2. PICK i \in Jobs : task[i].id = id /\ Tells(jobs[id], task[i])
        BY <1>2, <4>1
      <4>3. i # j
        BY <1>1, <2>2, <4>1, <4>2 DEF Live
      <4>4. task'[i] = task[i]
        BY <1>1, <2>1, <4>3
      <4>5. QED
        BY <4>1, <4>2, <4>4
    <3>3. QED
      BY <3>1, <3>2
  <2>4. QED
    BY <2>3 DEF JobsTellTheTruth, Live
<1>6. ASSUME NEW j \in Jobs, Finish(j) PROVE JobsTellTheTruth'
  <2>1. /\ task[j].pc = "finish" /\ task'[j].pc = "done" /\ task'[j].id = task[j].id
        /\ task'[j].ok = task[j].ok /\ task[j].ok \in BOOLEAN
        /\ \A i \in Jobs : i # j => task'[i] = task[i]
    BY <1>1, <1>6 DEF Finish, Goes, Tasks
  <2>2. jobs' = [jobs EXCEPT ![task[j].id] = IF task[j].ok THEN "completed" ELSE "failed"]
    BY <1>6 DEF Finish
  <2>3. ASSUME NEW id \in DOMAIN jobs'
        PROVE  \E i \in Jobs : task'[i].id = id /\ Tells(jobs'[id], task'[i])
    <3>1. CASE id = task[j].id
      <4>1. jobs'[id] = IF task[j].ok THEN "completed" ELSE "failed"
        BY <2>2, <3>1
      <4>2. Tells(jobs'[id], task'[j])
        BY <2>1, <4>1
      <4>3. QED
        BY <2>1, <3>1, <4>2
    <3>2. CASE id # task[j].id
      <4>1. id \in DOMAIN jobs /\ jobs'[id] = jobs[id]
        BY <2>2, <3>2
      <4>2. PICK i \in Jobs : task[i].id = id /\ Tells(jobs[id], task[i])
        BY <1>2, <4>1
      <4>3. task'[i] = task[i]
        BY <2>1, <3>2, <4>2
      <4>4. QED
        BY <4>1, <4>2, <4>3
    <3>3. QED
      BY <3>1, <3>2
  <2>4. QED
    BY <2>3 DEF JobsTellTheTruth, Live
<1>7. ASSUME NEW j \in Jobs, Step(j), ~Finish(j) PROVE JobsTellTheTruth'
  <2>1. /\ UNCHANGED jobs /\ Live(task[j]) /\ Live(task'[j])
        /\ task'[j].id = task[j].id
        /\ \A i \in Jobs : i # j => task'[i] = task[i]
    BY <1>7, StepKeepsJob
  <2>2. ASSUME NEW id \in DOMAIN jobs'
        PROVE  \E i \in Jobs : task'[i].id = id /\ Tells(jobs'[id], task'[i])
    <3>1. PICK i \in Jobs : task[i].id = id /\ Tells(jobs[id], task[i])
      BY <1>2, <2>1
    <3>2. jobs[id] \in {"running", "completed", "failed"}
      BY <1>1, <2>1
    <3>3. CASE i = j
      <4>1. jobs[id] = "running"
        BY <2>1, <3>1, <3>2, <3>3 DEF Live
      <4>2. QED
        BY <2>1, <3>1, <3>3, <4>1
    <3>4. CASE i # j
      BY <2>1, <3>1, <3>4
    <3>5. QED
      BY <3>3, <3>4
  <2>3. QED
    BY <2>2 DEF JobsTellTheTruth, Live
<1>8. CASE Start \/ NextDay \/ Refill \/ PollerTakes
  BY <1>3, <1>8 DEF Start, NextDay, Refill, PollerTakes
<1>9. CASE Client
  BY <1>5, <1>9 DEF Client
<1>10. CASE UNCHANGED vars
  BY <1>3, <1>10 DEF vars
<1>11. QED
  BY <1>4, <1>6, <1>7, <1>8, <1>9, <1>10 DEF Next

(***************************************************************************)
(* GetJobStatus answers what is true of a job of that id, although two     *)
(* jobs may share it: create_job and finish_job keep the table true.       *)
(***************************************************************************)
THEOREM JobsTruth == Spec => []JobsTellTheTruth
<1>1. Init => JobsTellTheTruth
  BY NothingType DEF Init, JobsTellTheTruth
<1>2. QED
  BY <1>1, TruthStays, Invariance, PTL DEF Spec

-----------------------------------------------------------------------------
(***************************************************************************)
(* The Parquet files: that they are the functions KeepFirst builds.        *)
(***************************************************************************)

(* Lexical orders by its first number, then by its second. *)

LEMMA LexicalBefore ==
  ASSUME NEW bound \in Nat, NEW a \in Nat, NEW c \in Nat,
         NEW b \in 0..bound, NEW d \in 0..bound, a < c
  PROVE  Lexical(a, b, bound) < Lexical(c, d, bound)
<1> DEFINE k == bound + 1
           e == c - (a + 1)
<1>1. k \in Nat /\ e \in Nat /\ c = a + 1 + e
  OBVIOUS
<1> HIDE DEF k, e
<1>2. c * k = a * k + k + e * k /\ e * k \in Nat /\ a * k \in Nat
  BY <1>1
<1>3. b < k /\ d >= 0
  BY DEF k
<1>4. a * k + b < c * k + d
  <2> DEFINE x == a * k
             y == e * k
  <2>1. x \in Nat /\ y \in Nat /\ c * k = x + k + y
    BY <1>2
  <2> HIDE DEF x, y
  <2>2. x + b < x + k + y + d
    BY <1>1, <1>3, <2>1
  <2>3. QED
    BY <2>1, <2>2 DEF x
<1>5. QED
  BY <1>4 DEF Lexical, k

LEMMA LexicalOrders ==
  ASSUME NEW bound \in Nat, NEW a \in Nat, NEW c \in Nat,
         NEW b \in 0..bound, NEW d \in 0..bound
  PROVE  /\ Lexical(a, b, bound) \in Nat
         /\ Lexical(a, b, bound) < Lexical(c, d, bound) => (a < c \/ (a = c /\ b < d))
         /\ Lexical(a, b, bound) = Lexical(c, d, bound) => a = c /\ b = d
<1>1. Lexical(a, b, bound) \in Nat /\ Lexical(c, d, bound) \in Nat
  <2>1. a * (bound + 1) \in Nat /\ c * (bound + 1) \in Nat
    OBVIOUS
  <2>2. QED
    BY <2>1 DEF Lexical
<1>2. CASE a = c
  <2>1. a * (bound + 1) \in Nat
    OBVIOUS
  <2>2. QED
    BY <1>1, <1>2, <2>1 DEF Lexical
<1>3. CASE a < c
  BY <1>1, <1>3, LexicalBefore
<1>4. CASE c < a
  BY <1>1, <1>4, LexicalBefore
<1>5. QED
  BY <1>2, <1>3, <1>4

LEMMA KeyTypes ==
  ASSUME NEW r \in Records
  PROVE  /\ r.symbol \in Names /\ r.ts \in Stamps /\ r.ver \in Versions
         /\ r.symbol \in Nat /\ r.ts \in Nat
         /\ r.symbol \in 0..MaxName /\ r.ts \in 0..MaxStamp
         /\ FileKey(r) \in Int /\ QueryKey(r) \in Int
<1>1. /\ r.symbol \in Names /\ r.ts \in Stamps /\ r.ver \in Versions
      /\ MaxName \in Nat /\ MaxStamp \in Nat
  BY StoreAssumption DEF Records
<1>2. /\ r.symbol \in Nat /\ r.ts \in Nat
      /\ r.symbol \in 0..MaxName /\ r.ts \in 0..MaxStamp
  BY <1>1 DEF Names, Stamps
<1>3. Lexical(r.symbol, r.ts, MaxStamp) \in Nat /\ Lexical(r.ts, r.symbol, MaxName) \in Nat
  BY <1>1, <1>2, LexicalOrders
<1>4. FileKey(r) \in Int /\ QueryKey(r) \in Int
  BY <1>2, <1>3 DEF FileKey, QueryKey
<1>5. QED
  BY <1>1, <1>2, <1>4

LEMMA SameInOnePath ==
  ASSUME NEW r \in Records, NEW q \in Records, Same(r, q) PROVE Path(r) = Path(q)
BY DEF Same, Path

(* In one file, keys are the same when records are. *)
LEMMA FileKeySame ==
  ASSUME NEW r \in Records, NEW q \in Records, Path(r) = Path(q)
  PROVE  FileKey(r) = FileKey(q) <=> Same(r, q)
<1>1. /\ r.symbol \in Nat /\ r.ts \in 0..MaxStamp /\ q.symbol \in Nat /\ q.ts \in 0..MaxStamp
      /\ MaxStamp \in Nat
  BY KeyTypes, StoreAssumption
<1>2. CASE store = "values"
  <2>1. Lexical(r.symbol, r.ts, MaxStamp) = Lexical(q.symbol, q.ts, MaxStamp)
          <=> r.symbol = q.symbol /\ r.ts = q.ts
    BY <1>1, LexicalOrders
  <2>2. QED
    BY <1>2, <2>1 DEF FileKey, Same
<1>3. CASE store # "values"
  <2>1. r.symbol = q.symbol
    BY <1>3 DEF Path, PathAt
  <2>2. QED
    BY <1>3, <2>1 DEF FileKey, Same
<1>4. QED
  BY <1>2, <1>3

-----------------------------------------------------------------------------
(* The record that a sequence has first of its key. *)
FirstIn(r, seq) ==
  \E i \in 1..Len(seq) :
    seq[i] = r /\ \A j \in 1..Len(seq) : Same(seq[j], r) => i <= j

LEMMA RecordsAt ==
  ASSUME NEW seq \in Seq(Records)
  PROVE  /\ Len(seq) \in Nat /\ DOMAIN seq = 1..Len(seq)
         /\ \A i \in 1..Len(seq) : seq[i] \in Records
         /\ \A r : r \in Range(seq) <=> \E i \in 1..Len(seq) : seq[i] = r
<1>1. Len(seq) \in Nat /\ DOMAIN seq = 1..Len(seq)
  BY LenProperties
<1>2. \A i \in 1..Len(seq) : seq[i] \in Records
  BY ElementOfSeq
<1>3. QED
  BY <1>1, <1>2 DEF Range

(* In a file every record is the first of its key. *)
LEMMA FirstInFile ==
  ASSUME NEW seq \in Seq(Records), InFileOrder(seq), NEW r \in Records,
         \A i \in 1..Len(seq) : Path(seq[i]) = Path(r)
  PROVE  FirstIn(r, seq) <=> r \in Range(seq)
<1>1. /\ Len(seq) \in Nat /\ DOMAIN seq = 1..Len(seq)
      /\ \A i \in 1..Len(seq) : seq[i] \in Records
      /\ r \in Range(seq) <=> \E i \in 1..Len(seq) : seq[i] = r
  BY RecordsAt
<1>2. ASSUME NEW i \in 1..Len(seq), NEW j \in 1..Len(seq), seq[i] = r, Same(seq[j], r)
      PROVE  i <= j
  <2>1. FileKey(seq[i]) = FileKey(seq[j]) /\ FileKey(seq[i]) \in Int
    BY <1>1, <1>2, FileKeySame, KeyTypes
  <2>2. ~ (j < i)
    BY <1>1, <2>1 DEF InFileOrder
  <2>3. QED
    BY <1>1, <2>2
<1>3. QED
  BY <1>1, <1>2 DEF FirstIn

(* What is read comes before what is appended. *)
LEMMA FirstInBoth ==
  ASSUME NEW a \in Seq(Records), NEW b \in Seq(Records), NEW r \in Records
  PROVE  FirstIn(r, a \o b) <=>
           \/ FirstIn(r, a)
           \/ FirstIn(r, b) /\ \A i \in 1..Len(a) : ~Same(a[i], r)
<1> DEFINE c == a \o b
           m == Len(a)
           n == Len(b)
<1>1. /\ m \in Nat /\ n \in Nat /\ Len(c) = m + n
      /\ \A i \in 1..m : c[i] = a[i]
      /\ \A i \in 1..n : c[i + m] = b[i]
  <2>1. /\ c \in Seq(Records) /\ Len(c) = m + n
        /\ \A i \in 1..(m + n) : c[i] = IF i <= m THEN a[i] ELSE b[i - m]
    BY ConcatProperties
  <2>2. m \in Nat /\ n \in Nat
    BY LenProperties
  <2> HIDE DEF c, m, n
  <2>3. \A i \in 1..m : i \in 1..(m + n) /\ i <= m
    BY <2>2
  <2>4. \A i \in 1..n : i + m \in 1..(m + n) /\ ~(i + m <= m) /\ (i + m) - m = i
    BY <2>2
  <2>5. QED
    BY <2>1, <2>2, <2>3, <2>4
<1> HIDE DEF c, m, n
<1>2. ASSUME FirstIn(r, a) PROVE FirstIn(r, c)
  <2>1. PICK i \in 1..m : a[i] = r /\ \A j \in 1..m : Same(a[j], r) => i <= j
    BY <1>2 DEF FirstIn, m
  <2>2. i \in 1..Len(c) /\ c[i] = r
    BY <1>1, <2>1
  <2>3. ASSUME NEW j \in 1..Len(c), Same(c[j], r) PROVE i <= j
    <3>1. CASE j <= m
      BY <1>1, <2>1, <2>3, <3>1
    <3>2. CASE ~(j <= m)
      BY <1>1, <3>2
    <3>3. QED
      BY <3>1, <3>2
  <2>4. QED
    BY <2>2, <2>3 DEF FirstIn
<1>3. ASSUME FirstIn(r, b), \A i \in 1..m : ~Same(a[i], r) PROVE FirstIn(r, c)
  <2>1. PICK i \in 1..n : b[i] = r /\ \A j \in 1..n : Same(b[j], r) => i <= j
    BY <1>3 DEF FirstIn, n
  <2>2. i + m \in 1..Len(c) /\ c[i + m] = r
    BY <1>1, <2>1
  <2>3. ASSUME NEW j \in 1..Len(c), Same(c[j], r) PROVE i + m <= j
    <3>1. CASE j <= m
      BY <1>1, <1>3, <2>3, <3>1
    <3>2. CASE ~(j <= m)
      <4>1. j - m \in 1..n /\ (j - m) + m = j
        BY <1>1, <3>2
      <4>2. b[j - m] = c[j]
        BY <1>1, <4>1
      <4>3. i <= j - m
        BY <2>1, <2>3, <4>1, <4>2
      <4>4. QED
        BY <1>1, <4>1, <4>3
    <3>3. QED
      BY <3>1, <3>2
  <2>4. QED
    BY <2>2, <2>3 DEF FirstIn
<1>4. ASSUME FirstIn(r, c)
      PROVE  FirstIn(r, a) \/ (FirstIn(r, b) /\ \A i \in 1..m : ~Same(a[i], r))
  <2>1. PICK i \in 1..Len(c) : c[i] = r /\ \A j \in 1..Len(c) : Same(c[j], r) => i <= j
    BY <1>4 DEF FirstIn
  <2>2. CASE i <= m
    <3>1. i \in 1..m /\ a[i] = r
      BY <1>1, <2>1, <2>2
    <3>2. \A j \in 1..m : Same(a[j], r) => i <= j
      BY <1>1, <2>1
    <3>3. QED
      BY <3>1, <3>2 DEF FirstIn, m
  <2>3. CASE ~(i <= m)
    <3>1. i - m \in 1..n /\ (i - m) + m = i
      BY <1>1, <2>3
    <3>2. b[i - m] = r
      BY <1>1, <2>1, <3>1
    <3>3. ASSUME NEW j \in 1..n, Same(b[j], r) PROVE i - m <= j
      <4>1. j + m \in 1..Len(c) /\ c[j + m] = b[j]
        BY <1>1
      <4>2. i <= j + m
        BY <2>1, <3>3, <4>1
      <4>3. QED
        BY <1>1, <4>2
    <3>4. ASSUME NEW j \in 1..m PROVE ~Same(a[j], r)
      <4>1. j \in 1..Len(c) /\ c[j] = a[j] /\ ~(i <= j)
        BY <1>1, <2>3
      <4>2. QED
        BY <2>1, <4>1
    <3>5. QED
      BY <3>1, <3>2, <3>3, <3>4 DEF FirstIn, n
  <2>4. QED
    BY <2>2, <2>3
<1>5. QED
  BY <1>2, <1>3, <1>4 DEF c, m

(* What a file gets of a batch has the first of each of its keys. *)
LEMMA FirstInPart ==
  ASSUME NEW batch \in Seq(Records), NEW path
  PROVE  /\ PartOfBatch(batch, path) \in Seq(Records)
         /\ \A i \in 1..Len(PartOfBatch(batch, path)) : Path(PartOfBatch(batch, path)[i]) = path
         /\ \A r \in Records : Path(r) = path =>
              (FirstIn(r, PartOfBatch(batch, path)) <=> FirstIn(r, batch))
<1> DEFINE new == PartOfBatch(batch, path)
<1>1. /\ Len(batch) \in Nat /\ DOMAIN batch = 1..Len(batch)
      /\ \A i \in 1..Len(batch) : batch[i] \in Records
  BY RecordsAt
<1>2. PICK kept \in SUBSET (1..Len(batch)) : kept = {i \in DOMAIN batch : Path(batch[i]) = path}
  BY <1>1
<1>3. /\ new = Filtered(batch, kept)
      /\ \A i : i \in kept <=> i \in 1..Len(batch) /\ Path(batch[i]) = path
  BY <1>1, <1>2 DEF PartOfBatch
<1> HIDE DEF new
<1>4. new \in Seq(Records) /\ \E place : Thins(new, batch, kept, place)
  <2> DEFINE A == Records
  <2>1. batch \in Seq(A)
    OBVIOUS
  <2> HIDE DEF A
  <2>2. QED
    BY <1>3, <2>1, FilteredIs DEF A
<1> DEFINE c == Len(new)
<1>5. PICK place : /\ c \in Nat /\ place \in [1..c -> kept]
                   /\ \A n \in 1..c : new[n] = batch[place[n]]
                   /\ \A i \in kept : \E n \in 1..c : place[n] = i
                   /\ \A m, n \in 1..c : m < n => place[m] < place[n]
  BY <1>4 DEF Thins
<1> HIDE DEF c
<1>6. \A n \in 1..c : place[n] \in 1..Len(batch) /\ Path(new[n]) = path
  BY <1>3, <1>5
<1>7. ASSUME NEW r \in Records, Path(r) = path, FirstIn(r, new) PROVE FirstIn(r, batch)
  <2>1. PICK n \in 1..c : new[n] = r /\ \A j \in 1..c : Same(new[j], r) => n <= j
    BY <1>7 DEF FirstIn, c
  <2>2. place[n] \in 1..Len(batch) /\ batch[place[n]] = r
    BY <1>5, <1>6, <2>1
  <2>3. ASSUME NEW j \in 1..Len(batch), Same(batch[j], r) PROVE place[n] <= j
    <3>1. j \in kept
      BY <1>1, <1>3, <1>7, <2>3, SameInOnePath
    <3>2. PICK m \in 1..c : place[m] = j
      BY <1>5, <3>1
    <3>3. n <= m
      BY <1>5, <2>1, <2>3, <3>2
    <3>4. n = m \/ place[n] < place[m]
      BY <1>5, <3>3
    <3>5. QED
      BY <2>2, <3>2, <3>4
  <2>4. QED
    BY <2>2, <2>3 DEF FirstIn
<1>8. ASSUME NEW r \in Records, Path(r) = path, FirstIn(r, batch) PROVE FirstIn(r, new)
  <2>1. PICK i \in 1..Len(batch) :
          batch[i] = r /\ \A j \in 1..Len(batch) : Same(batch[j], r) => i <= j
    BY <1>8 DEF FirstIn
  <2>2. PICK n \in 1..c : place[n] = i
    BY <1>3, <1>5, <1>8, <2>1
  <2>3. new[n] = r
    BY <1>5, <2>1, <2>2
  <2>4. ASSUME NEW m \in 1..c, Same(new[m], r) PROVE n <= m
    <3>1. place[m] \in 1..Len(batch) /\ batch[place[m]] = new[m]
      BY <1>5, <1>6
    <3>2. i <= place[m]
      BY <2>1, <2>4, <3>1
    <3>3. ~ (m < n)
      BY <1>5, <2>2, <3>1, <3>2
    <3>4. QED
      BY <3>3
  <2>5. QED
    BY <2>3, <2>4 DEF FirstIn, c
<1>9. QED
  BY <1>4, <1>6, <1>7, <1>8 DEF new, c
(* A file after a write: sorted, without duplicates, the first of each key. *)
LEMMA MergedIs ==
  ASSUME NEW all \in Seq(Records), NEW path, \A i \in 1..Len(all) : Path(all[i]) = path
  PROVE  /\ Deduped(SortedFile(all)) \in Seq(Records)
         /\ InFileOrder(Deduped(SortedFile(all)))
         /\ \A i \in 1..Len(Deduped(SortedFile(all))) : Path(Deduped(SortedFile(all))[i]) = path
         /\ \A r \in Records : r \in Range(Deduped(SortedFile(all))) <=> FirstIn(r, all)
<1> DEFINE N == Len(all)
           sorted == SortedFile(all)
           file == Deduped(sorted)
<1>1. /\ N \in Nat /\ DOMAIN all = 1..N
      /\ \A i \in 1..N : all[i] \in Records /\ FileKey(all[i]) \in Int
  BY RecordsAt, KeyTypes
<1>2. PICK key \in [1..N -> Int] : key = [i \in DOMAIN all |-> FileKey(all[i])]
  BY <1>1
<1>3. sorted = SortedOn(all, key) /\ \A i \in 1..N : key[i] = FileKey(all[i])
  BY <1>1, <1>2 DEF SortedFile
<1> HIDE DEF sorted
<1>4. sorted \in Seq(Records) /\ \E place : Sorts(sorted, all, key, place)
  <2> DEFINE A == Records
  <2>1. all \in Seq(A)
    OBVIOUS
  <2> HIDE DEF A
  <2>2. QED
    BY <1>3, <2>1, SortedIs DEF A
<1>5. PICK place : Sorts(sorted, all, key, place)
  BY <1>4
<1>6. /\ Len(sorted) = N /\ DOMAIN sorted = 1..N
      /\ \A n \in 1..N : place[n] \in 1..N /\ sorted[n] = all[place[n]] /\ sorted[n] \in Records
      /\ \A i \in 1..N : \E n \in 1..N : place[n] = i
  BY <1>1, <1>4, <1>5, LenProperties DEF Sorts
<1>7. ASSUME NEW m \in 1..N, NEW n \in 1..N, m < n
      PROVE  /\ FileKey(sorted[m]) <= FileKey(sorted[n])
             /\ FileKey(sorted[m]) = FileKey(sorted[n]) => place[m] < place[n]
  <2>1. /\ key[place[m]] <= key[place[n]]
        /\ key[place[m]] = key[place[n]] => place[m] < place[n]
    BY <1>5, <1>7 DEF Sorts
  <2>2. key[place[m]] = FileKey(sorted[m]) /\ key[place[n]] = FileKey(sorted[n])
    BY <1>3, <1>6
  <2>3. QED
    BY <2>1, <2>2
<1>8. ASSUME NEW m \in 1..N, NEW n \in 1..N
      PROVE  /\ FileKey(sorted[m]) \in Int /\ FileKey(sorted[n]) \in Int
             /\ FileKey(sorted[m]) = FileKey(sorted[n]) <=> Same(sorted[m], sorted[n])
             /\ Path(sorted[m]) = path
  <2>1. sorted[m] \in Records /\ sorted[n] \in Records
    BY <1>6
  <2>2. Path(sorted[m]) = path /\ Path(sorted[n]) = path
    BY <1>6
  <2>3. QED
    BY <2>1, <2>2, FileKeySame, KeyTypes
<1>9. PICK kept \in SUBSET (1..N) :
        kept = {n \in DOMAIN sorted : n > 1 => ~Same(sorted[n - 1], sorted[n])}
  BY <1>6
<1>10. /\ file = Filtered(sorted, kept)
       /\ \A n : n \in kept <=> n \in 1..N /\ (n > 1 => ~Same(sorted[n - 1], sorted[n]))
  BY <1>6, <1>9 DEF Deduped
<1> HIDE DEF file
<1>11. file \in Seq(Records) /\ \E at : Thins(file, sorted, kept, at)
  <2> DEFINE A == Records
  <2>1. sorted \in Seq(A)
    BY <1>4
  <2>2. PICK seq \in Seq(A) : seq = sorted
    BY <2>1
  <2>3. kept \in SUBSET (1..Len(seq))
    BY <1>6, <2>2
  <2> HIDE DEF A
  <2>4. QED
    BY <1>10, <2>2, <2>3, FilteredIs DEF A
<1> DEFINE c == Len(file)
<1>12. PICK at : /\ c \in Nat /\ at \in [1..c -> kept]
                 /\ \A n \in 1..c : file[n] = sorted[at[n]]
                 /\ \A i \in kept : \E n \in 1..c : at[n] = i
                 /\ \A m, n \in 1..c : m < n => at[m] < at[n]
  BY <1>11 DEF Thins
<1> HIDE DEF N
<1>13. ASSUME NEW n \in kept, NEW m \in 1..N, m < n
       PROVE  FileKey(sorted[m]) < FileKey(sorted[n])
  <2>1. n \in 1..N /\ n - 1 \in 1..N /\ n - 1 < n /\ (m < n - 1 \/ m = n - 1)
    BY <1>1, <1>10, <1>13
  <2>2. ~Same(sorted[n - 1], sorted[n])
    <3>1. n > 1
      BY <1>1, <1>13, <2>1
    <3>2. QED
      BY <1>10, <3>1
  <2>3. /\ FileKey(sorted[n - 1]) # FileKey(sorted[n])
        /\ FileKey(sorted[n - 1]) \in Int /\ FileKey(sorted[n]) \in Int
        /\ FileKey(sorted[m]) \in Int
    BY <1>8, <2>1, <2>2
  <2>4. FileKey(sorted[n - 1]) <= FileKey(sorted[n])
    BY <1>7, <2>1
  <2>5. FileKey(sorted[m]) <= FileKey(sorted[n - 1])
    BY <1>7, <2>1, <2>3
  <2>6. QED
    BY <2>3, <2>4, <2>5
<1>14. \A n \in 1..c : at[n] \in kept /\ at[n] \in 1..N /\ file[n] = sorted[at[n]]
  BY <1>10, <1>12
<1>15. DOMAIN file = 1..c /\ \A r : r \in Range(file) <=> \E n \in 1..c : file[n] = r
  BY <1>11, RecordsAt
<1> HIDE DEF c
<1>16. InFileOrder(file)
  <2> SUFFICES ASSUME NEW m \in 1..c, NEW n \in 1..c, m < n
               PROVE  FileKey(file[m]) < FileKey(file[n])
    BY <1>15 DEF InFileOrder
  <2>1. QED
    BY <1>12, <1>13, <1>14
<1>17. \A n \in 1..c : Path(file[n]) = path
  BY <1>8, <1>14
<1>18. ASSUME NEW r \in Records, NEW n \in 1..c, file[n] = r PROVE FirstIn(r, all)
  <2>1. PICK k \in kept : sorted[k] = r /\ k \in 1..N
    BY <1>14, <1>18
  <2>2. place[k] \in 1..N /\ all[place[k]] = r
    BY <1>6, <2>1
  <2>3. ASSUME NEW j \in 1..N, Same(all[j], r) PROVE place[k] <= j
    <3>1. PICK m \in 1..N : place[m] = j
      BY <1>6
    <3>2. Same(sorted[m], sorted[k])
      BY <1>6, <2>1, <2>3, <3>1
    <3>3. FileKey(sorted[m]) = FileKey(sorted[k]) /\ FileKey(sorted[k]) \in Int
      BY <1>8, <2>1, <3>2
    <3>4. ~ (m < k)
      BY <1>13, <3>3
    <3>5. CASE m = k
      BY <2>2, <3>1, <3>5
    <3>6. CASE k < m
      <4>1. place[k] < place[m]
        BY <1>7, <2>1, <3>3, <3>6
      <4>2. QED
        BY <2>2, <3>1, <4>1
    <3>7. QED
      BY <2>1, <3>4, <3>5, <3>6
  <2>4. QED
    BY <2>2, <2>3 DEF FirstIn, N
<1>19. ASSUME NEW r \in Records, FirstIn(r, all) PROVE \E n \in 1..c : file[n] = r
  <2>1. PICK i \in 1..N : all[i] = r /\ \A j \in 1..N : Same(all[j], r) => i <= j
    BY <1>19 DEF FirstIn, N
  <2>2. PICK k \in 1..N : place[k] = i
    BY <1>6
  <2>3. sorted[k] = r
    BY <1>6, <2>1, <2>2
  <2>4. ASSUME k > 1, Same(sorted[k - 1], sorted[k]) PROVE FALSE
    <3>1. k - 1 \in 1..N /\ k - 1 < k
      BY <1>1, <2>4
    <3>2. place[k - 1] < place[k]
      BY <1>7, <1>8, <2>4, <3>1
    <3>3. place[k - 1] \in 1..N /\ Same(all[place[k - 1]], r)
      BY <1>6, <2>3, <2>4, <3>1
    <3>4. i <= place[k - 1]
      BY <2>1, <3>3
    <3>5. QED
      BY <2>2, <3>2, <3>3, <3>4
  <2>5. k \in kept
    BY <1>10, <2>4
  <2>6. PICK n \in 1..c : at[n] = k
    BY <1>12, <2>5 DEF c
  <2>7. QED
    BY <1>14, <2>3, <2>6
<1>20. \A r \in Records : r \in Range(file) <=> FirstIn(r, all)
  BY <1>15, <1>18, <1>19
<1>21. QED
  BY <1>11, <1>16, <1>17, <1>20 DEF file, c, sorted
(* The key of a record in the maps. *)
KeyAt(r) == <<r.symbol, r.ts>>

IsMap(map) == map \in [DOMAIN map -> Versions] /\ DOMAIN map \subseteq Names \X Stamps

LEMMA InRecordsOf ==
  ASSUME NEW map, IsMap(map)
  PROVE  /\ RecordsOf(map) \subseteq Records
         /\ \A r \in Records :
              r \in RecordsOf(map) <=> KeyAt(r) \in DOMAIN map /\ map[KeyAt(r)] = r.ver
<1>1. ASSUME NEW k \in DOMAIN map
      PROVE  /\ k[1] \in Names /\ k[2] \in Stamps /\ map[k] \in Versions /\ k = <<k[1], k[2]>>
  BY DEF IsMap
<1>2. RecordsOf(map) \subseteq Records
  BY <1>1 DEF RecordsOf, Records
<1>3. ASSUME NEW r \in Records, r \in RecordsOf(map)
      PROVE  KeyAt(r) \in DOMAIN map /\ map[KeyAt(r)] = r.ver
  <2>1. PICK k \in DOMAIN map : r = [symbol |-> k[1], ts |-> k[2], ver |-> map[k]]
    BY <1>3 DEF RecordsOf
  <2>2. r.symbol = k[1] /\ r.ts = k[2] /\ r.ver = map[k]
    BY <2>1
  <2>3. KeyAt(r) = k
    BY <1>1, <2>2 DEF KeyAt
  <2>4. QED
    BY <2>2, <2>3
<1>4. ASSUME NEW r \in Records, KeyAt(r) \in DOMAIN map, map[KeyAt(r)] = r.ver
      PROVE  r \in RecordsOf(map)
  <2>1. r = [symbol |-> r.symbol, ts |-> r.ts, ver |-> r.ver]
    BY DEF Records
  <2>2. KeyAt(r)[1] = r.symbol /\ KeyAt(r)[2] = r.ts
    BY DEF KeyAt
  <2>3. r = [symbol |-> KeyAt(r)[1], ts |-> KeyAt(r)[2], ver |-> map[KeyAt(r)]]
    BY <1>4, <2>1, <2>2
  <2>4. QED
    BY <1>4, <2>3 DEF RecordsOf
<1>5. QED
  BY <1>2, <1>3, <1>4

LEMMA SameKey ==
  ASSUME NEW r \in Records, NEW q \in Records
  PROVE  Same(r, q) <=> KeyAt(r) = KeyAt(q)
BY DEF Same, KeyAt

LEMMA FirstOfIs ==
  ASSUME NEW batch \in Seq(Records)
  PROVE  /\ IsMap(FirstOf(batch))
         /\ \A r \in Records :
              /\ KeyAt(r) \in DOMAIN FirstOf(batch) <=>
                   \E i \in 1..Len(batch) : Same(batch[i], r)
              /\ r \in RecordsOf(FirstOf(batch)) <=> FirstIn(r, batch)
<1> DEFINE f == FirstOf(batch)
           At(k) == {i \in DOMAIN batch : <<batch[i].symbol, batch[i].ts>> = k}
           Least(k) == CHOOSE i \in At(k) : \A j \in At(k) : i <= j
<1>1. /\ Len(batch) \in Nat /\ DOMAIN batch = 1..Len(batch)
      /\ \A i \in 1..Len(batch) : batch[i] \in Records
  BY RecordsAt
<1>2. f = [k \in {<<batch[i].symbol, batch[i].ts>> : i \in DOMAIN batch} |-> batch[Least(k)].ver]
  BY DEF FirstOf
<1>3. DOMAIN f = {KeyAt(batch[i]) : i \in 1..Len(batch)}
  BY <1>1, <1>2 DEF KeyAt
<1>4. \A k : \A i : i \in At(k) <=> i \in 1..Len(batch) /\ KeyAt(batch[i]) = k
  BY <1>1 DEF KeyAt
<1>5. \A k \in DOMAIN f : f[k] = batch[Least(k)].ver
  BY <1>2
<1> HIDE DEF f, At
<1>6. ASSUME NEW k \in DOMAIN f
      PROVE  Least(k) \in At(k) /\ \A j \in At(k) : Least(k) <= j
  <2>1. PICK i \in 1..Len(batch) : k = KeyAt(batch[i])
    BY <1>3
  <2>2. At(k) # {} /\ At(k) \subseteq Nat
    <3>1. i \in At(k)
      BY <1>4, <2>1
    <3>2. \A j \in At(k) : j \in Nat
      BY <1>1, <1>4
    <3>3. QED
      BY <3>1, <3>2
  <2>3. \E least \in At(k) : \A j \in At(k) : least <= j
    BY <2>2, LeastNat
  <2>4. QED
    BY <2>3
<1> HIDE DEF Least
<1>7. IsMap(f)
  <2>1. DOMAIN f \subseteq Names \X Stamps
    BY <1>1, <1>3, KeyTypes DEF KeyAt
  <2>2. \A k \in DOMAIN f : f[k] \in Versions
    BY <1>1, <1>4, <1>5, <1>6, KeyTypes
  <2>3. f = [k \in DOMAIN f |-> f[k]]
    BY <1>2
  <2>4. f \in [DOMAIN f -> Versions]
    BY <2>2, <2>3
  <2>5. QED
    BY <2>1, <2>4 DEF IsMap
<1>8. ASSUME NEW r \in Records
      PROVE  KeyAt(r) \in DOMAIN f <=> \E i \in 1..Len(batch) : Same(batch[i], r)
  BY <1>1, <1>3, SameKey
<1>9. ASSUME NEW r \in Records
      PROVE  r \in RecordsOf(f) <=> FirstIn(r, batch)
  <2>1. r \in RecordsOf(f) <=> KeyAt(r) \in DOMAIN f /\ f[KeyAt(r)] = r.ver
    BY <1>7, InRecordsOf
  <2>2. CASE KeyAt(r) \in DOMAIN f
    <3>1. PICK i \in 1..Len(batch) :
            /\ KeyAt(batch[i]) = KeyAt(r)
            /\ \A j \in 1..Len(batch) : KeyAt(batch[j]) = KeyAt(r) => i <= j
            /\ f[KeyAt(r)] = batch[i].ver
      <4>1. /\ Least(KeyAt(r)) \in At(KeyAt(r))
            /\ \A j \in At(KeyAt(r)) : Least(KeyAt(r)) <= j
        BY <1>6, <2>2
      <4>2. QED
        BY <1>4, <1>5, <2>2, <4>1
    <3>2. \A j \in 1..Len(batch) : Same(batch[j], r) => i <= j
      BY <1>1, <3>1, SameKey
    <3>3. f[KeyAt(r)] = r.ver <=> batch[i] = r
      <4>1. /\ batch[i] = [symbol |-> batch[i].symbol, ts |-> batch[i].ts, ver |-> batch[i].ver]
            /\ r = [symbol |-> r.symbol, ts |-> r.ts, ver |-> r.ver]
        BY <1>1 DEF Records
      <4>2. batch[i].symbol = r.symbol /\ batch[i].ts = r.ts
        BY <1>1, <3>1, SameKey DEF Same
      <4>3. QED
        BY <3>1, <4>1, <4>2
    <3>4. FirstIn(r, batch) => batch[i] = r
      <4>1. SUFFICES ASSUME FirstIn(r, batch) PROVE batch[i] = r
        OBVIOUS
      <4>2. PICK j \in 1..Len(batch) :
              batch[j] = r /\ \A h \in 1..Len(batch) : Same(batch[h], r) => j <= h
        BY <4>1 DEF FirstIn
      <4>3. Same(batch[i], r) /\ Same(batch[j], r)
        BY <1>1, <3>1, <4>2, SameKey
      <4>4. i <= j /\ j <= i
        BY <3>2, <4>2, <4>3
      <4>5. QED
        BY <4>2, <4>4
    <3>5. batch[i] = r => FirstIn(r, batch)
      BY <3>2 DEF FirstIn
    <3>6. QED
      BY <2>1, <2>2, <3>3, <3>4, <3>5
  <2>3. CASE KeyAt(r) \notin DOMAIN f
    <3>1. ~FirstIn(r, batch)
      <4>1. SUFFICES ASSUME FirstIn(r, batch) PROVE FALSE
        OBVIOUS
      <4>2. PICK i \in 1..Len(batch) : batch[i] = r
        BY <4>1 DEF FirstIn
      <4>3. Same(batch[i], r)
        BY <4>2 DEF Same
      <4>4. QED
        BY <1>8, <2>3, <4>3
    <3>2. QED
      BY <2>1, <2>3, <3>1
  <2>4. QED
    BY <2>2, <2>3
<1>10. QED
  BY <1>7, <1>8, <1>9 DEF f
-----------------------------------------------------------------------------
(* What is read of a path, of a file or of none. *)
LEMMA ReadIs ==
  ASSUME StoreTypeOK, FilesAreKeptFirst, NEW p
  PROVE  /\ Read(p) \in Seq(Records) /\ InFileOrder(Read(p))
         /\ \A i \in 1..Len(Read(p)) : Path(Read(p)[i]) = p
<1>1. CASE p \in DOMAIN disk
  <2>1. PICK seq \in Seq(Records) : seq = disk[p]
    BY <1>1 DEF StoreTypeOK
  <2>2. Read(p) = seq
    BY <1>1, <2>1 DEF Read
  <2>3. InFileOrder(seq) /\ \A r \in Records : r \in Range(seq) => Path(r) = p
    BY <1>1, <2>1 DEF FilesAreKeptFirst
  <2>4. \A i \in 1..Len(seq) : seq[i] \in Records /\ seq[i] \in Range(seq)
    BY RecordsAt
  <2>5. QED
    BY <2>2, <2>3, <2>4
<1>2. CASE p \notin DOMAIN disk
  <2>1. Read(p) = <<>>
    BY <1>2 DEF Read
  <2>2. <<>> \in Seq(Records) /\ Len(<<>>) = 0 /\ DOMAIN <<>> = {}
    OBVIOUS
  <2>3. \A i \in 1..0 : FALSE
    OBVIOUS
  <2>4. QED
    BY <2>1, <2>2, <2>3 DEF InFileOrder
<1>3. QED
  BY <1>1, <1>2

(* A key is in the map when a record of it is in its file. *)
LEMMA KeptKeys ==
  ASSUME StoreTypeOK, FilesAreKeptFirst, NEW r \in Records
  PROVE  KeyAt(r) \in DOMAIN first <=>
           \E i \in 1..Len(Read(Path(r))) : Same(Read(Path(r))[i], r)
<1>1. IsMap(first)
  BY DEF StoreTypeOK, IsMap
<1>2. PICK map : map = first
  OBVIOUS
<1>3. RecordsOf(map) \subseteq Records
      /\ \A q \in Records :
           q \in RecordsOf(map) <=> KeyAt(q) \in DOMAIN map /\ map[KeyAt(q)] = q.ver
  BY <1>1, <1>2, InRecordsOf
<1>4. PICK seq \in Seq(Records) : seq = Read(Path(r))
  BY ReadIs
<1>5. /\ \A i \in 1..Len(seq) : seq[i] \in Records
      /\ \A q : q \in Range(seq) <=> \E i \in 1..Len(seq) : seq[i] = q
  BY RecordsAt
<1>6. \A q \in Records : Path(q) = Path(r) => (q \in Range(seq) <=> q \in RecordsOf(map))
  BY <1>2, <1>4 DEF FilesAreKeptFirst
<1>7. ASSUME KeyAt(r) \in DOMAIN map PROVE \E i \in 1..Len(seq) : Same(seq[i], r)
  <2> DEFINE q == [symbol |-> r.symbol, ts |-> r.ts, ver |-> map[KeyAt(r)]]
  <2>1. map[KeyAt(r)] \in Versions
    BY <1>1, <1>2, <1>7 DEF IsMap
  <2>2. q \in Records /\ KeyAt(q) = KeyAt(r) /\ Same(q, r) /\ q.ver = map[KeyAt(r)]
    BY <2>1, KeyTypes DEF Records, KeyAt, Same
  <2> HIDE DEF q
  <2>3. q \in RecordsOf(map)
    BY <1>3, <1>7, <2>2
  <2>4. Path(q) = Path(r)
    BY <2>2, SameInOnePath
  <2>5. q \in Range(seq)
    BY <1>6, <2>2, <2>3, <2>4
  <2>6. QED
    BY <1>5, <2>2, <2>5
<1>8. ASSUME NEW i \in 1..Len(seq), Same(seq[i], r) PROVE KeyAt(r) \in DOMAIN map
  <2>1. PICK q \in Records : q = seq[i] /\ q \in Range(seq)
    BY <1>5
  <2>2. Path(q) = Path(r) /\ KeyAt(q) = KeyAt(r)
    BY <1>8, <2>1, SameInOnePath, SameKey
  <2>3. q \in RecordsOf(map)
    BY <1>6, <2>1, <2>2
  <2>4. QED
    BY <1>3, <2>2, <2>3
<1>9. QED
  BY <1>2, <1>4, <1>7, <1>8

(* A write leaves the files what the map is. *)
LEMMA WriteStep ==
  ASSUME StoreInv, NEW batch \in Batches, Write(batch)
  PROVE  StoreInv'
<1>1. batch \in Seq(Records)
  <2>1. PICK n \in 1..MaxBatch : batch \in [1..n -> Records]
    BY DEF Batches
  <2>2. n \in Nat
    BY StoreAssumption
  <2>3. QED
    BY <2>1, <2>2
<1>2. /\ StoreTypeOK /\ FilesAreKeptFirst
      /\ writes < MaxWrites /\ writes' = writes + 1 /\ store' = store
      /\ first' = KeepFirst(first, FirstOf(batch))
  BY DEF StoreInv, Write
<1> DEFINE paths == {Path(batch[i]) : i \in DOMAIN batch}
           New(p) == PartOfBatch(batch, p)
<1>3. disk' = [p \in DOMAIN disk \cup paths |-> IF p \in paths THEN Merged(p, New(p)) ELSE disk[p]]
  BY DEF Write
<1>4. /\ DOMAIN batch = 1..Len(batch) /\ \A i \in 1..Len(batch) : batch[i] \in Records
      /\ \A p : p \in paths <=> \E i \in 1..Len(batch) : p = Path(batch[i])
  BY <1>1, RecordsAt
<1> HIDE DEF paths, New
<1>5. ASSUME NEW p
      PROVE  /\ Merged(p, New(p)) \in Seq(Records)
             /\ InFileOrder(Merged(p, New(p)))
             /\ \A r \in Records : r \in Range(Merged(p, New(p))) => Path(r) = p
             /\ \A r \in Records : Path(r) = p =>
                  (r \in Range(Merged(p, New(p))) <=>
                     \/ r \in Range(Read(p))
                     \/ FirstIn(r, batch) /\ \A i \in 1..Len(Read(p)) : ~Same(Read(p)[i], r))
  <2>1. PICK old \in Seq(Records) : old = Read(p)
    BY <1>2, ReadIs
  <2>2. InFileOrder(old) /\ \A i \in 1..Len(old) : Path(old[i]) = p
    BY <1>2, <2>1, ReadIs
  <2>3. PICK new \in Seq(Records) : new = New(p)
    BY <1>1, FirstInPart DEF New
  <2>4. /\ \A i \in 1..Len(new) : Path(new[i]) = p
        /\ \A r \in Records : Path(r) = p => (FirstIn(r, new) <=> FirstIn(r, batch))
    BY <1>1, <2>3, FirstInPart DEF New
  <2>5. PICK all \in Seq(Records) : all = old \o new
    BY ConcatProperties
  <2>6. \A i \in 1..Len(all) : Path(all[i]) = p
    <3>1. /\ Len(all) = Len(old) + Len(new)
          /\ \A i \in 1..(Len(old) + Len(new)) :
               all[i] = IF i <= Len(old) THEN old[i] ELSE new[i - Len(old)]
          /\ Len(old) \in Nat /\ Len(new) \in Nat
      BY <2>5, ConcatProperties, LenProperties
    <3> SUFFICES ASSUME NEW i \in 1..Len(all) PROVE Path(all[i]) = p
      OBVIOUS
    <3>2. CASE i <= Len(old)
      BY <2>2, <3>1, <3>2
    <3>3. CASE ~(i <= Len(old))
      <4>1. i - Len(old) \in 1..Len(new) /\ all[i] = new[i - Len(old)]
        BY <3>1, <3>3
      <4>2. QED
        BY <2>4, <4>1
    <3>4. QED
      BY <3>2, <3>3
  <2>7. Merged(p, New(p)) = Deduped(SortedFile(all))
    BY <2>1, <2>3, <2>5 DEF Merged
  <2> DEFINE merged == Deduped(SortedFile(all))
  <2>8. /\ merged \in Seq(Records)
        /\ InFileOrder(merged) /\ \A i \in 1..Len(merged) : Path(merged[i]) = p
        /\ \A r \in Records : r \in Range(merged) <=> FirstIn(r, all)
    BY <2>6, MergedIs
  <2> HIDE DEF merged
  <2>9. merged = Merged(p, New(p))
    BY <2>7 DEF merged
  <2>10. ASSUME NEW r \in Records, Path(r) = p
         PROVE  r \in Range(merged) <=>
                  \/ r \in Range(old)
                  \/ FirstIn(r, batch) /\ \A i \in 1..Len(old) : ~Same(old[i], r)
    <3>1. FirstIn(r, all) <=>
            FirstIn(r, old) \/ (FirstIn(r, new) /\ \A i \in 1..Len(old) : ~Same(old[i], r))
      BY <2>5, FirstInBoth
    <3>2. FirstIn(r, old) <=> r \in Range(old)
      BY <2>2, <2>10, FirstInFile
    <3>3. FirstIn(r, new) <=> FirstIn(r, batch)
      BY <2>4, <2>10
    <3>4. r \in Range(merged) <=> FirstIn(r, all)
      BY <2>8
    <3>5. QED
      BY <3>1, <3>2, <3>3, <3>4
  <2>11. \A r \in Records : r \in Range(merged) => Path(r) = p
    BY <2>8, RecordsAt
  <2>12. QED
    BY <2>1, <2>8, <2>9, <2>10, <2>11
<1>6. DOMAIN disk' = DOMAIN disk \cup paths
      /\ \A p \in DOMAIN disk' : disk'[p] = IF p \in paths THEN Merged(p, New(p)) ELSE disk[p]
  BY <1>3
<1>7. ASSUME NEW p \in DOMAIN disk'
      PROVE  /\ disk'[p] \in Seq(Records) /\ InFileOrder(disk'[p])
             /\ \A r \in Records : r \in Range(disk'[p]) => Path(r) = p
  <2>1. CASE p \in paths
    BY <1>5, <1>6, <2>1
  <2>2. CASE p \notin paths
    BY <1>2, <1>6, <2>2 DEF StoreTypeOK, FilesAreKeptFirst
  <2>3. QED
    BY <2>1, <2>2
<1>8. IsMap(first) /\ IsMap(FirstOf(batch))
  BY <1>1, <1>2, FirstOfIs DEF StoreTypeOK, IsMap
<1>9. /\ DOMAIN first' = DOMAIN first \cup DOMAIN FirstOf(batch)
      /\ \A k \in DOMAIN first' : first'[k] = IF k \in DOMAIN first THEN first[k] ELSE FirstOf(batch)[k]
      /\ first' = [k \in DOMAIN first' |-> first'[k]]
  BY <1>2 DEF KeepFirst
<1>10. IsMap(first')
  <2>1. \A k \in DOMAIN first' : first'[k] \in Versions
    BY <1>8, <1>9 DEF IsMap
  <2>2. DOMAIN first' \subseteq Names \X Stamps
    BY <1>8, <1>9 DEF IsMap
  <2>3. QED
    BY <1>9, <2>1, <2>2 DEF IsMap
<1>11. StoreTypeOK'
  <2>1. disk' = [p \in DOMAIN disk' |-> disk'[p]]
    BY <1>3
  <2>2. disk' \in [DOMAIN disk' -> Seq(Records)]
    BY <1>7, <2>1
  <2>3. writes' \in 0..MaxWrites
    BY <1>2, StoreAssumption DEF StoreTypeOK
  <2>4. QED
    BY <1>2, <1>10, <2>2, <2>3 DEF StoreTypeOK, IsMap
<1>12. ASSUME NEW r \in Records
       PROVE  LET read == IF Path(r) \in DOMAIN disk' THEN disk'[Path(r)] ELSE <<>>
              IN  r \in Range(read) <=> r \in RecordsOf(first')
  <2> DEFINE read == IF Path(r) \in DOMAIN disk' THEN disk'[Path(r)] ELSE <<>>
             old == Read(Path(r))
             has == \E i \in 1..Len(old) : Same(old[i], r)
  <2>1. has <=> KeyAt(r) \in DOMAIN first
    BY <1>2, KeptKeys
  <2>2. r \in Range(old) <=> r \in RecordsOf(first)
    BY <1>2 DEF FilesAreKeptFirst
  <2>3. r \in RecordsOf(first) <=> KeyAt(r) \in DOMAIN first /\ first[KeyAt(r)] = r.ver
    BY <1>8, InRecordsOf
  <2>4. r \in RecordsOf(first') <=> KeyAt(r) \in DOMAIN first' /\ first'[KeyAt(r)] = r.ver
    BY <1>10, InRecordsOf
  <2>5. /\ r \in RecordsOf(FirstOf(batch)) <=>
             KeyAt(r) \in DOMAIN FirstOf(batch) /\ FirstOf(batch)[KeyAt(r)] = r.ver
        /\ r \in RecordsOf(FirstOf(batch)) <=> FirstIn(r, batch)
        /\ KeyAt(r) \in DOMAIN FirstOf(batch) <=> \E i \in 1..Len(batch) : Same(batch[i], r)
    BY <1>1, <1>8, FirstOfIs, InRecordsOf
  <2>6. r \in RecordsOf(first') <=>
          r \in RecordsOf(first) \/ (FirstIn(r, batch) /\ KeyAt(r) \notin DOMAIN first)
    BY <1>9, <2>3, <2>4, <2>5
  <2>7. CASE Path(r) \in paths
    <3>1. read = Merged(Path(r), New(Path(r)))
      BY <1>6, <2>7
    <3>2. r \in Range(Merged(Path(r), New(Path(r)))) <=>
             \/ r \in Range(old)
             \/ FirstIn(r, batch) /\ ~has
      BY <1>5
    <3> HIDE DEF has, read, old
    <3>3. QED
      BY <2>1, <2>2, <2>6, <3>1, <3>2 DEF read
  <2>8. CASE Path(r) \notin paths
    <3>1. read = old
      BY <1>6, <2>8 DEF Read
    <3>2. ~FirstIn(r, batch)
      BY <1>4, <2>8 DEF FirstIn
    <3> HIDE DEF has, read, old
    <3>3. QED
      BY <2>2, <2>6, <3>1, <3>2 DEF read
  <2>9. QED
    BY <2>7, <2>8
<1>13. FilesAreKeptFirst'
  <2>1. \A p \in DOMAIN disk' : InFileOrder(disk[p])'
    BY <1>2, <1>7 DEF InFileOrder, FileKey
  <2>2. \A p \in DOMAIN disk', r \in Records : r \in Range(disk'[p]) => Path(r)' = p
    BY <1>2, <1>7 DEF Path, PathAt
  <2>3. \A r \in Records : r \in Range(Read(Path(r))') <=> r \in RecordsOf(first')
    BY <1>2, <1>12 DEF Read, Path, PathAt
  <2>4. QED
    BY <2>1, <2>2, <2>3 DEF FilesAreKeptFirst
<1>14. QED
  BY <1>11, <1>13 DEF StoreInv

(* What keeps the files: any writes, in any order. *)
THEOREM FilesKeptFirst == StoreSpec => []StoreInv
<1>1. StoreInit => StoreInv
  <2> SUFFICES ASSUME StoreInit PROVE StoreInv
    OBVIOUS
  <2>1. DOMAIN disk = {} /\ DOMAIN first = {} /\ writes = 0
    BY DEF StoreInit
  <2>2. StoreTypeOK
    BY <2>1, StoreAssumption DEF StoreInit, StoreTypeOK
  <2>3. \A r : r \notin RecordsOf(first)
    BY <2>1 DEF RecordsOf
  <2>4. \A p : Read(p) = <<>>
    BY <2>1 DEF Read
  <2>5. \A r : r \notin Range(<<>>)
    BY DEF Range
  <2>6. QED
    BY <2>1, <2>2, <2>3, <2>4, <2>5 DEF StoreInv, FilesAreKeptFirst
<1>2. StoreInv /\ [StoreNext]_storeVars => StoreInv'
  <2> SUFFICES ASSUME StoreInv, [StoreNext]_storeVars PROVE StoreInv'
    OBVIOUS
  <2>1. CASE StoreNext
    BY <2>1, WriteStep DEF StoreNext
  <2>2. CASE UNCHANGED storeVars
    BY <2>2 DEF storeVars, StoreInv, StoreTypeOK, FilesAreKeptFirst, InFileOrder, FileKey, Path, PathAt, Read
  <2>3. QED
    BY <2>1, <2>2
<1>3. QED
  BY <1>1, <1>2, PTL DEF StoreSpec
-----------------------------------------------------------------------------
(* The files that a query of a range opens, and what it reads there: of a *)
(* key no more than one record.                                           *)
Opened(symbol, from, to) ==
  [n \in 1..(PartOf[to] - PartOf[from] + 1) |-> PathAt(symbol, PartOf[from] + n - 1)]

LEMMA CollectedIs ==
  ASSUME StoreInv, NEW symbol, NEW from \in Stamps, NEW to \in Stamps, from <= to
  PROVE  /\ Collected(symbol, from, to) \in Seq(Records)
         /\ \A i, j \in 1..Len(Collected(symbol, from, to)) :
              Same(Collected(symbol, from, to)[i], Collected(symbol, from, to)[j]) => i = j
         /\ \A r \in Records : r \in Range(Collected(symbol, from, to)) <=>
              r \in RecordsOf(first) /\ Path(r) \in Range(Opened(symbol, from, to))
<1>1. StoreTypeOK /\ FilesAreKeptFirst
  BY DEF StoreInv
<1>2. PartOf[from] \in Int /\ PartOf[to] \in Int /\ PartOf[from] <= PartOf[to]
  BY StoreAssumption
<1> DEFINE N == PartOf[to] - PartOf[from] + 1
           base == PartOf[from]
           opened == Opened(symbol, from, to)
           found == Collected(symbol, from, to)
           path(n) == PathAt(symbol, base + n - 1)
<1>3. N \in Nat /\ base \in Int
  BY <1>2
<1>4. /\ DOMAIN opened = 1..N /\ \A n \in 1..N : opened[n] = path(n)
      /\ found = Joined([n \in 1..N |-> Read(path(n))])
  BY DEF Opened, Collected
<1> HIDE DEF N, base, opened, found, path
<1>5. \A n \in 1..N : Read(path(n)) \in Seq(Records)
  BY <1>1, ReadIs
<1>6. PICK list \in [1..N -> Seq(Records)] : list = [n \in 1..N |-> Read(path(n))]
  BY <1>5
<1>7. \A n \in 1..N : list[n] = Read(path(n))
  BY <1>6
<1>8. found \in Seq(Records) /\ \E place : Joins(found, list, N, place)
  <2> DEFINE A == Records
  <2>1. list \in [1..N -> Seq(A)]
    OBVIOUS
  <2>2. PICK M \in Nat : M = N
    BY <1>3
  <2> HIDE DEF A
  <2>3. QED
    BY <1>4, <1>6, <2>1, <2>2, JoinedIs DEF A
<1>9. PICK place : Joins(found, list, N, place)
  BY <1>8
<1> DEFINE c == Len(found)
<1>10. /\ c \in Nat /\ place \in [1..c -> (1..N) \X Nat]
       /\ \A i \in 1..c : /\ place[i][2] \in 1..Len(list[place[i][1]])
                          /\ found[i] = list[place[i][1]][place[i][2]]
       /\ \A i, j \in 1..c : place[i] = place[j] => i = j
       /\ \A k \in 1..N : \A m \in 1..Len(list[k]) : \E i \in 1..c : place[i] = <<k, m>>
  BY <1>9 DEF Joins
<1>11. ASSUME NEW i \in 1..c
       PROVE  \E k \in 1..N, m \in Nat :
                /\ m \in 1..Len(Read(path(k)))
                /\ place[i] = <<k, m>> /\ found[i] = Read(path(k))[m]
                /\ found[i] \in Records /\ found[i] \in Range(Read(path(k)))
                /\ Path(found[i]) = path(k)
  <2>1. place[i] \in (1..N) \X Nat
    BY <1>10
  <2>2. PICK k \in 1..N, m \in Nat : place[i] = <<k, m>>
    BY <2>1
  <2>3. place[i][1] = k /\ place[i][2] = m
    BY <2>2
  <2>4. m \in 1..Len(list[k]) /\ found[i] = list[k][m]
    BY <1>10, <2>3
  <2>5. PICK seq \in Seq(Records) : seq = Read(path(k))
    BY <1>5
  <2>6. \A h \in 1..Len(seq) : Path(seq[h]) = path(k)
    BY <1>1, <2>5, ReadIs
  <2>7. m \in 1..Len(seq) /\ found[i] = seq[m]
    BY <1>7, <2>4, <2>5
  <2>8. seq[m] \in Records /\ seq[m] \in Range(seq)
    BY <2>7, RecordsAt
  <2>9. QED
    BY <2>2, <2>5, <2>6, <2>7, <2>8
<1>12. \A k, l \in 1..N : path(k) = path(l) => k = l
  <2> SUFFICES ASSUME NEW k \in 1..N, NEW l \in 1..N, path(k) = path(l) PROVE k = l
    OBVIOUS
  <2>1. base + k - 1 = base + l - 1
    <3>1. CASE store = "values"
      <4>1. path(k)[1] = base + k - 1 /\ path(l)[1] = base + l - 1
        BY <3>1 DEF path, PathAt
      <4>2. QED
        BY <4>1
    <3>2. CASE store # "values"
      <4>1. path(k)[2] = base + k - 1 /\ path(l)[2] = base + l - 1
        BY <3>2 DEF path, PathAt
      <4>2. QED
        BY <4>1
    <3>3. QED
      BY <3>1, <3>2
  <2>2. QED
    BY <1>3, <2>1
<1>13. ASSUME NEW i \in 1..c, NEW j \in 1..c, Same(found[i], found[j]) PROVE i = j
  <2>1. PICK k \in 1..N, m \in Nat :
          /\ m \in 1..Len(Read(path(k)))
          /\ place[i] = <<k, m>> /\ found[i] = Read(path(k))[m]
          /\ found[i] \in Records /\ Path(found[i]) = path(k)
    BY <1>11
  <2>2. PICK l \in 1..N, h \in Nat :
          /\ h \in 1..Len(Read(path(l)))
          /\ place[j] = <<l, h>> /\ found[j] = Read(path(l))[h]
          /\ found[j] \in Records /\ Path(found[j]) = path(l)
    BY <1>11
  <2>3. Path(found[i]) = Path(found[j]) /\ FileKey(found[i]) = FileKey(found[j])
    BY <1>13, <2>1, <2>2, SameInOnePath, FileKeySame
  <2>4. k = l
    BY <1>12, <2>1, <2>2, <2>3
  <2>5. PICK seq \in Seq(Records) : seq = Read(path(k))
    BY <1>5
  <2>6. InFileOrder(seq) /\ DOMAIN seq = 1..Len(seq) /\ Len(seq) \in Nat
    BY <1>1, <2>5, ReadIs, RecordsAt
  <2>7. /\ m \in 1..Len(seq) /\ h \in 1..Len(seq)
        /\ FileKey(seq[m]) = FileKey(seq[h]) /\ FileKey(seq[m]) \in Int
    BY <2>1, <2>2, <2>3, <2>4, <2>5, KeyTypes
  <2>8. ~(m < h) /\ ~(h < m)
    BY <2>6, <2>7 DEF InFileOrder
  <2>9. m = h
    BY <2>6, <2>7, <2>8
  <2>10. place[i] = place[j]
    BY <2>1, <2>2, <2>4, <2>9
  <2>11. QED
    BY <1>10, <2>10
<1>14. \A r : r \in Range(found) <=> \E i \in 1..c : found[i] = r
  BY <1>8, RecordsAt
<1>15. \A p : p \in Range(opened) <=> \E n \in 1..N : p = path(n)
  BY <1>4 DEF Range
<1>16. ASSUME NEW r \in Records, r \in Range(found)
       PROVE  r \in RecordsOf(first) /\ Path(r) \in Range(opened)
  <2>1. PICK i \in 1..c : found[i] = r
    BY <1>14, <1>16
  <2>2. PICK k \in 1..N : r \in Range(Read(path(k))) /\ Path(r) = path(k)
    BY <1>11, <2>1
  <2>3. QED
    BY <1>1, <1>15, <2>2 DEF FilesAreKeptFirst
<1>17. ASSUME NEW r \in Records, r \in RecordsOf(first), Path(r) \in Range(opened)
       PROVE  r \in Range(found)
  <2>1. PICK k \in 1..N : Path(r) = path(k)
    BY <1>15, <1>17
  <2>2. r \in Range(Read(path(k)))
    BY <1>1, <1>17, <2>1 DEF FilesAreKeptFirst
  <2>3. PICK seq \in Seq(Records) : seq = list[k]
    BY <1>5, <1>7
  <2>4. PICK m \in 1..Len(seq) : seq[m] = r
    BY <1>7, <2>2, <2>3, RecordsAt
  <2>5. PICK i \in 1..c : place[i] = <<k, m>>
    BY <1>10, <2>3, <2>4
  <2>6. place[i][1] = k /\ place[i][2] = m
    BY <2>5
  <2>7. found[i] = list[k][m]
    BY <1>10, <2>6
  <2>8. QED
    BY <1>14, <2>3, <2>4, <2>7
<1>18. QED
  BY <1>8, <1>13, <1>14, <1>16, <1>17 DEF c, found, opened

(* The answer: what is found in the range, by its key, none of them twice. *)
Chosen(found, symbols, from, to) ==
  SortedAnswer(Filtered(found, {i \in DOMAIN found : InRange(found[i], symbols, from, to)}))

LEMMA AnswerIs ==
  ASSUME NEW found \in Seq(Records), NEW symbols, NEW from, NEW to,
         \A i, j \in 1..Len(found) : Same(found[i], found[j]) => i = j
  PROVE  LET answer == Chosen(found, symbols, from, to)
         IN  /\ answer \in Seq(Records)
             /\ \A r : r \in Range(answer) <=>
                  r \in Range(found) /\ InRange(r, symbols, from, to)
             /\ \A m, n \in 1..Len(answer) : m < n =>
                  QueryKey(answer[m]) <= QueryKey(answer[n]) /\ ~Same(answer[m], answer[n])
<1> DEFINE left == Filtered(found, {i \in DOMAIN found : InRange(found[i], symbols, from, to)})
           answer == Chosen(found, symbols, from, to)
<1>0. answer = SortedAnswer(left)
  BY DEF Chosen
<1>1. /\ Len(found) \in Nat /\ DOMAIN found = 1..Len(found)
      /\ \A r : r \in Range(found) <=> \E i \in 1..Len(found) : found[i] = r
  BY RecordsAt
<1>2. PICK kept \in SUBSET (1..Len(found)) :
        kept = {i \in DOMAIN found : InRange(found[i], symbols, from, to)}
  BY <1>1
<1>3. /\ left = Filtered(found, kept)
      /\ \A i : i \in kept <=> i \in 1..Len(found) /\ InRange(found[i], symbols, from, to)
  BY <1>1, <1>2
<1> HIDE DEF left, answer
<1>4. left \in Seq(Records) /\ \E at : Thins(left, found, kept, at)
  <2> DEFINE A == Records
  <2>1. found \in Seq(A)
    OBVIOUS
  <2> HIDE DEF A
  <2>2. QED
    BY <1>3, <2>1, FilteredIs DEF A
<1>5. PICK all \in Seq(Records) : all = left
  BY <1>4
<1> DEFINE N == Len(all)
<1>6. PICK at : /\ at \in [1..N -> kept]
                /\ \A n \in 1..N : all[n] = found[at[n]]
                /\ \A i \in kept : \E n \in 1..N : at[n] = i
                /\ \A m, n \in 1..N : m < n => at[m] < at[n]
  BY <1>4, <1>5 DEF Thins
<1>7. /\ N \in Nat /\ DOMAIN all = 1..N
      /\ \A i \in 1..N : all[i] \in Records /\ QueryKey(all[i]) \in Int
  BY RecordsAt, KeyTypes
<1>8. PICK key \in [1..N -> Int] : key = [i \in DOMAIN all |-> QueryKey(all[i])]
  BY <1>7
<1>9. answer = SortedOn(all, key) /\ \A i \in 1..N : key[i] = QueryKey(all[i])
  <2>1. answer = SortedOn(all, key)
    BY <1>0, <1>5, <1>8 DEF SortedAnswer
  <2>2. \A i \in 1..N : key[i] = QueryKey(all[i])
    BY <1>7, <1>8
  <2>3. QED
    BY <2>1, <2>2
<1>10. answer \in Seq(Records) /\ \E place : Sorts(answer, all, key, place)
  <2> DEFINE A == Records
  <2>1. all \in Seq(A)
    OBVIOUS
  <2> HIDE DEF A
  <2>2. QED
    BY <1>9, <2>1, SortedIs DEF A
<1>11. PICK place : Sorts(answer, all, key, place)
  BY <1>10
<1>12. /\ Len(answer) = N
       /\ \A n \in 1..N : place[n] \in 1..N /\ answer[n] = all[place[n]]
       /\ \A i \in 1..N : \E n \in 1..N : place[n] = i
  BY <1>11 DEF Sorts
<1>13. \A r : r \in Range(answer) <=> \E n \in 1..N : answer[n] = r
  <2>1. answer \in Seq(Records) /\ Len(answer) = N
    BY <1>10, <1>12
  <2>2. PICK seq \in Seq(Records) : seq = answer
    BY <2>1
  <2>3. \A r : r \in Range(seq) <=> \E n \in 1..Len(seq) : seq[n] = r
    BY RecordsAt
  <2>4. QED
    BY <2>1, <2>2, <2>3
<1> HIDE DEF N
<1>14. \A n \in 1..N : at[n] \in kept /\ at[n] \in 1..Len(found)
  BY <1>6
<1>15. ASSUME NEW r, r \in Range(answer) PROVE r \in Range(found) /\ InRange(r, symbols, from, to)
  <2>1. PICK n \in 1..N : answer[n] = r
    BY <1>13, <1>15
  <2>2. PICK k \in 1..N : k = place[n] /\ all[k] = r
    BY <1>12, <2>1
  <2>3. at[k] \in kept /\ found[at[k]] = r
    BY <1>6, <1>14, <2>2
  <2>4. QED
    BY <1>1, <1>3, <2>3
<1>16. ASSUME NEW r, r \in Range(found), InRange(r, symbols, from, to) PROVE r \in Range(answer)
  <2>1. PICK i \in kept : found[i] = r
    BY <1>1, <1>3, <1>16
  <2>2. PICK n \in 1..N : at[n] = i
    BY <1>6
  <2>3. PICK m \in 1..N : place[m] = n
    BY <1>12
  <2>4. answer[m] = r
    <3>1. answer[m] = all[n]
      BY <1>12, <2>3
    <3>2. all[n] = found[i]
      BY <1>6, <2>2
    <3>3. QED
      BY <2>1, <3>1, <3>2
  <2>5. QED
    BY <1>13, <2>4
<1>17. ASSUME NEW m \in 1..N, NEW n \in 1..N, m < n
       PROVE  QueryKey(answer[m]) <= QueryKey(answer[n]) /\ ~Same(answer[m], answer[n])
  <2>1. /\ key[place[m]] <= key[place[n]]
        /\ key[place[m]] = key[place[n]] => place[m] < place[n]
    BY <1>11, <1>17 DEF Sorts, N
  <2>2. PICK i \in 1..N, j \in 1..N : i = place[m] /\ j = place[n]
    BY <1>12
  <2>3. QueryKey(answer[m]) <= QueryKey(answer[n])
    BY <1>9, <1>12, <2>1, <2>2
  <2>4. i # j
    <3>1. SUFFICES ASSUME i = j PROVE FALSE
      OBVIOUS
    <3>2. i < i
      BY <2>1, <2>2, <3>1
    <3>3. QED
      BY <1>7, <3>2
  <2>5. at[i] # at[j]
    <3>1. at[i] \in Int /\ at[j] \in Int
      BY <1>14
    <3>2. i < j \/ j < i
      BY <1>7, <2>4
    <3>3. QED
      BY <1>6, <3>1, <3>2
  <2>6. answer[m] = found[at[i]] /\ answer[n] = found[at[j]]
    <3>1. answer[m] = all[i] /\ answer[n] = all[j]
      BY <1>12, <2>2
    <3>2. QED
      BY <1>6, <3>1
  <2>7. QED
    BY <1>14, <2>3, <2>5, <2>6
<1>18. QED
  BY <1>10, <1>12, <1>15, <1>16, <1>17 DEF answer
(* Whatever symbols are asked for, when the files that are opened have what *)
(* the map has of them in the range.                                        *)
LEMMA QueryIs ==
  ASSUME StoreInv, NEW symbols \in SUBSET Names, NEW from \in Stamps, NEW to \in Stamps,
         from <= to,
         \A r \in Records : InRange(r, symbols, from, to) =>
           Path(r) \in Range(Opened(CHOOSE s \in symbols : TRUE, from, to))
  PROVE  /\ Query(symbols, from, to) \in Seq(Records)
         /\ Range(Query(symbols, from, to)) =
              {r \in RecordsOf(first) : InRange(r, symbols, from, to)}
         /\ \A m, n \in 1..Len(Query(symbols, from, to)) : m < n =>
              /\ QueryKey(Query(symbols, from, to)[m]) <= QueryKey(Query(symbols, from, to)[n])
              /\ ~Same(Query(symbols, from, to)[m], Query(symbols, from, to)[n])
<1> DEFINE name == CHOOSE s \in symbols : TRUE
<1>1. PICK found \in Seq(Records) : found = Collected(name, from, to)
  BY CollectedIs
<1>2. \A i, j \in 1..Len(found) : Same(found[i], found[j]) => i = j
  BY <1>1, CollectedIs
<1>3. \A r \in Records : r \in Range(found) <=>
        r \in RecordsOf(first) /\ Path(r) \in Range(Opened(name, from, to))
  BY <1>1, CollectedIs
<1>4. Query(symbols, from, to) = Chosen(found, symbols, from, to)
  BY <1>1 DEF Query, Chosen
<1>5. PICK answer : answer = Query(symbols, from, to)
  OBVIOUS
<1>6. /\ answer \in Seq(Records)
      /\ \A r : r \in Range(answer) <=> r \in Range(found) /\ InRange(r, symbols, from, to)
      /\ \A m, n \in 1..Len(answer) : m < n =>
           QueryKey(answer[m]) <= QueryKey(answer[n]) /\ ~Same(answer[m], answer[n])
  BY <1>2, <1>4, <1>5, AnswerIs
<1>7. RecordsOf(first) \subseteq Records
  BY InRecordsOf DEF StoreInv, StoreTypeOK, IsMap
<1>8. Range(answer) = {r \in RecordsOf(first) : InRange(r, symbols, from, to)}
  <2>1. \A r : r \in Range(answer) => r \in Records
    BY <1>6, RecordsAt
  <2> HIDE DEF name
  <2>2. \A r \in Records : r \in Range(answer) <=>
          r \in RecordsOf(first) /\ InRange(r, symbols, from, to)
    <3> SUFFICES ASSUME NEW r \in Records
                 PROVE  r \in Range(answer) <=>
                          r \in RecordsOf(first) /\ InRange(r, symbols, from, to)
      OBVIOUS
    <3>1. InRange(r, symbols, from, to) => Path(r) \in Range(Opened(name, from, to))
      BY DEF name
    <3>2. QED
      BY <1>3, <1>6, <3>1
  <2>3. QED
    BY <1>7, <2>1, <2>2
<1>9. QED
  BY <1>5, <1>6, <1>8

(* The part of a time in the range is one of those that are opened. *)
LEMMA OpenedParts ==
  ASSUME NEW symbol, NEW from \in Stamps, NEW to \in Stamps, NEW t \in Stamps,
         from <= t, t <= to
  PROVE  PathAt(symbol, PartOf[t]) \in Range(Opened(symbol, from, to))
<1>1. /\ PartOf[from] \in Int /\ PartOf[to] \in Int /\ PartOf[t] \in Int
      /\ PartOf[from] <= PartOf[t] /\ PartOf[t] <= PartOf[to]
  BY StoreAssumption
<1>2. PICK n \in Nat : n = PartOf[t] - PartOf[from] + 1
  BY <1>1
<1>3. n \in 1..(PartOf[to] - PartOf[from] + 1) /\ PartOf[from] + n - 1 = PartOf[t]
  BY <1>1, <1>2
<1>4. Opened(symbol, from, to)[n] = PathAt(symbol, PartOf[t]) /\ n \in DOMAIN Opened(symbol, from, to)
  BY <1>3 DEF Opened
<1>5. QED
  BY <1>4 DEF Range

LEMMA FilesAnswer == StoreInv => QueriesAreKeptFirst
<1> SUFFICES ASSUME StoreInv, NEW from \in Stamps, NEW to \in Stamps, from <= to
             PROVE  /\ store = "bars" => \A s \in Names :
                         /\ Range(Query({s}, from, to)) =
                              {r \in RecordsOf(first) : InRange(r, {s}, from, to)}
                         /\ InTime(Query({s}, from, to))
                    /\ store = "values" => \A symbols \in (SUBSET Names) \ {{}} :
                         /\ Range(Query(symbols, from, to)) =
                              {r \in RecordsOf(first) : InRange(r, symbols, from, to)}
                         /\ InTimeAndName(Query(symbols, from, to))
                    /\ store = "snapshots" => \A s \in Names :
                         /\ Range(Read(<<s, PartOf[from]>>)) =
                              {r \in RecordsOf(first) :
                                 r.symbol = s /\ PartOf[r.ts] = PartOf[from]}
                         /\ InTime(Read(<<s, PartOf[from]>>))
  BY DEF QueriesAreKeptFirst
<1>1. StoreTypeOK /\ FilesAreKeptFirst /\ RecordsOf(first) \subseteq Records
  BY InRecordsOf DEF StoreInv, StoreTypeOK, IsMap
<1>2. \A t \in Stamps : t \in Int
  BY DEF Stamps
<1>3. ASSUME store = "bars", NEW s \in Names
      PROVE  /\ Range(Query({s}, from, to)) =
                  {r \in RecordsOf(first) : InRange(r, {s}, from, to)}
             /\ InTime(Query({s}, from, to))
  <2>1. {s} \in SUBSET Names /\ (CHOOSE x \in {s} : TRUE) = s
    OBVIOUS
  <2>2. ASSUME NEW r \in Records, InRange(r, {s}, from, to)
        PROVE  Path(r) \in Range(Opened(CHOOSE x \in {s} : TRUE, from, to))
    <3>1. /\ r.symbol = s /\ from <= r.ts /\ r.ts <= to /\ r.ts \in Stamps
      BY <1>2, <2>2, KeyTypes DEF InRange
    <3>2. Path(r) = PathAt(s, PartOf[r.ts])
      BY <3>1 DEF Path
    <3>3. QED
      BY <2>1, <3>1, <3>2, OpenedParts
  <2>3. PICK answer \in Seq(Records) : answer = Query({s}, from, to)
    BY <2>1, <2>2, QueryIs
  <2>4. /\ Range(answer) = {r \in RecordsOf(first) : InRange(r, {s}, from, to)}
        /\ \A m, n \in 1..Len(answer) : m < n =>
             QueryKey(answer[m]) <= QueryKey(answer[n]) /\ ~Same(answer[m], answer[n])
    BY <2>1, <2>2, <2>3, QueryIs
  <2>5. \A n \in DOMAIN answer : /\ n \in 1..Len(answer) /\ answer[n] \in Records
                                 /\ answer[n].symbol = s /\ answer[n].ts \in Int
    <3>1. /\ DOMAIN answer = 1..Len(answer)
          /\ \A n \in 1..Len(answer) : answer[n] \in Records /\ answer[n] \in Range(answer)
      BY RecordsAt
    <3>2. QED
      BY <1>2, <2>4, <3>1, KeyTypes DEF InRange
  <2>6. \A r : QueryKey(r) = r.ts
    BY <1>3 DEF QueryKey
  <2>7. InTime(answer)
    <3> SUFFICES ASSUME NEW m \in DOMAIN answer, NEW n \in DOMAIN answer, m < n
                 PROVE  answer[m].ts < answer[n].ts
      BY DEF InTime
    <3>1. answer[m].ts <= answer[n].ts /\ ~Same(answer[m], answer[n])
      BY <2>4, <2>5, <2>6
    <3>2. answer[m].ts # answer[n].ts
      BY <2>5, <3>1 DEF Same
    <3>3. QED
      BY <2>5, <3>1, <3>2
  <2>8. QED
    BY <2>3, <2>4, <2>7
<1>4. ASSUME store = "values", NEW symbols \in (SUBSET Names) \ {{}}
      PROVE  /\ Range(Query(symbols, from, to)) =
                  {r \in RecordsOf(first) : InRange(r, symbols, from, to)}
             /\ InTimeAndName(Query(symbols, from, to))
  <2>1. symbols \in SUBSET Names
    OBVIOUS
  <2>2. ASSUME NEW r \in Records, InRange(r, symbols, from, to)
        PROVE  Path(r) \in Range(Opened(CHOOSE s \in symbols : TRUE, from, to))
    <3>1. from <= r.ts /\ r.ts <= to /\ r.ts \in Stamps
      BY <1>2, <2>2, KeyTypes DEF InRange
    <3>2. Path(r) = PathAt(CHOOSE s \in symbols : TRUE, PartOf[r.ts])
      BY <1>4 DEF Path, PathAt
    <3>3. QED
      BY <3>1, <3>2, OpenedParts
  <2>3. PICK answer \in Seq(Records) : answer = Query(symbols, from, to)
    BY <2>1, <2>2, QueryIs
  <2>4. /\ Range(answer) = {r \in RecordsOf(first) : InRange(r, symbols, from, to)}
        /\ \A m, n \in 1..Len(answer) : m < n =>
             QueryKey(answer[m]) <= QueryKey(answer[n]) /\ ~Same(answer[m], answer[n])
    BY <2>1, <2>2, <2>3, QueryIs
  <2>5. InTimeAndName(answer)
    <3> SUFFICES ASSUME NEW m \in DOMAIN answer, NEW n \in DOMAIN answer, m < n
                 PROVE  \/ answer[m].ts < answer[n].ts
                        \/ answer[m].ts = answer[n].ts /\ answer[m].symbol < answer[n].symbol
      BY DEF InTimeAndName
    <3>1. m \in 1..Len(answer) /\ n \in 1..Len(answer)
      BY RecordsAt
    <3>2. PICK r \in Records, q \in Records : r = answer[m] /\ q = answer[n]
      BY <3>1, RecordsAt
    <3>3. QueryKey(r) <= QueryKey(q) /\ ~Same(r, q)
      BY <2>4, <3>1, <3>2
    <3>4. /\ r.ts \in Nat /\ q.ts \in Nat /\ MaxName \in Nat
          /\ r.symbol \in 0..MaxName /\ q.symbol \in 0..MaxName
      BY KeyTypes, StoreAssumption
    <3>5. PICK a \in Nat, c \in Nat, b \in 0..MaxName, d \in 0..MaxName :
            a = r.ts /\ c = q.ts /\ b = r.symbol /\ d = q.symbol
      BY <3>4
    <3>6. QueryKey(r) = Lexical(a, b, MaxName) /\ QueryKey(q) = Lexical(c, d, MaxName)
      BY <1>4, <3>5 DEF QueryKey
    <3>7. /\ Lexical(a, b, MaxName) \in Nat /\ Lexical(c, d, MaxName) \in Nat
          /\ Lexical(a, b, MaxName) < Lexical(c, d, MaxName) => (a < c \/ (a = c /\ b < d))
          /\ Lexical(a, b, MaxName) = Lexical(c, d, MaxName) => a = c /\ b = d
      BY <3>4, LexicalOrders
    <3>8. ~(a = c /\ b = d)
      BY <3>3, <3>5 DEF Same
    <3>9. a < c \/ (a = c /\ b < d)
      BY <3>3, <3>6, <3>7, <3>8
    <3>10. QED
      BY <3>2, <3>5, <3>9
  <2>6. QED
    BY <2>3, <2>4, <2>5
<1>5. ASSUME store = "snapshots", NEW s \in Names
      PROVE  /\ Range(Read(<<s, PartOf[from]>>)) =
                  {r \in RecordsOf(first) : r.symbol = s /\ PartOf[r.ts] = PartOf[from]}
             /\ InTime(Read(<<s, PartOf[from]>>))
  <2> DEFINE path == <<s, PartOf[from]>>
  <2>1. \A r : Path(r) = <<r.symbol, PartOf[r.ts]>>
    BY <1>5 DEF Path, PathAt
  <2>2. PICK answer \in Seq(Records) : answer = Read(path)
    BY <1>1, ReadIs
  <2>3. InFileOrder(answer) /\ \A i \in 1..Len(answer) : Path(answer[i]) = path
    BY <1>1, <2>2, ReadIs
  <2>4. /\ DOMAIN answer = 1..Len(answer) /\ \A i \in 1..Len(answer) : answer[i] \in Records
        /\ \A r : r \in Range(answer) <=> \E i \in 1..Len(answer) : answer[i] = r
    BY RecordsAt
  <2>5. \A r \in Records : Path(r) = path => (r \in Range(answer) <=> r \in RecordsOf(first))
    BY <1>1, <2>2 DEF FilesAreKeptFirst
  <2>6. \A r : Path(r) = path <=> r.symbol = s /\ PartOf[r.ts] = PartOf[from]
    BY <2>1
  <2> HIDE DEF path
  <2>7. \A r : r \in Range(answer) => r \in Records /\ Path(r) = path
    BY <2>3, <2>4
  <2>8. Range(answer) = {r \in RecordsOf(first) : r.symbol = s /\ PartOf[r.ts] = PartOf[from]}
    BY <1>1, <2>5, <2>6, <2>7
  <2>9. InTime(answer)
    BY <1>5, <2>3 DEF InFileOrder, FileKey, InTime
  <2>10. QED
    BY <2>2, <2>8, <2>9 DEF path
<1>6. QED
  BY <1>3, <1>4, <1>5

(***************************************************************************)
(* Every query answers with the records of its range, each once, sorted,   *)
(* in the version that was written first.                                  *)
(***************************************************************************)
THEOREM QueriesKeptFirst == StoreSpec => []QueriesAreKeptFirst
BY FilesKeptFirst, FilesAnswer, PTL

-----------------------------------------------------------------------------
(* Ratios in lowest terms: Euclid's algorithm *)

LEMMA Divided ==
  ASSUME NEW a \in Nat, NEW b \in Nat \ {0}
  PROVE  a \div b \in Nat /\ a % b \in Nat /\ a % b < b
<1>1. a % b \in Nat /\ a % b < b
  OBVIOUS
<1>2. a \div b \in Nat
  OBVIOUS
<1>3. QED
  BY <1>1, <1>2

LEMMA DividedAs ==
  ASSUME NEW a \in Nat, NEW b \in Nat \ {0}, NEW q \in Nat, NEW r \in Nat,
         q = a \div b, r = a % b
  PROVE  a = b * q + r
OBVIOUS

(* A quotient and a remainder are the only ones. *)
LEMMA OneQuotient ==
  ASSUME NEW b \in Nat \ {0}, NEW q \in Nat, NEW p \in Nat, NEW r \in Nat, NEW s \in Nat,
         r < b, s < b, b * q + r = b * p + s
  PROVE  q = p /\ r = s
<1>1. ASSUME NEW x \in Nat, NEW y \in Nat, NEW v \in Nat, NEW w \in Nat,
             v < b, w < b, b * x + v = b * y + w, x < y
      PROVE  FALSE
  <2>1. b * y = b * x + b * (y - x)
    OBVIOUS
  <2>2. b * (y - x) >= b
    <3>1. y - x \in Nat /\ y - x >= 1
      BY <1>1
    <3> DEFINE z == y - x
    <3>2. z \in Nat /\ z >= 1
      BY <3>1
    <3> HIDE DEF z
    <3>3. b * z >= b
      BY <3>2
    <3>4. QED
      BY <3>3 DEF z
  <2>3. b * x \in Nat /\ b * y \in Nat /\ b * (y - x) \in Int
    BY <1>1
  <2>4. QED
    BY <1>1, <2>1, <2>2, <2>3
<1>2. q = p
  BY <1>1
<1>3. QED
  BY <1>2

Euclid(f, n) ==
  /\ f \in [Nat \X (0..n) -> Nat]
  /\ \A a \in Nat : f[<<a, 0>>] = a
  /\ \A a \in Nat, b \in 1..n : f[<<a, b>>] = f[<<b, a % b>>]

(* Gcd up to a bound of its second argument, a step of the bound at a time. *)
LEMMA EuclidExists ==
  ASSUME NEW N \in Nat PROVE \E f : Euclid(f, N)
<1> DEFINE good == {n \in 0..N : \E f : Euclid(f, n)}
<1>1. 0 \in good
  <2>1. Euclid([p \in Nat \X (0..0) |-> p[1]], 0)
    BY DEF Euclid
  <2>2. QED
    BY <2>1
<1>2. ASSUME NEW n \in 1..N, n - 1 \in good PROVE n \in good
  <2>1. PICK f : Euclid(f, n - 1)
    BY <1>2
  <2> DEFINE h == [p \in Nat \X (0..n) |-> IF p[2] = n THEN f[<<n, p[1] % n>>] ELSE f[p]]
  <2>2. n \in Nat \ {0} /\ 0..(n - 1) \subseteq 0..n /\ n \in 0..n /\ n \notin 0..(n - 1)
        /\ 0 \in 0..(n - 1) /\ \A b \in 0..n : b # n => b \in 0..(n - 1)
    OBVIOUS
  <2>3. \A a \in Nat, b \in 1..n : a % b \in 0..(b - 1) /\ a % b \in 0..(n - 1)
    BY Divided
  <2>4. \A a \in Nat : h[<<a, n>>] = f[<<n, a % n>>]
    BY <2>2
  <2>5. \A a \in Nat, b \in 0..(n - 1) : h[<<a, b>>] = f[<<a, b>>]
    BY <2>2
  <2>6. h \in [Nat \X (0..n) -> Nat]
    <3>1. f \in [Nat \X (0..(n - 1)) -> Nat]
      BY <2>1 DEF Euclid
    <3>2. ASSUME NEW a \in Nat, NEW b \in 0..n PROVE h[<<a, b>>] \in Nat
      <4>1. CASE b = n
        <5>1. a % n \in 0..(n - 1)
          BY <2>2, <2>3
        <5>2. <<n, a % n>> \in Nat \X (0..(n - 1))
          BY <5>1
        <5>3. f[<<n, a % n>>] \in Nat
          BY <3>1, <5>2
        <5>4. QED
          BY <2>4, <4>1, <5>3
      <4>2. CASE b # n
        <5>1. b \in 0..(n - 1)
          BY <2>2, <4>2
        <5>2. QED
          BY <2>5, <3>1, <5>1
      <4>3. QED
        BY <4>1, <4>2
    <3> DEFINE D == Nat \X (0..n)
    <3>3. \A p \in D : p[1] \in Nat /\ p[2] \in 0..n /\ p = <<p[1], p[2]>>
      OBVIOUS
    <3>4. DOMAIN h = D /\ h = [p \in DOMAIN h |-> h[p]]
      OBVIOUS
    <3> HIDE DEF h, D
    <3>5. \A p \in D : h[p] \in Nat
      BY <3>2, <3>3
    <3>6. h \in [D -> Nat]
      BY <3>4, <3>5
    <3>7. QED
      BY <3>6 DEF D
  <2> HIDE DEF h
  <2>7. \A a \in Nat : h[<<a, 0>>] = a
    BY <2>1, <2>2, <2>5 DEF Euclid
  <2>8. ASSUME NEW a \in Nat, NEW b \in 1..n PROVE h[<<a, b>>] = h[<<b, a % b>>]
    <3>1. b \in Nat /\ a % b \in 0..(n - 1)
      BY <2>3
    <3>5. h[<<b, a % b>>] = f[<<b, a % b>>]
      BY <2>5, <3>1
    <3>2. CASE b = n
      BY <2>4, <3>5, <3>2
    <3>3. CASE b # n
      <4>1. b \in 1..(n - 1) /\ b \in 0..(n - 1)
        BY <3>3
      <4>2. f[<<a, b>>] = f[<<b, a % b>>]
        BY <2>1, <4>1 DEF Euclid
      <4>3. QED
        BY <2>5, <3>5, <4>1, <4>2
    <3>4. QED
      BY <3>2, <3>3
  <2>9. Euclid(h, n)
    BY <2>6, <2>7, <2>8 DEF Euclid
  <2>10. n \in 0..N
    OBVIOUS
  <2>11. QED
    BY <2>9, <2>10
<1> HIDE DEF good
<1>3. \A n \in 0..N : n \in good
  BY <1>1, <1>2, Climb
<1>4. QED
  BY <1>3 DEF good

(* What is the same for all remainders smaller than b is the same for b. *)
LEMMA Descend ==
  ASSUME NEW N \in Nat, NEW good,
         \A b \in 0..N : (\A c \in 0..(b - 1) : c \in good) => b \in good
  PROVE  \A b \in 0..N : b \in good
<1> DEFINE all == {n \in 0..N : \A b \in 0..n : b \in good}
<1>1. 0 \in all
  <2>1. 0 \in good
    OBVIOUS
  <2>2. \A b \in 0..0 : b = 0
    OBVIOUS
  <2>3. QED
    BY <2>1, <2>2
<1>2. ASSUME NEW n \in 1..N, n - 1 \in all PROVE n \in all
  <2>1. \A b \in 0..(n - 1) : b \in good
    BY <1>2
  <2>2. n \in 0..N
    OBVIOUS
  <2>3. n \in good
    BY <2>1, <2>2
  <2>4. \A b \in 0..n : b = n \/ b \in 0..(n - 1)
    OBVIOUS
  <2>5. QED
    BY <2>1, <2>2, <2>3, <2>4
<1> HIDE DEF all
<1>3. N \in all
  <2>1. \A n \in 0..N : n \in all
    BY <1>1, <1>2, Climb
  <2>2. QED
    BY <2>1
<1>4. QED
  BY <1>3 DEF all

LEMMA EuclidSame ==
  ASSUME NEW n \in Nat, NEW m \in Nat, n <= m, NEW f, NEW g, Euclid(f, n), Euclid(g, m)
  PROVE  \A a \in Nat, b \in 0..n : f[<<a, b>>] = g[<<a, b>>]
<1> DEFINE good == {b \in 0..n : \A a \in Nat : f[<<a, b>>] = g[<<a, b>>]}
<1>1. ASSUME NEW b \in 0..n, \A c \in 0..(b - 1) : c \in good PROVE b \in good
  <2>1. CASE b = 0
    BY <2>1 DEF Euclid
  <2>2. CASE b # 0
    <3>1. b \in Nat \ {0} /\ b \in 1..n /\ b \in 1..m
      BY <2>2
    <3>2. ASSUME NEW a \in Nat PROVE f[<<a, b>>] = g[<<a, b>>]
      <4>1. a % b \in 0..(b - 1)
        BY <3>1, Divided
      <4>2. f[<<b, a % b>>] = g[<<b, a % b>>]
        BY <1>1, <3>1, <4>1
      <4>3. f[<<a, b>>] = f[<<b, a % b>>] /\ g[<<a, b>>] = g[<<b, a % b>>]
        BY <3>1 DEF Euclid
      <4>4. QED
        BY <4>2, <4>3
    <3>3. QED
      BY <3>2
  <2>3. QED
    BY <2>1, <2>2
<1> HIDE DEF good
<1>2. \A b \in 0..n : b \in good
  BY <1>1, Descend
<1>3. QED
  BY <1>2 DEF good

LEMMA GcdIs ==
  /\ \A a, b \in Nat : Gcd(a, b) \in Nat
  /\ \A a \in Nat : Gcd(a, 0) = a
  /\ \A a \in Nat, b \in Nat \ {0} : Gcd(a, b) = Gcd(b, a % b)
<1> DEFINE Turn(g) == g = [p \in Nat \X Nat |-> IF p[2] = 0 THEN p[1] ELSE g[<<p[2], p[1] % p[2]>>]]
           upTo == [n \in Nat |-> CHOOSE f : Euclid(f, n)]
           whole == [p \in Nat \X Nat |-> upTo[p[2]][p]]
           gcd == CHOOSE g : Turn(g)
<1>1. \A n \in Nat : Euclid(upTo[n], n)
  BY EuclidExists
<1>2. \A a, b \in Nat : whole[<<a, b>>] = upTo[b][<<a, b>>]
  OBVIOUS
<1> HIDE DEF upTo
<1>3. ASSUME NEW a \in Nat, NEW b \in Nat
      PROVE  whole[<<a, b>>] = IF b = 0 THEN a ELSE whole[<<b, a % b>>]
  <2>1. CASE b = 0
    BY <1>1, <1>2, <2>1 DEF Euclid
  <2>2. CASE b # 0
    <3>1. a % b \in Nat /\ a % b <= b /\ a % b \in 0..(a % b) /\ b \in 1..b
      BY <2>2, Divided
    <3>2. upTo[b][<<a, b>>] = upTo[b][<<b, a % b>>]
      BY <1>1, <2>2, <3>1 DEF Euclid
    <3>3. Euclid(upTo[a % b], a % b) /\ Euclid(upTo[b], b)
      BY <1>1, <3>1
    <3>4. upTo[a % b][<<b, a % b>>] = upTo[b][<<b, a % b>>]
      <4> DEFINE r == a % b
      <4>1. r \in Nat /\ r <= b /\ r \in 0..r /\ Euclid(upTo[r], r) /\ Euclid(upTo[b], b)
        BY <3>1, <3>3
      <4> HIDE DEF r
      <4>2. \A x \in Nat, y \in 0..r : upTo[r][<<x, y>>] = upTo[b][<<x, y>>]
        <5> DEFINE f == upTo[r]
                   g == upTo[b]
        <5>1. Euclid(f, r) /\ Euclid(g, b)
          BY <4>1
        <5> HIDE DEF f, g
        <5>4. ASSUME NEW x \in Nat, NEW y \in 0..r PROVE f[<<x, y>>] = g[<<x, y>>]
          BY <4>1, <5>1, EuclidSame
        <5>3. QED
          BY <5>4 DEF f, g
      <4>3. QED
        BY <4>1, <4>2 DEF r
    <3>5. QED
      BY <1>2, <2>2, <3>1, <3>2, <3>4
  <2>3. QED
    BY <2>1, <2>2
<1>4. whole = [p \in Nat \X Nat |-> IF p[2] = 0 THEN p[1] ELSE whole[<<p[2], p[1] % p[2]>>]]
  <2> DEFINE D == Nat \X Nat
             body == [p \in D |-> IF p[2] = 0 THEN p[1] ELSE whole[<<p[2], p[1] % p[2]>>]]
  <2>1. \A p \in D : p[1] \in Nat /\ p[2] \in Nat /\ p = <<p[1], p[2]>>
    OBVIOUS
  <2>2. DOMAIN whole = D /\ DOMAIN body = D /\ whole = [p \in D |-> whole[p]]
    OBVIOUS
  <2>3. \A p \in D : body[p] = IF p[2] = 0 THEN p[1] ELSE whole[<<p[2], p[1] % p[2]>>]
    OBVIOUS
  <2> HIDE DEF whole, D
  <2>4. \A p \in D : whole[p] = body[p]
    BY <1>3, <2>1, <2>3
  <2>5. QED
    BY <2>2, <2>4 DEF D
<1>5. Turn(whole)
  BY <1>4
<1> HIDE DEF whole
<1>6. Turn(gcd)
  BY <1>5
<1>7. \A a, b \in Nat : Gcd(a, b) = gcd[<<a, b>>]
  BY DEF Gcd
<1>8. \A a, b \in Nat : gcd[<<a, b>>] = IF b = 0 THEN a ELSE gcd[<<b, a % b>>]
  <2> HIDE DEF gcd
  <2>1. QED
    BY <1>6
<1> HIDE DEF gcd
<1>9. /\ \A a \in Nat : Gcd(a, 0) = a
      /\ \A a \in Nat, b \in Nat \ {0} : Gcd(a, b) = Gcd(b, a % b)
  <2>1. \A a \in Nat, b \in Nat \ {0} : a % b \in Nat
    BY Divided
  <2>2. \A a \in Nat : Gcd(a, 0) = a
    <3>1. \A a \in Nat : Gcd(a, 0) = gcd[<<a, 0>>] /\ gcd[<<a, 0>>] = a
      BY <1>7, <1>8
    <3>2. QED
      BY <3>1
  <2>3. ASSUME NEW a \in Nat, NEW b \in Nat \ {0} PROVE Gcd(a, b) = Gcd(b, a % b)
    <3>1. b \in Nat /\ a % b \in Nat
      BY <2>1
    <3> DEFINE r == a % b
    <3>2. r \in Nat
      BY <3>1
    <3>3. gcd[<<a, b>>] = gcd[<<b, r>>]
      BY <1>8
    <3> HIDE DEF r
    <3>4. Gcd(a, b) = gcd[<<a, b>>] /\ Gcd(b, r) = gcd[<<b, r>>]
      BY <1>7, <3>1, <3>2
    <3>5. QED
      BY <3>3, <3>4 DEF r
  <2>4. QED
    BY <2>2, <2>3
<1>10. ASSUME NEW N \in Nat PROVE \A a \in Nat, b \in 0..N : Gcd(a, b) \in Nat
  <2> DEFINE good == {b \in 0..N : \A a \in Nat : Gcd(a, b) \in Nat}
  <2>1. ASSUME NEW b \in 0..N, \A c \in 0..(b - 1) : c \in good PROVE b \in good
    <3>1. CASE b = 0
      BY <1>9, <3>1
    <3>2. CASE b # 0
      <4>1. b \in Nat \ {0}
        BY <3>2
      <4>2. \A a \in Nat : a % b \in 0..(b - 1)
        BY <4>1, Divided
      <4>3. \A a \in Nat : Gcd(b, a % b) \in Nat
        BY <2>1, <4>1, <4>2
      <4>4. QED
        BY <1>9, <4>1, <4>3
    <3>3. QED
      BY <3>1, <3>2
  <2> HIDE DEF good
  <2>2. \A b \in 0..N : b \in good
    BY <2>1, Descend
  <2>3. QED
    BY <2>2 DEF good
<1>11. \A a, b \in Nat : Gcd(a, b) \in Nat
  <2>1. \A b \in Nat : b \in 0..b
    OBVIOUS
  <2>2. QED
    BY <1>10, <2>1
<1>12. QED
  BY <1>9, <1>11


Divides(g, a) == \E q \in Nat : a = q * g

LEMMA DividesSum ==
  ASSUME NEW g \in Nat, NEW b \in Nat, NEW q \in Nat, NEW r \in Nat, Divides(g, b), Divides(g, r)
  PROVE  Divides(g, b * q + r)
<1>1. PICK x \in Nat, y \in Nat : b = x * g /\ r = y * g
  BY DEF Divides
<1>2. x * q + y \in Nat
  OBVIOUS
<1>3. b * q + r = (x * q + y) * g
  <2>1. (x * g) * q = (x * q) * g
    OBVIOUS
  <2>2. QED
    BY <1>1, <2>1
<1>4. QED
  BY <1>2, <1>3 DEF Divides

(* The greatest common divisor divides both, and is not 0 unless both are. *)
LEMMA GcdDivides ==
  ASSUME NEW a \in Nat, NEW b \in Nat
  PROVE  /\ Divides(Gcd(a, b), a) /\ Divides(Gcd(a, b), b)
         /\ a > 0 \/ b > 0 => Gcd(a, b) > 0
<1> DEFINE Holds(x, y) ==
             /\ Divides(Gcd(x, y), x) /\ Divides(Gcd(x, y), y)
             /\ x > 0 \/ y > 0 => Gcd(x, y) > 0
           good == {y \in 0..b : \A x \in Nat : Holds(x, y)}
<1>1. ASSUME NEW y \in 0..b, \A c \in 0..(y - 1) : c \in good PROVE y \in good
  <2>1. ASSUME NEW x \in Nat PROVE Holds(x, y)
    <3>1. CASE y = 0
      <4>1. Gcd(x, y) = x
        BY <3>1, GcdIs
      <4>2. x = 1 * x /\ 0 = 0 * x
        OBVIOUS
      <4>3. Divides(x, x) /\ Divides(x, 0)
        BY <4>2 DEF Divides
      <4>4. QED
        BY <3>1, <4>1, <4>3
    <3>2. CASE y # 0
      <4>1. y \in Nat \ {0} /\ y \in Nat
        BY <3>2
      <4> DEFINE q == x \div y
                 r == x % y
                 g == Gcd(y, r)
      <4>2. q \in Nat /\ r \in Nat /\ r < y
        BY <4>1, Divided
      <4>3. Gcd(x, y) = g
        BY <4>1, GcdIs
      <4>4. \A i, j \in Nat : i = x \div y /\ j = x % y => x = y * i + j
        BY <4>1, DividedAs
      <4>5. x = y * q + r
        <5>1. q = x \div y /\ r = x % y
          OBVIOUS
        <5> HIDE DEF q, r
        <5>2. QED
          BY <4>2, <4>4, <5>1
      <4> HIDE DEF q, r
      <4>6. g \in Nat
        BY <4>1, <4>2, GcdIs
      <4>7. r \in 0..(y - 1)
        BY <4>1, <4>2
      <4>8. Holds(y, r)
        BY <1>1, <4>1, <4>7
      <4> HIDE DEF g
      <4>9. Divides(g, y) /\ Divides(g, r) /\ g > 0
        BY <4>1, <4>8 DEF g
      <4>10. Divides(g, y * q + r)
        BY <4>1, <4>2, <4>6, <4>9, DividesSum
      <4>11. Divides(g, x)
        BY <4>5, <4>10
      <4>12. QED
        BY <4>3, <4>9, <4>11
    <3>3. QED
      BY <3>1, <3>2
  <2>2. QED
    BY <2>1
<1>2. \A y \in 0..b : y \in good
  <2> HIDE DEF good
  <2>1. QED
    BY <1>1, Descend
<1>3. Holds(a, b)
  <2>1. b \in 0..b
    OBVIOUS
  <2>2. QED
    BY <1>2, <2>1
<1>4. QED
  BY <1>3

(* A common factor goes through Euclid's algorithm untouched. *)
LEMMA GcdScales ==
  ASSUME NEW a \in Nat, NEW b \in Nat, NEW k \in Nat \ {0}
  PROVE  Gcd(k * a, k * b) = k * Gcd(a, b)
<1> DEFINE good == {y \in 0..b : \A x \in Nat : Gcd(k * x, k * y) = k * Gcd(x, y)}
<1>1. ASSUME NEW y \in 0..b, \A c \in 0..(y - 1) : c \in good PROVE y \in good
  <2>1. ASSUME NEW x \in Nat PROVE Gcd(k * x, k * y) = k * Gcd(x, y)
    <3>1. k * x \in Nat /\ k * y \in Nat
      OBVIOUS
    <3>2. CASE y = 0
      <4>1. k * y = 0
        BY <3>2
      <4>2. Gcd(k * x, 0) = k * x /\ Gcd(x, 0) = x
        BY <3>1, GcdIs
      <4>3. QED
        BY <3>2, <4>1, <4>2
    <3>3. CASE y # 0
      <4>1. y \in Nat \ {0} /\ y \in Nat
        BY <3>3
      <4> DEFINE u == k * x
                 v == k * y
                 q == x \div y
                 r == x % y
                 p == u \div v
                 s == u % v
      <4>2. v \in Nat \ {0} /\ u \in Nat
        <5>1. k * y > 0
          BY <4>1
        <5>2. QED
          BY <3>1, <5>1
      <4>3. q \in Nat /\ r \in Nat /\ r < y
        BY <4>1, Divided
      <4>4. p \in Nat /\ s \in Nat /\ s < v
        <5> HIDE DEF u, v
        <5>1. QED
          BY <4>2, Divided
      <4>5. x = y * q + r /\ u = v * p + s
        <5>1. \A i, j \in Nat : i = x \div y /\ j = x % y => x = y * i + j
          BY <4>1, DividedAs
        <5>2. \A i, j \in Nat : i = u \div v /\ j = u % v => u = v * i + j
          <6> HIDE DEF u, v
          <6>1. QED
            BY <4>2, DividedAs
        <5>3. q = x \div y /\ r = x % y /\ p = u \div v /\ s = u % v
          OBVIOUS
        <5> HIDE DEF q, r, p, s, u, v
        <5>4. QED
          BY <4>3, <4>4, <5>1, <5>2, <5>3
      <4>6. Gcd(x, y) = Gcd(y, r) /\ Gcd(u, v) = Gcd(v, s)
        <5>1. Gcd(x, y) = Gcd(y, r)
          BY <4>1, GcdIs
        <5>2. Gcd(u, v) = Gcd(v, s)
          <6> HIDE DEF u, v
          <6>1. QED
            BY <4>2, GcdIs
        <5>3. QED
          BY <5>1, <5>2
      <4> HIDE DEF q, r, p, s
      <4>7. v * q + k * r = v * p + s /\ k * r \in Nat /\ k * r < v
        <5>1. k * (y * q + r) = (k * y) * q + k * r
          BY <4>1, <4>3
        <5>2. k * r < k * y
          <6>1. y - r \in Nat /\ y - r > 0
            BY <4>1, <4>3
          <6> DEFINE z == y - r
          <6>2. z \in Nat /\ z > 0 /\ y = r + z
            BY <4>1, <4>3, <6>1
          <6> HIDE DEF z
          <6>3. k * (r + z) = k * r + k * z /\ k * z > 0 /\ k * r \in Nat /\ k * z \in Nat
            BY <4>3, <6>2
          <6>4. QED
            BY <6>2, <6>3
        <5>3. k * r \in Nat
          BY <4>3
        <5>4. QED
          BY <4>5, <5>1, <5>2, <5>3
      <4>8. s = k * r
        <5> DEFINE t == k * r
        <5>1. t \in Nat /\ t < v /\ v * q + t = v * p + s
          BY <4>7
        <5> HIDE DEF t, v
        <5>2. q = p /\ t = s
          BY <4>2, <4>3, <4>4, <5>1, OneQuotient
        <5>3. QED
          BY <5>2 DEF t
      <4>9. r \in 0..(y - 1) /\ r \in good
        <5>1. r \in 0..(y - 1)
          BY <4>1, <4>3
        <5>2. QED
          BY <1>1, <5>1
      <4>10. Gcd(k * y, k * r) = k * Gcd(y, r)
        BY <4>1, <4>9
      <4>11. QED
        BY <4>6, <4>8, <4>10
    <3>4. QED
      BY <3>2, <3>3
  <2>2. QED
    BY <2>1
<1>2. \A y \in 0..b : y \in good
  <2> HIDE DEF good
  <2>1. QED
    BY <1>1, Descend
<1>3. QED
  <2>1. b \in 0..b
    OBVIOUS
  <2>2. QED
    BY <1>2, <2>1

LEMMA QuotientExact ==
  ASSUME NEW m \in Nat, NEW l \in Nat \ {0} PROVE (m * l) \div l = m
OBVIOUS

(* A ratio is a pair with the value of its arguments. *)
Reduced(n, d, x, y) ==
  /\ x \in Nat /\ y \in Nat \ {0}
  /\ Ratio(n, d) = <<x, y>> /\ x * d = y * n
  /\ d = 1 => x = n /\ y = 1

LEMMA RatioIs ==
  ASSUME NEW n \in Nat, NEW d \in Nat \ {0}
  PROVE  \E x, y : Reduced(n, d, x, y)
<1> DEFINE g == Gcd(n, d)
<1>1. g \in Nat /\ g > 0 /\ Divides(g, n) /\ Divides(g, d)
  BY GcdDivides, GcdIs
<1>2. Magnitude(n) = n /\ Magnitude(d) = d
  BY DEF Magnitude
<1>3. Ratio(n, d) = <<(1 * n) \div g, (1 * d) \div g>>
  <2>1. ~(d < 0)
    OBVIOUS
  <2>2. QED
    BY <1>2, <2>1 DEF Ratio
<1> HIDE DEF g
<1>4. PICK x \in Nat, y \in Nat : n = x * g /\ d = y * g
  BY <1>1 DEF Divides
<1>5. y # 0
  BY <1>1, <1>4
<1>6. n \div g = x /\ d \div g = y
  BY <1>1, <1>4, QuotientExact
<1>7. Ratio(n, d) = <<x, y>>
  <2>1. 1 * n = n /\ 1 * d = d
    OBVIOUS
  <2>2. QED
    BY <1>3, <1>6, <2>1
<1>8. x * d = y * n
  <2>1. x * (y * g) = y * (x * g)
    BY <1>1
  <2>2. QED
    BY <1>4, <2>1
<1>9. ASSUME d = 1 PROVE x = n /\ y = 1
  <2>1. y * g = 1 /\ y >= 1
    BY <1>4, <1>5, <1>9
  <2>2. g <= y * g
    BY <1>1, <1>5
  <2>3. g = 1
    BY <1>1, <2>1, <2>2
  <2>4. QED
    BY <1>4, <2>1, <2>3
<1>10. Reduced(n, d, x, y)
  BY <1>5, <1>7, <1>8, <1>9 DEF Reduced
<1>11. QED
  BY <1>10

LEMMA RatioScales ==
  ASSUME NEW n \in Nat, NEW d \in Nat \ {0}, NEW k \in Nat \ {0}
  PROVE  Ratio(k * n, k * d) = Ratio(n, d)
<1> DEFINE g == Gcd(n, d)
           h == Gcd(k * n, k * d)
<1>1. g \in Nat /\ g > 0 /\ Divides(g, n) /\ Divides(g, d)
  BY GcdDivides, GcdIs
<1>2. h = k * g
  BY GcdScales
<1>3. k * n \in Nat /\ k * d \in Nat /\ ~(d < 0) /\ ~(k * d < 0)
  OBVIOUS
<1>4. /\ Ratio(n, d) = <<(1 * n) \div g, (1 * d) \div g>>
      /\ Ratio(k * n, k * d) = <<(1 * (k * n)) \div h, (1 * (k * d)) \div h>>
  <2>1. /\ Magnitude(n) = n /\ Magnitude(d) = d
        /\ Magnitude(k * n) = k * n /\ Magnitude(k * d) = k * d
    BY <1>3 DEF Magnitude
  <2>2. QED
    BY <1>3, <2>1 DEF Ratio
<1> HIDE DEF g, h
<1>5. PICK x \in Nat, y \in Nat : n = x * g /\ d = y * g
  BY <1>1 DEF Divides
<1>6. n \div g = x /\ d \div g = y
  BY <1>1, <1>5, QuotientExact
<1>7. k * n = x * h /\ k * d = y * h /\ h \in Nat \ {0}
  <2>1. k * (x * g) = x * (k * g) /\ k * (y * g) = y * (k * g)
    BY <1>1
  <2>2. k * g \in Nat /\ k * g > 0
    BY <1>1
  <2>3. QED
    BY <1>2, <1>5, <2>1, <2>2
<1>8. (k * n) \div h = x /\ (k * d) \div h = y
  BY <1>7, QuotientExact
<1>9. 1 * n = n /\ 1 * d = d /\ 1 * (k * n) = k * n /\ 1 * (k * d) = k * d
  BY <1>3
<1>10. QED
  BY <1>4, <1>6, <1>8, <1>9

(* Ratios of one value are one ratio. *)
LEMMA RatioSame ==
  ASSUME NEW n \in Nat, NEW d \in Nat \ {0}, NEW m \in Nat, NEW e \in Nat \ {0},
         n * e = m * d
  PROVE  Ratio(n, d) = Ratio(m, e)
<1>1. Ratio(e * n, e * d) = Ratio(n, d) /\ Ratio(d * m, d * e) = Ratio(m, e)
  BY RatioScales
<1>2. e * n = d * m /\ e * d = d * e
  OBVIOUS
<1>3. QED
  BY <1>1, <1>2

LEMMA RatioKnown ==
  ASSUME NEW n \in Nat, NEW d \in Nat \ {0}
  PROVE  Ratio(n, d) # NaN
<1>3. PICK x, y : Reduced(n, d, x, y)
  BY RatioIs
<1>1. x \in Nat /\ y \in Nat /\ Ratio(n, d) = <<x, y>>
  BY <1>3 DEF Reduced
<1>2. <<x, y>> \in Int \X Int
  BY <1>1
<1>4. QED
  BY <1>1, <1>2, NumbersAssumption

LEMMA WholeIs ==
  ASSUME NEW n \in Nat PROVE Whole(n) = Ratio(n, 1)
<1>1. Ratio(n, 1) = <<n, 1>>
  <2>1. 1 \in Nat \ {0}
    OBVIOUS
  <2>2. PICK x, y : Reduced(n, 1, x, y)
    BY <2>1, RatioIs
  <2>3. QED
    BY <2>2 DEF Reduced
<1>2. QED
  BY <1>1 DEF Whole

LEMMA Crossed ==
  ASSUME NEW x \in Int, NEW y \in Int, NEW v \in Int, NEW w \in Int,
         NEW a \in Int, NEW b \in Int, NEW c \in Int, NEW d \in Int,
         x * b = y * a, v * d = w * c
  PROVE  (x * v) * (b * d) = (a * c) * (y * w)
<1>1. (x * v) * (b * d) = (x * b) * (v * d)
  OBVIOUS
<1>2. (y * a) * (w * c) = (a * c) * (y * w)
  OBVIOUS
<1>3. QED
  BY <1>1, <1>2

LEMMA TimesIs ==
  ASSUME NEW a \in Nat, NEW b \in Nat \ {0}, NEW c \in Nat, NEW d \in Nat \ {0}
  PROVE  Times(Ratio(a, b), Ratio(c, d)) = Ratio(a * c, b * d)
<1>a. PICK x, y : Reduced(a, b, x, y)
  BY RatioIs
<1>1. x \in Nat /\ y \in Nat \ {0} /\ Ratio(a, b) = <<x, y>> /\ x * b = y * a
  BY <1>a DEF Reduced
<1>b. PICK v, w : Reduced(c, d, v, w)
  BY RatioIs
<1>2. v \in Nat /\ w \in Nat \ {0} /\ Ratio(c, d) = <<v, w>> /\ v * d = w * c
  BY <1>b DEF Reduced
<1>3. Ratio(a, b) # NaN /\ Ratio(c, d) # NaN
  BY RatioKnown
<1>4. Times(Ratio(a, b), Ratio(c, d)) = Ratio(x * v, y * w)
  BY <1>1, <1>2, <1>3 DEF Times, Undefined
<1>5. /\ x * v \in Nat /\ a * c \in Nat
      /\ y * w \in Nat \ {0} /\ b * d \in Nat \ {0}
  BY <1>1, <1>2
<1>6. (x * v) * (b * d) = (a * c) * (y * w)
  BY <1>1, <1>2, Crossed
<1>7. QED
  BY <1>4, <1>5, <1>6, RatioSame

LEMMA OverIs ==
  ASSUME NEW a \in Nat, NEW b \in Nat \ {0}, NEW c \in Nat \ {0}, NEW d \in Nat \ {0}
  PROVE  Over(Ratio(a, b), Ratio(c, d)) = Ratio(a * d, b * c)
<1>a. PICK x, y : Reduced(a, b, x, y)
  BY RatioIs
<1>1. x \in Nat /\ y \in Nat \ {0} /\ Ratio(a, b) = <<x, y>> /\ x * b = y * a
  BY <1>a DEF Reduced
<1>b. PICK v, w : Reduced(c, d, v, w)
  BY RatioIs
<1>2. v \in Nat /\ w \in Nat \ {0} /\ Ratio(c, d) = <<v, w>> /\ v * d = w * c
  BY <1>b DEF Reduced
<1>3. Ratio(a, b) # NaN /\ Ratio(c, d) # NaN
  BY RatioKnown
<1>4. v # 0
  <2>1. w * c > 0
    BY <1>2
  <2>2. QED
    BY <1>2, <2>1
<1>5. Over(Ratio(a, b), Ratio(c, d)) = Ratio(x * w, y * v)
  BY <1>1, <1>2, <1>3 DEF Over, Undefined
<1>6. /\ x * w \in Nat /\ a * d \in Nat
      /\ y * v \in Nat \ {0} /\ b * c \in Nat \ {0}
  BY <1>1, <1>2, <1>4
<1>7. w * c = v * d
  BY <1>2
<1>8. (x * w) * (b * c) = (a * d) * (y * v)
  BY <1>1, <1>2, <1>7, Crossed
<1>9. QED
  BY <1>5, <1>6, <1>8, RatioSame

(* What two ratios have as numerators over their common denominator. *)
OneScale(a, b, c, d, x, y, v, w) ==
  /\ x \in Nat /\ y \in Nat \ {0} /\ v \in Nat /\ w \in Nat \ {0}
  /\ Ratio(a, b) = <<x, y>> /\ Ratio(c, d) = <<v, w>>
  /\ (x * w) * (b * d) = (a * d) * (y * w)
  /\ (v * y) * (b * d) = (c * b) * (y * w)

LEMMA Compared ==
  ASSUME NEW a \in Nat, NEW b \in Nat \ {0}, NEW c \in Nat, NEW d \in Nat \ {0}
  PROVE  \E x, y, v, w : OneScale(a, b, c, d, x, y, v, w)
<1>a. PICK x, y : Reduced(a, b, x, y)
  BY RatioIs
<1>1. x \in Nat /\ y \in Nat \ {0} /\ Ratio(a, b) = <<x, y>> /\ x * b = y * a
  BY <1>a DEF Reduced
<1>b. PICK v, w : Reduced(c, d, v, w)
  BY RatioIs
<1>2. v \in Nat /\ w \in Nat \ {0} /\ Ratio(c, d) = <<v, w>> /\ v * d = w * c
  BY <1>b DEF Reduced
<1>3. (x * w) * (b * d) = (a * d) * (y * w)
  <2>1. (x * w) * (b * d) = (x * b) * (w * d) /\ (y * a) * (w * d) = (a * d) * (y * w)
    BY <1>1, <1>2
  <2>2. QED
    BY <1>1, <2>1
<1>4. (v * y) * (b * d) = (c * b) * (y * w)
  <2>1. (v * y) * (b * d) = (v * d) * (y * b) /\ (w * c) * (y * b) = (c * b) * (y * w)
    BY <1>1, <1>2
  <2>2. QED
    BY <1>2, <2>1
<1>5. OneScale(a, b, c, d, x, y, v, w)
  BY <1>1, <1>2, <1>3, <1>4 DEF OneScale
<1>6. QED
  BY <1>5

LEMMA ScaledOrder ==
  ASSUME NEW u \in Int, NEW v \in Int, NEW k \in Nat \ {0},
         NEW i \in Int, NEW j \in Int, NEW l \in Nat \ {0},
         u * k = i * l, v * k = j * l
  PROVE  u < v <=> i < j
<1>1. ASSUME NEW x \in Int, NEW y \in Int, NEW z \in Nat \ {0} PROVE x < y <=> x * z < y * z
  OBVIOUS
<1>2. (u < v <=> u * k < v * k) /\ (i < j <=> i * l < j * l)
  BY <1>1
<1>3. QED
  BY <1>2

LEMMA BelowIs ==
  ASSUME NEW a \in Nat, NEW b \in Nat \ {0}, NEW c \in Nat, NEW d \in Nat \ {0}
  PROVE  Below(Ratio(a, b), Ratio(c, d)) <=> a * d < c * b
<1>a. PICK x, y, v, w : OneScale(a, b, c, d, x, y, v, w)
  BY Compared
<1>1. /\ x \in Nat /\ y \in Nat \ {0} /\ v \in Nat /\ w \in Nat \ {0}
      /\ Ratio(a, b) = <<x, y>> /\ Ratio(c, d) = <<v, w>>
      /\ (x * w) * (b * d) = (a * d) * (y * w)
      /\ (v * y) * (b * d) = (c * b) * (y * w)
  BY <1>a DEF OneScale
<1>2. Ratio(a, b) # NaN /\ Ratio(c, d) # NaN
  BY RatioKnown
<1>3. Below(Ratio(a, b), Ratio(c, d)) <=> x * w < v * y
  BY <1>1, <1>2 DEF Below
<1>4. /\ x * w \in Int /\ v * y \in Int /\ a * d \in Int /\ c * b \in Int
      /\ b * d \in Nat \ {0} /\ y * w \in Nat \ {0}
  BY <1>1
<1>5. x * w < v * y <=> a * d < c * b
  BY <1>1, <1>4, ScaledOrder
<1>6. QED
  BY <1>3, <1>5

LEMMA DistanceIs ==
  ASSUME NEW a \in Nat, NEW b \in Nat \ {0}, NEW c \in Nat, NEW d \in Nat \ {0}
  PROVE  Distance(Ratio(a, b), Ratio(c, d))
           = Ratio(IF a * d < c * b THEN c * b - a * d ELSE a * d - c * b, b * d)
<1>a. PICK x, y, v, w : OneScale(a, b, c, d, x, y, v, w)
  BY Compared
<1>1. /\ x \in Nat /\ y \in Nat \ {0} /\ v \in Nat /\ w \in Nat \ {0}
      /\ Ratio(a, b) = <<x, y>> /\ Ratio(c, d) = <<v, w>>
      /\ (x * w) * (b * d) = (a * d) * (y * w)
      /\ (v * y) * (b * d) = (c * b) * (y * w)
  BY <1>a DEF OneScale
<1>2. Ratio(a, b) # NaN /\ Ratio(c, d) # NaN
  BY RatioKnown
<1> DEFINE p == x * w
           q == v * y
           i == a * d
           j == c * b
           k == b * d
           l == y * w
<1>3. /\ p \in Int /\ q \in Int /\ i \in Int /\ j \in Int
      /\ k \in Nat \ {0} /\ l \in Nat \ {0} /\ w * y = l
      /\ p * k = i * l /\ q * k = j * l
  BY <1>1
<1>4. Below(Ratio(a, b), Ratio(c, d)) <=> p < q
  BY <1>1, <1>2 DEF Below
<1>5. /\ Minus(Ratio(c, d), Ratio(a, b)) = Ratio(q - p, w * y)
      /\ Minus(Ratio(a, b), Ratio(c, d)) = Ratio(p - q, l)
  BY <1>1, <1>2 DEF Minus, Undefined
<1> HIDE DEF p, q, i, j, k, l
<1>6. p < q <=> i < j
  BY <1>3, ScaledOrder
<1>7. (q - p) * k = (j - i) * l /\ (p - q) * k = (i - j) * l
  BY <1>3
<1>8. CASE i < j
  <2>1. q - p \in Nat /\ j - i \in Nat
    BY <1>3, <1>6, <1>8
  <2>2. Ratio(q - p, l) = Ratio(j - i, k)
    BY <1>3, <1>7, <2>1, RatioSame
  <2>3. QED
    BY <1>3, <1>4, <1>5, <1>6, <1>8, <2>2 DEF Distance, i, j, k
<1>9. CASE ~(i < j)
  <2>1. p - q \in Nat /\ i - j \in Nat
    BY <1>3, <1>6, <1>9
  <2>2. Ratio(p - q, l) = Ratio(i - j, k)
    BY <1>3, <1>7, <2>1, RatioSame
  <2>3. QED
    BY <1>4, <1>5, <1>6, <1>9, <2>2 DEF Distance, i, j, k
<1>10. QED
  BY <1>8, <1>9

(* A rounded ratio is off by no more than a half. *)
LEMMA RoundedIs ==
  ASSUME NEW a \in Nat, NEW b \in Nat \ {0}
  PROVE  /\ RoundHalfEven(Ratio(a, b)) \in Nat
         /\ 2 * (RoundHalfEven(Ratio(a, b)) * b) - 2 * a <= b
         /\ 2 * a - 2 * (RoundHalfEven(Ratio(a, b)) * b) <= b
<1>a. PICK x, y : Reduced(a, b, x, y)
  BY RatioIs
<1>1. x \in Nat /\ y \in Nat \ {0} /\ Ratio(a, b) = <<x, y>> /\ x * b = y * a
  BY <1>a DEF Reduced
<1> DEFINE q == x \div y
           r == x % y
           n == RoundHalfEven(Ratio(a, b))
<1>2. q \in Nat /\ r \in Nat /\ r < y
  BY <1>1, Divided
<1>3. x = y * q + r
  <2>1. \A i, j \in Nat : i = x \div y /\ j = x % y => x = y * i + j
    BY <1>1, DividedAs
  <2>2. q = x \div y /\ r = x % y
    OBVIOUS
  <2> HIDE DEF q, r
  <2>3. QED
    BY <1>2, <2>1, <2>2
<1>4. (n = q /\ 2 * r <= y) \/ (n = q + 1 /\ 2 * r >= y)
  <2>1. n = IF 2 * r < y \/ (2 * r = y /\ q % 2 = 0) THEN q ELSE q + 1
    BY <1>1 DEF RoundHalfEven, RoundDp
  <2> HIDE DEF q, r, n
  <2>2. QED
    BY <1>1, <1>2, <2>1
<1> HIDE DEF q, r, n
<1>5. n \in Nat /\ 2 * (n * y) - 2 * x <= y /\ 2 * x - 2 * (n * y) <= y
  <2>1. CASE n = q /\ 2 * r <= y
    <3>1. n * y = y * q
      BY <1>1, <1>2, <2>1
    <3>2. QED
      BY <1>1, <1>2, <1>3, <2>1, <3>1
  <2>2. CASE n = q + 1 /\ 2 * r >= y
    <3>1. n * y = y * q + y
      BY <1>1, <1>2, <2>2
    <3>2. y * q \in Nat
      BY <1>1, <1>2
    <3>3. QED
      BY <1>1, <1>2, <1>3, <2>2, <3>1, <3>2
  <2>3. QED
    BY <1>4, <2>1, <2>2
<1> DEFINE e == 2 * (n * y) - 2 * x
           f == 2 * (n * b) - 2 * a
<1>6. e \in Int /\ f \in Int /\ e <= y /\ -e <= y
  BY <1>1, <1>5
<1>7. f * y = e * b
  <2>1. f * y = 2 * ((n * b) * y) - 2 * (a * y)
    BY <1>1, <1>5
  <2>2. e * b = 2 * ((n * y) * b) - 2 * (x * b)
    BY <1>1, <1>5
  <2>3. (n * b) * y = (n * y) * b /\ a * y = x * b
    BY <1>1, <1>5
  <2>4. QED
    BY <2>1, <2>2, <2>3
<1> HIDE DEF e, f
<1>8. f <= b /\ -f <= b
  <2>1. e * b <= y * b /\ (-e) * b <= y * b
    <3>1. ASSUME NEW i \in Int, NEW j \in Int, i <= j PROVE i * b <= j * b
      BY <3>1
    <3>2. QED
      BY <1>1, <1>6, <3>1
  <2>2. f * y <= b * y /\ (-f) * y <= b * y
    <3>1. (-f) * y = -(f * y) /\ (-e) * b = -(e * b) /\ y * b = b * y
      BY <1>1, <1>6
    <3>2. QED
      BY <1>7, <2>1, <3>1
  <2>3. ASSUME NEW i \in Int, i * y <= b * y PROVE i <= b
    BY <1>1, <2>3
  <2>4. QED
    BY <1>6, <2>2, <2>3
<1>9. QED
  BY <1>5, <1>6, <1>8 DEF e, f, n

-----------------------------------------------------------------------------
(* Prices across splits, of a history of any length *)

DayRows == [value : Nat \ {0}, factor : Nat \ {0}, traded : BOOLEAN]

LEMMA DaysAre ==
  ASSUME NEW h \in Seq(DayRows)
  PROVE  /\ Len(h) \in Nat /\ DOMAIN h = 1..Len(h)
         /\ \A d \in 1..Len(h) :
              h[d].value \in Nat \ {0} /\ h[d].factor \in Nat \ {0} /\ h[d].traded \in BOOLEAN
<1>1. Len(h) \in Nat /\ DOMAIN h = 1..Len(h) /\ \A d \in 1..Len(h) : h[d] \in DayRows
  BY ElementOfSeq, LenProperties
<1>2. \A r \in DayRows : r.value \in Nat \ {0} /\ r.factor \in Nat \ {0} /\ r.traded \in BOOLEAN
  BY DEF DayRows
<1>3. QED
  BY <1>1, <1>2

(* What the last close before a day was worth. *)
LEMMA BeforeIs ==
  ASSUME NEW h \in Seq(DayRows), NEW d \in 1..Len(h)
  PROVE  /\ ValueBefore(h, d) \in Nat \ {0}
         /\ \A c \in 1..(d - 1) :
              h[c].traded /\ (\A e \in (c + 1)..(d - 1) : ~h[e].traded) => ValueBefore(h, d) = h[c].value
<1> DEFINE earlier == {c \in TradedDays(h) : c < d}
           latest == CHOOSE c \in earlier : \A b \in earlier : b <= c
<1>1. /\ Len(h) \in Nat /\ DOMAIN h = 1..Len(h)
      /\ \A e \in 1..Len(h) : h[e].value \in Nat \ {0}
  BY DaysAre
<1>2. earlier = {c \in 1..(d - 1) : h[c].traded}
  <2>1. \A c : c \in earlier <=> c \in 1..Len(h) /\ h[c].traded /\ c < d
    BY <1>1 DEF TradedDays
  <2>2. \A c : c \in 1..Len(h) /\ c < d <=> c \in 1..(d - 1)
    BY <1>1
  <2> HIDE DEF earlier
  <2>3. QED
    BY <2>1, <2>2
<1>3. ValueBefore(h, d) = h[IF earlier = {} THEN d ELSE latest].value
  BY DEF ValueBefore
<1>4. earlier \subseteq 0..d /\ d \in Nat
  BY <1>1, <1>2
<1> HIDE DEF earlier
<1>5. ASSUME earlier # {} PROVE latest \in earlier /\ \A b \in earlier : b <= latest
  <2>1. \E c \in earlier : \A b \in earlier : b <= c
    BY <1>4, <1>5, GreatestBounded
  <2>2. QED
    BY <2>1
<1> HIDE DEF latest
<1>6. ValueBefore(h, d) \in Nat \ {0}
  <2>1. CASE earlier = {}
    BY <1>1, <1>3, <2>1
  <2>2. CASE earlier # {}
    <3>1. latest \in 1..Len(h)
      BY <1>1, <1>2, <1>5, <2>2
    <3>2. QED
      BY <1>1, <1>3, <2>2, <3>1
  <2>3. QED
    BY <2>1, <2>2
<1>7. ASSUME NEW c \in 1..(d - 1), h[c].traded, \A e \in (c + 1)..(d - 1) : ~h[e].traded
      PROVE  ValueBefore(h, d) = h[c].value
  <2>1. c \in earlier
    BY <1>2, <1>7
  <2>2. latest \in 1..(d - 1) /\ h[latest].traded /\ c <= latest
    BY <1>2, <1>5, <2>1
  <2>3. latest = c
    <3>1. latest # c => latest \in (c + 1)..(d - 1)
      BY <1>4, <2>2
    <3>2. QED
      BY <1>7, <2>2, <3>1
  <2>4. QED
    BY <1>3, <2>1, <2>3
<1>8. QED
  BY <1>6, <1>7

(* A factor holds until it changes. *)
LEMMA FactorHolds ==
  ASSUME NEW h \in Seq(DayRows), NEW e \in 1..Len(h), NEW d \in 1..Len(h), e <= d,
         \A x \in (e + 1)..d : x \notin ExDates(h)
  PROVE  h[d].factor = h[e].factor
<1> DEFINE good == {m \in 0..(d - e) : h[e + m].factor = h[e].factor}
<1>1. Len(h) \in Nat /\ DOMAIN h = 1..Len(h) /\ d - e \in Nat
  BY DaysAre
<1>2. 0 \in good
  BY <1>1
<1>3. ASSUME NEW m \in 1..(d - e), m - 1 \in good PROVE m \in good
  <2> DEFINE x == e + m
  <2>1. x \in (e + 1)..d /\ x \in 1..Len(h) /\ x - 1 = e + (m - 1) /\ x # 1
    BY <1>1
  <2>2. h[x - 1].factor = h[e].factor
    BY <1>3, <2>1
  <2>3. x \notin ExDates(h)
    BY <2>1
  <2> HIDE DEF x
  <2>4. h[x].factor = h[x - 1].factor
    BY <1>1, <2>1, <2>3 DEF ExDates
  <2>5. h[x].factor = h[e].factor /\ m \in 0..(d - e)
    BY <2>2, <2>4
  <2>6. QED
    BY <2>5 DEF x
<1>4. d - e \in good
  <2> DEFINE N == d - e
  <2>1. N \in Nat /\ 0 \in good /\ \A m \in 1..N : m - 1 \in good => m \in good
    BY <1>1, <1>2, <1>3
  <2> HIDE DEF good, N
  <2>2. \A m \in 0..N : m \in good
    BY <2>1, Climb
  <2>3. N \in 0..N
    BY <2>1
  <2>4. QED
    BY <2>2, <2>3 DEF N
<1>5. e + (d - e) = d
  BY <1>1
<1>6. QED
  BY <1>4, <1>5

(* The rows of some of the days on which a factor changes, in their order. *)
FactorRow == [exDate : Nat, factor : Nat \ {0}]

RowsOf(rows, h, days) ==
  /\ rows \in Seq(FactorRow)
  /\ \A i \in 1..Len(rows) : rows[i].exDate \in days /\ rows[i].factor = h[rows[i].exDate].factor
  /\ \A d \in days : \E i \in 1..Len(rows) : rows[i].exDate = d
  /\ \A i, j \in 1..Len(rows) : i < j => rows[i].exDate < rows[j].exDate

LEMMA RowsAre ==
  ASSUME NEW h \in Seq(DayRows)
  PROVE  RowsOf(FactorRows(h), h, ExDates(h))
<1> DEFINE N == Len(h)
           all == [d \in DOMAIN h |-> [exDate |-> d, factor |-> h[d].factor]]
           rows == FactorRows(h)
<1>1. N \in Nat /\ DOMAIN h = 1..N /\ \A d \in 1..N : h[d].factor \in Nat \ {0}
  BY DaysAre
<1>2. /\ all \in Seq(FactorRow) /\ Len(all) = N
      /\ \A d \in 1..N : all[d].exDate = d /\ all[d].factor = h[d].factor
  <2>1. \A d \in 1..N : [exDate |-> d, factor |-> h[d].factor] \in FactorRow
    BY <1>1 DEF FactorRow
  <2>2. all \in [1..N -> FactorRow]
    BY <1>1, <2>1
  <2>3. \A d \in 1..N : all[d].exDate = d /\ all[d].factor = h[d].factor
    BY <1>1
  <2>4. DOMAIN all = 1..N
    BY <1>1
  <2> HIDE DEF all, N
  <2>5. all \in Seq(FactorRow) /\ Len(all) = N
    BY <1>1, <2>2, <2>4, IsASeq, LenProperties
  <2>6. QED
    BY <2>3, <2>5
<1>3. rows = Filtered(all, ExDates(h))
  BY DEF FactorRows
<1>4. ExDates(h) \in SUBSET (1..N)
  BY <1>1 DEF ExDates
<1> HIDE DEF all, rows, N
<1>5. rows \in Seq(FactorRow)
  BY <1>2, <1>3, <1>4, FilteredIs
<1>6. PICK place : Thins(rows, all, ExDates(h), place)
  BY <1>2, <1>3, <1>4, FilteredIs
<1>7. /\ \A n \in 1..Len(rows) : place[n] \in ExDates(h) /\ rows[n] = all[place[n]]
      /\ \A i \in ExDates(h) : \E n \in 1..Len(rows) : place[n] = i
      /\ \A m, n \in 1..Len(rows) : m < n => place[m] < place[n]
  BY <1>6 DEF Thins
<1>8. \A n \in 1..Len(rows) : rows[n].exDate = place[n] /\ rows[n].factor = h[place[n]].factor
  BY <1>2, <1>4, <1>7
<1>9. RowsOf(rows, h, ExDates(h))
  BY <1>5, <1>7, <1>8 DEF RowsOf
<1>10. QED
  BY <1>9 DEF rows

LEMMA RowsCut ==
  ASSUME NEW h, NEW days, NEW rows, RowsOf(rows, h, days), NEW e \in Int
  PROVE  RowsOf(RowsUntil(rows, e), h, {d \in days : d <= e})
<1> DEFINE kept == {i \in DOMAIN rows : rows[i].exDate <= e}
           left == RowsUntil(rows, e)
<1>1. /\ rows \in Seq(FactorRow)
      /\ \A i \in 1..Len(rows) : rows[i].exDate \in days /\ rows[i].factor = h[rows[i].exDate].factor
      /\ \A d \in days : \E i \in 1..Len(rows) : rows[i].exDate = d
      /\ \A i, j \in 1..Len(rows) : i < j => rows[i].exDate < rows[j].exDate
  BY DEF RowsOf
<1>2. DOMAIN rows = 1..Len(rows) /\ Len(rows) \in Nat
  BY <1>1, LenProperties
<1>3. left = Filtered(rows, kept) /\ kept \in SUBSET (1..Len(rows))
  BY <1>2 DEF RowsUntil
<1>4. \A i : i \in kept <=> i \in 1..Len(rows) /\ rows[i].exDate <= e
  BY <1>2
<1> HIDE DEF kept, left
<1>5. left \in Seq(FactorRow)
  BY <1>1, <1>3, FilteredIs
<1>6. PICK place : Thins(left, rows, kept, place)
  BY <1>1, <1>3, FilteredIs
<1>7. /\ \A n \in 1..Len(left) : place[n] \in kept /\ left[n] = rows[place[n]]
      /\ \A i \in kept : \E n \in 1..Len(left) : place[n] = i
      /\ \A m, n \in 1..Len(left) : m < n => place[m] < place[n]
  BY <1>6 DEF Thins
<1>8. \A n \in 1..Len(left) :
        left[n].exDate \in {d \in days : d <= e} /\ left[n].factor = h[left[n].exDate].factor
  BY <1>1, <1>4, <1>7
<1>9. ASSUME NEW d \in {x \in days : x <= e} PROVE \E n \in 1..Len(left) : left[n].exDate = d
  <2>1. PICK i \in 1..Len(rows) : rows[i].exDate = d
    BY <1>1
  <2>2. i \in kept
    BY <1>4, <2>1
  <2>3. QED
    BY <1>7, <2>1, <2>2
<1>10. ASSUME NEW m \in 1..Len(left), NEW n \in 1..Len(left), m < n
       PROVE  left[m].exDate < left[n].exDate
  <2>1. place[m] < place[n] /\ left[m] = rows[place[m]] /\ left[n] = rows[place[n]]
    BY <1>7, <1>10
  <2>2. place[m] \in 1..Len(rows) /\ place[n] \in 1..Len(rows)
    BY <1>4, <1>7
  <2>3. rows[place[m]].exDate < rows[place[n]].exDate
    BY <1>1, <2>1, <2>2
  <2>4. QED
    BY <2>1, <2>3
<1>11. RowsOf(left, h, {d \in days : d <= e})
  BY <1>5, <1>8, <1>9, <1>10 DEF RowsOf
<1>12. QED
  BY <1>11 DEF left

(* The rows a query gets have the factor of each of its days. *)
LEMMA FactorFound ==
  ASSUME NEW h \in Seq(DayRows), NEW end \in Nat, NEW d \in 1..Len(h), d <= end, NEW bar, bar.day = d
  PROVE  FactorForBar(bar, FactorsUntil(h, end)) = {h[d].factor}
<1> DEFINE rows == FactorsUntil(h, end)
           known == {x \in ExDates(h) : x <= end}
           found == RowsUntil(rows, d)
           L == Len(found)
<1>1. Len(h) \in Nat /\ DOMAIN h = 1..Len(h) /\ d \in Nat
  BY DaysAre
<1>2. ExDates(h) \subseteq 1..Len(h) /\ 1 \in ExDates(h)
  BY <1>1 DEF ExDates
<1>3. RowsOf(rows, h, known)
  <2>1. RowsOf(FactorRows(h), h, ExDates(h)) /\ end \in Int
    BY RowsAre
  <2>2. QED
    BY <2>1, RowsCut DEF FactorsUntil
<1>4. RowsOf(found, h, {x \in known : x <= d})
  <2> HIDE DEF rows, known
  <2>1. d \in Int
    BY <1>1
  <2>2. QED
    BY <1>3, <2>1, RowsCut
<1>5. \A x : x \in {y \in known : y <= d} <=> x \in ExDates(h) /\ x <= d
  BY <1>1, <1>2
<1> HIDE DEF known, found
<1>6. /\ found \in Seq(FactorRow) /\ L \in Nat /\ DOMAIN found = 1..L
      /\ \A i \in 1..L : /\ found[i].exDate \in ExDates(h) /\ found[i].exDate <= d
                         /\ found[i].factor = h[found[i].exDate].factor
      /\ \A x \in ExDates(h) : x <= d => \E i \in 1..L : found[i].exDate = x
      /\ \A i, j \in 1..L : i < j => found[i].exDate < found[j].exDate
  <2>1. /\ found \in Seq(FactorRow)
        /\ \A i \in 1..L : /\ found[i].exDate \in {y \in known : y <= d}
                           /\ found[i].factor = h[found[i].exDate].factor
        /\ \A x \in {y \in known : y <= d} : \E i \in 1..L : found[i].exDate = x
        /\ \A i, j \in 1..L : i < j => found[i].exDate < found[j].exDate
    BY <1>4 DEF RowsOf
  <2>2. L \in Nat /\ DOMAIN found = 1..L
    BY <2>1, LenProperties
  <2>3. QED
    BY <1>5, <2>1, <2>2
<1>7. L >= 1
  <2>1. PICK i \in 1..L : found[i].exDate = 1
    BY <1>1, <1>2, <1>6
  <2>2. QED
    BY <1>6
<1> DEFINE e == found[L].exDate
<1>8. L \in 1..L /\ e \in ExDates(h) /\ e <= d /\ found[L].factor = h[e].factor
  BY <1>6, <1>7
<1>9. ASSUME NEW x \in (e + 1)..d, x \in ExDates(h) PROVE FALSE
  <2>1. x \in Nat /\ x <= d /\ e < x
    BY <1>1, <1>2, <1>8, <1>9
  <2>2. PICK i \in 1..L : found[i].exDate = x
    BY <1>6, <1>9, <2>1
  <2>3. i = L \/ i < L
    BY <1>6
  <2>4. x <= e
    <3>1. CASE i = L
      BY <1>1, <1>2, <1>8, <2>2, <3>1
    <3>2. CASE i < L
      <4>1. found[i].exDate < e
        BY <1>6, <1>8, <3>2
      <4>2. QED
        BY <1>2, <1>8, <2>1, <2>2, <4>1
    <3>3. QED
      BY <2>3, <3>1, <3>2
  <2>5. QED
    BY <1>1, <1>2, <1>8, <2>1, <2>4
<1>10. h[d].factor = h[e].factor
  <2> HIDE DEF e
  <2>1. e \in 1..Len(h)
    BY <1>2, <1>8
  <2>2. \A x \in (e + 1)..d : x \notin ExDates(h)
    BY <1>9
  <2>3. QED
    BY <1>8, <2>1, <2>2, FactorHolds
<1>11. found # <<>>
  BY <1>6, <1>7
<1>12. LastFactor(found) = {h[d].factor}
  BY <1>8, <1>10, <1>11 DEF LastFactor
<1>13. QED
  BY <1>12 DEF FactorForBar, found

(* The raw bars of some of the days, in their order. *)
PricesOf(prices, h, days) ==
  /\ Len(prices) \in Nat /\ DOMAIN prices = 1..Len(prices)
  /\ \A i \in 1..Len(prices) : prices[i].day \in days /\ prices[i] = RawBar(h, prices[i].day)
  /\ \A d \in days : \E i \in 1..Len(prices) : prices[i].day = d
  /\ \A i, j \in 1..Len(prices) : i < j => prices[i].day < prices[j].day

LEMMA PricesAre ==
  ASSUME NEW h \in Seq(DayRows), NEW from, NEW end
  PROVE  PricesOf(RawBars(h, from, end), h, {d \in TradedDays(h) : from <= d /\ d < end})
<1> DEFINE N == Len(h)
           A == {RawBar(h, d) : d \in 1..N}
           all == [d \in DOMAIN h |-> RawBar(h, d)]
           kept == {d \in TradedDays(h) : from <= d /\ d < end}
           prices == RawBars(h, from, end)
<1>1. N \in Nat /\ DOMAIN h = 1..N
  BY DaysAre
<1>2. all \in Seq(A) /\ Len(all) = N /\ \A d \in 1..N : all[d] = RawBar(h, d)
  <2>1. \A d \in 1..N : RawBar(h, d) \in A
    OBVIOUS
  <2>2. \A d \in 1..N : all[d] = RawBar(h, d)
    BY <1>1
  <2>3. DOMAIN all = 1..N /\ all = [d \in 1..N |-> RawBar(h, d)]
    BY <1>1
  <2> HIDE DEF A, N
  <2>4. all \in [1..N -> A]
    BY <2>1, <2>3
  <2> HIDE DEF all
  <2>5. all \in Seq(A) /\ Len(all) = N
    BY <1>1, <2>3, <2>4, IsASeq, LenProperties
  <2>6. QED
    BY <2>2, <2>5
<1>3. prices = Filtered(all, kept)
  BY DEF RawBars
<1>4. kept \in SUBSET (1..N)
  BY <1>1 DEF TradedDays
<1> HIDE DEF all, kept, prices, A, N
<1>5. prices \in Seq(A)
  BY <1>2, <1>3, <1>4, FilteredIs
<1>6. PICK place : Thins(prices, all, kept, place)
  BY <1>2, <1>3, <1>4, FilteredIs
<1>7. /\ \A n \in 1..Len(prices) : place[n] \in kept /\ prices[n] = all[place[n]]
      /\ \A i \in kept : \E n \in 1..Len(prices) : place[n] = i
      /\ \A m, n \in 1..Len(prices) : m < n => place[m] < place[n]
  BY <1>6 DEF Thins
<1>8. \A n \in 1..Len(prices) : prices[n] = RawBar(h, place[n])
  BY <1>2, <1>4, <1>7
<1>9. \A n \in 1..Len(prices) : prices[n].day = place[n]
  <2>1. \A d : RawBar(h, d).day = d
    BY DEF RawBar
  <2>2. QED
    BY <1>8, <2>1
<1>10. Len(prices) \in Nat /\ DOMAIN prices = 1..Len(prices)
  BY <1>5, LenProperties
<1>11. PricesOf(prices, h, kept)
  BY <1>7, <1>8, <1>9, <1>10 DEF PricesOf
<1>12. QED
  BY <1>11 DEF prices, kept

RangeBars(prices, h, from, end) ==
  PricesOf(prices, h, {d \in TradedDays(h) : from <= d /\ d < end})

(* Two neighbours: between them no day of the range has traded. *)
Adjacent(h, prices, from, end, i, p, d) ==
  /\ p = prices[i - 1].day /\ d = prices[i].day
  /\ i - 1 \in 1..Len(prices) /\ i \in 1..Len(prices)
  /\ d \in 1..Len(h) /\ p \in 1..(d - 1) /\ from <= p /\ d < end
  /\ h[p].traded
  /\ \A e \in (p + 1)..(d - 1) :
       ~h[e].traded /\ e \in 1..Len(h) /\ \A k \in 1..Len(prices) : prices[k].day # e

LEMMA Neighbours ==
  ASSUME NEW h \in Seq(DayRows), NEW from \in 1..Len(h), NEW end \in 2..(Len(h) + 1),
         NEW prices, RangeBars(prices, h, from, end),
         NEW i \in 2..Len(prices)
  PROVE  Adjacent(h, prices, from, end, i, prices[i - 1].day, prices[i].day)
<1> DEFINE days == {d \in TradedDays(h) : from <= d /\ d < end}
           p == prices[i - 1].day
           d == prices[i].day
<1>1. Len(h) \in Nat /\ DOMAIN h = 1..Len(h)
  BY DaysAre
<1>2. \A x : x \in days <=> x \in 1..Len(h) /\ h[x].traded /\ from <= x /\ x < end
  BY <1>1 DEF TradedDays
<1> HIDE DEF days
<1>3. /\ Len(prices) \in Nat
      /\ \A k \in 1..Len(prices) : prices[k].day \in days
      /\ \A x \in days : \E k \in 1..Len(prices) : prices[k].day = x
      /\ \A k, j \in 1..Len(prices) : k < j => prices[k].day < prices[j].day
  BY DEF RangeBars, PricesOf, days
<1>4. i - 1 \in 1..Len(prices) /\ i \in 1..Len(prices) /\ i - 1 < i /\ i \in Nat
  BY <1>3
<1>5. p \in days /\ d \in days /\ p < d
  BY <1>3, <1>4
<1>6. p \in 1..(d - 1) /\ d \in 1..Len(h) /\ from <= p /\ d < end /\ h[p].traded
  BY <1>1, <1>2, <1>5
<1>7. ASSUME NEW e \in (p + 1)..(d - 1), NEW k \in 1..Len(prices) PROVE prices[k].day # e
  <2>1. k <= i - 1 \/ k >= i
    BY <1>3, <1>4
  <2>2. k < i - 1 \/ k = i - 1 \/ k = i \/ i < k
    BY <1>3, <1>4, <2>1
  <2>3. prices[k].day \in Nat
    <3>1. prices[k].day \in 1..Len(h)
      BY <1>2, <1>3
    <3>2. QED
      BY <1>1, <3>1
  <2> DEFINE x == prices[k].day
  <2>3a. p \in Nat /\ d \in Nat /\ e \in Nat /\ p < e /\ e < d
    <3> HIDE DEF p, d
    <3>1. p \in Nat /\ d \in Nat
      BY <1>1, <1>6
    <3>2. QED
      BY <3>1
  <2>4. CASE k < i - 1
    <3>1. x < p
      BY <1>3, <1>4, <2>4
    <3> HIDE DEF p, d, x
    <3>2. x # e
      BY <2>3, <2>3a, <3>1 DEF x
    <3>3. QED
      BY <3>2 DEF x
  <2>5. CASE i < k
    <3>1. d < x
      BY <1>3, <1>4, <2>5
    <3> HIDE DEF p, d, x
    <3>2. x # e
      BY <2>3, <2>3a, <3>1 DEF x
    <3>3. QED
      BY <3>2 DEF x
  <2>6. CASE k = i - 1 \/ k = i
    <3>1. x = p \/ x = d
      BY <2>6
    <3> HIDE DEF p, d, x
    <3>2. x # e
      BY <2>3a, <3>1
    <3>3. QED
      BY <3>2 DEF x
  <2>7. QED
    BY <2>2, <2>4, <2>5, <2>6
<1>8. ASSUME NEW e \in (p + 1)..(d - 1)
      PROVE  ~h[e].traded /\ e \in 1..Len(h) /\ \A k \in 1..Len(prices) : prices[k].day # e
  <2>1. e \in 1..Len(h) /\ from <= e /\ e < end
    <3>1. p \in Nat /\ d \in Nat /\ 1 <= p /\ d <= Len(h)
      BY <1>1, <1>6
    <3> HIDE DEF p, d
    <3>2. e \in Nat /\ p < e /\ e < d
      BY <3>1
    <3>3. QED
      BY <1>1, <1>6, <3>1, <3>2
  <2>2. e \notin days
    BY <1>3, <1>7
  <2>3. QED
    BY <1>2, <1>7, <2>1, <2>2
<1> HIDE DEF p, d
<1>9. Adjacent(h, prices, from, end, i, p, d)
  BY <1>4, <1>6, <1>8 DEF Adjacent, p, d
<1>10. QED
  BY <1>9 DEF p, d

(* A bar after its adjustment. *)
AdjustedBar(h, d, anchor) ==
  [day |-> d, open |-> Ratio(ValueBefore(h, d), anchor), close |-> Ratio(h[d].value, anchor),
   volume |-> RoundHalfEven(Ratio(3 * anchor, h[d].factor))]

LEMMA ScaledIs ==
  ASSUME NEW h \in Seq(DayRows), NEW d \in 1..Len(h), NEW anchor \in Nat \ {0}
  PROVE  ScaleBar(RawBar(h, d), Ratio(h[d].factor, anchor)) = AdjustedBar(h, d, anchor)
<1> DEFINE f == h[d].factor
           v == h[d].value
           b == ValueBefore(h, d)
           ratio == Ratio(f, anchor)
<1>1. f \in Nat \ {0} /\ v \in Nat \ {0} /\ b \in Nat \ {0}
  BY DaysAre, BeforeIs
<1>2. RawBar(h, d) = [day |-> d, open |-> Ratio(b, f), close |-> Ratio(v, f), volume |-> 3]
  BY DEF RawBar
<1>3. ASSUME NEW x \in Nat PROVE Times(Ratio(x, f), ratio) = Ratio(x, anchor)
  <2> HIDE DEF f
  <2>1. Times(Ratio(x, f), ratio) = Ratio(x * f, f * anchor)
    BY <1>1, TimesIs
  <2>2. x * f \in Nat /\ f * anchor \in Nat \ {0} /\ (x * f) * anchor = x * (f * anchor)
    <3>1. \A g \in Nat \ {0} : g * anchor \in Nat /\ g * anchor # 0
      OBVIOUS
    <3>2. \A g \in Nat \ {0} : x * g \in Nat /\ (x * g) * anchor = x * (g * anchor)
      OBVIOUS
    <3>3. QED
      BY <1>1, <3>1, <3>2
  <2>3. Ratio(x * f, f * anchor) = Ratio(x, anchor)
    BY <2>2, RatioSame
  <2>4. QED
    BY <2>1, <2>3
<1>4. Over(Whole(3), ratio) = Ratio(3 * anchor, f)
  <2> HIDE DEF f
  <2>1. Whole(3) = Ratio(3, 1)
    BY WholeIs
  <2>2. Over(Ratio(3, 1), ratio) = Ratio(3 * anchor, 1 * f)
    BY <1>1, OverIs
  <2>3. 1 * f = f
    BY <1>1
  <2>4. QED
    BY <2>1, <2>2, <2>3
<1> HIDE DEF f, v, b, ratio
<1>5. ScaleBar(RawBar(h, d), ratio)
        = [day |-> d, open |-> Times(Ratio(b, f), ratio), close |-> Times(Ratio(v, f), ratio),
           volume |-> RoundHalfEven(Over(Whole(3), ratio))]
  <2> DEFINE bar == RawBar(h, d)
  <2>1. /\ bar.day = d /\ bar.open = Ratio(b, f)
        /\ bar.close = Ratio(v, f) /\ bar.volume = 3
    BY <1>2
  <2> HIDE DEF bar
  <2>2. ScaleBar(bar, ratio)
          = [day |-> bar.day, open |-> Times(bar.open, ratio), close |-> Times(bar.close, ratio),
             volume |-> RoundHalfEven(Over(Whole(bar.volume), ratio))]
    BY DEF ScaleBar
  <2>3. QED
    BY <2>1, <2>2 DEF bar
<1>6. ScaleBar(RawBar(h, d), ratio)
        = [day |-> d, open |-> Ratio(b, anchor), close |-> Ratio(v, anchor),
           volume |-> RoundHalfEven(Ratio(3 * anchor, f))]
  BY <1>1, <1>3, <1>4, <1>5
<1>7. QED
  BY <1>6 DEF AdjustedBar, f, v, b, ratio

(* The bars of a query: one anchor for all of them. *)
Anchored(h, raw, prices, anchor) ==
  /\ anchor \in Nat \ {0}
  /\ DOMAIN prices = DOMAIN raw
  /\ \A i \in DOMAIN raw : prices[i] = AdjustedBar(h, raw[i].day, anchor)

(* Every bar of a query is adjusted with one anchor, the first factor of    *)
(* the symbol when it is adjusted backward.                                 *)
LEMMA PricesAdjusted ==
  ASSUME NEW h \in Seq(DayRows), NEW from \in 1..Len(h), NEW end \in 2..(Len(h) + 1),
         NEW adjustment \in {"PreAdjust", "PostAdjust"}
  PROVE  \E anchor :
           /\ Anchored(h, RawBars(h, from, end), QueryBars(h, from, end, adjustment), anchor)
           /\ adjustment = "PostAdjust" => anchor = h[1].factor
<1> DEFINE raw == RawBars(h, from, end)
           rows == FactorsUntil(h, end)
           n == IF adjustment = "PreAdjust" THEN Len(rows) ELSE 1
           anchor == rows[n].factor
           prices == QueryBars(h, from, end, adjustment)
           days == {d \in TradedDays(h) : from <= d /\ d < end}
<1>1. /\ Len(h) \in Nat /\ DOMAIN h = 1..Len(h) /\ end \in Nat
      /\ \A d \in 1..Len(h) : h[d].factor \in Nat \ {0}
  BY DaysAre
<1>2. RowsOf(rows, h, {x \in ExDates(h) : x <= end})
  <2>1. RowsOf(FactorRows(h), h, ExDates(h)) /\ end \in Int
    BY RowsAre
  <2>2. QED
    BY <2>1, RowsCut DEF FactorsUntil
<1>3. ExDates(h) \subseteq 1..Len(h) /\ 1 \in ExDates(h) /\ 1 <= end
  BY <1>1 DEF ExDates
<1> HIDE DEF rows
<1>4. /\ rows \in Seq(FactorRow) /\ Len(rows) \in Nat
      /\ \A i \in 1..Len(rows) : /\ rows[i].exDate \in ExDates(h)
                                /\ rows[i].factor = h[rows[i].exDate].factor
      /\ \E i \in 1..Len(rows) : rows[i].exDate = 1
      /\ \A i, j \in 1..Len(rows) : i < j => rows[i].exDate < rows[j].exDate
  <2>1. /\ rows \in Seq(FactorRow)
        /\ \A i \in 1..Len(rows) : /\ rows[i].exDate \in {x \in ExDates(h) : x <= end}
                                  /\ rows[i].factor = h[rows[i].exDate].factor
        /\ \A x \in {y \in ExDates(h) : y <= end} : \E i \in 1..Len(rows) : rows[i].exDate = x
        /\ \A i, j \in 1..Len(rows) : i < j => rows[i].exDate < rows[j].exDate
    BY <1>2 DEF RowsOf
  <2>2. Len(rows) \in Nat
    BY <2>1, LenProperties
  <2>3. \E i \in 1..Len(rows) : rows[i].exDate = 1
    BY <1>3, <2>1
  <2>4. QED
    BY <2>1, <2>2, <2>3
<1>5. n \in 1..Len(rows) /\ 1 \in 1..Len(rows)
  BY <1>4
<1>6. anchor \in Nat \ {0}
  <2> HIDE DEF n
  <2>1. rows[n].exDate \in 1..Len(h) /\ rows[n].factor = h[rows[n].exDate].factor
    BY <1>3, <1>4, <1>5
  <2>2. QED
    BY <1>1, <2>1
<1>7. adjustment = "PostAdjust" => anchor = h[1].factor
  <2>1. PICK i \in 1..Len(rows) : rows[i].exDate = 1
    BY <1>4
  <2>2. i = 1
    <3>1. i = 1 \/ 1 < i
      BY <1>4
    <3>2. ~(1 < i)
      <4>1. rows[1].exDate \in 1..Len(h)
        BY <1>3, <1>4, <1>5
      <4>2. 1 < i => rows[1].exDate < 1
        BY <1>4, <1>5, <2>1
      <4>3. QED
        BY <1>1, <4>1, <4>2
    <3>3. QED
      BY <3>1, <3>2
  <2>3. QED
    BY <1>4, <1>5, <2>1, <2>2
<1>8. rows # <<>>
  BY <1>4, <1>5
<1> HIDE DEF n
<1>9. PricesOf(raw, h, days)
  BY PricesAre
<1> HIDE DEF raw, days
<1>10. /\ Len(raw) \in Nat /\ DOMAIN raw = 1..Len(raw)
       /\ \A i \in 1..Len(raw) : /\ raw[i].day \in 1..Len(h) /\ raw[i].day < end
                                /\ raw[i] = RawBar(h, raw[i].day)
  <2>1. \A x \in days : x \in 1..Len(h) /\ x < end
    BY <1>1 DEF days, TradedDays
  <2>2. QED
    BY <1>9, <2>1 DEF PricesOf
<1>11. prices = AdjustBars(raw, rows, adjustment)
  BY DEF QueryBars, raw, rows
<1>12. CASE raw = <<>>
  <2>1. prices = raw
    BY <1>11, <1>12 DEF AdjustBars
  <2>2. \A i \in 1..Len(raw) : FALSE
    BY <1>12
  <2>3. \A i \in DOMAIN raw : prices[i] = AdjustedBar(h, raw[i].day, anchor)
    BY <1>10, <2>2
  <2> HIDE DEF prices, anchor
  <2>4. Anchored(h, raw, prices, anchor)
    BY <1>6, <2>1, <2>3 DEF Anchored
  <2>5. QED
    BY <1>7, <2>4 DEF prices, raw
<1>13. CASE raw # <<>>
  <2> DEFINE Scaled(i) ==
        LET found == FactorForBar(raw[i], rows)
        IN  IF found = {} THEN raw[i]
            ELSE ScaleBar(raw[i], Ratio(CHOOSE f \in found : TRUE, anchor))
  <2>1. prices = [i \in DOMAIN raw |-> Scaled(i)]
    BY <1>8, <1>11, <1>13 DEF AdjustBars, n
  <2>2. ASSUME NEW i \in 1..Len(raw) PROVE Scaled(i) = AdjustedBar(h, raw[i].day, anchor)
    <3> DEFINE d == raw[i].day
    <3>1. d \in 1..Len(h) /\ d <= end /\ raw[i] = RawBar(h, d)
      BY <1>1, <1>10
    <3>2. FactorForBar(raw[i], rows) = {h[d].factor}
      <4> DEFINE bar == raw[i]
      <4>1. bar.day = d
        OBVIOUS
      <4> HIDE DEF bar, d
      <4>2. FactorForBar(bar, FactorsUntil(h, end)) = {h[d].factor}
        BY <1>1, <3>1, <4>1, FactorFound
      <4>3. QED
        BY <4>2 DEF bar, rows
    <3> HIDE DEF anchor, d
    <3>3. (CHOOSE f \in {h[d].factor} : TRUE) = h[d].factor
      OBVIOUS
    <3>4. Scaled(i) = ScaleBar(raw[i], Ratio(h[d].factor, anchor))
      BY <3>2, <3>3
    <3>5. ScaleBar(RawBar(h, d), Ratio(h[d].factor, anchor)) = AdjustedBar(h, d, anchor)
      BY <1>6, <3>1, ScaledIs
    <3>6. QED
      BY <3>1, <3>4, <3>5 DEF d
  <2> HIDE DEF Scaled, prices, anchor
  <2>3. DOMAIN prices = DOMAIN raw /\ \A i \in DOMAIN raw : prices[i] = Scaled(i)
    BY <2>1
  <2>4. \A i \in DOMAIN raw : prices[i] = AdjustedBar(h, raw[i].day, anchor)
    BY <1>10, <2>2, <2>3
  <2>5. Anchored(h, raw, prices, anchor)
    BY <1>6, <2>3, <2>4 DEF Anchored
  <2>6. QED
    BY <1>7, <2>5 DEF prices, raw
<1>14. QED
  BY <1>12, <1>13

(* A volume is rounded by half a share at most, the turnover by half a      *)
(* share's price.                                                           *)
LEMMA TurnoverKept ==
  ASSUME NEW v \in Nat \ {0}, NEW f \in Nat \ {0}, NEW anchor \in Nat \ {0}, NEW volume,
         volume = RoundHalfEven(Ratio(3 * anchor, f))
  PROVE  ~Below(Over(Ratio(v, anchor), Whole(2)),
                Distance(Times(Ratio(v, anchor), Whole(volume)), Times(Ratio(v, f), Whole(3))))
<1> DEFINE m == volume * f
           t == 3 * anchor
           apart == IF m < t THEN t - m ELSE m - t
<1>1. volume \in Nat /\ 2 * m - 2 * t <= f /\ 2 * t - 2 * m <= f
  <2>1. t \in Nat
    OBVIOUS
  <2>2. QED
    BY <2>1, RoundedIs
<1>2. m \in Nat /\ t \in Nat
  BY <1>1
<1>3. apart \in Nat /\ 2 * apart <= f
  <2> HIDE DEF m, t
  <2>1. QED
    BY <1>1, <1>2
<1>4. /\ Whole(2) = Ratio(2, 1) /\ Whole(3) = Ratio(3, 1) /\ Whole(volume) = Ratio(volume, 1)
  BY <1>1, WholeIs
<1>5. Over(Ratio(v, anchor), Ratio(2, 1)) = Ratio(v * 1, anchor * 2)
  BY OverIs
<1>6. Times(Ratio(v, anchor), Ratio(volume, 1)) = Ratio(v * volume, anchor * 1)
  BY <1>1, TimesIs
<1>7. Times(Ratio(v, f), Ratio(3, 1)) = Ratio(v * 3, f * 1)
  BY TimesIs
<1>8. /\ v * 1 = v /\ anchor * 1 = anchor /\ f * 1 = f
  OBVIOUS
<1> DEFINE a == (v * volume) * f
           c == (v * 3) * anchor
           D == IF a < c THEN c - a ELSE a - c
<1>9. Distance(Ratio(v * volume, anchor), Ratio(v * 3, f)) = Ratio(D, anchor * f)
  <2> DEFINE x == v * volume
             y == v * 3
  <2>1. x \in Nat /\ y \in Nat
    BY <1>1
  <2> HIDE DEF x, y
  <2>2. Distance(Ratio(x, anchor), Ratio(y, f))
          = Ratio(IF x * f < y * anchor THEN y * anchor - x * f ELSE x * f - y * anchor,
                  anchor * f)
    BY <2>1, DistanceIs
  <2>3. QED
    BY <2>2 DEF x, y
<1>10. a = v * m /\ c = v * t
  BY <1>1
<1>11. D = v * apart /\ D \in Nat
  <2> HIDE DEF a, c, m, t
  <2>1. v * m < v * t <=> m < t
    BY <1>2
  <2>2. v * (t - m) = v * t - v * m /\ v * (m - t) = v * m - v * t
    BY <1>2
  <2>3. D = v * apart
    BY <1>10, <2>1, <2>2
  <2>4. QED
    BY <1>3, <2>3
<1> HIDE DEF D, a, c, m, t, apart
<1>12. anchor * f \in Nat \ {0} /\ anchor * 2 \in Nat \ {0}
  <2>1. \A x, y \in Nat \ {0} : x * y \in Nat \ {0}
    OBVIOUS
  <2>2. QED
    BY <2>1
<1>13. Below(Ratio(v, anchor * 2), Ratio(D, anchor * f)) <=> v * (anchor * f) < D * (anchor * 2)
  BY <1>11, <1>12, BelowIs
<1>14. D * (anchor * 2) <= v * (anchor * f)
  <2> DEFINE k == v * anchor
             twice == 2 * apart
  <2>1. k \in Nat /\ twice \in Nat /\ twice <= f
    BY <1>3
  <2>2. D * (anchor * 2) = k * twice
    BY <1>3, <1>11
  <2>3. v * (anchor * f) = k * f
    OBVIOUS
  <2> HIDE DEF k, twice
  <2>4. k * twice <= k * f
    BY <2>1
  <2>5. QED
    BY <2>2, <2>3, <2>4
<1>15. ~Below(Ratio(v, anchor * 2), Ratio(D, anchor * f))
  <2>1. v * (anchor * f) \in Nat /\ D * (anchor * 2) \in Nat
    BY <1>11
  <2>2. QED
    BY <1>13, <1>14, <2>1
<1>16. QED
  BY <1>4, <1>5, <1>6, <1>7, <1>8, <1>9, <1>15

(* Two bars with one factor have no gap. *)
LEMMA NoRawGap ==
  ASSUME NEW prices, NEW i, NEW b \in Nat \ {0}, NEW f \in Nat \ {0}, NEW percent \in Nat,
         prices[i].open = Ratio(b, f), prices[i - 1].close = Ratio(b, f)
  PROVE  ~Below(Ratio(percent, 100), Gap(prices, i))
<1> DEFINE square == f * f
           under == square * b
<1>1. square \in Nat \ {0} /\ under \in Nat \ {0}
  <2>1. \A x, y \in Nat \ {0} : x * y \in Nat \ {0}
    OBVIOUS
  <2>2. square \in Nat \ {0}
    BY <2>1
  <2> HIDE DEF square
  <2>3. QED
    BY <2>1, <2>2
<1>2. Distance(Ratio(b, f), Ratio(b, f)) = Ratio(0, square)
  <2> DEFINE c == b * f
  <2>1. Distance(Ratio(b, f), Ratio(b, f)) = Ratio(IF c < c THEN c - c ELSE c - c, square)
    BY DistanceIs
  <2>2. c \in Int
    OBVIOUS
  <2> HIDE DEF c, square
  <2>3. (IF c < c THEN c - c ELSE c - c) = 0
    BY <2>2
  <2>4. QED
    BY <2>1, <2>3
<1> HIDE DEF square
<1>3. ASSUME NEW a \in Nat PROVE Over(Ratio(a, square), Ratio(b, f)) = Ratio(a * f, under)
  BY <1>1, OverIs
<1>4. 0 * f = 0 /\ 0 \in Nat
  OBVIOUS
<1>5. Gap(prices, i) = Ratio(0, under)
  BY <1>2, <1>3, <1>4 DEF Gap
<1> HIDE DEF under
<1>6. ASSUME NEW c \in Nat, NEW whole \in Nat \ {0}
      PROVE  Below(Ratio(percent, whole), Ratio(c, under)) <=> percent * under < c * whole
  BY <1>1, BelowIs
<1>7. 0 \in Nat /\ 100 \in Nat \ {0} /\ ~(percent * under < 0 * 100)
  BY <1>1
<1>8. ~Below(Ratio(percent, 100), Ratio(0, under))
  BY <1>6, <1>7
<1>9. QED
  BY <1>5, <1>8

(* A gap between two bars has an ex-date after the one, up to the other. *)
LEMMA ExDateBetween ==
  ASSUME NEW h \in Seq(DayRows), NEW p \in 1..Len(h), NEW d \in 1..Len(h), p <= d,
         h[d].factor # h[p].factor
  PROVE  \E e \in (p + 1)..d : e \in ExDates(h)
BY FactorHolds

(* Each opens where the previous one closed, with its turnover. *)
LEMMA AdjustedJoin ==
  ASSUME NEW h \in Seq(DayRows), NEW from \in 1..Len(h), NEW end \in 2..(Len(h) + 1),
         NEW raw, RangeBars(raw, h, from, end),
         NEW prices, NEW anchor, Anchored(h, raw, prices, anchor), NEW i \in DOMAIN prices
  PROVE  /\ i > 1 => prices[i].open = prices[i - 1].close
         /\ ~Below(Over(prices[i].close, Whole(2)),
                   Distance(Times(prices[i].close, Whole(prices[i].volume)),
                            Times(raw[i].close, Whole(raw[i].volume))))
<1> DEFINE days == {d \in TradedDays(h) : from <= d /\ d < end}
           d == raw[i].day
<1>1. /\ Len(h) \in Nat /\ DOMAIN h = 1..Len(h)
      /\ \A x \in 1..Len(h) : h[x].value \in Nat \ {0} /\ h[x].factor \in Nat \ {0}
  BY DaysAre
<1>2. /\ Len(raw) \in Nat /\ DOMAIN raw = 1..Len(raw)
      /\ \A k \in 1..Len(raw) : raw[k].day \in days /\ raw[k] = RawBar(h, raw[k].day)
  BY DEF RangeBars, PricesOf
<1>3. i \in 1..Len(raw) /\ \A k \in 1..Len(raw) : prices[k] = AdjustedBar(h, raw[k].day, anchor)
  BY <1>2 DEF Anchored
<1>4. anchor \in Nat \ {0}
  BY DEF Anchored
<1>5. d \in 1..Len(h)
  BY <1>1, <1>2, <1>3 DEF TradedDays
<1>6. \A x : /\ AdjustedBar(h, x, anchor).open = Ratio(ValueBefore(h, x), anchor)
             /\ AdjustedBar(h, x, anchor).close = Ratio(h[x].value, anchor)
             /\ AdjustedBar(h, x, anchor).volume = RoundHalfEven(Ratio(3 * anchor, h[x].factor))
  BY DEF AdjustedBar
<1>7. \A x : RawBar(h, x).close = Ratio(h[x].value, h[x].factor) /\ RawBar(h, x).volume = 3
  BY DEF RawBar
<1>8. ASSUME i > 1 PROVE prices[i].open = prices[i - 1].close
  <2> DEFINE p == raw[i - 1].day
  <2>1. i \in 2..Len(raw)
    BY <1>2, <1>3, <1>8
  <2>2. /\ i - 1 \in 1..Len(raw) /\ p \in 1..(d - 1) /\ h[p].traded
        /\ \A e \in (p + 1)..(d - 1) : ~h[e].traded
    <3>1. Adjacent(h, raw, from, end, i, raw[i - 1].day, raw[i].day)
      BY <2>1, Neighbours
    <3>2. QED
      BY <3>1 DEF Adjacent
  <2> HIDE DEF p, d
  <2>3. ValueBefore(h, d) = h[p].value
    BY <1>5, <2>2, BeforeIs
  <2>4. prices[i] = AdjustedBar(h, d, anchor) /\ prices[i - 1] = AdjustedBar(h, p, anchor)
    BY <1>3, <2>2 DEF d, p
  <2>5. QED
    BY <1>6, <2>3, <2>4
<1>9. ~Below(Over(prices[i].close, Whole(2)),
             Distance(Times(prices[i].close, Whole(prices[i].volume)),
                      Times(raw[i].close, Whole(raw[i].volume))))
  <2>1. raw[i] = RawBar(h, d) /\ prices[i] = AdjustedBar(h, d, anchor)
    BY <1>2, <1>3
  <2> HIDE DEF d
  <2> DEFINE v == h[d].value
             f == h[d].factor
             volume == RoundHalfEven(Ratio(3 * anchor, f))
  <2>2. v \in Nat \ {0} /\ f \in Nat \ {0}
    BY <1>1, <1>5
  <2>3. /\ prices[i].close = Ratio(v, anchor) /\ prices[i].volume = volume
        /\ raw[i].close = Ratio(v, f) /\ raw[i].volume = 3
    BY <1>6, <1>7, <2>1
  <2>4. volume = RoundHalfEven(Ratio(3 * anchor, f))
    OBVIOUS
  <2> HIDE DEF v, f, volume
  <2>5. ~Below(Over(Ratio(v, anchor), Whole(2)),
               Distance(Times(Ratio(v, anchor), Whole(volume)), Times(Ratio(v, f), Whole(3))))
    BY <1>4, <2>2, <2>4, TurnoverKept
  <2>6. QED
    BY <2>3, <2>5
<1>10. QED
  BY <1>8, <1>9

(* A raw gap is flagged, or its ex-date is a missing day. *)
LEMMA GapsExplained ==
  ASSUME NEW h \in Seq(DayRows), NEW from \in 1..Len(h), NEW end \in 2..(Len(h) + 1),
         NEW percent \in Nat,
         NEW raw, RangeBars(raw, h, from, end),
         NEW rows, rows = FactorsUntil(h, end), NEW i \in DOMAIN raw \ {1}
  PROVE  \/ ~Below(Ratio(percent, 100), Gap(raw, i))
         \/ raw[i].day \in FlagAdjustmentGaps(raw, rows, percent)
         \/ \E r \in DOMAIN rows :
              rows[r].exDate \in MissingTradingDays(h, raw, from, end - 1)
                                   \cap (raw[i - 1].day + 1)..(raw[i].day - 1)
<1> DEFINE days == {d \in TradedDays(h) : from <= d /\ d < end}
           missing == MissingTradingDays(h, raw, from, end - 1)
           d == raw[i].day
           p == raw[i - 1].day
           v == h[p].value
<1>1. /\ Len(h) \in Nat /\ DOMAIN h = 1..Len(h) /\ end \in Nat
      /\ \A x \in 1..Len(h) : h[x].value \in Nat \ {0} /\ h[x].factor \in Nat \ {0}
  BY DaysAre
<1>2. /\ Len(raw) \in Nat /\ DOMAIN raw = 1..Len(raw)
      /\ \A k \in 1..Len(raw) : raw[k] = RawBar(h, raw[k].day)
  BY DEF RangeBars, PricesOf
<1>3. i \in 2..Len(raw)
  BY <1>2
<1>4. /\ i - 1 \in 1..Len(raw) /\ i \in 1..Len(raw)
      /\ d \in 1..Len(h) /\ p \in 1..(d - 1) /\ from <= p /\ d < end
      /\ h[p].traded
      /\ \A e \in (p + 1)..(d - 1) :
           ~h[e].traded /\ e \in 1..Len(h) /\ \A k \in 1..Len(raw) : raw[k].day # e
  <2>1. Adjacent(h, raw, from, end, i, raw[i - 1].day, raw[i].day)
    BY <1>3, Neighbours
  <2>2. QED
    BY <2>1 DEF Adjacent
<1>5. p \in 1..Len(h) /\ p <= d /\ p \in Nat /\ d \in Nat
  BY <1>1, <1>4
<1>6. /\ raw[i].open = Ratio(v, h[d].factor) /\ raw[i - 1].close = Ratio(v, h[p].factor)
  <2>1. raw[i] = RawBar(h, d) /\ raw[i - 1] = RawBar(h, p)
    BY <1>2, <1>4
  <2> HIDE DEF d, p
  <2>2. ValueBefore(h, d) = h[p].value
    BY <1>4, BeforeIs
  <2>3. QED
    BY <2>1, <2>2 DEF RawBar
<1>7. v \in Nat \ {0} /\ h[d].factor \in Nat \ {0} /\ h[p].factor \in Nat \ {0}
  BY <1>1, <1>4, <1>5
<1>8. CASE h[d].factor = h[p].factor
  <2> HIDE DEF d, p, v
  <2>1. QED
    BY <1>6, <1>7, <1>8, NoRawGap
<1>9. CASE h[d].factor # h[p].factor
  <2>1. PICK e \in (p + 1)..d : e \in ExDates(h)
    <3> HIDE DEF d, p
    <3>1. QED
      BY <1>4, <1>5, <1>9, ExDateBetween
  <2>2. e \in 1..Len(h) /\ e <= end /\ from <= e /\ e <= end - 1 /\ e \in Nat
    BY <1>1, <1>4, <1>5, <2>1
  <2>3. PICK r \in DOMAIN rows : rows[r].exDate = e
    <3>1. RowsOf(FactorRows(h), h, ExDates(h)) /\ end \in Int
      BY <1>1, RowsAre
    <3>2. RowsOf(rows, h, {x \in ExDates(h) : x <= end})
      BY <3>1, RowsCut DEF FactorsUntil
    <3>3. rows \in Seq(FactorRow) /\ \E n \in 1..Len(rows) : rows[n].exDate = e
      BY <2>1, <2>2, <3>2 DEF RowsOf
    <3>4. DOMAIN rows = 1..Len(rows)
      BY <3>3, LenProperties
    <3>5. QED
      BY <3>3, <3>4
  <2>4. CASE e = d
    <3>1. Below(Zero, raw[i - 1].close)
      <4> DEFINE f == h[p].factor
      <4>1. Zero = Ratio(0, 1) /\ 0 \in Nat /\ 1 \in Nat \ {0}
        BY WholeIs DEF Zero
      <4> HIDE DEF f, v, p
      <4>2. Below(Ratio(0, 1), Ratio(v, f)) <=> 0 * f < v * 1
        BY <1>7, <4>1, BelowIs DEF f
      <4>3. 0 * f < v * 1
        BY <1>7 DEF f
      <4>4. QED
        BY <1>6, <4>1, <4>2, <4>3 DEF f
    <3>2. \E k \in DOMAIN rows : rows[k].exDate = raw[i].day
      BY <2>3, <2>4
    <3>3. ASSUME Below(Ratio(percent, 100), Gap(raw, i))
          PROVE  raw[i].day \in FlagAdjustmentGaps(raw, rows, percent)
      BY <3>1, <3>2, <3>3 DEF FlagAdjustmentGaps
    <3>4. QED
      BY <3>3
  <2>5. CASE e # d
    <3>1. e \in (p + 1)..(d - 1)
      BY <1>5, <2>1, <2>5
    <3>2. \A k \in 1..Len(raw) : raw[k].day # e
      BY <1>4, <3>1
    <3>3. e \in missing
      <4>1. e \in DOMAIN h /\ e \in from..(end - 1)
        BY <1>1, <2>2
      <4>2. QED
        BY <1>2, <3>2, <4>1 DEF MissingTradingDays
    <3>4. rows[r].exDate \in missing \cap (p + 1)..(d - 1)
      BY <2>3, <3>1, <3>3
    <3>5. QED
      BY <2>3, <3>4
  <2>6. QED
    BY <2>4, <2>5
<1>10. QED
  BY <1>8, <1>9

(* Each part of NoGapLeft, of one range. *)
THEOREM AdjustmentLeavesNoGap ==
  ASSUME NEW h \in Seq(DayRows), NEW percent \in Nat
  PROVE  NoGapLeft(h, percent)
<1>1. /\ Len(h) \in Nat /\ DOMAIN h = 1..Len(h)
  BY DaysAre
<1> SUFFICES
      ASSUME NEW from \in DOMAIN h, NEW end \in 2..(Len(h) + 1)
      PROVE  LET raw     == RawBars(h, from, end)
                 rows    == FactorsUntil(h, end)
                 post    == QueryBars(h, from, end, "PostAdjust")
                 all     == QueryBars(h, 1, Len(h) + 1, "PostAdjust")
                 missing == MissingTradingDays(h, raw, from, end - 1)
             IN  /\ \A adjustment \in {"PreAdjust", "PostAdjust"} :
                      LET prices == QueryBars(h, from, end, adjustment)
                      IN  \A i \in DOMAIN prices :
                            /\ i > 1 => prices[i].open = prices[i - 1].close
                            /\ LET now == Times(prices[i].close, Whole(prices[i].volume))
                                   was == Times(raw[i].close, Whole(raw[i].volume))
                               IN  ~Below(Over(prices[i].close, Whole(2)), Distance(now, was))
                 /\ \A i \in DOMAIN post : \E j \in DOMAIN all : post[i] = all[j]
                 /\ \A i \in DOMAIN raw \ {1} :
                      \/ ~Below(Ratio(percent, 100), Gap(raw, i))
                      \/ raw[i].day \in FlagAdjustmentGaps(raw, rows, percent)
                      \/ \E r \in DOMAIN rows :
                           rows[r].exDate \in missing \cap (raw[i - 1].day + 1)..(raw[i].day - 1)
  BY DEF NoGapLeft
<1> DEFINE raw     == RawBars(h, from, end)
           rows    == FactorsUntil(h, end)
           post    == QueryBars(h, from, end, "PostAdjust")
           whole   == RawBars(h, 1, Len(h) + 1)
           all     == QueryBars(h, 1, Len(h) + 1, "PostAdjust")
           missing == MissingTradingDays(h, raw, from, end - 1)
<1>2. from \in 1..Len(h) /\ 1 \in 1..Len(h) /\ Len(h) + 1 \in 2..(Len(h) + 1)
  BY <1>1
<1>3. RangeBars(raw, h, from, end) /\ RangeBars(whole, h, 1, Len(h) + 1)
  BY PricesAre DEF RangeBars
<1>5. ASSUME NEW adjustment \in {"PreAdjust", "PostAdjust"}
      PROVE  \E anchor : Anchored(h, raw, QueryBars(h, from, end, adjustment), anchor)
  BY <1>2, PricesAdjusted
<1>6. ASSUME NEW adjustment \in {"PreAdjust", "PostAdjust"},
             NEW i \in DOMAIN QueryBars(h, from, end, adjustment)
      PROVE  LET prices == QueryBars(h, from, end, adjustment)
             IN  /\ i > 1 => prices[i].open = prices[i - 1].close
                 /\ LET now == Times(prices[i].close, Whole(prices[i].volume))
                        was == Times(raw[i].close, Whole(raw[i].volume))
                    IN  ~Below(Over(prices[i].close, Whole(2)), Distance(now, was))
  <2> DEFINE prices == QueryBars(h, from, end, adjustment)
  <2>1. PICK anchor : Anchored(h, raw, prices, anchor)
    BY <1>5
  <2>2. i \in DOMAIN prices
    OBVIOUS
  <2> HIDE DEF raw, prices
  <2>3. /\ i > 1 => prices[i].open = prices[i - 1].close
        /\ ~Below(Over(prices[i].close, Whole(2)),
                  Distance(Times(prices[i].close, Whole(prices[i].volume)),
                           Times(raw[i].close, Whole(raw[i].volume))))
    BY <1>2, <1>3, <2>1, <2>2, AdjustedJoin
  <2>4. QED
    BY <2>3 DEF prices
<1>7. ASSUME NEW i \in DOMAIN post PROVE \E j \in DOMAIN all : post[i] = all[j]
  <2> DEFINE base == h[1].factor
  <2>1. DOMAIN post = DOMAIN raw /\ \A k \in DOMAIN raw : post[k] = AdjustedBar(h, raw[k].day, base)
    BY <1>2, PricesAdjusted DEF Anchored
  <2>2. DOMAIN all = DOMAIN whole /\ \A k \in DOMAIN whole : all[k] = AdjustedBar(h, whole[k].day, base)
    BY <1>2, PricesAdjusted DEF Anchored
  <2> HIDE DEF raw, whole, post, all, base
  <2>3. /\ DOMAIN raw = 1..Len(raw)
        /\ \A k \in 1..Len(raw) : raw[k].day \in TradedDays(h)
    BY <1>3 DEF RangeBars, PricesOf
  <2>4. raw[i].day \in TradedDays(h) /\ 1 <= raw[i].day /\ raw[i].day < Len(h) + 1
    BY <1>1, <2>1, <2>3 DEF TradedDays
  <2>5. PICK j \in DOMAIN whole : whole[j].day = raw[i].day
    BY <1>3, <2>4 DEF RangeBars, PricesOf
  <2>6. QED
    BY <2>1, <2>2, <2>5
<1>8. ASSUME NEW i \in DOMAIN raw \ {1}
      PROVE  \/ ~Below(Ratio(percent, 100), Gap(raw, i))
             \/ raw[i].day \in FlagAdjustmentGaps(raw, rows, percent)
             \/ \E r \in DOMAIN rows :
                  rows[r].exDate \in missing \cap (raw[i - 1].day + 1)..(raw[i].day - 1)
  <2>1. rows = FactorsUntil(h, end)
    OBVIOUS
  <2> HIDE DEF raw, rows
  <2>2. QED
    BY <1>2, <1>3, <2>1, GapsExplained
<1> HIDE DEF raw, rows, post, whole, all, missing
<1>9. QED
  BY <1>6, <1>7, <1>8 DEF raw, rows, post, all, missing

(* Every query of every history that grows day by day leaves no gap.        *)
THEOREM SplitsSound == HistorySpec => []SplitsLeaveNoGap
<1>1. HistoryInit => daily \in Seq(DayRows)
  BY EmptySeq DEF HistoryInit
<1>2. daily \in Seq(DayRows) /\ [HistoryNext]_daily => (daily \in Seq(DayRows))'
  <2> SUFFICES ASSUME daily \in Seq(DayRows), [HistoryNext]_daily PROVE daily' \in Seq(DayRows)
    OBVIOUS
  <2>1. ASSUME NEW kind \in DayKinds, AddDay(kind) PROVE daily' \in Seq(DayRows)
    <3>1. kind \in DayRows
      BY HistoryAssumption DEF DayRows
    <3>2. QED
      BY <2>1, <3>1, AppendProperties DEF AddDay
  <2>2. QED
    BY <2>1 DEF HistoryNext
<1>3. daily \in Seq(DayRows) => SplitsLeaveNoGap
  <2>1. 20 \in Nat
    OBVIOUS
  <2>2. QED
    BY <2>1, AdjustmentLeavesNoGap DEF SplitsLeaveNoGap
<1>4. QED
  BY <1>1, <1>2, <1>3, PTL DEF HistorySpec

=============================================================================
