------------------------ MODULE MockExecution_proofs ------------------------
(***************************************************************************)
(* Theorems about the paper-trading engine, for any symbols, requests,     *)
(* feed, fees, lot size and number of orders; at the end, about the vector *)
(* of lots under its account.                                              *)
(***************************************************************************)
EXTENDS MockExecution, LotBook, Sums_proofs, SequenceTheorems

-----------------------------------------------------------------------------
(***************************************************************************)
(* Holdings and fees: what a buy adds, what a first-in first-out sale      *)
(* takes, and what a new trading day unlocks.                              *)
(***************************************************************************)

(* Arithmetic and types of the account's operators. *)

LEMMA FeesType ==
  ASSUME NEW n \in Nat PROVE Fees(n) \in Nat
BY FeeAssumption DEF Fees

LEMMA ProductType ==
  ASSUME NEW a \in Nat, NEW b \in Nat PROVE a * b \in Nat
OBVIOUS

LEMMA IntFeesType ==
  ASSUME NEW n \in Int PROVE Fees(n) \in Int
BY FeeAssumption DEF Fees

LEMMA NoLotsType == NoLots \in Lots
BY DEF NoLots, Lots

LEMMA ConsumeFifoType ==
  ASSUME NEW held \in Lots, NEW q \in Nat, NEW date,
         NEW rest \in ConsumeFifo(held, q, date)
  PROVE  rest \in Lots
<1>1. PICK take \in [Buckets -> 0..q] :
        /\ IsFifoTake(held, take, q, date)
        /\ rest = [b \in Buckets |-> held[b] - take[b]]
  BY DEF ConsumeFifo
<1>2. \A b \in Buckets : take[b] <= held[b]
  BY <1>1 DEF IsFifoTake
<1>3. ASSUME NEW b \in Buckets PROVE held[b] - take[b] \in Nat
  BY <1>1, <1>2 DEF Lots
<1>4. QED
  BY <1>1, <1>3 DEF Lots

LEMMA BucketsFinite == IsFiniteSet(Buckets)
<1>1. IsFiniteSet(Days)
  BY MaxDayAssumption, FS_Interval DEF Days
<1>2. IsFiniteSet({TRUE}) /\ BOOLEAN = {TRUE} \cup {FALSE}
  BY FS_Singleton
<1>3. IsFiniteSet(BOOLEAN)
  BY <1>2, FS_AddElement
<1>4. QED
  BY <1>1, <1>3, FS_Product DEF Buckets

LEMMA AvailableType ==
  ASSUME NEW held \in Lots, NEW date
  PROVE  Available(held, date) \in Nat
<1>1. IsFiniteSet(Buckets \ Locked(date))
  BY BucketsFinite, FS_Difference
<1>2. \A b \in Buckets \ Locked(date) : held[b] \in Nat
  BY DEF Lots
<1>3. QED
  BY <1>1, <1>2, SumType DEF Available

LEMMA AddLotType ==
  ASSUME NEW held \in Lots, NEW date \in Days, NEW t0 \in BOOLEAN, NEW q \in Nat
  PROVE  AddLot(held, date, t0, q) \in Lots
BY DEF AddLot, Lots, Buckets

-----------------------------------------------------------------------------
(* Every share is either locked on a day or available on it. *)
LEMMA AvailableSplit ==
  ASSUME NEW held \in Lots, NEW date \in Days
  PROVE  /\ Total(held) = Available(held, date) + held[<<date, FALSE>>]
         /\ Total(held) \in Nat /\ Available(held, date) \in Nat
         /\ held[<<date, FALSE>>] \in Nat
<1>1. /\ <<date, FALSE>> \in Buckets /\ IsFiniteSet(Buckets)
      /\ \A b \in Buckets : held[b] \in Nat
  BY BucketsFinite DEF Buckets, Lots
<1>2. SumOver(held, Buckets)
        = SumOver(held, Buckets \ {<<date, FALSE>>}) + held[<<date, FALSE>>]
  BY <1>1, SumSplit
<1>3. Total(held) \in Nat
  BY <1>1, SumType DEF Total
<1>4. QED
  BY <1>1, <1>2, <1>3, AvailableType DEF Total, Available, Locked

LEMMA NoLotsTotal == Total(NoLots) = 0
<1>1. \A b \in Buckets : NoLots[b] \in Nat /\ NoLots[b] = NoLots[b] + NoLots[b]
  BY DEF NoLots
<1>2. Total(NoLots) = Total(NoLots) + Total(NoLots)
  BY <1>1, BucketsFinite, SumAdd DEF Total
<1>3. Total(NoLots) \in Nat
  BY <1>1, BucketsFinite, SumType DEF Total
<1>4. \A n \in Nat : n = n + n => n = 0
  OBVIOUS
<1>5. QED
  BY <1>2, <1>3, <1>4

(* A buy adds its shares; none of those available before is lost by it. *)
LEMMA AddLotTotals ==
  ASSUME NEW held \in Lots, NEW date \in Days, NEW t0 \in BOOLEAN, NEW q \in Nat
  PROVE  /\ Total(AddLot(held, date, t0, q)) = Total(held) + q
         /\ Available(AddLot(held, date, t0, q), date) >= Available(held, date)
<1> DEFINE new == AddLot(held, date, t0, q)
<1>1. new \in Lots
  BY AddLotType
<1>2. /\ <<date, t0>> \in Buckets /\ IsFiniteSet(Buckets)
      /\ \A b \in Buckets : held[b] \in Nat /\ new[b] \in Nat
      /\ \A b \in Buckets : b # <<date, t0>> => new[b] = held[b]
      /\ new[<<date, t0>>] = held[<<date, t0>>] + q
      /\ <<date, FALSE>> \in Buckets
  BY <1>1, BucketsFinite DEF Buckets, Lots, AddLot
<1> HIDE DEF new
<1>3. Total(new) = Total(held) - held[<<date, t0>>] + new[<<date, t0>>]
  BY <1>2, SumChange DEF Total
<1>4. /\ Total(new) = Available(new, date) + new[<<date, FALSE>>]
      /\ Total(held) = Available(held, date) + held[<<date, FALSE>>]
      /\ Total(held) \in Nat /\ Available(new, date) \in Nat
      /\ Available(held, date) \in Nat /\ held[<<date, FALSE>>] \in Nat
  BY <1>1, AvailableSplit
<1>5. Total(new) = Total(held) + q
  BY <1>2, <1>3, <1>4
<1>6. Available(new, date) >= Available(held, date)
  <2>1. CASE t0 = FALSE
    BY <1>2, <1>4, <1>5, <2>1
  <2>2. CASE t0 # FALSE
    <3>1. new[<<date, FALSE>>] = held[<<date, FALSE>>]
      BY <1>2, <2>2
    <3>2. QED
      BY <1>4, <1>5, <3>1
  <2>3. QED
    BY <2>1, <2>2
<1>7. QED
  BY <1>5, <1>6 DEF new

(* A sale takes what it asked for, or all there is, and nothing locked. *)
LEMMA ConsumeFifoTotals ==
  ASSUME NEW held \in Lots, NEW date \in Days, NEW q \in Nat,
         NEW rest \in ConsumeFifo(held, q, date)
  PROVE  LET taken == Lesser(q, Available(held, date))
         IN  /\ Total(rest) = Total(held) - taken
             /\ Available(rest, date) = Available(held, date) - taken
             /\ rest[<<date, FALSE>>] = held[<<date, FALSE>>]
<1> DEFINE taken == Lesser(q, Available(held, date))
<1>1. PICK take \in [Buckets -> 0..q] :
        /\ IsFifoTake(held, take, q, date)
        /\ rest = [b \in Buckets |-> held[b] - take[b]]
  BY DEF ConsumeFifo
<1>2. /\ <<date, FALSE>> \in Buckets
      /\ \A b \in Buckets : take[b] <= held[b] /\ take[b] \in Nat
      /\ take[<<date, FALSE>>] = 0
      /\ Total(take) = taken
  <2>1. <<date, FALSE>> \in Locked(date) \cap Buckets
    BY DEF Buckets, Locked
  <2>2. QED
    BY <1>1, <2>1 DEF IsFifoTake
<1>3. rest \in Lots
  BY ConsumeFifoType
<1>4. \A b \in Buckets :
        rest[b] \in Nat /\ take[b] \in Nat /\ held[b] = rest[b] + take[b]
  BY <1>1, <1>2, <1>3 DEF Lots
<1>5. Total(held) = Total(rest) + Total(take)
  BY <1>4, BucketsFinite, SumAdd DEF Total
<1>6. rest[<<date, FALSE>>] = held[<<date, FALSE>>]
  BY <1>2, <1>4
<1>7. /\ Total(rest) = Available(rest, date) + rest[<<date, FALSE>>]
      /\ Total(held) = Available(held, date) + held[<<date, FALSE>>]
      /\ Total(held) \in Nat /\ Total(rest) \in Nat /\ Available(rest, date) \in Nat
      /\ Available(held, date) \in Nat /\ held[<<date, FALSE>>] \in Nat
  BY <1>3, AvailableSplit
<1>8. taken \in Nat
  BY <1>7 DEF Lesser
<1> HIDE DEF taken
<1>9. /\ Total(rest) = Total(held) - taken
      /\ Available(rest, date) = Available(held, date) - taken
  BY <1>2, <1>5, <1>6, <1>7, <1>8
<1>10. QED
  BY <1>6, <1>9 DEF taken

(* When no lot is younger than day d, a later day locks nothing. *)
LEMMA LaterDayUnlocks ==
  ASSUME NEW held \in Lots, NEW d \in Days, NEW e \in Days, d <= e,
         \A b \in Buckets : held[b] > 0 => b[1] <= d
  PROVE  Available(held, e) >= Available(held, d)
<1>1. CASE e = d
  BY <1>1, AvailableType
<1>2. CASE e # d
  <2>1. e > d /\ d \in Nat /\ e \in Nat
    BY <1>2, MaxDayAssumption DEF Days
  <2>2. held[<<e, FALSE>>] = 0
    <3>1. <<e, FALSE>> \in Buckets
      BY DEF Buckets
    <3>2. held[<<e, FALSE>>] \in Nat
      BY <3>1 DEF Lots
    <3>3. QED
      BY <2>1, <3>1, <3>2
  <2>3. /\ Total(held) = Available(held, e) + held[<<e, FALSE>>]
        /\ Total(held) = Available(held, d) + held[<<d, FALSE>>]
        /\ Available(held, e) \in Nat /\ Available(held, d) \in Nat
        /\ held[<<d, FALSE>>] \in Nat
    BY AvailableSplit
  <2>4. QED
    BY <2>2, <2>3
<1>3. QED
  BY <1>1, <1>2

-----------------------------------------------------------------------------
(* The tables of the engine *)

LEMMA PutType ==
  ASSUME NEW K, NEW V, NEW map, DOMAIN map \subseteq K, map \in [DOMAIN map -> V],
         NEW key \in K, NEW value \in V
  PROVE  /\ DOMAIN Put(map, key, value) = DOMAIN map \cup {key}
         /\ DOMAIN Put(map, key, value) \subseteq K
         /\ Put(map, key, value) \in [DOMAIN Put(map, key, value) -> V]
BY DEF Put

LEMMA DropType ==
  ASSUME NEW K, NEW V, NEW map, DOMAIN map \subseteq K, map \in [DOMAIN map -> V],
         NEW key
  PROVE  /\ DOMAIN Drop(map, key) = DOMAIN map \ {key}
         /\ DOMAIN Drop(map, key) \subseteq K
         /\ Drop(map, key) \in [DOMAIN Drop(map, key) -> V]
BY DEF Drop, Restrict

-----------------------------------------------------------------------------
LEMMA RequiredType ==
  ASSUME TypeOK, NEW i \in Intents
  PROVE  Required(i) \in Nat
<1>1. i.price # Market => i.price \in Nat
  BY ExecutionAssumption DEF Intents
<1>2. i.sym \in DOMAIN latest => latest[i.sym].ask \in Nat
  BY ExecutionAssumption DEF TypeOK, Quotes
<1>3. EstimatedPrice(i) \in Nat
  BY <1>1, <1>2 DEF EstimatedPrice
<1>4. EstimatedPrice(i) * i.qty \in Nat
  BY <1>3, ProductType DEF Intents
<1>5. Fees(EstimatedPrice(i) * i.qty) \in Nat
  BY <1>4, FeesType
<1>6. QED
  BY <1>4, <1>5 DEF Required

-----------------------------------------------------------------------------
(* submit: a new order enters the book. *)

OrderAdded(o, i) ==
  /\ DOMAIN orders' = DOMAIN orders \cup {o}
  /\ o \notin DOMAIN orders
  /\ orders'[o].intent = i /\ orders'[o].status = "New" /\ orders'[o].filled = 0
  /\ \A x \in DOMAIN orders : orders'[x] = orders[x]
  /\ orders' \in [DOMAIN orders' -> Orders]

ReservationAdded(o, i) ==
  /\ DOMAIN reservations' = DOMAIN reservations \cup {o}
  /\ reservations'[o].cash = Required(i)
  /\ reservations'[o].sell = IF i.side = "Sell" THEN i.qty ELSE 0
  /\ reservations'[o].orig = i.qty
  /\ \A x \in DOMAIN reservations : x # o => reservations'[x] = reservations[x]
  /\ reservations' \in [DOMAIN reservations' -> Reservations]

LEMMA EnterOrders ==
  ASSUME TypeOK, NEW o \in OrderIds, NEW i \in Intents, i.qty > 0, Enter(o, i)
  PROVE  OrderAdded(o, i)
BY DEF Enter, Put, TypeOK, Orders, LiveStatus, OrderAdded

LEMMA EnterReservations ==
  ASSUME TypeOK, NEW o \in OrderIds, NEW i \in Intents, i.qty > 0, Enter(o, i)
  PROVE  ReservationAdded(o, i)
<1>1. Required(i) \in Nat
  BY RequiredType
<1>2. i.qty \in Nat \ {0}
  BY DEF Intents
<1>3. QED
  BY <1>1, <1>2 DEF Enter, Put, TypeOK, Reservations, ReservationAdded

LEMMA EnterType ==
  ASSUME TypeOK, NEW o \in OrderIds, NEW i \in Intents, i.qty > 0, Enter(o, i),
         hardIntents' \subseteq Intents, fills' = fills, snap' = snap,
         pc # "matching", pc' \in {"idle", "persisting", "exiting", "stopped"}
  PROVE  TypeOK'
<1>1. orders' \in [DOMAIN orders' -> Orders] /\ DOMAIN orders' \subseteq OrderIds
  BY EnterOrders DEF TypeOK, OrderAdded
<1>2. /\ reservations' \in [DOMAIN reservations' -> Reservations]
      /\ DOMAIN reservations' \subseteq OrderIds
  BY EnterReservations DEF TypeOK, ReservationAdded
<1>3. cash' \in Int /\ lots' \in [Symbols -> Lots] /\ frozen' \in Nat
  BY RequiredType DEF Enter, TypeOK
<1>4. reservedSell' \in [Symbols -> Nat]
  BY DEF Enter, TypeOK, Intents
<1>5. /\ DOMAIN latest' \subseteq Symbols /\ latest' \in [DOMAIN latest' -> Quotes]
      /\ DOMAIN meta' \subseteq Symbols /\ meta' \in [DOMAIN meta' -> MetaKinds]
      /\ hardExit' \subseteq Symbols /\ today' \in Days
  BY DEF Enter, market, TypeOK
<1>6. QED
  BY <1>1, <1>2, <1>3, <1>4, <1>5 DEF TypeOK

LEMMA EnterBook ==
  ASSUME IInv, NEW o \in OrderIds, NEW i \in Intents, i.qty > 0, Enter(o, i)
  PROVE  ReservationsFollowOrders' /\ OrdersConsistent'
<1>1. i.qty \in Nat /\ i.side \in Sides
  BY DEF Intents
<1>2. OrderAdded(o, i) /\ ReservationAdded(o, i)
  BY EnterOrders, EnterReservations DEF IInv
<1>3. ReservationsFollowOrders /\ OrdersConsistent
  BY DEF IInv
<1>4. ReservationsFollowOrders'
  <2>1. DOMAIN reservations' = {x \in DOMAIN orders' : Live(x)'}
    BY <1>2, <1>3
    DEF ReservationsFollowOrders, OrderAdded, ReservationAdded, Live, LiveStatus
  <2>2. ASSUME NEW x \in DOMAIN reservations'
        PROVE  LET j == orders'[x].intent
                   r == reservations'[x]
               IN  /\ r.orig = j.qty
                   /\ j.side = "Sell" => r.sell = Remaining(x)' /\ r.cash = 0
                   /\ j.side = "Buy"  => r.sell = 0
    <3>1. CASE x = o
      BY <1>1, <1>2, <3>1 DEF OrderAdded, ReservationAdded, Remaining, Required
    <3>2. CASE x # o
      BY <1>2, <1>3, <3>2
      DEF ReservationsFollowOrders, OrderAdded, ReservationAdded, Remaining
    <3>3. QED
      BY <3>1, <3>2
  <2>3. QED
    BY <2>1, <2>2 DEF ReservationsFollowOrders
<1>5. OrdersConsistent'
  BY <1>1, <1>2, <1>3 DEF OrdersConsistent, OrderAdded, Remaining
<1>6. QED
  BY <1>4, <1>5

LEMMA SubmitStep ==
  ASSUME IInv, NEW o \in ClientIds, NEW i \in Requests, Submit(o, i)
  PROVE  IInv'
<1>1. o \in OrderIds /\ i \in Intents /\ ~i.hard
  BY ExecutionAssumption DEF OrderIds
<1>2. i.qty > 0 /\ Enter(o, i) /\ pc # "matching"
  BY DEF Submit, Accepts, WholeLots, Unlocked
<1>3. OrderAdded(o, i) /\ TypeOK /\ ExitsRemembered /\ ExitsLatched
  BY <1>1, <1>2, EnterOrders DEF IInv
<1>4. TypeOK'
  BY <1>1, <1>2, EnterType DEF Submit, pump, IInv, TypeOK
<1>5. ReservationsFollowOrders' /\ OrdersConsistent'
  BY <1>1, <1>2, EnterBook
<1>6. hardExit' = hardExit /\ hardIntents' = hardIntents
  BY <1>2 DEF Enter, market, Submit, pump
<1>7. ExitsRemembered'
  BY <1>3, <1>1, <1>6 DEF OrderAdded, ExitsRemembered
<1>8. \A s \in Symbols : HardOrders(s)' = HardOrders(s)
  BY <1>3, <1>1 DEF OrderAdded, HardOrders
<1>9. ExitsLatched'
  BY <1>6, <1>8 DEF IInv, ExitsLatched
<1>10. QED
  BY <1>4, <1>5, <1>7, <1>9 DEF IInv

LEMMA SubmitHardExitStep ==
  ASSUME IInv, NEW i \in hardIntents, NEW o \in PumpIds, SubmitHardExit(o, i)
  PROVE  IInv'
<1>1. o \in OrderIds /\ i \in Intents /\ i.hard /\ i.sym \in hardExit
  BY DEF OrderIds, IInv, TypeOK, ExitsRemembered
<1>2. i.qty > 0 /\ Enter(o, i) /\ pc # "matching"
  BY DEF SubmitHardExit, Accepts, WholeLots
<1>3. OrderAdded(o, i) /\ TypeOK /\ ExitsRemembered /\ ExitsLatched
  BY <1>1, <1>2, EnterOrders DEF IInv
<1>4. TypeOK'
  BY <1>1, <1>2, EnterType DEF SubmitHardExit, IInv, TypeOK
<1>5. ReservationsFollowOrders' /\ OrdersConsistent'
  BY <1>1, <1>2, EnterBook
<1>6. hardExit' = hardExit /\ hardIntents' = {}
  BY <1>2 DEF Enter, market, SubmitHardExit
<1>7. ExitsRemembered'
  BY <1>3, <1>1, <1>6 DEF OrderAdded, ExitsRemembered
<1>8. \A s \in Symbols :
        HardOrders(s)' = IF s = i.sym THEN HardOrders(s) \cup {o} ELSE HardOrders(s)
  BY <1>3, <1>1 DEF OrderAdded, HardOrders
<1>9. i.sym \in Symbols /\ HardOrders(i.sym) = {}
  BY <1>1 DEF IInv, ExitsLatched, Intents
<1>10. ExitsLatched'
  BY <1>6, <1>8, <1>9 DEF IInv, ExitsLatched
<1>11. QED
  BY <1>4, <1>5, <1>7, <1>10 DEF IInv

-----------------------------------------------------------------------------
(* cancel *)

LEMMA CancelStep ==
  ASSUME IInv, NEW o \in OrderIds, Cancel(o)
  PROVE  IInv'
<1> USE DEF IInv
<1>1. /\ o \in DOMAIN orders /\ Live(o)
      /\ DOMAIN orders' = DOMAIN orders
      /\ \A x \in DOMAIN orders : /\ orders'[x].intent = orders[x].intent
                                  /\ orders'[x].filled = orders[x].filled
                                  /\ x # o => orders'[x] = orders[x]
      /\ orders'[o].status = "Cancelled"
      /\ orders' \in [DOMAIN orders' -> Orders]
  BY DEF Cancel, TypeOK, Orders, FinalStatus
<1>2. o \in DOMAIN reservations
  BY <1>1 DEF ReservationsFollowOrders
<1>3. reservations' = Drop(reservations, o)
  BY <1>2 DEF Cancel
<1>4. /\ DOMAIN reservations' = DOMAIN reservations \ {o}
      /\ \A x \in DOMAIN reservations' : reservations'[x] = reservations[x]
  BY <1>3 DEF Drop, Restrict
<1>5. TypeOK'
  <2>1. reservations[o] \in Reservations /\ orders[o].intent.sym \in Symbols
    BY <1>1, <1>2 DEF TypeOK, Orders, Intents
  <2>2. frozen' \in Nat /\ reservedSell' \in [Symbols -> Nat]
    BY <1>2, <2>1 DEF Cancel, AtLeastZero, TypeOK, Reservations
  <2>3. /\ DOMAIN reservations' \subseteq OrderIds
        /\ reservations' \in [DOMAIN reservations' -> Reservations]
    BY <1>3, DropType DEF TypeOK
  <2>4. DOMAIN orders' \subseteq OrderIds /\ orders' \in [DOMAIN orders' -> Orders]
    BY <1>1 DEF TypeOK
  <2>5. QED
    BY <2>2, <2>3, <2>4 DEF Cancel, market, pump, TypeOK
<1>6. ReservationsFollowOrders'
  BY <1>1, <1>4 DEF ReservationsFollowOrders, Live, LiveStatus, Remaining
<1>7. OrdersConsistent'
  BY <1>1 DEF OrdersConsistent, Remaining, Live, LiveStatus
<1>8. hardExit' = hardExit /\ hardIntents' = hardIntents
  BY DEF Cancel, market, pump
<1>9. ExitsRemembered'
  BY <1>1, <1>8 DEF ExitsRemembered
<1>10. \A s \in Symbols : HardOrders(s)' = HardOrders(s)
  BY <1>1 DEF HardOrders
<1>11. ExitsLatched'
  BY <1>8, <1>10 DEF ExitsLatched
<1>12. QED
  BY <1>5, <1>6, <1>7, <1>9, <1>11

-----------------------------------------------------------------------------
(* on_snapshot: the steps that leave the book alone *)

LEMMA BookUnchanged ==
  ASSUME IInv, UNCHANGED book
  PROVE  ReservationsFollowOrders' /\ OrdersConsistent'
BY DEF IInv, book, ReservationsFollowOrders, OrdersConsistent, Live, Remaining

LEMMA ExitsUnchanged ==
  ASSUME IInv, UNCHANGED book, UNCHANGED hardExit, hardIntents' \subseteq hardIntents
  PROVE  ExitsRemembered' /\ ExitsLatched'
BY DEF IInv, book, ExitsRemembered, ExitsLatched, HardOrders

LEMMA SetInstrumentMetaStep ==
  ASSUME IInv, NEW s \in Symbols, NEW kind \in MetaKinds, SetInstrumentMeta(s, kind)
  PROVE  IInv'
<1>1. DOMAIN meta \subseteq Symbols /\ meta \in [DOMAIN meta -> MetaKinds]
  BY DEF IInv, TypeOK
<1>2. /\ DOMAIN Put(meta, s, kind) \subseteq Symbols
      /\ Put(meta, s, kind) \in [DOMAIN Put(meta, s, kind) -> MetaKinds]
  BY <1>1, PutType
<1>3. TypeOK'
  BY <1>2 DEF SetInstrumentMeta, IInv, TypeOK, account, book, pump
<1>4. QED
  BY <1>3, BookUnchanged, ExitsUnchanged DEF SetInstrumentMeta, IInv, pump

LEMMA BeginSnapshotStep ==
  ASSUME IInv, NEW sn \in Feed, BeginSnapshot(sn)
  PROVE  IInv'
<1>1. sn \in Snapshots /\ sn.sym \in Symbols /\ sn.date \in Days
  BY ExecutionAssumption DEF Snapshots
<1>2. [date |-> sn.date, ask |-> sn.ask] \in Quotes
  BY <1>1 DEF Snapshots, Quotes
<1>3. /\ DOMAIN latest \subseteq Symbols /\ latest \in [DOMAIN latest -> Quotes]
      /\ DOMAIN meta \subseteq Symbols /\ meta \in [DOMAIN meta -> MetaKinds]
      /\ "stock" \in MetaKinds
  BY DEF IInv, TypeOK, MetaKinds
<1>4. DOMAIN latest' \subseteq Symbols /\ latest' \in [DOMAIN latest' -> Quotes]
  <2> DEFINE new == Put(latest, sn.sym, [date |-> sn.date, ask |-> sn.ask])
  <2>1. DOMAIN new \subseteq Symbols /\ new \in [DOMAIN new -> Quotes]
    BY <1>1, <1>2, <1>3 DEF Put
  <2>2. latest' = new
    BY DEF BeginSnapshot
  <2>3. QED
    BY <2>1, <2>2
<1>5. DOMAIN meta' \subseteq Symbols /\ meta' \in [DOMAIN meta' -> MetaKinds]
  <2> DEFINE new == Put(meta, sn.sym, "stock")
  <2>1. DOMAIN new \subseteq Symbols /\ new \in [DOMAIN new -> MetaKinds]
    BY <1>1, <1>3 DEF Put
  <2>2. meta' = meta \/ meta' = new
    BY DEF BeginSnapshot
  <2>3. QED
    BY <1>3, <2>1, <2>2
<1>6. TypeOK'
  BY <1>1, <1>4, <1>5 DEF BeginSnapshot, IInv, TypeOK, account, book
<1>7. QED
  BY <1>6, BookUnchanged, ExitsUnchanged DEF BeginSnapshot, IInv

LEMMA HardExitIntentsType ==
  ASSUME IInv, pc = "matching"
  PROVE  /\ HardExitIntents \subseteq Intents
         /\ \A i, j \in HardExitIntents : i = j
         /\ \A i \in HardExitIntents :
              i.hard /\ i.sym \in Symbols /\ i.sym \notin hardExit
<1>1. snap \in Snapshots /\ snap.sym \in Symbols
  BY DEF IInv, TypeOK, Snapshots
<1>2. lots[snap.sym] \in Lots
  BY <1>1 DEF IInv, TypeOK
<1>3. Available(lots[snap.sym], snap.date) \in Nat
  BY <1>2, AvailableType
<1>4. CASE HardExitIntents = {}
  BY <1>4
<1>5. CASE HardExitIntents # {}
  <2> DEFINE i == [sym |-> snap.sym, side |-> "Sell", price |-> Market,
                   qty |-> Available(lots[snap.sym], snap.date),
                   t0 |-> FALSE, hard |-> TRUE]
  <2>1. HardExitIntents = {i} /\ snap.sym \notin hardExit
    BY <1>5 DEF HardExitIntents
  <2>2. i \in Intents
    BY <1>1, <1>3 DEF Intents, Sides
  <2>3. i.hard /\ i.sym = snap.sym
    OBVIOUS
  <2> HIDE DEF i
  <2>4. QED
    BY <1>1, <2>1, <2>2, <2>3
<1>6. QED
  BY <1>4, <1>5

LEMMA EndMatchingStep ==
  ASSUME IInv, EndMatching
  PROVE  IInv'
<1>1. /\ HardExitIntents \subseteq Intents
      /\ \A i, j \in HardExitIntents : i = j
      /\ \A i \in HardExitIntents :
           i.hard /\ i.sym \in Symbols /\ i.sym \notin hardExit
  BY HardExitIntentsType DEF EndMatching
<1>2. /\ hardIntents' = HardExitIntents
      /\ hardExit' = hardExit \cup {i.sym : i \in HardExitIntents}
      /\ UNCHANGED book
  BY DEF EndMatching
<1>3. TypeOK'
  BY <1>1, <1>2 DEF EndMatching, NextStage, IInv, TypeOK, account, book
<1>4. ReservationsFollowOrders' /\ OrdersConsistent'
  BY <1>2, BookUnchanged
<1>5. ExitsRemembered'
  BY <1>1, <1>2 DEF book, IInv, ExitsRemembered
<1>6. \A s \in Symbols : HardOrders(s)' = HardOrders(s)
  BY <1>2 DEF book, HardOrders
<1>7. \A i \in HardExitIntents : HardOrders(i.sym) = {}
  BY <1>1 DEF IInv, ExitsRemembered, HardOrders
<1>8. ExitsLatched'
  BY <1>1, <1>2, <1>6, <1>7 DEF IInv, ExitsLatched
<1>9. QED
  BY <1>3, <1>4, <1>5, <1>8 DEF IInv

LEMMA PersistFillStep ==
  ASSUME IInv, NEW o \in OrderIds, PersistFill(o)
  PROVE  IInv'
<1>1. TypeOK'
  BY DEF PersistFill, NextStage, IInv, TypeOK, account, book, market
<1>2. UNCHANGED book /\ UNCHANGED hardExit /\ hardIntents' \subseteq hardIntents
  BY DEF PersistFill, market
<1>3. QED
  BY <1>1, <1>2, BookUnchanged, ExitsUnchanged DEF IInv

LEMMA RejectHardExitStep ==
  ASSUME IInv, NEW i \in hardIntents, RejectHardExit(i)
  PROVE  IInv'
<1>1. TypeOK'
  BY DEF RejectHardExit, IInv, TypeOK, account, book, market
<1>2. UNCHANGED book /\ UNCHANGED hardExit /\ hardIntents' \subseteq hardIntents
  BY DEF RejectHardExit, market
<1>3. QED
  BY <1>1, <1>2, BookUnchanged, ExitsUnchanged DEF IInv

-----------------------------------------------------------------------------
(* on_snapshot: one order is filled *)

LEMMA MatchedSharesType ==
  ASSUME IInv, pc = "matching", NEW o \in DOMAIN orders, MatchedShares(o) > 0
  PROVE  /\ MatchedShares(o) \in Nat \ {0} /\ MatchedShares(o) <= Remaining(o)
         /\ Live(o)
<1>1. orders[o] \in Orders /\ snap \in Snapshots
  BY DEF IInv, TypeOK
<1>2. Remaining(o) \in Int
  BY <1>1 DEF Remaining, Orders, Intents
<1>3. BookShares(orders[o].intent.side) \in Nat
  BY <1>1 DEF BookShares, Snapshots
<1>4. QED
  BY <1>2, <1>3 DEF MatchedShares, AtLeastZero, Lesser

OrderFilled(o, q) ==
  /\ DOMAIN orders' = DOMAIN orders
  /\ orders'[o].intent = orders[o].intent
  /\ orders'[o].filled = orders[o].filled + q
  /\ orders'[o].status = IF orders[o].filled + q >= orders[o].intent.qty
                         THEN "Filled" ELSE "PartiallyFilled"
  /\ \A x \in DOMAIN orders : x # o => orders'[x] = orders[x]
  /\ orders' \in [DOMAIN orders' -> Orders]

LEMMA FillOrders ==
  ASSUME TypeOK, NEW o \in DOMAIN orders, NEW q \in Nat, FillOrder(o, q)
  PROVE  OrderFilled(o, q)
<1> DEFINE final == IF orders[o].filled + q >= orders[o].intent.qty
                    THEN "Filled" ELSE "PartiallyFilled"
<1>1. orders \in [DOMAIN orders -> Orders] /\ orders[o] \in Orders
  BY DEF TypeOK
<1>2. orders' = [orders EXCEPT ![o].filled = @ + q, ![o].status = final]
  BY DEF FillOrder, Completes
<1>3. orders[o].filled + q \in Nat /\ final \in LiveStatus \cup FinalStatus
  BY <1>1 DEF Orders, LiveStatus, FinalStatus
<1>4. /\ DOMAIN orders' = DOMAIN orders
      /\ orders'[o] = [orders[o] EXCEPT !.filled = @ + q, !.status = final]
      /\ \A x \in DOMAIN orders : x # o => orders'[x] = orders[x]
  BY <1>1, <1>2
<1>5. orders'[o] \in Orders
  BY <1>1, <1>3, <1>4 DEF Orders
<1>6. orders' \in [DOMAIN orders' -> Orders]
  BY <1>1, <1>2, <1>4, <1>5
<1>7. QED
  BY <1>1, <1>4, <1>6 DEF OrderFilled, Orders

(* Decimal division: the nearest unit, whichever way a half goes. *)
LEMMA QuotientRounded ==
  ASSUME NEW a \in Nat, NEW n \in Nat \ {0}
  PROVE  /\ RoundDp(a, n) \in Nat
         /\ 2 * (n * RoundDp(a, n)) - 2 * a <= n
         /\ 2 * a - 2 * (n * RoundDp(a, n)) <= n
<1> DEFINE q == a \div n
           r == a % n
           x == RoundDp(a, n)
<1>1. /\ q \in Nat /\ r \in Nat /\ r < n
      /\ a = n * q + r
  OBVIOUS
<1>2. (x = q /\ 2 * r <= n) \/ (x = q + 1 /\ 2 * r >= n)
  <2>1. x = IF 2 * r < n \/ (2 * r = n /\ q % 2 = 0) THEN q ELSE q + 1
    BY DEF RoundDp
  <2> HIDE DEF q, r, x
  <2>2. QED
    BY <1>1, <2>1
<1> HIDE DEF q, r, x
<1>3. n * (q + 1) = n * q + n /\ n * q \in Nat
  BY <1>1
<1>4. CASE x = q /\ 2 * r <= n
  BY <1>1, <1>3, <1>4 DEF x
<1>5. CASE x = q + 1 /\ 2 * r >= n
  BY <1>1, <1>3, <1>5 DEF x
<1>6. QED
  BY <1>2, <1>4, <1>5

(* What is released and what stays reserved are natural numbers. *)
LEMMA ReleasedType ==
  ASSUME TypeOK, NEW o \in DOMAIN orders, o \in DOMAIN reservations, NEW q \in Nat
  PROVE  /\ Released(o, q) \in Nat /\ CashKept(o, q) \in Nat
         /\ SharesKept(o, q) \in Nat
         /\ orders[o].intent.side = "Sell" => Released(o, q) = 0
<1>1. /\ reservations[o].cash \in Nat /\ reservations[o].sell \in Nat
      /\ reservations[o].orig \in Nat \ {0}
  BY DEF TypeOK, Reservations
<1>2. reservations[o].cash * q \in Nat
  BY <1>1, ProductType
<1>3. RoundDp(reservations[o].cash * q, reservations[o].orig) \in Nat
  BY <1>1, <1>2, QuotientRounded
<1>4. Released(o, q) \in Nat
  BY <1>3 DEF Released
<1>5. CashKept(o, q) \in Nat /\ SharesKept(o, q) \in Nat
  BY <1>1, <1>4 DEF CashKept, SharesKept, AtLeastZero
<1>6. QED
  BY <1>4, <1>5 DEF Released

(* The reservation shrinks with a partial fill and goes with the last one. *)
ReservationFilled(o, q) ==
  /\ DOMAIN reservations' =
       IF Completes(o, q) THEN DOMAIN reservations \ {o} ELSE DOMAIN reservations
  /\ \A x \in DOMAIN reservations' : x # o => reservations'[x] = reservations[x]
  /\ ~Completes(o, q) =>
       /\ reservations'[o].cash = CashKept(o, q)
       /\ reservations'[o].sell = SharesKept(o, q)
       /\ reservations'[o].orig = reservations[o].orig
  /\ reservations' \in [DOMAIN reservations' -> Reservations]
  /\ frozen' \in Nat

LEMMA FillReservations ==
  ASSUME TypeOK, NEW o \in DOMAIN orders, o \in DOMAIN reservations, NEW q \in Nat,
         FillOrder(o, q)
  PROVE  ReservationFilled(o, q)
<1>1. /\ Released(o, q) \in Nat /\ CashKept(o, q) \in Nat
      /\ SharesKept(o, q) \in Nat /\ frozen \in Nat
  BY ReleasedType DEF TypeOK
<1>2. reservations \in [DOMAIN reservations -> Reservations]
  BY DEF TypeOK
<1>3. CASE Completes(o, q)
  <2>1. /\ reservations' = Drop(reservations, o)
        /\ frozen' = AtLeastZero(AtLeastZero(frozen - Released(o, q)) - CashKept(o, q))
    BY <1>3 DEF FillOrder
  <2>2. frozen' \in Nat
    BY <1>1, <2>1 DEF AtLeastZero
  <2>3. QED
    BY <1>2, <1>3, <2>1, <2>2 DEF ReservationFilled, Drop, Restrict
<1>4. CASE ~Completes(o, q)
  <2>1. /\ reservations' = [reservations EXCEPT ![o].cash = CashKept(o, q),
                                               ![o].sell = SharesKept(o, q)]
        /\ frozen' = AtLeastZero(frozen - Released(o, q))
    BY <1>4 DEF FillOrder
  <2>2. frozen' \in Nat
    BY <1>1, <2>1 DEF AtLeastZero
  <2>3. QED
    BY <1>1, <1>2, <1>4, <2>1, <2>2 DEF ReservationFilled, Reservations
<1>5. QED
  BY <1>3, <1>4

LEMMA FillBook ==
  ASSUME IInv, NEW o \in DOMAIN orders, Live(o),
         NEW q \in Nat \ {0}, q <= Remaining(o), FillOrder(o, q)
  PROVE  /\ OrderFilled(o, q) /\ ReservationFilled(o, q)
         /\ ReservationsFollowOrders' /\ OrdersConsistent'
<1>1. TypeOK /\ ReservationsFollowOrders /\ OrdersConsistent
  BY DEF IInv
<1>2. o \in DOMAIN reservations
  BY <1>1 DEF ReservationsFollowOrders
<1>3. OrderFilled(o, q) /\ ReservationFilled(o, q)
  BY <1>1, <1>2, FillOrders, FillReservations
<1>4. orders[o].filled \in Nat /\ orders[o].intent.qty \in Nat
  BY <1>1 DEF TypeOK, Orders, Intents
<1>5. OrdersConsistent'
  BY <1>1, <1>3, <1>4 DEF OrdersConsistent, OrderFilled, Remaining
<1>6. Completes(o, q) <=> orders'[o].status = "Filled"
  BY <1>3 DEF Completes, OrderFilled
<1>7. DOMAIN reservations' = {x \in DOMAIN orders' : Live(x)'}
  BY <1>1, <1>3, <1>6
  DEF ReservationsFollowOrders, ReservationFilled, OrderFilled, Live, LiveStatus
<1>8. ASSUME NEW x \in DOMAIN reservations'
      PROVE  LET i == orders'[x].intent
                 r == reservations'[x]
             IN  /\ r.orig = i.qty
                 /\ i.side = "Sell" => r.sell = Remaining(x)' /\ r.cash = 0
                 /\ i.side = "Buy"  => r.sell = 0
  <2>1. CASE x # o
    BY <1>1, <1>3, <2>1
    DEF ReservationsFollowOrders, ReservationFilled, OrderFilled, Remaining
  <2>2. CASE x = o
    <3>1. ~Completes(o, q)
      BY <1>3, <2>2 DEF ReservationFilled
    <3>2. /\ reservations'[o].cash = CashKept(o, q)
          /\ reservations'[o].sell = SharesKept(o, q)
          /\ reservations'[o].orig = orders[o].intent.qty
      BY <1>1, <1>2, <1>3, <3>1 DEF ReservationFilled, ReservationsFollowOrders
    <3>3. orders[o].intent.side = "Sell" =>
            /\ reservations[o].sell = Remaining(o) /\ reservations[o].cash = 0
            /\ Released(o, q) = 0
      BY <1>1, <1>2, ReleasedType DEF ReservationsFollowOrders
    <3>4. orders[o].intent.side = "Sell" =>
            SharesKept(o, q) = Remaining(o) - q /\ CashKept(o, q) = 0
      BY <1>4, <3>3 DEF SharesKept, CashKept, AtLeastZero, Remaining
    <3>5. orders[o].intent.side = "Buy" => SharesKept(o, q) = 0
      BY <1>1, <1>2 DEF SharesKept, ReservationsFollowOrders
    <3>6. orders'[o].intent = orders[o].intent /\ Remaining(o)' = Remaining(o) - q
      BY <1>3, <1>4 DEF OrderFilled, Remaining
    <3>7. QED
      BY <2>2, <3>2, <3>4, <3>5, <3>6
  <2>3. QED
    BY <2>1, <2>2
<1>9. QED
  BY <1>3, <1>5, <1>7, <1>8 DEF ReservationsFollowOrders

LEMMA SettleType ==
  ASSUME TypeOK, pc = "matching", NEW o \in DOMAIN orders, NEW q \in Nat,
         SettleBuy(o, q) \/ SettleSell(o, q)
  PROVE  /\ cash' \in Int /\ lots' \in [Symbols -> Lots]
         /\ fills' \subseteq OrderIds
         /\ pc' \in {"matching", "stopped"}
         /\ IF pc' = "matching" THEN snap' \in Snapshots ELSE snap' = NoSnapshot
<1>1. /\ orders[o].intent \in Intents /\ snap \in Snapshots /\ o \in OrderIds
      /\ orders[o].intent.sym \in Symbols /\ lots[orders[o].intent.sym] \in Lots
      /\ snap.date \in Days
  BY DEF TypeOK, Orders, Intents, Snapshots
<1>2. (snap.ask + Slippage) \in Int /\ (snap.bid - Slippage) \in Int
  <2>1. snap.ask \in Prices \cup {0} /\ snap.bid \in Prices \cup {0}
    BY <1>1 DEF Snapshots
  <2>2. (\A p \in Prices : p \in Int) /\ Slippage \in Int
    BY ExecutionAssumption
  <2>3. snap.ask \in Int /\ snap.bid \in Int /\ Slippage \in Int
    BY <2>1, <2>2
  <2>4. QED
    BY <2>3
<1>3. CASE SettleBuy(o, q)
  <2> DEFINE notional == (snap.ask + Slippage) * q
             t0 == meta[orders[o].intent.sym] = "t0_etf" /\ orders[o].intent.t0
  <2>1. notional \in Int
    BY <1>2
  <2>2. Fees(notional) \in Int
    BY <2>1, IntFeesType
  <2>3. cash' \in Int
    <3>1. cash' = cash - notional - Fees(notional)
      BY <1>3 DEF SettleBuy
    <3> HIDE DEF notional
    <3>2. QED
      BY <2>1, <2>2, <3>1 DEF TypeOK
  <2>4. lots' \in [Symbols -> Lots]
    <3>1. t0 \in BOOLEAN
      BY <1>1 DEF Intents
    <3>2. AddLot(lots[orders[o].intent.sym], snap.date, t0, q) \in Lots
      BY <1>1, <3>1, AddLotType
    <3>3. QED
      BY <1>3, <3>2 DEF SettleBuy, TypeOK
  <2>5. QED
    BY <1>1, <1>3, <2>3, <2>4 DEF SettleBuy, TypeOK
<1>4. CASE SettleSell(o, q)
  <2> DEFINE notional == (snap.bid - Slippage) * q
  <2>1. notional \in Int
    BY <1>2
  <2>2. Fees(notional) \in Int
    BY <2>1, IntFeesType
  <2>3. cash' \in Int
    <3>1. cash' = cash + notional - Fees(notional)
      BY <1>4 DEF SettleSell
    <3> HIDE DEF notional
    <3>2. QED
      BY <2>1, <2>2, <3>1 DEF TypeOK
  <2>4. lots' \in [Symbols -> Lots]
    <3>1. PICK held \in ConsumeFifo(lots[orders[o].intent.sym], q, snap.date) :
            lots' = [lots EXCEPT ![orders[o].intent.sym] = held]
      BY <1>4 DEF SettleSell
    <3>2. held \in Lots
      BY <1>1, ConsumeFifoType
    <3>3. QED
      BY <3>1, <3>2 DEF TypeOK
  <2>5. QED
    BY <1>1, <1>4, <2>3, <2>4 DEF SettleSell, TypeOK
<1>5. QED
  BY <1>3, <1>4

LEMMA SellReserveType ==
  ASSUME TypeOK, NEW o \in DOMAIN orders, NEW q \in Nat
  PROVE  SellReserveAfter(o, q) \in [Symbols -> Nat]
<1>1. o \in DOMAIN reservations => SharesKept(o, q) \in Nat
  BY ReleasedType
<1> DEFINE sym   == orders[o].intent.sym
           spare == IF o \in DOMAIN reservations /\ Completes(o, q)
                    THEN SharesKept(o, q) ELSE 0
           sold  == IF orders[o].intent.side = "Sell" THEN q ELSE 0
           after == AtLeastZero(AtLeastZero(reservedSell[sym] - spare) - sold)
<1>2. reservedSell \in [Symbols -> Nat] /\ sym \in Symbols
  BY DEF TypeOK, Orders, Intents
<1>3. spare \in Nat /\ sold \in Nat
  BY <1>1
<1>4. after \in Nat
  BY <1>2, <1>3 DEF AtLeastZero
<1>5. SellReserveAfter(o, q) = [reservedSell EXCEPT ![sym] = after]
  BY DEF SellReserveAfter
<1>6. QED
  BY <1>2, <1>4, <1>5

LEMMA MatchOneStep ==
  ASSUME IInv, NEW o \in OrderIds, MatchOne(o)
  PROVE  IInv'
<1> DEFINE q == MatchedShares(o)
<1>1. /\ o \in DOMAIN orders /\ pc = "matching" /\ TypeOK
      /\ FillOrder(o, q) /\ reservedSell' = SellReserveAfter(o, q)
      /\ SettleBuy(o, q) \/ SettleSell(o, q)
      /\ UNCHANGED market /\ hardIntents' = hardIntents
  BY DEF MatchOne, IInv
<1>2. q \in Nat \ {0} /\ q <= Remaining(o) /\ Live(o)
  BY <1>1, MatchedSharesType DEF MatchOne
<1> HIDE DEF q
<1>3. /\ OrderFilled(o, q) /\ ReservationFilled(o, q)
      /\ ReservationsFollowOrders' /\ OrdersConsistent'
  BY <1>1, <1>2, FillBook
<1>4. TypeOK'
  <2>1. /\ DOMAIN orders' \subseteq OrderIds /\ orders' \in [DOMAIN orders' -> Orders]
        /\ DOMAIN reservations' \subseteq OrderIds
        /\ reservations' \in [DOMAIN reservations' -> Reservations]
        /\ frozen' \in Nat
    BY <1>1, <1>3 DEF OrderFilled, ReservationFilled, TypeOK
  <2>2. reservedSell' \in [Symbols -> Nat]
    BY <1>1, <1>2, SellReserveType
  <2>3. /\ cash' \in Int /\ lots' \in [Symbols -> Lots]
        /\ fills' \subseteq OrderIds
        /\ pc' \in {"matching", "stopped"}
        /\ IF pc' = "matching" THEN snap' \in Snapshots ELSE snap' = NoSnapshot
    BY <1>1, <1>2, SettleType
  <2>4. QED
    BY <1>1, <2>1, <2>2, <2>3 DEF TypeOK, market
<1>5. hardExit' = hardExit /\ hardIntents' = hardIntents
  BY <1>1 DEF market
<1>6. ExitsRemembered'
  BY <1>3, <1>5 DEF IInv, ExitsRemembered, OrderFilled
<1>7. \A s \in Symbols : HardOrders(s)' = HardOrders(s)
  BY <1>3 DEF HardOrders, OrderFilled
<1>8. ExitsLatched'
  BY <1>5, <1>7 DEF IInv, ExitsLatched
<1>9. QED
  BY <1>3, <1>4, <1>6, <1>8 DEF IInv

-----------------------------------------------------------------------------
(* The invariant holds initially and is kept by every step. *)

LEMMA InitIInv == Init => IInv
<1> SUFFICES ASSUME Init PROVE IInv
  OBVIOUS
<1>1. /\ DOMAIN orders = {} /\ DOMAIN reservations = {} /\ DOMAIN latest = {}
      /\ DOMAIN meta = {} /\ hardIntents = {} /\ hardExit = {}
  BY DEF Init, EmptyMap
<1>2. TypeOK
  BY <1>1, NoLotsType, ExecutionAssumption DEF Init, EmptyMap, TypeOK
<1>3. ReservationsFollowOrders /\ OrdersConsistent /\ ExitsRemembered /\ ExitsLatched
  BY <1>1
  DEF ReservationsFollowOrders, OrdersConsistent, ExitsRemembered, ExitsLatched, HardOrders
<1>4. QED
  BY <1>2, <1>3 DEF IInv

LEMMA NextIInv == IInv /\ [Next]_vars => IInv'
<1> SUFFICES ASSUME IInv, [Next]_vars PROVE IInv'
  OBVIOUS
<1>1. CASE Client
  BY <1>1, SubmitStep, CancelStep, SetInstrumentMetaStep DEF Client
<1>2. CASE \E sn \in Feed : BeginSnapshot(sn)
  BY <1>2, BeginSnapshotStep
<1>3. CASE PumpWork
  BY <1>3, MatchOneStep, EndMatchingStep, PersistFillStep, SubmitHardExitStep,
     RejectHardExitStep
  DEF PumpWork, Matching, Exiting
<1>4. CASE UNCHANGED vars
  <2>1. TypeOK'
    BY <1>4 DEF IInv, TypeOK, vars, account, book, market, pump
  <2>2. UNCHANGED book /\ UNCHANGED hardExit /\ hardIntents' = hardIntents
    BY <1>4 DEF vars, market, pump
  <2>3. QED
    BY <2>1, <2>2, BookUnchanged, ExitsUnchanged DEF IInv
<1>5. QED
  BY <1>1, <1>2, <1>3, <1>4 DEF Next

(***************************************************************************)
(* Every reachable state satisfies the inductive invariant.                *)
(***************************************************************************)
THEOREM Invariance == Spec => []IInv
BY InitIInv, NextIInv, PTL DEF Spec

(***************************************************************************)
(* Type correctness: in particular frozen_cash and reserved_sell never go  *)
(* below zero, and a reservation's cash and shares never do.               *)
(***************************************************************************)
THEOREM TypeCorrectness == Spec => []TypeOK
<1>1. IInv => TypeOK
  BY DEF IInv
<1>2. QED
  BY <1>1, Invariance, PTL

(***************************************************************************)
(* handler.rs: an order has a reservation exactly while it is open, and a  *)
(* sell's reservation is what it still has to sell.                        *)
(***************************************************************************)
THEOREM ReservationsCorrect == Spec => []ReservationsFollowOrders
<1>1. IInv => ReservationsFollowOrders
  BY DEF IInv
<1>2. QED
  BY <1>1, Invariance, PTL

(***************************************************************************)
(* apply_fill_to_state: no order is ever filled beyond its quantity, and   *)
(* its status says what its filled quantity says.                          *)
(***************************************************************************)
THEOREM OrdersCorrect == Spec => []OrdersConsistent
<1>1. IInv => OrdersConsistent
  BY DEF IInv
<1>2. QED
  BY <1>1, Invariance, PTL

(***************************************************************************)
(* on_snapshot: never two hard exits of a symbol at work together,         *)
(* whatever snapshots arrive while the first is persisted, booked or       *)
(* filled.  It follows from more, that a symbol gets one exit in its life, *)
(* which the code ensures and its design does not ask for.                 *)
(***************************************************************************)
THEOREM ExitsApart == Spec => []ExitsDoNotOverlap
<1>1. IInv => ExitsDoNotOverlap
  BY DEF IInv, ExitsLatched, ExitsDoNotOverlap, OpenExits
<1>2. QED
  BY <1>1, Invariance, PTL

-----------------------------------------------------------------------------
(* The engine implements OrderLifecycle. *)

PhaseOf == [o \in OrderIds |-> IF o \in DOMAIN orders THEN orders[o].status ELSE "None"]
LeftOf  == [o \in OrderIds |-> IF o \in DOMAIN orders THEN Remaining(o) ELSE 0]

LEMMA PlaceImplements ==
  ASSUME IInv, NEW o \in OrderIds, NEW i \in Intents, i.qty > 0, OrderAdded(o, i)
  PROVE  Lifecycle!Next
<1>1. PhaseOf[o] = "None" /\ PhaseOf' = [PhaseOf EXCEPT ![o] = "New"]
  BY DEF PhaseOf, OrderAdded
<1>2. LeftOf'[o] = i.qty /\ i.qty \in Nat \ {0}
  BY DEF LeftOf, OrderAdded, Remaining, Intents
<1>3. \A x \in DOMAIN orders : Remaining(x)' = Remaining(x)
  BY DEF OrderAdded, Remaining
<1>4. LeftOf' = [LeftOf EXCEPT ![o] = LeftOf'[o]]
  BY <1>3 DEF LeftOf, OrderAdded
<1>5. Lifecycle!Place(o, i.qty)
  BY <1>1, <1>2, <1>4 DEF Lifecycle!Place, PhaseOf, LeftOf
<1>6. i.qty \in {LeftOf'[o]}
  BY <1>2
<1>7. QED
  BY <1>5, <1>6 DEF Lifecycle!Next, LeftOf

LEMMA CancelImplements ==
  ASSUME IInv, NEW o \in OrderIds, Cancel(o)
  PROVE  Lifecycle!Next
<1>1. /\ o \in DOMAIN orders /\ orders[o].status \in LiveStatus
      /\ DOMAIN orders' = DOMAIN orders
      /\ orders'[o].status = "Cancelled"
      /\ \A x \in DOMAIN orders : x # o => orders'[x].status = orders[x].status
      /\ \A x \in DOMAIN orders : Remaining(x)' = Remaining(x)
  BY DEF Cancel, Live, IInv, TypeOK, Orders, Remaining
<1>2. PhaseOf[o] \in LiveStatus /\ PhaseOf' = [PhaseOf EXCEPT ![o] = "Cancelled"]
  BY <1>1 DEF PhaseOf
<1>3. LeftOf' = LeftOf
  BY <1>1 DEF LeftOf
<1>4. Lifecycle!Cancel(o)
  BY <1>2, <1>3 DEF Lifecycle!Cancel, PhaseOf, LeftOf, LiveStatus
<1>5. QED
  BY <1>4 DEF Lifecycle!Next

LEMMA FillImplements ==
  ASSUME IInv, NEW o \in OrderIds, MatchOne(o)
  PROVE  Lifecycle!Next
<1> DEFINE q == MatchedShares(o)
<1>1. /\ o \in DOMAIN orders /\ pc = "matching" /\ FillOrder(o, q) /\ TypeOK
  BY DEF MatchOne, IInv
<1>2. q \in Nat \ {0} /\ q <= Remaining(o) /\ orders[o].status \in LiveStatus
  BY <1>1, MatchedSharesType DEF MatchOne, Live
<1> HIDE DEF q
<1>3. OrderFilled(o, q)
  BY <1>1, <1>2, FillOrders
<1>4. orders[o].filled \in Nat /\ orders[o].intent.qty \in Nat
  BY <1>1 DEF TypeOK, Orders, Intents
<1>5. orders'[o].status = IF q = Remaining(o) THEN "Filled" ELSE "PartiallyFilled"
  BY <1>2, <1>3, <1>4 DEF OrderFilled, Remaining
<1>6. Remaining(o)' = Remaining(o) - q
  BY <1>2, <1>3, <1>4 DEF OrderFilled, Remaining
<1>7. \A x \in DOMAIN orders :
        x # o => orders'[x].status = orders[x].status /\ Remaining(x)' = Remaining(x)
  BY <1>3 DEF OrderFilled, Remaining
<1>8. /\ PhaseOf[o] \in LiveStatus
      /\ PhaseOf' = [PhaseOf EXCEPT ![o] = IF q = LeftOf[o] THEN "Filled"
                                           ELSE "PartiallyFilled"]
  BY <1>1, <1>2, <1>3, <1>5, <1>7 DEF PhaseOf, LeftOf, OrderFilled
<1>9. LeftOf' = [LeftOf EXCEPT ![o] = @ - q]
  BY <1>1, <1>3, <1>6, <1>7 DEF LeftOf, OrderFilled
<1>10. q \in 1..LeftOf[o]
  BY <1>1, <1>2, <1>4 DEF LeftOf, Remaining
<1>11. \E n \in 1..LeftOf[o] : Lifecycle!Fill(o, n)
  BY <1>8, <1>9, <1>10 DEF Lifecycle!Fill, PhaseOf, LeftOf, LiveStatus
<1>12. QED
  BY <1>11 DEF Lifecycle!Next, LeftOf

LEMMA BookStutters ==
  ASSUME UNCHANGED orders
  PROVE  UNCHANGED Lifecycle!vars
BY DEF Lifecycle!vars, Remaining

(* The initial states map to initial states, every step to a step or none. *)
LEMMA NextImplements ==
  IInv /\ [Next]_vars => [Lifecycle!Next]_(Lifecycle!vars)
<1> SUFFICES ASSUME IInv, [Next]_vars PROVE [Lifecycle!Next]_(Lifecycle!vars)
  OBVIOUS
<1>1. CASE \E o \in ClientIds : \E i \in Requests : Submit(o, i)
  <2>1. PICK o \in ClientIds : \E i \in Requests : Submit(o, i)
    BY <1>1
  <2>2. PICK i \in Requests : Submit(o, i)
    BY <2>1
  <2>3. o \in OrderIds /\ i \in Intents /\ i.qty > 0 /\ Enter(o, i) /\ TypeOK
    BY <2>2, ExecutionAssumption
    DEF OrderIds, Submit, Accepts, WholeLots, IInv
  <2>4. OrderAdded(o, i)
    BY <2>3, EnterOrders
  <2>5. QED
    BY <2>3, <2>4, PlaceImplements
<1>2. CASE \E o \in OrderIds : Cancel(o)
  BY <1>2, CancelImplements
<1>3. CASE \E s \in Symbols : \E kind \in MetaKinds : SetInstrumentMeta(s, kind)
  BY <1>3, BookStutters DEF SetInstrumentMeta, book
<1>4. CASE \E sn \in Feed : BeginSnapshot(sn)
  BY <1>4, BookStutters DEF BeginSnapshot, book
<1>5. CASE \E o \in OrderIds : MatchOne(o)
  BY <1>5, FillImplements
<1>6. CASE EndMatching
  BY <1>6, BookStutters DEF EndMatching, book
<1>7. CASE \E o \in OrderIds : PersistFill(o)
  BY <1>7, BookStutters DEF PersistFill, book
<1>8. CASE Exiting
  <2>1. PICK i \in hardIntents :
          (\E o \in PumpIds : SubmitHardExit(o, i)) \/ RejectHardExit(i)
    BY <1>8 DEF Exiting
  <2>2. CASE RejectHardExit(i)
    BY <2>2, BookStutters DEF RejectHardExit, book
  <2>3. CASE \E o \in PumpIds : SubmitHardExit(o, i)
    <3>1. PICK o \in PumpIds : SubmitHardExit(o, i)
      BY <2>3
    <3>2. o \in OrderIds /\ i \in Intents /\ i.qty > 0 /\ Enter(o, i) /\ TypeOK
      BY <3>1 DEF OrderIds, SubmitHardExit, Accepts, WholeLots, IInv, TypeOK
    <3>3. OrderAdded(o, i)
      BY <3>2, EnterOrders
    <3>4. QED
      BY <3>2, <3>3, PlaceImplements
  <2>4. QED
    BY <2>1, <2>2, <2>3
<1>9. CASE UNCHANGED vars
  BY <1>9, BookStutters DEF vars, book
<1>10. QED
  BY <1>1, <1>2, <1>3, <1>4, <1>5, <1>6, <1>7, <1>8, <1>9
  DEF Next, Client, PumpWork, Matching

LEMMA InitImplements == Init => Lifecycle!Init
BY DEF Init, EmptyMap, Lifecycle!Init

(***************************************************************************)
(* The engine's orders live as OrderLifecycle says, for any number of      *)
(* orders, tasks and snapshots: placed once, filled only while open and    *)
(* never beyond their quantity, and nothing happens to them after the end. *)
(***************************************************************************)
THEOREM Refinement == Spec => ImplementsLifecycle
<1>1. Spec => Lifecycle!Init
  BY InitImplements DEF Spec
<1>2. Spec => [][Lifecycle!Next]_(Lifecycle!vars)
  BY Invariance, NextImplements, PTL DEF Spec
<1>3. QED
  BY <1>1, <1>2 DEF ImplementsLifecycle

-----------------------------------------------------------------------------
(***************************************************************************)
(* The account and the order book agree: what is frozen is what the open   *)
(* orders reserve, what is held is what the orders bought and sold, every  *)
(* open sell can be delivered, and no share leaves on the day it came in.  *)
(***************************************************************************)
CashMap   == [o \in DOMAIN reservations |-> reservations[o].cash]
LeftMap   == [o \in DOMAIN orders |-> Remaining(o)]
FilledMap == [o \in DOMAIN orders |-> orders[o].filled]

(* A fraction q / n of c, rounded, is at most c. *)
LEMMA ShareOf ==
  ASSUME NEW c \in Nat, NEW q \in Nat, NEW n \in Nat \ {0}, q <= n
  PROVE  RoundDp(c * q, n) \in Nat /\ RoundDp(c * q, n) <= c
<1> DEFINE d == RoundDp(c * q, n)
<1>1. c * q \in Nat /\ n * c \in Nat
  BY ProductType
<1>2. c * q <= n * c
  OBVIOUS
<1>3. d \in Nat /\ 2 * (n * d) - 2 * (c * q) <= n
  BY <1>1, QuotientRounded
<1> HIDE DEF d
<1>4. ASSUME d > c PROVE FALSE
  <2>1. d >= c + 1
    BY <1>3, <1>4
  <2>2. n * d >= n * (c + 1) /\ n * d \in Nat
    BY <1>3, <2>1
  <2>3. n * (c + 1) = n * c + n
    OBVIOUS
  <2>4. QED
    BY <1>1, <1>2, <1>3, <2>2, <2>3
<1>5. d <= c
  BY <1>3, <1>4
<1>6. QED
  BY <1>3, <1>5 DEF d

(* What the maps that are summed hold, and over which finite sets. *)
LEMMA MapTypes ==
  ASSUME AccountInv
  PROVE  /\ IsFiniteSet(DOMAIN orders) /\ IsFiniteSet(DOMAIN reservations)
         /\ DOMAIN reservations \subseteq DOMAIN orders
         /\ \A x \in DOMAIN reservations : CashMap[x] \in Nat
         /\ \A x \in DOMAIN orders : LeftMap[x] \in Nat /\ LeftMap[x] = Remaining(x)
         /\ \A x \in DOMAIN orders : FilledMap[x] \in Nat
         /\ \A s : IsFiniteSet(OpenSells(s)) /\ OpenSells(s) \subseteq DOMAIN orders
         /\ \A s, side : /\ IsFiniteSet(OrdersOn(s, side))
                         /\ OrdersOn(s, side) \subseteq DOMAIN orders
<1>1. IsFiniteSet(DOMAIN orders) /\ TypeOK /\ ReservationsFollowOrders /\ OrdersConsistent
  BY DEF AccountInv, IInv
<1>2. DOMAIN reservations \subseteq DOMAIN orders
  BY <1>1 DEF ReservationsFollowOrders
<1>3. IsFiniteSet(DOMAIN reservations)
  BY <1>1, <1>2, FS_Subset
<1>4. \A x \in DOMAIN reservations : CashMap[x] \in Nat
  BY <1>1 DEF CashMap, TypeOK, Reservations
<1>5. \A x \in DOMAIN orders :
        /\ orders[x].filled \in Nat /\ orders[x].intent.qty \in Nat
        /\ orders[x].filled <= orders[x].intent.qty
  BY <1>1 DEF TypeOK, Orders, Intents, OrdersConsistent
<1>6. \A x \in DOMAIN orders : LeftMap[x] \in Nat /\ LeftMap[x] = Remaining(x)
  BY <1>5 DEF LeftMap, Remaining
<1>7. \A x \in DOMAIN orders : FilledMap[x] \in Nat
  BY <1>5 DEF FilledMap
<1>8. ASSUME NEW s
      PROVE  IsFiniteSet(OpenSells(s)) /\ OpenSells(s) \subseteq DOMAIN orders
  <2>1. OpenSells(s) \subseteq DOMAIN orders
    BY DEF OpenSells
  <2>2. QED
    BY <1>1, <2>1, FS_Subset
<1>9. ASSUME NEW s, NEW side
      PROVE  /\ IsFiniteSet(OrdersOn(s, side))
             /\ OrdersOn(s, side) \subseteq DOMAIN orders
  <2>1. OrdersOn(s, side) \subseteq DOMAIN orders
    BY DEF OrdersOn
  <2>2. QED
    BY <1>1, <2>1, FS_Subset
<1>10. QED
  BY <1>1, <1>2, <1>3, <1>4, <1>6, <1>7, <1>8, <1>9

LEMMA SumsByMap ==
  /\ FrozenIsReserved <=> frozen = SumOver(CashMap, DOMAIN reservations)
  /\ ReservedSellIsOpenSells <=>
       \A s \in Symbols : reservedSell[s] = SumOver(LeftMap, OpenSells(s))
  /\ \A s, side : FilledOn(s, side) = SumOver(FilledMap, OrdersOn(s, side))
BY DEF FrozenIsReserved, CashMap, ReservedSellIsOpenSells, LeftMap, FilledOn, FilledMap

LEMMA FilledOnType ==
  ASSUME AccountInv, NEW s, NEW side
  PROVE  FilledOn(s, side) \in Nat
<1>1. /\ IsFiniteSet(OrdersOn(s, side))
      /\ \A x \in OrdersOn(s, side) : FilledMap[x] \in Nat
  BY MapTypes
<1>2. SumOver(FilledMap, OrdersOn(s, side)) \in Nat
  BY <1>1, SumType
<1>3. QED
  BY <1>2, SumsByMap

-----------------------------------------------------------------------------
(* A new order. *)

LEMMA EnterFrozen ==
  ASSUME AccountInv, NEW o, NEW i \in Intents, OrderAdded(o, i), ReservationAdded(o, i),
         frozen' = frozen + Required(i)
  PROVE  FrozenIsReserved'
<1>1. o \notin DOMAIN reservations
  BY MapTypes DEF OrderAdded
<1>2. Required(i) \in Nat
  BY RequiredType DEF AccountInv, IInv
<1>3. /\ \A y \in DOMAIN reservations : CashMap[y] \in Nat /\ CashMap'[y] = CashMap[y]
      /\ CashMap'[o] = Required(i)
      /\ DOMAIN reservations' = DOMAIN reservations \cup {o}
  BY <1>1, MapTypes DEF ReservationAdded, CashMap
<1>4. SumOver(CashMap', DOMAIN reservations \cup {o})
        = SumOver(CashMap, DOMAIN reservations) + Required(i)
  <2>1. /\ IsFiniteSet(DOMAIN reservations) /\ CashMap'[o] \in Nat
        /\ \A y \in DOMAIN reservations :
             CashMap[y] \in Nat /\ CashMap'[y] = CashMap[y]
    BY <1>2, <1>3, MapTypes
  <2> DEFINE D == DOMAIN reservations
  <2>2. /\ IsFiniteSet(D) /\ o \notin D /\ CashMap'[o] \in Nat
        /\ \A y \in D : CashMap[y] \in Nat /\ CashMap'[y] = CashMap[y]
    BY <1>1, <2>1
  <2> HIDE DEF D
  <2>3. SumOver(CashMap', D \cup {o}) = SumOver(CashMap, D) + CashMap'[o]
    BY <2>2, SumExtend
  <2>4. QED
    BY <1>3, <2>3 DEF D
<1>5. frozen = SumOver(CashMap, DOMAIN reservations)
  BY SumsByMap DEF AccountInv
<1>6. QED
  BY <1>3, <1>4, <1>5 DEF FrozenIsReserved, CashMap

LEMMA EnterReservedSell ==
  ASSUME AccountInv, NEW o, NEW i \in Intents, OrderAdded(o, i),
         reservedSell' = [reservedSell EXCEPT
                            ![i.sym] = @ + (IF i.side = "Sell" THEN i.qty ELSE 0)]
  PROVE  ReservedSellIsOpenSells'
<1>1. /\ \A x \in DOMAIN orders : LeftMap'[x] = LeftMap[x] /\ LeftMap[x] \in Nat
      /\ LeftMap'[o] = i.qty /\ i.qty \in Nat
  BY MapTypes DEF OrderAdded, LeftMap, Remaining, Intents
<1>2. reservedSell \in [Symbols -> Nat] /\ i.sym \in Symbols
  BY DEF AccountInv, IInv, TypeOK, Intents
<1>3. ASSUME NEW s \in Symbols
      PROVE  reservedSell'[s] = SumOver(LeftMap', OpenSells(s)')
  <2>1. reservedSell[s] = SumOver(LeftMap, OpenSells(s))
    BY SumsByMap DEF AccountInv
  <2>2. /\ IsFiniteSet(OpenSells(s)) /\ OpenSells(s) \subseteq DOMAIN orders
        /\ o \notin OpenSells(s)
    BY MapTypes DEF OrderAdded
  <2>3. CASE i.side = "Sell" /\ s = i.sym
    <3>1. OpenSells(s)' = OpenSells(s) \cup {o}
      BY <2>3 DEF OpenSells, OrderAdded, Live, LiveStatus
    <3>2. /\ \A x \in OpenSells(s) : LeftMap[x] \in Nat /\ LeftMap'[x] = LeftMap[x]
          /\ LeftMap'[o] \in Nat
      BY <1>1, <2>2
    <3>3. SumOver(LeftMap', OpenSells(s) \cup {o})
            = SumOver(LeftMap, OpenSells(s)) + LeftMap'[o]
      BY <2>2, <3>2, SumExtend
    <3>4. reservedSell'[s] = reservedSell[s] + i.qty
      BY <1>2, <2>3
    <3>5. QED
      BY <1>1, <2>1, <3>1, <3>3, <3>4
  <2>4. CASE ~(i.side = "Sell" /\ s = i.sym)
    <3>1. OpenSells(s)' = OpenSells(s)
      BY <2>4 DEF OpenSells, OrderAdded, Live
    <3>2. \A x \in OpenSells(s) : LeftMap'[x] = LeftMap[x]
      BY <1>1, <2>2
    <3>3. SumOver(LeftMap', OpenSells(s)) = SumOver(LeftMap, OpenSells(s))
      BY <3>2, SumSame
    <3>4. reservedSell'[s] = reservedSell[s]
      BY <1>1, <1>2, <2>4
    <3>5. QED
      BY <2>1, <3>1, <3>3, <3>4
  <2>5. QED
    BY <2>3, <2>4
<1>4. QED
  BY <1>3 DEF ReservedSellIsOpenSells, LeftMap

LEMMA EnterHoldings ==
  ASSUME AccountInv, NEW o, NEW i \in Intents, OrderAdded(o, i), lots' = lots
  PROVE  HoldingsAreFills'
<1>1. /\ \A x \in DOMAIN orders : FilledMap'[x] = FilledMap[x] /\ FilledMap[x] \in Nat
      /\ FilledMap'[o] = 0
  BY MapTypes DEF OrderAdded, FilledMap
<1>2. ASSUME NEW s, NEW side
      PROVE  FilledOn(s, side)' = FilledOn(s, side)
  <2>1. /\ IsFiniteSet(OrdersOn(s, side)) /\ OrdersOn(s, side) \subseteq DOMAIN orders
        /\ o \notin OrdersOn(s, side)
    BY MapTypes DEF OrderAdded
  <2>2. SumOver(FilledMap, OrdersOn(s, side)) \in Nat
    BY <1>1, <2>1, SumType
  <2>3. \/ OrdersOn(s, side)' = OrdersOn(s, side)
        \/ OrdersOn(s, side)' = OrdersOn(s, side) \cup {o}
    BY DEF OrdersOn, OrderAdded
  <2>4. SumOver(FilledMap', OrdersOn(s, side)) = SumOver(FilledMap, OrdersOn(s, side))
    <3>1. \A x \in OrdersOn(s, side) : FilledMap'[x] = FilledMap[x]
      BY <1>1, <2>1
    <3>2. QED
      BY <3>1, SumSame
  <2>5. SumOver(FilledMap', OrdersOn(s, side) \cup {o})
          = SumOver(FilledMap, OrdersOn(s, side)) + FilledMap'[o]
    <3>1. /\ \A x \in OrdersOn(s, side) :
               FilledMap[x] \in Nat /\ FilledMap'[x] = FilledMap[x]
          /\ FilledMap'[o] \in Nat
      BY <1>1, <2>1
    <3>2. QED
      BY <2>1, <3>1, SumExtend
  <2>6. FilledOn(s, side)' = SumOver(FilledMap', OrdersOn(s, side)')
    BY DEF FilledOn, FilledMap
  <2>7. FilledOn(s, side) = SumOver(FilledMap, OrdersOn(s, side))
    BY DEF FilledOn, FilledMap
  <2>8. SumOver(FilledMap', OrdersOn(s, side)') = SumOver(FilledMap, OrdersOn(s, side))
    <3>1. CASE OrdersOn(s, side)' = OrdersOn(s, side)
      BY <2>4, <3>1
    <3>2. CASE OrdersOn(s, side)' = OrdersOn(s, side) \cup {o}
      BY <1>1, <2>2, <2>5, <3>2
    <3>3. QED
      BY <2>3, <3>1, <3>2
  <2>9. QED
    BY <2>6, <2>7, <2>8
<1>3. QED
  BY <1>2 DEF AccountInv, HoldingsAreFills

LEMMA EnterCovered ==
  ASSUME AccountInv, NEW i \in Intents, Accepts(i), lots' = lots, latest' = latest,
         reservedSell' = [reservedSell EXCEPT
                            ![i.sym] = @ + (IF i.side = "Sell" THEN i.qty ELSE 0)]
  PROVE  SellsCovered'
<1>1. /\ reservedSell \in [Symbols -> Nat] /\ i.sym \in Symbols /\ i.qty \in Nat
      /\ lots \in [Symbols -> Lots]
  BY DEF AccountInv, IInv, TypeOK, Intents
<1>2. ASSUME NEW s \in Symbols, reservedSell'[s] > 0
      PROVE  s \in DOMAIN latest /\ reservedSell'[s] <= Available(lots[s], latest[s].date)
  <2>1. CASE i.side = "Sell" /\ s = i.sym
    <3>1. /\ s \in DOMAIN latest
          /\ Available(lots[s], latest[s].date) - reservedSell[s] >= i.qty
      BY <2>1 DEF Accepts, Deliverable, Unreserved
    <3>2. reservedSell'[s] = reservedSell[s] + i.qty
      BY <1>1, <2>1
    <3>3. Available(lots[s], latest[s].date) \in Nat
      BY <1>1, AvailableType
    <3>4. QED
      BY <1>1, <3>1, <3>2, <3>3
  <2>2. CASE ~(i.side = "Sell" /\ s = i.sym)
    <3>1. reservedSell'[s] = reservedSell[s]
      BY <1>1, <2>2
    <3>2. QED
      BY <1>2, <3>1 DEF AccountInv, SellsCovered
  <2>3. QED
    BY <2>1, <2>2
<1>3. QED
  BY <1>2 DEF SellsCovered

LEMMA EnterAccount ==
  ASSUME AccountInv, NEW o \in OrderIds, NEW i \in Intents, Accepts(i), Enter(o, i),
         pc # "matching", pc' # "matching", IInv'
  PROVE  AccountInv'
<1>1. i.qty > 0
  BY DEF Accepts, WholeLots
<1>2. OrderAdded(o, i) /\ ReservationAdded(o, i)
  BY <1>1, EnterOrders, EnterReservations DEF AccountInv, IInv
<1>3. /\ frozen' = frozen + Required(i) /\ lots' = lots /\ latest' = latest
      /\ reservedSell' = [reservedSell EXCEPT
                            ![i.sym] = @ + (IF i.side = "Sell" THEN i.qty ELSE 0)]
  BY DEF Enter, market
<1>4. IsFiniteSet(DOMAIN orders')
  BY <1>2, FS_AddElement DEF AccountInv, OrderAdded
<1>5. FrozenIsReserved' /\ ReservedSellIsOpenSells' /\ HoldingsAreFills' /\ SellsCovered'
  BY <1>2, <1>3, EnterFrozen, EnterReservedSell, EnterHoldings, EnterCovered
<1>6. LotsDated' /\ MatchesLatest'
  BY <1>3 DEF AccountInv, LotsDated, MatchesLatest
<1>7. QED
  BY <1>4, <1>5, <1>6 DEF AccountInv

-----------------------------------------------------------------------------
(* A cancelled order gives back what it still reserved. *)

(* What cancel does to the order and to what it reserved. *)
OrderCancelled(o) ==
  /\ DOMAIN orders' = DOMAIN orders
  /\ \A x \in DOMAIN orders : /\ orders'[x].intent = orders[x].intent
                              /\ orders'[x].filled = orders[x].filled
                              /\ x # o => orders'[x].status = orders[x].status
  /\ orders'[o].status = "Cancelled"
  /\ reservations' = Drop(reservations, o)
  /\ frozen' = AtLeastZero(frozen - reservations[o].cash)
  /\ reservedSell' = [reservedSell EXCEPT
                        ![orders[o].intent.sym] = AtLeastZero(@ - reservations[o].sell)]

LEMMA CancelEffect ==
  ASSUME IInv, NEW o \in OrderIds, Cancel(o)
  PROVE  /\ OrderCancelled(o)
         /\ o \in DOMAIN orders /\ o \in DOMAIN reservations /\ Live(o)
<1>1. o \in DOMAIN orders /\ Live(o) /\ TypeOK /\ ReservationsFollowOrders
  BY DEF Cancel, IInv
<1>2. o \in DOMAIN reservations
  BY <1>1 DEF ReservationsFollowOrders
<1>3. /\ orders' = [orders EXCEPT ![o].status = "Cancelled"]
      /\ reservations' = Drop(reservations, o)
      /\ frozen' = AtLeastZero(frozen - reservations[o].cash)
      /\ reservedSell' = [reservedSell EXCEPT
                            ![orders[o].intent.sym] = AtLeastZero(@ - reservations[o].sell)]
  BY <1>2 DEF Cancel
<1>4. QED
  BY <1>1, <1>2, <1>3 DEF OrderCancelled, TypeOK, Orders

LEMMA CancelFrozen ==
  ASSUME AccountInv, NEW o \in DOMAIN reservations, OrderCancelled(o)
  PROVE  FrozenIsReserved'
<1> DEFINE D == DOMAIN reservations
<1>1. /\ DOMAIN reservations' = D \ {o}
      /\ \A x \in D \ {o} : CashMap'[x] = CashMap[x]
      /\ frozen' = AtLeastZero(frozen - CashMap[o])
  BY DEF OrderCancelled, Drop, Restrict, CashMap
<1>2. frozen = SumOver(CashMap, D)
  BY SumsByMap DEF AccountInv
<1>3. IsFiniteSet(D) /\ o \in D /\ \A x \in D : CashMap[x] \in Nat
  BY MapTypes
<1> HIDE DEF D
<1>4. /\ SumOver(CashMap, D) = SumOver(CashMap, D \ {o}) + CashMap[o]
      /\ SumOver(CashMap, D \ {o}) \in Nat
  BY <1>3, SumSplit
<1>5. SumOver(CashMap', D \ {o}) = SumOver(CashMap, D \ {o})
  BY <1>1, SumSame
<1>6. CashMap[o] \in Nat
  BY <1>3
<1>7. frozen' = SumOver(CashMap', D \ {o})
  BY <1>1, <1>2, <1>4, <1>5, <1>6 DEF AtLeastZero
<1>8. QED
  BY <1>1, <1>7 DEF FrozenIsReserved, CashMap

(* An open sell is part of its symbol's sum, and no other symbol's. *)
LEMMA OpenSellsOf ==
  ASSUME AccountInv, NEW o \in DOMAIN orders, Live(o), NEW s \in Symbols
  PROVE  /\ o \in OpenSells(s) <=>
              orders[o].intent.side = "Sell" /\ orders[o].intent.sym = s
         /\ IsFiniteSet(OpenSells(s))
         /\ \A x \in OpenSells(s) : LeftMap[x] \in Nat
         /\ reservedSell[s] = SumOver(LeftMap, OpenSells(s))
         /\ orders[o].intent.side \in Sides /\ orders[o].intent.sym \in Symbols
         /\ reservedSell \in [Symbols -> Nat]
<1>1. TypeOK
  BY DEF AccountInv, IInv
<1>2. orders[o].intent.side \in Sides /\ orders[o].intent.sym \in Symbols
  BY <1>1 DEF TypeOK, Orders, Intents
<1>3. o \in OpenSells(s) <=> orders[o].intent.side = "Sell" /\ orders[o].intent.sym = s
  BY DEF OpenSells
<1>4. IsFiniteSet(OpenSells(s)) /\ \A x \in OpenSells(s) : LeftMap[x] \in Nat
  BY MapTypes
<1>5. reservedSell[s] = SumOver(LeftMap, OpenSells(s))
  BY SumsByMap DEF AccountInv
<1>6. QED
  BY <1>1, <1>2, <1>3, <1>4, <1>5 DEF TypeOK

LEMMA CancelReservedSell ==
  ASSUME AccountInv, NEW o \in DOMAIN orders, o \in DOMAIN reservations, Live(o),
         OrderCancelled(o)
  PROVE  /\ ReservedSellIsOpenSells'
         /\ \A s \in Symbols : reservedSell'[s] \in Nat /\ reservedSell'[s] <= reservedSell[s]
<1>1. DOMAIN orders' = DOMAIN orders /\ \A x \in DOMAIN orders : LeftMap'[x] = LeftMap[x]
  BY DEF OrderCancelled, LeftMap, Remaining
<1>2. /\ orders[o].intent.side = "Sell" => reservations[o].sell = LeftMap[o]
      /\ orders[o].intent.side = "Buy" => reservations[o].sell = 0
  BY MapTypes DEF AccountInv, IInv, ReservationsFollowOrders
<1>3. ASSUME NEW s \in Symbols
      PROVE  /\ reservedSell'[s] = SumOver(LeftMap', OpenSells(s)')
             /\ reservedSell'[s] \in Nat /\ reservedSell'[s] <= reservedSell[s]
  <2>1. /\ o \in OpenSells(s) <=>
             orders[o].intent.side = "Sell" /\ orders[o].intent.sym = s
        /\ IsFiniteSet(OpenSells(s)) /\ \A x \in OpenSells(s) : LeftMap[x] \in Nat
        /\ reservedSell[s] = SumOver(LeftMap, OpenSells(s))
        /\ orders[o].intent.side \in Sides /\ orders[o].intent.sym \in Symbols
        /\ reservedSell \in [Symbols -> Nat]
    BY OpenSellsOf
  <2>2. OpenSells(s)' = OpenSells(s) \ {o}
    BY DEF OpenSells, OrderCancelled, Live, LiveStatus
  <2>3. OpenSells(s)' \subseteq DOMAIN orders
    BY <2>2 DEF OpenSells
  <2>4. SumOver(LeftMap', OpenSells(s)') = SumOver(LeftMap, OpenSells(s)')
    <3>1. \A x \in OpenSells(s)' : LeftMap'[x] = LeftMap[x]
      BY <1>1, <2>3
    <3>2. QED
      BY <3>1, SumSame
  <2>5. CASE o \in OpenSells(s)
    <3>1. /\ SumOver(LeftMap, OpenSells(s))
               = SumOver(LeftMap, OpenSells(s) \ {o}) + LeftMap[o]
          /\ SumOver(LeftMap, OpenSells(s) \ {o}) \in Nat /\ LeftMap[o] \in Nat
      BY <2>1, <2>5, SumSplit
    <3>2. reservedSell'[s] = AtLeastZero(reservedSell[s] - LeftMap[o])
      BY <1>2, <2>1, <2>5 DEF OrderCancelled
    <3>3. QED
      BY <2>1, <2>2, <2>4, <3>1, <3>2 DEF AtLeastZero
  <2>6. CASE o \notin OpenSells(s)
    <3>1. OpenSells(s)' = OpenSells(s)
      BY <2>2, <2>6
    <3>2. reservedSell'[s] = reservedSell[s]
      BY <1>2, <2>1, <2>6 DEF OrderCancelled, AtLeastZero, Sides
    <3>3. QED
      BY <2>1, <2>4, <3>1, <3>2
  <2>7. QED
    BY <2>5, <2>6
<1>4. QED
  BY <1>3 DEF ReservedSellIsOpenSells, LeftMap

LEMMA CancelAccount ==
  ASSUME AccountInv, NEW o \in OrderIds, Cancel(o), IInv'
  PROVE  AccountInv'
<1>1. /\ OrderCancelled(o) /\ Live(o)
      /\ o \in DOMAIN orders /\ o \in DOMAIN reservations
  BY CancelEffect DEF AccountInv
<1>2. lots' = lots /\ latest' = latest /\ pc' = pc /\ snap' = snap
  BY DEF Cancel, market, pump
<1>3. IsFiniteSet(DOMAIN orders')
  BY <1>1 DEF AccountInv, OrderCancelled
<1>4. FrozenIsReserved'
  BY <1>1, CancelFrozen
<1>5. /\ ReservedSellIsOpenSells'
      /\ \A s \in Symbols : reservedSell'[s] \in Nat /\ reservedSell'[s] <= reservedSell[s]
  BY <1>1, CancelReservedSell
<1>6. SellsCovered'
  <2> SUFFICES ASSUME NEW s \in Symbols, reservedSell'[s] > 0
               PROVE  /\ s \in DOMAIN latest
                      /\ reservedSell'[s] <= Available(lots[s], latest[s].date)
    BY <1>2 DEF SellsCovered
  <2>1. reservedSell[s] \in Nat /\ reservedSell[s] > 0
    BY <1>5 DEF AccountInv, IInv, TypeOK
  <2>2. s \in DOMAIN latest /\ reservedSell[s] <= Available(lots[s], latest[s].date)
    BY <2>1 DEF AccountInv, SellsCovered
  <2>3. Available(lots[s], latest[s].date) \in Nat
    BY AvailableType DEF AccountInv, IInv, TypeOK
  <2>4. QED
    BY <1>5, <2>1, <2>2, <2>3
<1>7. HoldingsAreFills'
  <2>1. /\ DOMAIN orders' = DOMAIN orders
        /\ \A x \in DOMAIN orders : FilledMap'[x] = FilledMap[x]
        /\ \A s, side : OrdersOn(s, side)' = OrdersOn(s, side)
    BY <1>1 DEF OrderCancelled, FilledMap, OrdersOn
  <2>2. ASSUME NEW s, NEW side PROVE FilledOn(s, side)' = FilledOn(s, side)
    <3>1. \A x \in OrdersOn(s, side) : FilledMap'[x] = FilledMap[x]
      BY <2>1, MapTypes
    <3>2. SumOver(FilledMap', OrdersOn(s, side)) = SumOver(FilledMap, OrdersOn(s, side))
      BY <3>1, SumSame
    <3>3. /\ FilledOn(s, side)' = SumOver(FilledMap', OrdersOn(s, side)')
          /\ FilledOn(s, side) = SumOver(FilledMap, OrdersOn(s, side))
      BY DEF FilledOn, FilledMap
    <3>4. QED
      BY <2>1, <3>2, <3>3
  <2>3. QED
    BY <1>2, <2>2 DEF AccountInv, HoldingsAreFills
<1>8. LotsDated' /\ MatchesLatest'
  BY <1>2 DEF AccountInv, LotsDated, MatchesLatest
<1>9. QED
  BY <1>3, <1>4, <1>5, <1>6, <1>7, <1>8 DEF AccountInv

-----------------------------------------------------------------------------
(* A fill. *)

LEMMA FillEffect ==
  ASSUME AccountInv, NEW o \in OrderIds, MatchOne(o)
  PROVE  /\ o \in DOMAIN orders /\ o \in DOMAIN reservations /\ Live(o)
         /\ MatchedShares(o) \in Nat \ {0} /\ MatchedShares(o) <= Remaining(o)
         /\ OrderFilled(o, MatchedShares(o)) /\ ReservationFilled(o, MatchedShares(o))
         /\ orders[o].intent.sym = snap.sym /\ snap.sym \in DOMAIN latest
         /\ snap.sym \in Symbols /\ snap.date = latest[snap.sym].date
         /\ snap.date \in Days /\ latest' = latest
<1>1. /\ o \in DOMAIN orders /\ pc = "matching" /\ MatchedShares(o) > 0 /\ IInv
      /\ FillOrder(o, MatchedShares(o)) /\ latest' = latest
  BY DEF MatchOne, market, AccountInv
<1>2. /\ MatchedShares(o) \in Nat \ {0} /\ MatchedShares(o) <= Remaining(o) /\ Live(o)
  BY <1>1, MatchedSharesType
<1>3. OrderFilled(o, MatchedShares(o)) /\ ReservationFilled(o, MatchedShares(o))
  BY <1>1, <1>2, FillBook
<1>4. o \in DOMAIN reservations
  BY <1>1, <1>2 DEF IInv, ReservationsFollowOrders
<1>5. orders[o].intent.sym = snap.sym
  BY <1>1 DEF MatchedShares
<1>6. snap.sym \in DOMAIN latest /\ snap.date = latest[snap.sym].date
  BY <1>1 DEF AccountInv, MatchesLatest
<1>7. snap.sym \in Symbols /\ snap.date \in Days
  BY <1>1 DEF IInv, TypeOK, Snapshots
<1>8. QED
  BY <1>1, <1>2, <1>3, <1>4, <1>5, <1>6, <1>7

LEMMA FillFrozen ==
  ASSUME AccountInv, NEW o \in DOMAIN orders, o \in DOMAIN reservations,
         NEW q \in Nat \ {0}, q <= Remaining(o), FillOrder(o, q), ReservationFilled(o, q)
  PROVE  FrozenIsReserved'
<1> DEFINE D == DOMAIN reservations
           c == CashMap[o]
<1>1. /\ IsFiniteSet(D) /\ o \in D /\ (\A x \in D : CashMap[x] \in Nat) /\ c \in Nat
      /\ frozen = SumOver(CashMap, D) /\ c = reservations[o].cash
  BY MapTypes, SumsByMap DEF AccountInv, CashMap
<1>2. Released(o, q) \in Nat /\ Released(o, q) <= c
  <2>1. /\ reservations[o].orig = orders[o].intent.qty
        /\ reservations[o].orig \in Nat \ {0} /\ q <= reservations[o].orig
    BY DEF AccountInv, IInv, TypeOK, ReservationsFollowOrders, Reservations, Remaining,
           Orders
  <2>2. /\ RoundDp(c * q, reservations[o].orig) \in Nat
        /\ RoundDp(c * q, reservations[o].orig) <= c
    BY <1>1, <2>1, ShareOf
  <2>3. QED
    BY <1>1, <2>2 DEF Released
<1>3. CashKept(o, q) = c - Released(o, q)
  BY <1>1, <1>2 DEF CashKept, AtLeastZero
<1>4. /\ SumOver(CashMap, D) = SumOver(CashMap, D \ {o}) + c
      /\ SumOver(CashMap, D \ {o}) \in Nat
  <2> HIDE DEF D
  <2>1. QED
    BY <1>1, SumSplit
<1>5. \A x \in D \ {o} : CashMap'[x] = CashMap[x]
  BY DEF ReservationFilled, CashMap
<1>6. CASE Completes(o, q)
  <2>1. /\ DOMAIN reservations' = D \ {o}
        /\ frozen' = AtLeastZero(AtLeastZero(frozen - Released(o, q)) - CashKept(o, q))
    BY <1>6 DEF ReservationFilled, FillOrder
  <2> HIDE DEF D, c
  <2>2. SumOver(CashMap', D \ {o}) = SumOver(CashMap, D \ {o})
    BY <1>5, SumSame
  <2>3. frozen' = SumOver(CashMap', D \ {o})
    BY <1>1, <1>2, <1>3, <1>4, <2>1, <2>2 DEF AtLeastZero
  <2>4. QED
    BY <2>1, <2>3 DEF FrozenIsReserved, CashMap
<1>7. CASE ~Completes(o, q)
  <2>1. /\ DOMAIN reservations' = D
        /\ frozen' = AtLeastZero(frozen - Released(o, q))
        /\ CashMap'[o] = CashKept(o, q)
    BY <1>7 DEF ReservationFilled, FillOrder, CashMap
  <2> HIDE DEF D, c
  <2>2. /\ \A x \in D : CashMap[x] \in Nat /\ CashMap'[x] \in Nat
        /\ \A x \in D : x # o => CashMap'[x] = CashMap[x]
    BY <1>1, <1>2, <1>3, <1>5, <2>1
  <2>3. SumOver(CashMap', D) = SumOver(CashMap, D) - CashMap[o] + CashMap'[o]
    BY <1>1, <2>2, SumChange
  <2>4. CashMap[o] = c
    BY DEF c
  <2>5. frozen' = SumOver(CashMap', D)
    BY <1>1, <1>2, <1>3, <1>4, <2>1, <2>3, <2>4 DEF AtLeastZero
  <2>6. QED
    BY <2>1, <2>5 DEF FrozenIsReserved, CashMap
<1>8. QED
  BY <1>6, <1>7

LEMMA FillReservedSell ==
  ASSUME AccountInv, NEW o \in DOMAIN orders, o \in DOMAIN reservations, Live(o),
         NEW q \in Nat \ {0}, q <= Remaining(o), OrderFilled(o, q),
         reservedSell' = SellReserveAfter(o, q)
  PROVE  /\ ReservedSellIsOpenSells'
         /\ \A s \in Symbols :
              reservedSell'[s] =
                IF o \in OpenSells(s) THEN reservedSell[s] - q ELSE reservedSell[s]
         /\ \A s \in Symbols : o \in OpenSells(s) => q <= reservedSell[s]
<1> DEFINE sym == orders[o].intent.sym
           side == orders[o].intent.side
<1>1. /\ DOMAIN orders' = DOMAIN orders
      /\ \A x \in DOMAIN orders : x # o => LeftMap'[x] = LeftMap[x]
      /\ LeftMap'[o] = LeftMap[o] - q /\ LeftMap[o] = Remaining(o) /\ LeftMap[o] \in Nat
      /\ q <= LeftMap[o]
  <2>1. orders[o].filled \in Nat /\ orders[o].intent.qty \in Nat
    BY DEF AccountInv, IInv, TypeOK, Orders, Intents
  <2>2. Remaining(o)' = Remaining(o) - q
    BY <2>1 DEF OrderFilled, Remaining
  <2>3. QED
    BY <2>2, MapTypes DEF OrderFilled, LeftMap, Remaining
<1>2. Completes(o, q) <=> q = LeftMap[o]
  <2>1. orders[o].filled \in Nat /\ orders[o].intent.qty \in Nat
    BY DEF AccountInv, IInv, TypeOK, Orders, Intents
  <2>2. QED
    BY <1>1, <2>1 DEF Completes, Remaining
<1>3. Completes(o, q) => SharesKept(o, q) = 0
  <2>1. /\ side = "Sell" => reservations[o].sell = LeftMap[o]
        /\ side = "Buy" => reservations[o].sell = 0
        /\ side \in Sides
    BY <1>1 DEF AccountInv, IInv, ReservationsFollowOrders, TypeOK, Orders, Intents
  <2>2. QED
    BY <1>1, <1>2, <2>1 DEF SharesKept, AtLeastZero, Sides
<1>4. ASSUME NEW s \in Symbols
      PROVE  /\ reservedSell'[s] =
                  IF o \in OpenSells(s) THEN reservedSell[s] - q ELSE reservedSell[s]
             /\ o \in OpenSells(s) => q <= reservedSell[s]
             /\ reservedSell'[s] = SumOver(LeftMap', OpenSells(s)')
  <2>1. /\ o \in OpenSells(s) <=> side = "Sell" /\ sym = s
        /\ IsFiniteSet(OpenSells(s)) /\ \A x \in OpenSells(s) : LeftMap[x] \in Nat
        /\ reservedSell[s] = SumOver(LeftMap, OpenSells(s))
        /\ side \in Sides /\ sym \in Symbols
        /\ reservedSell \in [Symbols -> Nat]
    BY OpenSellsOf
  <2>2. OpenSells(s)' = IF Completes(o, q) THEN OpenSells(s) \ {o} ELSE OpenSells(s)
    BY DEF OpenSells, OrderFilled, Live, LiveStatus, Completes
  <2>3. \A x \in OpenSells(s) : x # o => LeftMap'[x] = LeftMap[x]
    BY <1>1 DEF OpenSells
  <2>4. CASE o \in OpenSells(s)
    <3>1. /\ SumOver(LeftMap, OpenSells(s))
               = SumOver(LeftMap, OpenSells(s) \ {o}) + LeftMap[o]
          /\ SumOver(LeftMap, OpenSells(s) \ {o}) \in Nat
          /\ LeftMap[o] <= SumOver(LeftMap, OpenSells(s))
      BY <2>1, <2>4, SumSplit
    <3>2. reservedSell'[s] = AtLeastZero(AtLeastZero(reservedSell[s] - 0) - q)
      BY <1>3, <2>1, <2>4 DEF SellReserveAfter
    <3>3. q <= reservedSell[s] /\ reservedSell'[s] = reservedSell[s] - q
      BY <1>1, <2>1, <3>1, <3>2 DEF AtLeastZero
    <3>4. SumOver(LeftMap', OpenSells(s) \ {o}) = SumOver(LeftMap, OpenSells(s) \ {o})
      <4>1. \A x \in OpenSells(s) \ {o} : LeftMap'[x] = LeftMap[x]
        BY <2>3
      <4>2. QED
        BY <4>1, SumSame
    <3>5. CASE Completes(o, q)
      BY <1>1, <1>2, <2>1, <2>2, <2>4, <3>1, <3>3, <3>4, <3>5
    <3>6. CASE ~Completes(o, q)
      <4>1. /\ \A x \in OpenSells(s) : LeftMap[x] \in Nat /\ LeftMap'[x] \in Nat
            /\ \A x \in OpenSells(s) : x # o => LeftMap'[x] = LeftMap[x]
        BY <1>1, <2>1, <2>3
      <4>2. IsFiniteSet(OpenSells(s))
        BY <2>1
      <4>3. SumOver(LeftMap', OpenSells(s))
              = SumOver(LeftMap, OpenSells(s)) - LeftMap[o] + LeftMap'[o]
        BY <2>4, <4>1, <4>2, SumChange
      <4>4. QED
        BY <1>1, <2>1, <2>2, <2>4, <3>1, <3>3, <3>6, <4>3
    <3>7. QED
      BY <3>5, <3>6
  <2>5. CASE o \notin OpenSells(s)
    <3>1. OpenSells(s)' = OpenSells(s) /\ \A x \in OpenSells(s) : LeftMap'[x] = LeftMap[x]
      BY <2>2, <2>3, <2>5
    <3>2. SumOver(LeftMap', OpenSells(s)) = SumOver(LeftMap, OpenSells(s))
      BY <3>1, SumSame
    <3>3. reservedSell'[s] = reservedSell[s]
      BY <1>3, <2>1, <2>5 DEF SellReserveAfter, AtLeastZero, Sides
    <3>4. QED
      BY <2>1, <2>5, <3>1, <3>2, <3>3
  <2>6. QED
    BY <2>4, <2>5
<1>5. QED
  BY <1>4 DEF ReservedSellIsOpenSells, LeftMap

(* What a fill does to the shares held, d being the day it is made on. *)
LotsSettled(o, q, d) ==
  LET s == orders[o].intent.sym
  IN  /\ lots' \in [Symbols -> Lots]
      /\ \A x \in Symbols : x # s => lots'[x] = lots[x]
      /\ lots'[s][<<d, FALSE>>] >= lots[s][<<d, FALSE>>]
      /\ \A b \in Buckets : lots'[s][b] > 0 => lots[s][b] > 0 \/ b[1] = d
      /\ orders[o].intent.side = "Buy" =>
           /\ Total(lots'[s]) = Total(lots[s]) + q
           /\ Available(lots'[s], d) >= Available(lots[s], d)
      /\ orders[o].intent.side = "Sell" =>
           /\ Total(lots'[s]) = Total(lots[s]) - q
           /\ Available(lots'[s], d) = Available(lots[s], d) - q

LEMMA FillLots ==
  ASSUME TypeOK, pc = "matching", NEW o \in DOMAIN orders, NEW q \in Nat,
         orders[o].intent.sym = snap.sym,
         orders[o].intent.side = "Sell" => q <= Available(lots[snap.sym], snap.date),
         SettleBuy(o, q) \/ SettleSell(o, q)
  PROVE  LotsSettled(o, q, snap.date)
<1> DEFINE s == snap.sym
           d == snap.date
           held == lots[s]
<1>1. /\ s \in Symbols /\ d \in Days /\ held \in Lots
      /\ lots \in [Symbols -> Lots] /\ orders[o].intent \in Intents
      /\ <<d, FALSE>> \in Buckets
  BY DEF TypeOK, Snapshots, Orders, Buckets
<1>2. CASE SettleBuy(o, q)
  <2> DEFINE t0 == meta[orders[o].intent.sym] = "t0_etf" /\ orders[o].intent.t0
             new == AddLot(held, d, t0, q)
  <2>1. t0 \in BOOLEAN
    BY <1>1 DEF Intents
  <2>2. new \in Lots /\ orders[o].intent.side = "Buy" /\ lots' = [lots EXCEPT ![s] = new]
    BY <1>1, <1>2, <2>1, AddLotType DEF SettleBuy
  <2>3. Total(new) = Total(held) + q /\ Available(new, d) >= Available(held, d)
    BY <1>1, <2>1, AddLotTotals
  <2>4. /\ new[<<d, FALSE>>] >= held[<<d, FALSE>>]
        /\ \A b \in Buckets : new[b] > 0 => held[b] > 0 \/ b[1] = d
    <3>1. \A b \in Buckets : held[b] \in Nat
      BY <1>1 DEF Lots
    <3>2. \A b \in Buckets : new[b] = IF b = <<d, t0>> THEN held[b] + q ELSE held[b]
      BY <1>1 DEF AddLot, Lots
    <3> HIDE DEF new, t0
    <3>3. \A b \in Buckets : new[b] >= held[b]
      BY <3>1, <3>2
    <3>4. \A b \in Buckets : new[b] > 0 => held[b] > 0 \/ b[1] = d
      BY <3>1, <3>2
    <3>5. QED
      BY <1>1, <3>3, <3>4
  <2> HIDE DEF new, t0
  <2>5. QED
    BY <1>1, <2>2, <2>3, <2>4 DEF LotsSettled
<1>3. CASE SettleSell(o, q)
  <2>1. PICK rest \in ConsumeFifo(held, q, d) : lots' = [lots EXCEPT ![s] = rest]
    BY <1>3 DEF SettleSell
  <2>2. orders[o].intent.side = "Sell" /\ q <= Available(held, d)
    BY <1>3 DEF SettleSell
  <2>3. Lesser(q, Available(held, d)) = q
    BY <1>1, <2>2, AvailableType DEF Lesser
  <2>4. /\ Total(rest) = Total(held) - q
        /\ Available(rest, d) = Available(held, d) - q
        /\ rest[<<d, FALSE>>] = held[<<d, FALSE>>]
    <3>1. LET taken == Lesser(q, Available(held, d))
          IN  /\ Total(rest) = Total(held) - taken
              /\ Available(rest, d) = Available(held, d) - taken
              /\ rest[<<d, FALSE>>] = held[<<d, FALSE>>]
      BY <1>1, ConsumeFifoTotals
    <3>2. QED
      BY <2>3, <3>1
  <2>5. rest \in Lots
    BY <1>1, ConsumeFifoType
  <2>6. \A b \in Buckets : rest[b] > 0 => held[b] > 0
    <3>1. PICK take \in [Buckets -> 0..q] : rest = [b \in Buckets |-> held[b] - take[b]]
      BY DEF ConsumeFifo
    <3>2. ASSUME NEW b \in Buckets, rest[b] > 0 PROVE held[b] > 0
      BY <1>1, <3>1, <3>2 DEF Lots
    <3>3. QED
      BY <3>2
  <2>7. held[<<d, FALSE>>] \in Nat
    BY <1>1 DEF Lots
  <2>8. QED
    BY <1>1, <2>1, <2>2, <2>4, <2>5, <2>6, <2>7 DEF LotsSettled
<1>4. QED
  BY <1>2, <1>3

LEMMA FillHoldings ==
  ASSUME AccountInv, NEW o \in DOMAIN orders, NEW q \in Nat,
         OrderFilled(o, q), NEW d, LotsSettled(o, q, d)
  PROVE  HoldingsAreFills'
<1> DEFINE sym == orders[o].intent.sym
           side == orders[o].intent.side
<1>1. /\ DOMAIN orders' = DOMAIN orders
      /\ \A x \in DOMAIN orders : x # o => FilledMap'[x] = FilledMap[x]
      /\ \A x \in DOMAIN orders : FilledMap[x] \in Nat /\ FilledMap'[x] \in Nat
      /\ FilledMap'[o] = FilledMap[o] + q
      /\ \A s, t : OrdersOn(s, t)' = OrdersOn(s, t)
  BY MapTypes DEF OrderFilled, FilledMap, OrdersOn
<1>2. sym \in Symbols /\ side \in Sides /\ lots \in [Symbols -> Lots]
  BY DEF AccountInv, IInv, TypeOK, Orders, Intents
<1>3. ASSUME NEW s, NEW t \in Sides
      PROVE  FilledOn(s, t)' =
               IF s = sym /\ t = side THEN FilledOn(s, t) + q ELSE FilledOn(s, t)
  <2>1. IsFiniteSet(OrdersOn(s, t)) /\ OrdersOn(s, t) \subseteq DOMAIN orders
    BY MapTypes
  <2>2. /\ FilledOn(s, t)' = SumOver(FilledMap', OrdersOn(s, t)')
        /\ FilledOn(s, t) = SumOver(FilledMap, OrdersOn(s, t))
    BY DEF FilledOn, FilledMap
  <2>3. CASE s = sym /\ t = side
    <3>1. o \in OrdersOn(s, t)
      BY <2>3 DEF OrdersOn
    <3>2. /\ \A x \in OrdersOn(s, t) : FilledMap[x] \in Nat /\ FilledMap'[x] \in Nat
          /\ \A x \in OrdersOn(s, t) : x # o => FilledMap'[x] = FilledMap[x]
      BY <1>1, <2>1
    <3>3. SumOver(FilledMap', OrdersOn(s, t))
            = SumOver(FilledMap, OrdersOn(s, t)) - FilledMap[o] + FilledMap'[o]
      BY <2>1, <3>1, <3>2, SumChange
    <3>4. SumOver(FilledMap, OrdersOn(s, t)) \in Nat /\ FilledMap[o] \in Nat
      BY <1>1, <2>1, <3>2, SumType
    <3>5. QED
      BY <1>1, <2>2, <2>3, <3>3, <3>4
  <2>4. CASE ~(s = sym /\ t = side)
    <3>1. \A x \in OrdersOn(s, t) : FilledMap'[x] = FilledMap[x]
      BY <1>1, <2>4 DEF OrdersOn
    <3>2. SumOver(FilledMap', OrdersOn(s, t)) = SumOver(FilledMap, OrdersOn(s, t))
      BY <3>1, SumSame
    <3>3. QED
      BY <1>1, <2>2, <2>4, <3>2
  <2>5. QED
    BY <2>3, <2>4
<1>4. ASSUME NEW s \in Symbols
      PROVE  Total(lots'[s]) = FilledOn(s, "Buy")' - FilledOn(s, "Sell")'
  <2>1. Total(lots[s]) = FilledOn(s, "Buy") - FilledOn(s, "Sell")
    BY DEF AccountInv, HoldingsAreFills
  <2>2. FilledOn(s, "Buy") \in Nat /\ FilledOn(s, "Sell") \in Nat
    BY FilledOnType
  <2>3. /\ FilledOn(s, "Buy")' = IF s = sym /\ "Buy" = side
                                 THEN FilledOn(s, "Buy") + q ELSE FilledOn(s, "Buy")
        /\ FilledOn(s, "Sell")' = IF s = sym /\ "Sell" = side
                                  THEN FilledOn(s, "Sell") + q ELSE FilledOn(s, "Sell")
    BY <1>3 DEF Sides
  <2>4. CASE s # sym
    BY <2>1, <2>3, <2>4 DEF LotsSettled
  <2>5. CASE s = sym /\ side = "Buy"
    BY <2>1, <2>2, <2>3, <2>5 DEF LotsSettled
  <2>6. CASE s = sym /\ side = "Sell"
    BY <2>1, <2>2, <2>3, <2>6 DEF LotsSettled
  <2>7. QED
    BY <1>2, <2>4, <2>5, <2>6 DEF Sides
<1>5. QED
  BY <1>4 DEF HoldingsAreFills

LEMMA FillAccount ==
  ASSUME AccountInv, NEW o \in OrderIds, MatchOne(o), IInv'
  PROVE  /\ AccountInv'
         /\ LotsSettled(o, MatchedShares(o), snap.date)
         /\ orders[o].intent.sym = snap.sym /\ snap.date = latest[snap.sym].date
<1> DEFINE q == MatchedShares(o)
           s == snap.sym
           d == snap.date
<1>1. /\ o \in DOMAIN orders /\ o \in DOMAIN reservations /\ Live(o)
      /\ q \in Nat \ {0} /\ q <= Remaining(o)
      /\ OrderFilled(o, q) /\ ReservationFilled(o, q)
      /\ orders[o].intent.sym = s /\ s \in DOMAIN latest /\ s \in Symbols
      /\ d = latest[s].date /\ d \in Days /\ latest' = latest
  BY FillEffect
<1>2. /\ FillOrder(o, q) /\ reservedSell' = SellReserveAfter(o, q)
      /\ (SettleBuy(o, q) \/ SettleSell(o, q)) /\ pc = "matching"
      /\ pc' = "matching" => snap' = snap
  BY DEF MatchOne, SettleBuy, SettleSell
<1>3. /\ TypeOK /\ lots \in [Symbols -> Lots] /\ reservedSell \in [Symbols -> Nat]
      /\ pc = "matching" /\ (SettleBuy(o, q) \/ SettleSell(o, q))
      /\ orders[o].intent.side \in Sides
  BY <1>1, <1>2 DEF AccountInv, IInv, TypeOK, Orders, Intents, MatchOne
<1> HIDE DEF q
<1>4. FrozenIsReserved'
  BY <1>1, <1>2, FillFrozen
<1>5. /\ ReservedSellIsOpenSells'
      /\ \A x \in Symbols :
           reservedSell'[x] =
             IF o \in OpenSells(x) THEN reservedSell[x] - q ELSE reservedSell[x]
      /\ \A x \in Symbols : o \in OpenSells(x) => q <= reservedSell[x]
  BY <1>1, <1>2, FillReservedSell
<1>6. \A x \in Symbols :
        o \in OpenSells(x) <=> orders[o].intent.side = "Sell" /\ x = s
  BY <1>1 DEF OpenSells
<1>7. Available(lots[s], d) \in Nat
  BY <1>1, <1>3, AvailableType
<1>8. orders[o].intent.side = "Sell" => q <= Available(lots[s], d)
  <2>1. HAVE orders[o].intent.side = "Sell"
  <2>2. q <= reservedSell[s] /\ reservedSell[s] \in Nat /\ reservedSell[s] > 0
    BY <1>1, <1>3, <1>5, <1>6, <2>1
  <2>3. reservedSell[s] <= Available(lots[s], latest[s].date)
    BY <1>1, <2>2 DEF AccountInv, SellsCovered
  <2>4. QED
    BY <1>1, <1>7, <2>2, <2>3
<1>9. LotsSettled(o, q, d)
  BY <1>1, <1>3, <1>8, FillLots
<1>10. HoldingsAreFills'
  BY <1>1, <1>9, FillHoldings
<1>11. SellsCovered'
  <2> SUFFICES ASSUME NEW x \in Symbols, reservedSell'[x] > 0
               PROVE  /\ x \in DOMAIN latest
                      /\ reservedSell'[x] <= Available(lots'[x], latest[x].date)
    BY <1>1 DEF SellsCovered
  <2>1. reservedSell[x] > 0 /\ reservedSell[x] \in Nat
    BY <1>1, <1>3, <1>5
  <2>2. x \in DOMAIN latest /\ reservedSell[x] <= Available(lots[x], latest[x].date)
    BY <2>1 DEF AccountInv, SellsCovered
  <2>3. CASE x # s
    BY <1>1, <1>5, <1>6, <1>9, <2>2, <2>3 DEF LotsSettled
  <2>4. CASE x = s
    <3>1. Available(lots'[s], d) \in Nat
      BY <1>1, <1>9, AvailableType DEF LotsSettled
    <3>2. CASE orders[o].intent.side = "Sell"
      <4>1. reservedSell'[s] = reservedSell[s] - q
        BY <1>1, <1>5, <1>6, <3>2
      <4>2. Available(lots'[s], d) = Available(lots[s], d) - q
        BY <1>1, <1>9, <3>2 DEF LotsSettled
      <4>3. QED
        BY <1>1, <1>7, <2>1, <2>2, <2>4, <3>1, <4>1, <4>2
    <3>3. CASE orders[o].intent.side = "Buy"
      <4>1. reservedSell'[s] = reservedSell[s]
        BY <1>1, <1>5, <1>6, <3>3
      <4>2. Available(lots'[s], d) >= Available(lots[s], d)
        BY <1>1, <1>9, <3>3 DEF LotsSettled
      <4>3. QED
        BY <1>1, <1>7, <2>1, <2>2, <2>4, <3>1, <4>1, <4>2
    <3>4. QED
      BY <1>3, <3>2, <3>3 DEF Sides
  <2>5. QED
    BY <2>3, <2>4
<1>12. LotsDated'
  <2> SUFFICES ASSUME NEW x \in Symbols, NEW b \in Buckets, lots'[x][b] > 0
               PROVE  x \in DOMAIN latest /\ b[1] <= latest[x].date
    BY <1>1 DEF LotsDated
  <2>1. lots[x][b] > 0 \/ (x = s /\ b[1] = d)
    BY <1>1, <1>9 DEF LotsSettled
  <2>2. CASE lots[x][b] > 0
    BY <2>2 DEF AccountInv, LotsDated
  <2>3. CASE x = s /\ b[1] = d
    BY <1>1, <2>3, MaxDayAssumption DEF Days
  <2>4. QED
    BY <2>1, <2>2, <2>3
<1>13. MatchesLatest'
  BY <1>1, <1>2 DEF MatchesLatest
<1>14. IsFiniteSet(DOMAIN orders')
  BY <1>1 DEF AccountInv, OrderFilled
<1>15. QED
  BY <1>1, <1>4, <1>5, <1>9, <1>10, <1>11, <1>12, <1>13, <1>14 DEF AccountInv, q

-----------------------------------------------------------------------------
(* Steps that change neither the account nor the book. *)

LEMMA AccountUnchanged ==
  ASSUME AccountInv, UNCHANGED account, UNCHANGED book, IInv',
         latest' = latest, MatchesLatest'
  PROVE  AccountInv'
BY DEF AccountInv, account, book, FrozenIsReserved, ReservedSellIsOpenSells, OpenSells,
       Live, Remaining, LotsDated, SellsCovered, HoldingsAreFills, FilledOn, OrdersOn

LEMMA BeginSnapshotAccount ==
  ASSUME AccountInv, NEW sn \in Feed, BeginSnapshot(sn), IInv'
  PROVE  AccountInv'
<1>1. /\ UNCHANGED account /\ UNCHANGED book /\ pc' = "matching" /\ snap' = sn
      /\ latest' = Put(latest, sn.sym, [date |-> sn.date, ask |-> sn.ask])
      /\ sn.sym \in DOMAIN latest => sn.date >= latest[sn.sym].date
  BY DEF BeginSnapshot
<1>2. sn.sym \in Symbols /\ sn.date \in Days
  BY ExecutionAssumption DEF Snapshots
<1>3. /\ DOMAIN latest' = DOMAIN latest \cup {sn.sym}
      /\ latest'[sn.sym].date = sn.date
      /\ \A s \in DOMAIN latest : s # sn.sym => latest'[s] = latest[s]
  BY <1>1 DEF Put
<1>4. \A s \in DOMAIN latest :
        latest[s].date \in Days /\ latest'[s].date \in Days
        /\ latest[s].date <= latest'[s].date
  <2>1. \A s \in DOMAIN latest : latest[s].date \in Days
    BY DEF AccountInv, IInv, TypeOK, Quotes
  <2>2. \A x \in Days : x \in Int
    BY DEF Days
  <2>3. QED
    BY <1>1, <1>2, <1>3, <2>1, <2>2
<1>5. LotsDated'
  <2> SUFFICES ASSUME NEW s \in Symbols, NEW b \in Buckets, lots[s][b] > 0
               PROVE  s \in DOMAIN latest' /\ b[1] <= latest'[s].date
    BY <1>1 DEF LotsDated, account
  <2>1. s \in DOMAIN latest /\ b[1] <= latest[s].date
    BY DEF AccountInv, LotsDated
  <2>2. b[1] \in Int /\ latest[s].date \in Int /\ latest'[s].date \in Int
    BY <1>4, <2>1, MaxDayAssumption DEF Buckets, Days
  <2>3. QED
    BY <1>3, <1>4, <2>1, <2>2
<1>6. MatchesLatest'
  BY <1>1, <1>3 DEF MatchesLatest
<1>7. SellsCovered'
  <2> SUFFICES ASSUME NEW s \in Symbols, reservedSell[s] > 0
               PROVE  /\ s \in DOMAIN latest'
                      /\ reservedSell[s] <= Available(lots[s], latest'[s].date)
    BY <1>1 DEF SellsCovered, account
  <2>1. s \in DOMAIN latest /\ reservedSell[s] <= Available(lots[s], latest[s].date)
    BY DEF AccountInv, SellsCovered
  <2>2. lots[s] \in Lots /\ \A b \in Buckets : lots[s][b] > 0 => b[1] <= latest[s].date
    BY DEF AccountInv, IInv, TypeOK, LotsDated
  <2>3. Available(lots[s], latest'[s].date) >= Available(lots[s], latest[s].date)
    BY <1>4, <2>1, <2>2, LaterDayUnlocks
  <2>4. /\ Available(lots[s], latest'[s].date) \in Nat
        /\ Available(lots[s], latest[s].date) \in Nat /\ reservedSell[s] \in Nat
    BY <2>2, AvailableType DEF AccountInv, IInv, TypeOK
  <2>5. QED
    BY <1>3, <2>1, <2>3, <2>4
<1>8. /\ IsFiniteSet(DOMAIN orders') /\ FrozenIsReserved' /\ ReservedSellIsOpenSells'
      /\ HoldingsAreFills'
  BY <1>1
  DEF AccountInv, account, book, FrozenIsReserved, ReservedSellIsOpenSells, OpenSells,
      Live, Remaining, HoldingsAreFills, FilledOn, OrdersOn
<1>9. QED
  BY <1>5, <1>6, <1>7, <1>8 DEF AccountInv

-----------------------------------------------------------------------------
LEMMA InitAccountInv == Init => AccountInv
<1> SUFFICES ASSUME Init PROVE AccountInv
  OBVIOUS
<1>1. DOMAIN orders = {} /\ DOMAIN reservations = {}
  BY DEF Init, EmptyMap
<1>2. FrozenIsReserved
  BY <1>1, SumEmpty DEF FrozenIsReserved, Init
<1>3. ReservedSellIsOpenSells
  <2>1. \A s : OpenSells(s) = {}
    BY <1>1 DEF OpenSells
  <2>2. QED
    BY <2>1, SumEmpty DEF ReservedSellIsOpenSells, Init
<1>4. HoldingsAreFills
  <2>1. \A s, side : OrdersOn(s, side) = {}
    BY <1>1 DEF OrdersOn
  <2>2. \A s, side : FilledOn(s, side) = 0
    BY <2>1, SumEmpty DEF FilledOn
  <2>3. \A s \in Symbols : Total(lots[s]) = 0
    BY NoLotsTotal DEF Init
  <2>4. QED
    BY <2>2, <2>3 DEF HoldingsAreFills
<1>5. LotsDated /\ MatchesLatest /\ SellsCovered
  BY DEF Init, NoLots, LotsDated, MatchesLatest, SellsCovered
<1>6. QED
  BY <1>1, <1>2, <1>3, <1>4, <1>5, InitIInv, FS_EmptySet DEF AccountInv

LEMMA NextAccountInv == AccountInv /\ [Next]_vars => AccountInv'
<1> SUFFICES ASSUME AccountInv, [Next]_vars PROVE AccountInv'
  OBVIOUS
<1>1. IInv'
  BY NextIInv DEF AccountInv
<1>2. CASE \E o \in ClientIds : \E i \in Requests : Submit(o, i)
  <2>1. PICK o \in ClientIds : \E i \in Requests : Submit(o, i)
    BY <1>2
  <2>2. PICK i \in Requests : Submit(o, i)
    BY <2>1
  <2>3. /\ o \in OrderIds /\ i \in Intents /\ Accepts(i) /\ Enter(o, i)
        /\ pc # "matching" /\ pc' # "matching"
    BY <2>2, ExecutionAssumption DEF OrderIds, Submit, Unlocked, pump
  <2>4. QED
    BY <1>1, <2>3, EnterAccount
<1>3. CASE \E o \in OrderIds : Cancel(o)
  BY <1>1, <1>3, CancelAccount
<1>4. CASE \E s \in Symbols : \E kind \in MetaKinds : SetInstrumentMeta(s, kind)
  <2>1. /\ UNCHANGED account /\ UNCHANGED book /\ latest' = latest
        /\ pc' = pc /\ snap' = snap
    BY <1>4 DEF SetInstrumentMeta, pump
  <2>2. MatchesLatest'
    BY <2>1 DEF AccountInv, MatchesLatest
  <2>3. QED
    BY <1>1, <2>1, <2>2, AccountUnchanged
<1>5. CASE \E sn \in Feed : BeginSnapshot(sn)
  BY <1>1, <1>5, BeginSnapshotAccount
<1>6. CASE \E o \in OrderIds : MatchOne(o)
  BY <1>1, <1>6, FillAccount
<1>7. CASE EndMatching
  <2>1. UNCHANGED account /\ UNCHANGED book /\ latest' = latest /\ pc' # "matching"
    BY <1>7 DEF EndMatching, NextStage
  <2>2. MatchesLatest'
    BY <2>1 DEF MatchesLatest
  <2>3. QED
    BY <1>1, <2>1, <2>2, AccountUnchanged
<1>8. CASE \E o \in OrderIds : PersistFill(o)
  <2>1. UNCHANGED account /\ UNCHANGED book /\ latest' = latest /\ pc' # "matching"
    BY <1>8 DEF PersistFill, NextStage, market
  <2>2. MatchesLatest'
    BY <2>1 DEF MatchesLatest
  <2>3. QED
    BY <1>1, <2>1, <2>2, AccountUnchanged
<1>9. CASE Exiting
  <2>1. PICK i \in hardIntents :
          (\E o \in PumpIds : SubmitHardExit(o, i)) \/ RejectHardExit(i)
    BY <1>9 DEF Exiting
  <2>2. CASE RejectHardExit(i)
    <3>1. UNCHANGED account /\ UNCHANGED book /\ latest' = latest /\ pc' # "matching"
      BY <2>2 DEF RejectHardExit, market
    <3>2. MatchesLatest'
      BY <3>1 DEF MatchesLatest
    <3>3. QED
      BY <1>1, <3>1, <3>2, AccountUnchanged
  <2>3. CASE \E o \in PumpIds : SubmitHardExit(o, i)
    <3>1. PICK o \in PumpIds : SubmitHardExit(o, i)
      BY <2>3
    <3>2. /\ o \in OrderIds /\ i \in Intents /\ Accepts(i) /\ Enter(o, i)
          /\ pc # "matching" /\ pc' # "matching"
      BY <3>1 DEF OrderIds, SubmitHardExit, AccountInv, IInv, TypeOK
    <3>3. QED
      BY <1>1, <3>2, EnterAccount
  <2>4. QED
    BY <2>1, <2>2, <2>3
<1>10. CASE UNCHANGED vars
  <2>1. /\ UNCHANGED account /\ UNCHANGED book /\ latest' = latest
        /\ pc' = pc /\ snap' = snap
    BY <1>10 DEF vars, market, pump
  <2>2. MatchesLatest'
    BY <2>1 DEF AccountInv, MatchesLatest
  <2>3. QED
    BY <1>1, <2>1, <2>2, AccountUnchanged
<1>11. QED
  BY <1>2, <1>3, <1>4, <1>5, <1>6, <1>7, <1>8, <1>9, <1>10
  DEF Next, Client, PumpWork, Matching

(***************************************************************************)
(* Account, book and market stay together in every reachable state.        *)
(***************************************************************************)
THEOREM AccountInvariance == Spec => []AccountInv
BY InitAccountInv, NextAccountInv, PTL DEF Spec

(***************************************************************************)
(* account.rs freeze_cash, release_cash: however orders are submitted, cut *)
(* into fills and cancelled, no cash stays frozen without an order, and    *)
(* the clamping at zero never hides a double release.                      *)
(***************************************************************************)
THEOREM FrozenCorrect == Spec => []FrozenIsReserved
<1>1. AccountInv => FrozenIsReserved
  BY DEF AccountInv
<1>2. QED
  BY <1>1, AccountInvariance, PTL

(***************************************************************************)
(* account.rs reserved_sell is what the open sells still have to sell.     *)
(***************************************************************************)
THEOREM ReservedSellCorrect == Spec => []ReservedSellIsOpenSells
<1>1. AccountInv => ReservedSellIsOpenSells
  BY DEF AccountInv
<1>2. QED
  BY <1>1, AccountInvariance, PTL

(***************************************************************************)
(* account.rs lots hold exactly what the orders bought and did not sell.   *)
(***************************************************************************)
THEOREM HoldingsCorrect == Spec => []HoldingsAreFills
<1>1. AccountInv => HoldingsAreFills
  BY DEF AccountInv
<1>2. QED
  BY <1>1, AccountInvariance, PTL

(***************************************************************************)
(* Every open sell can be delivered on its symbol's current trading date,  *)
(* so that consume_lots_fifo never fails in the middle of a fill.          *)
(***************************************************************************)
THEOREM SellsAlwaysCovered == Spec => []SellsCovered
<1>1. AccountInv => SellsCovered
  BY DEF AccountInv
<1>2. QED
  BY <1>1, AccountInvariance, PTL

(***************************************************************************)
(* T+1: no share bought without T+0 leaves the account before its symbol   *)
(* has traded on a later date.                                             *)
(***************************************************************************)
THEOREM TPlusOneKept == Spec => TPlusOne
<1> DEFINE Kept ==
      \A s \in DOMAIN latest :
        latest'[s].date = latest[s].date =>
          lots'[s][<<latest[s].date, FALSE>>] >= lots[s][<<latest[s].date, FALSE>>]
<1>1. ASSUME AccountInv, AccountInv', [Next]_vars PROVE [Kept]_vars
  <2>1. \A s \in DOMAIN latest : lots[s][<<latest[s].date, FALSE>>] \in Nat
    <3>1. TypeOK
      BY <1>1 DEF AccountInv, IInv
    <3>2. ASSUME NEW s \in DOMAIN latest
          PROVE  lots[s] \in Lots /\ <<latest[s].date, FALSE>> \in Buckets
      BY <3>1 DEF TypeOK, Quotes, Buckets
    <3>3. QED
      BY <3>2 DEF Lots
  <2>2. CASE lots' = lots
    <3>1. \A n \in Nat : n >= n
      OBVIOUS
    <3>2. QED
      BY <2>1, <2>2, <3>1
  <2>3. CASE \E o \in OrderIds : MatchOne(o)
    <3>1. PICK o \in OrderIds : MatchOne(o)
      BY <2>3
    <3>2. /\ LotsSettled(o, MatchedShares(o), snap.date)
          /\ orders[o].intent.sym = snap.sym /\ snap.date = latest[snap.sym].date
      BY <1>1, <3>1, FillAccount DEF AccountInv
    <3>3. ASSUME NEW s \in DOMAIN latest
          PROVE  lots'[s][<<latest[s].date, FALSE>>] >= lots[s][<<latest[s].date, FALSE>>]
      <4>1. s \in Symbols
        BY <1>1 DEF AccountInv, IInv, TypeOK
      <4>2. CASE s = snap.sym
        BY <3>2, <4>2 DEF LotsSettled
      <4>3. CASE s # snap.sym
        <5>1. lots'[s] = lots[s] /\ lots[s][<<latest[s].date, FALSE>>] \in Nat
          BY <2>1, <3>2, <4>1, <4>3 DEF LotsSettled
        <5>2. QED
          BY <5>1
      <4>4. QED
        BY <4>2, <4>3
    <3>4. QED
      BY <3>3
  <2>4. QED
    BY <1>1, <2>2, <2>3
    DEF Next, Client, PumpWork, Matching, Exiting, Submit, Enter, Cancel,
        SetInstrumentMeta, BeginSnapshot, EndMatching, PersistFill, SubmitHardExit,
        RejectHardExit, account, vars
<1>2. QED
  BY <1>1, AccountInvariance, PTL DEF Spec, TPlusOne

-----------------------------------------------------------------------------
(* However its fills are cut, a limit buy keeps its share of the estimate.  *)

(* Products of integers, one fact at a time: the solver does not multiply. *)
LEMMA ProductMonotone ==
  ASSUME NEW x \in Int, NEW y \in Int, x <= y, NEW k \in Nat
  PROVE  k * x <= k * y /\ x * k <= y * k
OBVIOUS

LEMMA Products ==
  ASSUME NEW a \in Int, NEW b \in Int, NEW c \in Int
  PROVE /\ a * b \in Int /\ a * (b - c) = a * b - a * c
        /\ (b - c) * a = b * a - c * a /\ a * (b * c) = (a * b) * c /\ a * b = b * a
OBVIOUS

LEMMA CancelFactor ==
  ASSUME NEW x \in Int, NEW y \in Int, NEW k \in Nat \ {0}, k * x <= k * y
  PROVE  x <= y
<1>1. SUFFICES ASSUME y < x PROVE FALSE
  OBVIOUS
<1>2. k * (x - y) = k * x - k * y
  BY Products
<1>3. x - y >= 1 /\ x - y \in Nat
  BY <1>1
<1>4. k * 1 <= k * (x - y)
  BY <1>3, ProductMonotone
<1>5. k * x \in Int /\ k * y \in Int
  BY Products
<1>6. QED
  BY <1>2, <1>4, <1>5

(***************************************************************************)
(* What q / n of c leaves: if c covered m of the n shares of an estimate e *)
(* it covers the rest after q more, because q / n of c is at most q / m.   *)
(***************************************************************************)
LEMMA RestCovered ==
  ASSUME NEW c \in Nat, NEW n \in Nat \ {0}, NEW m \in Nat, m <= n,
         NEW q \in Nat, q <= m, NEW e \in Nat, c * n >= e * m
  PROVE  c * (n - q) >= e * (m - q)
<1>1. c * n \in Nat /\ e * m \in Nat
  OBVIOUS
<1>2. n * (m - q) <= (n - q) * m
  <2>1. n * (m - q) = n * m - n * q /\ (n - q) * m = n * m - q * m
    BY Products
  <2>2. q * m <= n * q
    BY ProductMonotone, Products
  <2>3. n * m \in Int /\ n * q \in Int /\ q * m \in Int
    BY Products
  <2>4. QED
    BY <2>1, <2>2, <2>3
<1>3. n * (e * (m - q)) <= n * (c * (n - q))
  <2>1. e * (n * (m - q)) <= e * ((n - q) * m)
    BY <1>2, ProductMonotone, Products
  <2>2. (n - q) * (e * m) <= (n - q) * (c * n)
    BY <1>1, ProductMonotone
  <2>3. e * (n * (m - q)) = n * (e * (m - q))
    OBVIOUS
  <2>4. e * ((n - q) * m) = (n - q) * (e * m)
    OBVIOUS
  <2>5. (n - q) * (c * n) = n * (c * (n - q))
    OBVIOUS
  <2>6. QED
    BY <2>1, <2>2, <2>3, <2>4, <2>5, Products
<1>4. QED
  BY <1>3, CancelFactor, Products

(***************************************************************************)
(* apply_fill_to_state's rounded release: of c reserved for n shares, m of *)
(* them unfilled, at most half a unit short for each of the f shares that  *)
(* are filled, what is kept after a fill of q is at most half a unit more  *)
(* short of its share of the estimate e.                                   *)
(***************************************************************************)
LEMMA ShareKept ==
  ASSUME NEW c \in Nat, NEW n \in Nat \ {0}, NEW m \in Nat, m <= n,
         NEW q \in Nat \ {0}, q <= m, NEW e \in Nat, NEW f \in Nat,
         (2 * c + f) * n >= (2 * e) * m
  PROVE  (2 * (c - RoundDp(c * q, n)) + (f + q)) * n >= (2 * e) * (m - q)
<1> DEFINE r == RoundDp(c * q, n)
           c2 == 2 * c
           w == c2 + f
<1>1. c * q \in Nat
  BY ProductType
<1>2. r \in Nat /\ 2 * (n * r) - 2 * (c * q) <= n
  BY <1>1, QuotientRounded
<1>3. w \in Nat /\ c2 \in Nat /\ 2 * e \in Nat /\ w * n >= (2 * e) * m
  OBVIOUS
<1> HIDE DEF r, w
<1>4. w * (n - q) >= (2 * e) * (m - q)
  BY <1>3, RestCovered
<1>5. w * (n - q) = c2 * (n - q) + f * (n - q)
  BY <1>3 DEF w
<1>6. c2 * (n - q) = 2 * (n * c) - 2 * (c * q)
  BY DEF c2
<1>7. f * (n - q) <= n * f
  BY ProductMonotone, Products
<1>8. n <= n * q
  BY ProductMonotone, Products
<1>9. (2 * (c - r) + (f + q)) * n = 2 * (n * c) - 2 * (n * r) + n * f + n * q
  BY <1>2
<1>10. /\ n * c \in Int /\ n * r \in Int /\ n * f \in Int /\ n * q \in Int
       /\ w * (n - q) \in Int /\ f * (n - q) \in Int /\ (2 * e) * (m - q) \in Int
  BY <1>2, <1>3, Products
<1> HIDE DEF c2
<1>11. (2 * (c - r) + (f + q)) * n >= (2 * e) * (m - q)
  BY <1>1, <1>2, <1>4, <1>5, <1>6, <1>7, <1>8, <1>9, <1>10
<1>12. QED
  BY <1>11 DEF r

(* The estimate of a limit order depends on the order alone. *)
LEMMA LimitEstimate ==
  ASSUME NEW i, i.price # Market
  PROVE  Required(i)' = Required(i)
BY DEF Required, EstimatedPrice

(* BuysStayFunded speaks of the limit buys that hold a reservation. *)
LimitBuy(i) == i.side = "Buy" /\ i.price # Market

LEMMA EnterFunded ==
  ASSUME IInv, BuysStayFunded, NEW o \in OrderIds, NEW i \in Intents, i.qty > 0,
         Enter(o, i)
  PROVE  BuysStayFunded'
<1>1. OrderAdded(o, i) /\ ReservationAdded(o, i)
  BY EnterOrders, EnterReservations DEF IInv
<1>2. DOMAIN reservations \subseteq DOMAIN orders
  BY DEF IInv, ReservationsFollowOrders
<1>3. ASSUME NEW x \in DOMAIN reservations', LimitBuy(orders'[x].intent)
      PROVE  (2 * reservations'[x].cash + orders'[x].filled) * orders'[x].intent.qty
               >= (2 * Required(orders[x].intent)') * Remaining(x)'
  <2>1. CASE x = o
    <3>1. /\ orders'[x].intent = i /\ orders'[x].filled = 0
          /\ Remaining(x)' = i.qty /\ i.qty \in Nat
      BY <1>1, <2>1 DEF OrderAdded, Remaining, Intents
    <3>2. Required(i)' = Required(i) /\ reservations'[x].cash = Required(i)
      BY <1>1, <1>3, <2>1, <3>1, LimitEstimate DEF ReservationAdded, LimitBuy
    <3>3. Required(i) \in Nat
      BY RequiredType DEF IInv
    <3>4. \A r, n \in Nat : (2 * r + 0) * n >= (2 * r) * n
      BY ProductType
    <3>5. QED
      BY <3>1, <3>2, <3>3, <3>4
  <2>2. CASE x # o
    <3>1. /\ x \in DOMAIN reservations /\ x \in DOMAIN orders
          /\ reservations'[x] = reservations[x] /\ orders'[x] = orders[x]
      BY <1>1, <1>2, <2>2 DEF OrderAdded, ReservationAdded
    <3>2. Remaining(x)' = Remaining(x)
      BY <3>1 DEF Remaining
    <3>3. Required(orders[x].intent)' = Required(orders[x].intent)
      BY <1>3, <3>1 DEF Required, EstimatedPrice, LimitBuy
    <3>4. QED
      BY <1>3, <3>1, <3>2, <3>3 DEF BuysStayFunded, LimitBuy, Required, EstimatedPrice
  <2>3. QED
    BY <2>1, <2>2
<1>4. QED
  BY <1>3 DEF BuysStayFunded, LimitBuy

(* A step that leaves an order and its reservation alone keeps it funded. *)
LEMMA StillFunded ==
  ASSUME BuysStayFunded, NEW x \in DOMAIN reservations,
         reservations'[x] = reservations[x], orders'[x].intent = orders[x].intent,
         orders'[x].filled = orders[x].filled, LimitBuy(orders'[x].intent)
  PROVE  (2 * reservations'[x].cash + orders'[x].filled) * orders'[x].intent.qty
           >= (2 * Required(orders[x].intent)') * Remaining(x)'
<1>1. Remaining(x)' = Remaining(x)
  BY DEF Remaining
<1>2. Required(orders[x].intent)' = Required(orders[x].intent)
  BY DEF Required, EstimatedPrice, LimitBuy
<1>3. QED
  BY <1>1, <1>2 DEF BuysStayFunded, LimitBuy

LEMMA FillFunded ==
  ASSUME IInv, BuysStayFunded, NEW o \in DOMAIN orders, Live(o),
         NEW q \in Nat \ {0}, q <= Remaining(o), FillOrder(o, q)
  PROVE  BuysStayFunded'
<1>1. /\ OrderFilled(o, q) /\ ReservationFilled(o, q)
      /\ TypeOK /\ ReservationsFollowOrders /\ OrdersConsistent
  BY FillBook DEF IInv
<1>2. ASSUME NEW x \in DOMAIN reservations', LimitBuy(orders'[x].intent)
      PROVE  (2 * reservations'[x].cash + orders'[x].filled) * orders'[x].intent.qty
               >= (2 * Required(orders[x].intent)') * Remaining(x)'
  <2>1. x \in DOMAIN reservations /\ x \in DOMAIN orders
    BY <1>1 DEF ReservationFilled, ReservationsFollowOrders
  <2>2. CASE x # o
    <3>1. reservations'[x] = reservations[x] /\ orders'[x] = orders[x]
      BY <1>1, <2>1, <2>2 DEF OrderFilled, ReservationFilled
    <3>2. QED
      BY <1>2, <2>1, <3>1, StillFunded
  <2>3. CASE x = o
    <3> DEFINE i == orders[o].intent
               c == reservations[o].cash
               n == i.qty
               m == Remaining(o)
               e == Required(i)
               f == orders[o].filled
    <3>1. /\ orders'[o].intent = i /\ orders'[o].filled = f + q
          /\ Remaining(o)' = m - q
      <4>1. orders[o].filled \in Nat /\ orders[o].intent.qty \in Nat
        BY <1>1 DEF TypeOK, Orders, Intents
      <4>2. QED
        BY <1>1, <4>1 DEF OrderFilled, Remaining
    <3>2. LimitBuy(i) /\ Required(i)' = e
      BY <1>2, <2>3, <3>1 DEF LimitBuy, Required, EstimatedPrice
    <3>3. /\ c \in Nat /\ reservations[o].orig = n /\ n \in Nat \ {0}
      BY <1>1, <2>1, <2>3 DEF TypeOK, Reservations, ReservationsFollowOrders
    <3>4. m \in Nat /\ m <= n /\ q <= m
      <4>1. orders[o].filled \in Nat /\ n \in Nat /\ orders[o].filled <= n
        BY <1>1 DEF TypeOK, Orders, Intents, OrdersConsistent
      <4>2. QED
        BY <4>1 DEF Remaining
    <3>5. e \in Nat /\ f \in Nat
      BY <1>1, RequiredType DEF TypeOK, Orders
    <3>6. (2 * c + f) * n >= (2 * e) * m
      BY <2>1, <2>3, <3>2 DEF BuysStayFunded, LimitBuy
    <3>7. reservations'[o].cash = CashKept(o, q)
      BY <1>1, <2>3 DEF ReservationFilled
    <3>8. Released(o, q) = RoundDp(c * q, n)
      BY <3>2, <3>3 DEF Released, LimitBuy
    <3> HIDE DEF c, n, m, e, f
    <3>9. q \in Nat /\ q <= n
      BY <3>3, <3>4
    <3>10. RoundDp(c * q, n) \in Nat /\ RoundDp(c * q, n) <= c
      BY <3>3, <3>9, ShareOf
    <3>11. (2 * (c - RoundDp(c * q, n)) + (f + q)) * n >= (2 * e) * (m - q)
      BY <3>3, <3>4, <3>5, <3>6, ShareKept
    <3>12. CashKept(o, q) = c - RoundDp(c * q, n)
      <4> DEFINE r == RoundDp(c * q, n)
      <4>1. Released(o, q) = r /\ r \in Nat /\ r <= c
        BY <3>8, <3>10
      <4>2. CashKept(o, q) = AtLeastZero(c - Released(o, q))
        BY DEF CashKept, c
      <4> HIDE DEF r
      <4>3. CashKept(o, q) = c - r
        BY <3>3, <4>1, <4>2 DEF AtLeastZero
      <4>4. QED
        BY <4>3 DEF r
    <3>13. orders'[x].intent.qty = n
      BY <2>3, <3>1 DEF n
    <3>14. Required(orders[x].intent)' = e
      BY <2>3, <3>1, <3>2 DEF Required, EstimatedPrice, LimitBuy
    <3>15. QED
      BY <2>3, <3>1, <3>7, <3>11, <3>12, <3>13, <3>14
  <2>4. QED
    BY <2>2, <2>3
<1>3. QED
  BY <1>2 DEF BuysStayFunded, LimitBuy

LEMMA CancelFunded ==
  ASSUME IInv, BuysStayFunded, NEW o \in OrderIds, Cancel(o)
  PROVE  BuysStayFunded'
<1>1. OrderCancelled(o) /\ o \in DOMAIN reservations
  BY CancelEffect
<1>2. DOMAIN reservations \subseteq DOMAIN orders
  BY DEF IInv, ReservationsFollowOrders
<1>3. /\ DOMAIN reservations' \subseteq DOMAIN reservations
      /\ \A x \in DOMAIN reservations' : reservations'[x] = reservations[x]
  BY <1>1 DEF OrderCancelled, Drop, Restrict
<1>4. \A x \in DOMAIN reservations' : /\ orders'[x].intent = orders[x].intent
                                      /\ orders'[x].filled = orders[x].filled
  BY <1>1, <1>2, <1>3 DEF OrderCancelled
<1>5. QED
  BY <1>3, <1>4, StillFunded DEF BuysStayFunded, LimitBuy

LEMMA NextFunded ==
  ASSUME IInv, BuysStayFunded, [Next]_vars
  PROVE  BuysStayFunded'
<1>1. ASSUME UNCHANGED book PROVE BuysStayFunded'
  BY <1>1, StillFunded DEF book, BuysStayFunded, LimitBuy
<1>2. ASSUME NEW o \in ClientIds, NEW i \in Requests, Submit(o, i)
      PROVE  BuysStayFunded'
  <2>1. o \in OrderIds /\ i \in Intents /\ i.qty > 0 /\ Enter(o, i)
    BY <1>2, ExecutionAssumption DEF OrderIds, Submit, Accepts, WholeLots
  <2>2. QED
    BY <2>1, EnterFunded
<1>3. ASSUME NEW i \in hardIntents, NEW o \in PumpIds, SubmitHardExit(o, i)
      PROVE  BuysStayFunded'
  <2>1. o \in OrderIds /\ i \in Intents /\ i.qty > 0 /\ Enter(o, i)
    BY <1>3 DEF OrderIds, SubmitHardExit, Accepts, WholeLots, IInv, TypeOK
  <2>2. QED
    BY <2>1, EnterFunded
<1>4. ASSUME NEW o \in OrderIds, MatchOne(o) PROVE BuysStayFunded'
  <2> DEFINE q == MatchedShares(o)
  <2>1. o \in DOMAIN orders /\ pc = "matching" /\ FillOrder(o, q) /\ q > 0
    BY <1>4 DEF MatchOne
  <2>2. q \in Nat \ {0} /\ q <= Remaining(o) /\ Live(o)
    BY <2>1, MatchedSharesType
  <2> HIDE DEF q
  <2>3. QED
    BY <2>1, <2>2, FillFunded
<1>5. CASE Client
  BY <1>1, <1>2, <1>5, CancelFunded DEF Client, SetInstrumentMeta
<1>6. CASE \E sn \in Feed : BeginSnapshot(sn)
  BY <1>1, <1>6 DEF BeginSnapshot
<1>7. CASE PumpWork
  BY <1>1, <1>3, <1>4, <1>7
  DEF PumpWork, Matching, Exiting, EndMatching, PersistFill, RejectHardExit
<1>8. CASE UNCHANGED vars
  BY <1>1, <1>8 DEF vars
<1>9. QED
  BY <1>5, <1>6, <1>7, <1>8 DEF Next

(***************************************************************************)
(* apply_fill_to_state: for every price, quantity, fee schedule and way of *)
(* cutting an order into fills, the fractions that the fills give back eat *)
(* into what the unfilled part of a limit buy reserved by their rounding   *)
(* alone, half a unit each, and these errors do not grow.                  *)
(***************************************************************************)
THEOREM BuysFunded == Spec => []BuysStayFunded
<1>1. Init => BuysStayFunded
  BY DEF Init, EmptyMap, BuysStayFunded
<1>2. IInv /\ BuysStayFunded /\ [Next]_vars => BuysStayFunded'
  BY NextFunded
<1>3. QED
  BY <1>1, <1>2, Invariance, PTL DEF Spec

-----------------------------------------------------------------------------
(***************************************************************************)
(* The vector of lots: it implements the bag of shares of the lemmas and   *)
(* theorems above.                                                         *)
(***************************************************************************)

(* A vector of lots may hold an empty one until it is retained. *)
LotOrNone == [date : Days, t0 : BOOLEAN, quantity : 0..MaxShares]

(* Lots that are moved, and empty ones that are dropped, leave the bag as it is. *)
LEMMA BagOfListed ==
  ASSUME NEW N \in Nat, NEW v \in [1..N -> LotOrNone], NEW K \in SUBSET (1..N),
         NEW M \in Nat, NEW pi \in Bijection(1..M, K),
         NEW w, w = [n \in 1..M |-> v[pi[n]]],
         \A i \in (1..N) \ K : v[i].quantity = 0
  PROVE  BagOf(w) = BagOf(v)
<1>1. /\ pi \in [1..M -> K] /\ \A m, n \in 1..M : pi[m] = pi[n] => m = n
      /\ \A i \in K : \E n \in 1..M : pi[n] = i
  BY DEF Bijection, Injection, Surjection, IsInjective
<1>2. \A i \in 1..N : v[i].quantity \in Nat
  BY LotBookAssumption DEF LotOrNone
<1>3. SUFFICES ASSUME NEW b \in Buckets
               PROVE  SumOver(Quantities(w), InBucket(w, b)) = SumOver(Quantities(v), InBucket(v, b))
  BY DEF BagOf
<1> DEFINE A == InBucket(w, b)
           B == InBucket(v, b) \cap K
           sigma == [n \in A |-> pi[n]]
<1>4. DOMAIN w = 1..M /\ DOMAIN v = 1..N /\ \A n \in 1..M : w[n] = v[pi[n]]
  OBVIOUS
<1>5. \A n : n \in A <=> n \in 1..M /\ pi[n] \in B
  BY <1>1, <1>4 DEF InBucket
<1>6. IsFiniteSet(A)
  <2>1. A \in SUBSET (1..M) /\ IsFiniteSet(1..M)
    BY <1>5, FS_Interval
  <2>2. QED
    BY <2>1, FS_Subset
<1>7. sigma \in Bijection(A, B)
  <2> HIDE DEF A, B
  <2>1. sigma \in [A -> B]
    BY <1>5
  <2>2. \A m, n \in A : sigma[m] = sigma[n] => m = n
    BY <1>1, <1>5
  <2>3. \A i \in B : \E n \in A : sigma[n] = i
    <3> SUFFICES ASSUME NEW i \in B PROVE \E n \in A : sigma[n] = i
      OBVIOUS
    <3>1. i \in K
      BY DEF B
    <3>2. PICK n \in 1..M : pi[n] = i
      BY <1>1, <3>1
    <3>3. QED
      BY <1>5, <3>2
  <2>4. QED
    BY <2>1, <2>2, <2>3 DEF Bijection, Injection, Surjection, IsInjective
<1>8. \A i \in B : Quantities(v)[i] \in Nat
  BY <1>2, <1>4 DEF Quantities
<1>9. \A n \in A : Quantities(w)[n] = Quantities(v)[sigma[n]]
  <2> SUFFICES ASSUME NEW n \in A PROVE Quantities(w)[n] = Quantities(v)[pi[n]]
    OBVIOUS
  <2>1. n \in 1..M /\ pi[n] \in 1..N
    BY <1>1, <1>5
  <2>2. QED
    BY <1>4, <2>1 DEF Quantities
<1> HIDE DEF A, B, sigma
<1>10. SumOver(Quantities(w), A) = SumOver(Quantities(v), B)
  BY <1>6, <1>7, <1>8, <1>9, SumReindex, SMTT(30)
<1>11. B \subseteq InBucket(v, b) /\ \A i \in InBucket(v, b) \ B : Quantities(v)[i] = 0
  BY <1>4 DEF B, InBucket, Quantities
<1>12. SumOver(Quantities(v), B) = SumOver(Quantities(v), InBucket(v, b))
  BY <1>11, SumDropZeros
<1>13. QED
  BY <1>10, <1>12 DEF A

(* The sorted vector: the same lots, older ones first. *)
LEMMA SortedLots ==
  ASSUME NEW N \in Nat, NEW v \in [1..N -> LotOrNone]
  PROVE  /\ SortedByDate(v) \in [1..N -> LotOrNone]
         /\ \A i \in 1..N : \E n \in 1..N : SortedByDate(v)[i] = v[n]
         /\ BagOf(SortedByDate(v)) = BagOf(v)
         /\ \A m, n \in 1..N : m < n => SortedByDate(v)[m].date <= SortedByDate(v)[n].date
<1> DEFINE key == [i \in DOMAIN v |-> v[i].date]
           pi == Placing(StablyBefore(key))
           w == SortedByDate(v)
<1>1. key \in [1..N -> Int] /\ DOMAIN v = 1..N
  BY MaxDayAssumption DEF LotOrNone, Days
<1> HIDE DEF key
<1>2. pi \in Bijection(1..N, 1..N) /\ \A m, n \in 1..N : m < n => key[pi[m]] <= key[pi[n]]
  BY <1>1, StablyBeforeOrders
<1>3. DOMAIN StablyBefore(key) = 1..N /\ Cardinality(1..N) = N
  BY <1>1, FS_Interval DEF StablyBefore
<1>4. w = [n \in 1..N |-> v[pi[n]]]
  BY <1>1, <1>3 DEF SortedByDate, SortedOn, Listed, key
<1> HIDE DEF pi, w
<1>5. pi \in [1..N -> 1..N]
  BY <1>2 DEF Bijection, Injection
<1>6. w \in [1..N -> LotOrNone] /\ \A i \in 1..N : \E n \in 1..N : w[i] = v[n]
  BY <1>4, <1>5
<1>7. BagOf(w) = BagOf(v)
  <2>1. \A i \in (1..N) \ (1..N) : v[i].quantity = 0
    OBVIOUS
  <2>2. QED
    BY <1>2, <1>4, <2>1, BagOfListed
<1>8. \A m, n \in 1..N : m < n => w[m].date <= w[n].date
  <2> SUFFICES ASSUME NEW m \in 1..N, NEW n \in 1..N, m < n
               PROVE  w[m].date <= w[n].date
    OBVIOUS
  <2>1. key[pi[m]] = v[pi[m]].date /\ key[pi[n]] = v[pi[n]].date
    BY <1>1, <1>5 DEF key
  <2>2. QED
    BY <1>2, <1>4, <2>1
<1>9. QED
  BY <1>6, <1>7, <1>8 DEF w

(* Retaining the lots that are not empty. *)
LEMMA RetainedLots ==
  ASSUME NEW N \in Nat, NEW v \in [1..N -> LotOrNone]
  PROVE  /\ Retained(v) \in Seq(Lot) /\ Len(Retained(v)) <= N
         /\ BagOf(Retained(v)) = BagOf(v)
<1> DEFINE K == {n \in DOMAIN v : v[n].quantity > 0}
           M == Cardinality(K)
           pi == Placing(UpTo(K))
           w == Retained(v)
<1>1. K \in SUBSET (1..N) /\ DOMAIN v = 1..N /\ K \subseteq Int
  OBVIOUS
<1>2. IsFiniteSet(K) /\ M \in Nat /\ M <= N
  <2>1. IsFiniteSet(1..N) /\ Cardinality(1..N) = N
    BY FS_Interval
  <2>2. QED
    BY <1>1, <2>1, FS_Subset, FS_CardinalityType
<1>3. \A n \in (1..N) \ K : v[n].quantity = 0
  BY LotBookAssumption DEF LotOrNone
<1>4. \A n \in K : v[n] \in Lot
  <2> SUFFICES ASSUME NEW n \in K PROVE v[n] \in Lot
    OBVIOUS
  <2>1. v[n] \in LotOrNone /\ v[n].quantity > 0
    OBVIOUS
  <2>2. v[n].quantity \in 1..MaxShares
    BY <2>1, LotBookAssumption DEF LotOrNone
  <2>3. QED
    BY <2>1, <2>2 DEF LotOrNone, Lot
<1>5. DOMAIN UpTo(K) = K
  BY DEF UpTo
<1>6. w = [n \in 1..M |-> v[pi[n]]]
  BY <1>5 DEF Retained, Filtered, Listed
<1> HIDE DEF K, M
<1>7. pi \in Bijection(1..M, K)
  BY <1>1, <1>2, UpToOrders DEF M
<1> HIDE DEF pi, w
<1>8. pi \in [1..M -> K]
  BY <1>7 DEF Bijection, Injection
<1>9. w \in [1..M -> Lot]
  BY <1>4, <1>6, <1>8
<1>10. w \in Seq(Lot) /\ Len(w) = M
  BY <1>2, <1>9, SeqDef, LenProperties
<1>11. BagOf(w) = BagOf(v)
  BY <1>1, <1>2, <1>3, <1>6, <1>7, BagOfListed
<1>12. QED
  BY <1>2, <1>10, <1>11 DEF w

(* What a turn of the loop takes: no more than the lot has or is still to   *)
(* sell, nothing of a locked lot, and all of an open one when shares are    *)
(* still to sell after it.                                                  *)
Open(lot, date) == ~ (lot.date = date /\ ~lot.t0)

LEMMA TakeBounds ==
  ASSUME NEW lot \in LotOrNone, NEW left \in Nat, NEW date
  PROVE  /\ Take(lot, left, date) \in Nat
         /\ Take(lot, left, date) <= left /\ Take(lot, left, date) <= lot.quantity
         /\ left - Take(lot, left, date) \in Nat
         /\ ~Open(lot, date) => Take(lot, left, date) = 0
         /\ Open(lot, date) /\ left - Take(lot, left, date) > 0
              => Take(lot, left, date) = lot.quantity
<1>1. lot.quantity \in Nat
  BY LotBookAssumption DEF LotOrNone
<1>2. QED
  BY <1>1 DEF Take, Lesser, Open

(* The loop is well defined: what is left to sell after each lot. *)
LEMMA LeftToSellIs ==
  ASSUME NEW v \in Seq(LotOrNone), NEW q \in Nat, NEW date
  PROVE  LET left == LeftToSell(v, q, date)
         IN  /\ left[0] = q
             /\ \A n \in 0..Len(v) : left[n] \in Nat
             /\ \A n \in 1..Len(v) : left[n] = left[n - 1] - Take(v[n], left[n - 1], date)
<1> DEFINE left == LeftToSell(v, q, date)
           N == Len(v)
<1>0. N \in Nat
  BY LenProperties
<1> HIDE DEF left, N
<1> DEFINE Turns(m, f) ==
             /\ f \in [0..m -> Nat] /\ f[0] = q
             /\ \A n \in 1..m : f[n] = f[n - 1] - Take(v[n], f[n - 1], date)
           Stuck == {m \in 0..N : ~ \E f : Turns(m, f)}
<1>1. \A n \in 1..N : v[n] \in LotOrNone
  BY ElementOfSeq DEF N
<1>2. Stuck = {}
  <2>1. SUFFICES ASSUME Stuck # {} PROVE FALSE
    OBVIOUS
  <2>2. PICK m \in Stuck : \A n \in Stuck : m <= n
    <3>1. Stuck \subseteq Nat
      OBVIOUS
    <3> HIDE DEF Stuck
    <3>2. QED
      BY <2>1, <3>1, LeastNat
  <2>3. m \in 0..N /\ ~ \E f : Turns(m, f)
    OBVIOUS
  <2>4. m # 0
    <3>1. Turns(0, [i \in 0..0 |-> q])
      OBVIOUS
    <3> HIDE DEF Turns
    <3>2. QED
      BY <2>3, <3>1
  <2>5. m - 1 \in 0..N /\ m \in 1..N /\ m - 1 < m /\ m \in Nat
    BY <1>0, <2>3, <2>4
  <2>6. PICK f : Turns(m - 1, f)
    <3> HIDE DEF Turns
    <3>1. SUFFICES ASSUME ~ \E f : Turns(m - 1, f) PROVE FALSE
      OBVIOUS
    <3>2. m - 1 \in Stuck
      BY <2>5, <3>1
    <3>3. m <= m - 1
      BY <2>2, <3>2
    <3>4. QED
      BY <2>5, <3>3
  <2> DEFINE h == [i \in 0..m |-> IF i = m THEN f[m - 1] - Take(v[m], f[m - 1], date) ELSE f[i]]
  <2>7. f \in [0..(m - 1) -> Nat] /\ f[0] = q /\ f[m - 1] \in Nat
    BY <2>5, <2>6
  <2>8. f[m - 1] - Take(v[m], f[m - 1], date) \in Nat
    BY <1>1, <2>5, <2>7, TakeBounds
  <2>9. h \in [0..m -> Nat]
    BY <2>5, <2>7, <2>8
  <2>10. h[0] = q
    BY <2>5, <2>7
  <2>11. ASSUME NEW n \in 1..m PROVE h[n] = h[n - 1] - Take(v[n], h[n - 1], date)
    <3>1. n - 1 \in 0..(m - 1) /\ h[n - 1] = f[n - 1]
      BY <2>5
    <3>2. CASE n = m
      BY <2>5, <3>1, <3>2
    <3>3. CASE n # m
      <4>1. n \in 1..(m - 1) /\ h[n] = f[n]
        BY <2>5, <3>3
      <4>2. f[n] = f[n - 1] - Take(v[n], f[n - 1], date)
        BY <2>6, <4>1
      <4>3. QED
        BY <3>1, <4>1, <4>2
    <3>4. QED
      BY <3>2, <3>3
  <2> HIDE DEF h
  <2>12. Turns(m, h)
    BY <2>9, <2>10, <2>11
  <2> HIDE DEF Turns
  <2>13. QED
    BY <2>3, <2>12
<1>3. PICK f : Turns(N, f)
  <2>1. N \in 0..N
    BY <1>0
  <2> HIDE DEF Turns
  <2>2. QED
    BY <1>2, <2>1
<1> DEFINE Equation(g) ==
             g = [n \in 0..N |-> IF n = 0 THEN q ELSE g[n - 1] - Take(v[n], g[n - 1], date)]
<1>4. Equation(f)
  <2>1. f = [n \in 0..N |-> f[n]]
    BY <1>3
  <2>2. \A n \in 0..N : f[n] = IF n = 0 THEN q ELSE f[n - 1] - Take(v[n], f[n - 1], date)
    <3> SUFFICES ASSUME NEW n \in 0..N
                 PROVE  f[n] = IF n = 0 THEN q ELSE f[n - 1] - Take(v[n], f[n - 1], date)
      OBVIOUS
    <3>1. CASE n = 0
      BY <1>3, <3>1
    <3>2. CASE n # 0
      <4>1. n \in 1..N
        BY <3>2
      <4>2. QED
        BY <1>3, <3>2, <4>1
    <3>3. QED
      BY <3>1, <3>2
  <2>3. QED
    BY <2>1, <2>2
<1>5. left = CHOOSE g : Equation(g)
  BY DEF LeftToSell, left, N
<1>6. Equation(left)
  <2> HIDE DEF Equation
  <2>1. QED
    BY <1>4, <1>5
<1>7. left[0] = q
  BY <1>0, <1>6
<1>8. \A n \in 1..N : left[n] = left[n - 1] - Take(v[n], left[n - 1], date)
  <2> SUFFICES ASSUME NEW n \in 1..N
               PROVE  left[n] = left[n - 1] - Take(v[n], left[n - 1], date)
    OBVIOUS
  <2>1. n \in 0..N /\ n # 0
    BY <1>0
  <2>2. QED
    BY <1>6, <2>1
<1> HIDE DEF Equation
<1>9. \A n \in 0..N : left[n] \in Nat
  <2> DEFINE Wrong == {n \in 0..N : left[n] \notin Nat}
  <2>1. SUFFICES ASSUME Wrong # {} PROVE FALSE
    OBVIOUS
  <2>2. PICK m \in Wrong : \A n \in Wrong : m <= n
    <3>1. Wrong \subseteq Nat
      OBVIOUS
    <3> HIDE DEF Wrong
    <3>2. QED
      BY <2>1, <3>1, LeastNat
  <2>3. m # 0
    BY <1>7
  <2>4. m \in 1..N /\ m - 1 \in 0..N /\ ~ (m <= m - 1)
    BY <1>0, <2>3
  <2>5. left[m - 1] \in Nat
    BY <2>2, <2>4
  <2>6. left[m] \in Nat
    BY <1>1, <1>8, <2>4, <2>5, TakeBounds
  <2>7. QED
    BY <2>6
<1>10. QED
  BY <1>7, <1>8, <1>9 DEF left, N

(* What is left to sell does not grow. *)
LEMMA LeftFalls ==
  ASSUME NEW N \in Nat, NEW left, \A n \in 0..N : left[n] \in Nat,
         \A n \in 1..N : left[n] <= left[n - 1],
         NEW m \in 0..N, NEW n \in 0..N, m <= n
  PROVE  left[n] <= left[m]
<1> DEFINE Wrong == {k \in 0..N : m <= k /\ ~ (left[k] <= left[m])}
<1>1. SUFFICES ASSUME Wrong # {} PROVE FALSE
  OBVIOUS
<1>2. PICK k \in Wrong : \A i \in Wrong : k <= i
  <2>1. Wrong \subseteq Nat
    OBVIOUS
  <2> HIDE DEF Wrong
  <2>2. QED
    BY <1>1, <2>1, LeastNat
<1>3. k # m
  OBVIOUS
<1>4. k \in 1..N /\ k - 1 \in 0..N /\ m <= k - 1
  BY <1>3
<1>5. k - 1 \notin Wrong
  BY <1>2, <1>4
<1>6. left[k - 1] <= left[m] /\ left[k] <= left[k - 1]
  BY <1>4, <1>5
<1>7. left[k] \in Nat /\ left[k - 1] \in Nat /\ left[m] \in Nat
  BY <1>4
<1>8. QED
  BY <1>6, <1>7

(* What the loop took of all lots is what it was to sell less what is left. *)
LEMMA TakenInAll ==
  ASSUME NEW N \in Nat, NEW left, \A n \in 0..N : left[n] \in Nat,
         NEW f, \A n \in 1..N : f[n] \in Nat /\ left[n] = left[n - 1] - f[n]
  PROVE  SumOver(f, 1..N) = left[0] - left[N]
<1> DEFINE Wrong == {k \in 0..N : SumOver(f, 1..k) # left[0] - left[k]}
<1>1. SUFFICES ASSUME Wrong # {} PROVE FALSE
  <2>1. N \in 0..N
    OBVIOUS
  <2>2. Wrong = {} => ~ (SumOver(f, 1..N) # left[0] - left[N])
    BY <2>1
  <2>3. QED
    BY <2>2
<1>2. PICK k \in Wrong : \A i \in Wrong : k <= i
  <2>1. Wrong \subseteq Nat
    OBVIOUS
  <2> HIDE DEF Wrong
  <2>2. QED
    BY <1>1, <2>1, LeastNat
<1>3. k # 0
  <2>1. SUFFICES ASSUME k = 0 PROVE FALSE
    OBVIOUS
  <2>2. 1..0 = {} /\ left[0] \in Nat
    OBVIOUS
  <2>3. SumOver(f, 1..0) = 0
    BY <2>2, SumEmpty
  <2>4. QED
    BY <2>1, <2>2, <2>3
<1>4. k \in 1..N /\ k - 1 \in 0..N /\ k - 1 \notin Wrong
  BY <1>2, <1>3
<1>5. SumOver(f, 1..(k - 1)) = left[0] - left[k - 1]
  BY <1>4
<1> HIDE DEF Wrong
<1> DEFINE S == 1..(k - 1)
<1>6. k \notin S
  BY <1>4
<1>7. IsFiniteSet(S)
  BY <1>4, FS_Interval
<1>8. \A y \in S \cup {k} : f[y] \in Nat
  BY <1>4
<1>9. /\ left[k] = left[k - 1] - f[k] /\ f[k] \in Nat
      /\ left[k] \in Nat /\ left[k - 1] \in Nat /\ left[0] \in Nat
  BY <1>4
<1>10. SumOver(f, 1..k) = left[0] - left[k]
  <2> HIDE DEF S
  <2>1. SumOver(f, S \cup {k}) = SumOver(f, S) + f[k]
    BY <1>6, <1>7, <1>8, SumInsert
  <2>2. SumOver(f, S) = left[0] - left[k - 1]
    BY <1>5 DEF S
  <2>3. 1..k = S \cup {k}
    BY <1>4 DEF S
  <2>4. SumOver(f, 1..k) = SumOver(f, S) + f[k]
    BY <2>1, <2>3, Zenon
  <2>5. QED
    BY <1>9, <2>2, <2>4
<1>11. QED
  BY <1>10 DEF Wrong

(***************************************************************************)
(* A sale: the loop takes from the sorted lots what IsFifoTake allows, and *)
(* has shares left to sell exactly when too few are unlocked.              *)
(***************************************************************************)
LEMMA WalkIsFifoTake ==
  ASSUME NEW N \in Nat, NEW v \in [1..N -> LotOrNone],
         \A m, n \in 1..N : m < n => v[m].date <= v[n].date,
         NEW q \in Nat, NEW date \in Days,
         NEW left, left = LeftToSell(v, q, date),
         NEW w, w = Walked(v, left, date)
  PROVE  /\ w \in [1..N -> LotOrNone]
         /\ IsFifoTake(BagOf(v), BagTaken(v, w), q, date)
         /\ (left[N] > 0) = (Available(BagOf(v), date) < q)
<1> DEFINE f == [n \in 1..N |-> Take(v[n], left[n - 1], date)]
           Q == Quantities(v)
           R == Quantities(w)
           held == BagOf(v)
           take == BagTaken(v, w)
           bucket == [n \in 1..N |-> <<v[n].date, v[n].t0>>]
           of(b) == {i \in 1..N : bucket[i] = b}
           opens == {i \in 1..N : Open(v[i], date)}
<1>1. v \in Seq(LotOrNone) /\ Len(v) = N /\ DOMAIN v = 1..N
  BY SeqDef, LenProperties
<1>2. /\ left[0] = q
      /\ \A n \in 0..N : left[n] \in Nat
      /\ \A n \in 1..N : left[n] = left[n - 1] - Take(v[n], left[n - 1], date)
  <2>1. /\ LeftToSell(v, q, date)[0] = q
        /\ \A n \in 0..Len(v) : LeftToSell(v, q, date)[n] \in Nat
        /\ \A n \in 1..Len(v) : LeftToSell(v, q, date)[n]
             = LeftToSell(v, q, date)[n - 1] - Take(v[n], LeftToSell(v, q, date)[n - 1], date)
    BY <1>1, LeftToSellIs
  <2>2. QED
    BY <1>1, <2>1
<1>3. ASSUME NEW n \in 1..N
      PROVE  /\ f[n] \in Nat /\ left[n] = left[n - 1] - f[n]
             /\ Q[n] \in Nat /\ f[n] <= Q[n] /\ f[n] <= left[n - 1]
             /\ left[n] \in Nat /\ left[n - 1] \in Nat
             /\ n \notin opens => f[n] = 0
             /\ n \in opens /\ left[n] > 0 => f[n] = Q[n]
  <2>1. v[n] \in LotOrNone /\ v[n].quantity \in Nat
    BY LotBookAssumption DEF LotOrNone
  <2>2. n - 1 \in 0..N /\ n \in 0..N
    OBVIOUS
  <2>3. left[n - 1] \in Nat /\ left[n] \in Nat
    BY <1>2, <2>2
  <2> DEFINE lot == v[n]
             before == left[n - 1]
  <2>4. f[n] = Take(lot, before, date) /\ left[n] = before - Take(lot, before, date)
        /\ Q[n] = lot.quantity /\ (n \in opens <=> Open(lot, date))
    BY <1>1, <1>2 DEF Quantities
  <2>5. lot \in LotOrNone /\ before \in Nat
    BY <2>1, <2>3
  <2> HIDE DEF lot, before, f, Q, opens
  <2>6. /\ Take(lot, before, date) \in Nat
        /\ Take(lot, before, date) <= before /\ Take(lot, before, date) <= lot.quantity
        /\ ~Open(lot, date) => Take(lot, before, date) = 0
        /\ Open(lot, date) /\ before - Take(lot, before, date) > 0
             => Take(lot, before, date) = lot.quantity
    BY <2>5, TakeBounds
  <2>7. QED
    BY <2>1, <2>3, <2>4, <2>6 DEF before, lot
<1>4. w \in [1..N -> LotOrNone] /\ \A n \in 1..N : R[n] = Q[n] - f[n] /\ R[n] \in Nat
  <2>1. w = [n \in 1..N |-> [v[n] EXCEPT !.quantity = @ - f[n]]]
    BY <1>1 DEF Walked
  <2>2. ASSUME NEW n \in 1..N
        PROVE  /\ w[n] \in LotOrNone /\ R[n] = Q[n] - f[n] /\ R[n] \in Nat
    <3>1. v[n] \in LotOrNone /\ Q[n] = v[n].quantity /\ w[n] = [v[n] EXCEPT !.quantity = @ - f[n]]
      BY <1>1, <2>1 DEF Quantities
    <3>2. DOMAIN w = 1..N
      BY <2>1
    <3>3. R[n] = w[n].quantity
      BY <3>2 DEF Quantities
    <3>4. w[n].quantity = v[n].quantity - f[n]
      BY <3>1 DEF LotOrNone
    <3>5. f[n] \in Nat /\ f[n] <= Q[n] /\ Q[n] \in Nat /\ v[n].quantity \in 0..MaxShares
      BY <1>3, <3>1 DEF LotOrNone
    <3>6. v[n].quantity - f[n] \in 0..MaxShares
      BY <3>1, <3>5, LotBookAssumption
    <3>7. w[n] \in LotOrNone
      BY <3>1, <3>6 DEF LotOrNone
    <3>8. QED
      BY <3>1, <3>3, <3>4, <3>5, <3>7
  <2>3. QED
    BY <2>1, <2>2
<1>5. \A b : InBucket(v, b) = of(b) /\ InBucket(w, b) = of(b) /\ IsFiniteSet(of(b))
  <2>1. \A i \in 1..N : w[i].date = v[i].date /\ w[i].t0 = v[i].t0
    BY <1>1 DEF Walked, LotOrNone
  <2>2. DOMAIN w = 1..N
    BY <1>4
  <2>3. IsFiniteSet(1..N)
    BY FS_Interval
  <2>4. \A b : of(b) \in SUBSET (1..N)
    OBVIOUS
  <2>5. \A b : IsFiniteSet(of(b))
    BY <2>3, <2>4, FS_Subset
  <2>6. QED
    BY <1>1, <2>1, <2>2, <2>5 DEF InBucket
<1>6. \A b \in Buckets : /\ held[b] = SumOver(Q, of(b)) /\ held[b] \in Nat
                         /\ take[b] = SumOver(f, of(b)) /\ take[b] \in Nat
                         /\ take[b] <= held[b]
  <2> SUFFICES ASSUME NEW b \in Buckets
               PROVE  /\ held[b] = SumOver(Q, of(b)) /\ held[b] \in Nat
                      /\ take[b] = SumOver(f, of(b)) /\ take[b] \in Nat
                      /\ take[b] <= held[b]
    OBVIOUS
  <2>1. held[b] = SumOver(Q, of(b)) /\ BagOf(w)[b] = SumOver(R, of(b))
    BY <1>5 DEF BagOf
  <2>2. \A i \in of(b) : f[i] \in Nat /\ R[i] \in Nat /\ Q[i] = f[i] + R[i]
    <3> SUFFICES ASSUME NEW i \in 1..N PROVE f[i] \in Nat /\ R[i] \in Nat /\ Q[i] = f[i] + R[i]
      OBVIOUS
    <3>1. f[i] \in Nat /\ Q[i] \in Nat /\ R[i] = Q[i] - f[i] /\ R[i] \in Nat
      BY <1>3, <1>4
    <3> HIDE DEF f, Q, R
    <3>2. QED
      BY <3>1
  <2> DEFINE B == of(b)
  <2>3. IsFiniteSet(B)
    BY <1>5
  <2>4. \A i \in B : f[i] \in Nat /\ R[i] \in Nat /\ Q[i] = f[i] + R[i]
    BY <2>2
  <2>5. take[b] = held[b] - BagOf(w)[b]
    BY DEF BagTaken
  <2> HIDE DEF B, f, Q, R
  <2>6. SumOver(Q, B) = SumOver(f, B) + SumOver(R, B)
    BY <2>3, <2>4, SumAdd
  <2>7. SumOver(f, B) \in Nat /\ SumOver(R, B) \in Nat
    BY <2>3, <2>4, SumType
  <2>8. held[b] = SumOver(Q, B) /\ BagOf(w)[b] = SumOver(R, B)
    BY <2>1 DEF B
  <2> HIDE DEF held, take
  <2>9. take[b] = SumOver(f, B) /\ held[b] \in Nat /\ take[b] \in Nat /\ take[b] <= held[b]
    BY <2>5, <2>6, <2>7, <2>8
  <2>10. QED
    BY <2>8, <2>9 DEF B
<1>7. \A i \in 1..N : bucket[i] \in Buckets /\ (i \in opens <=> bucket[i] \notin Locked(date))
  BY DEF LotOrNone, Buckets, Open, Locked
<1> HIDE DEF f, Q, R, held, take
<1>8. ASSUME NEW b \in Locked(date) \cap Buckets PROVE take[b] = 0
  <2>1. \A i \in of(b) : f[i] = 0
    BY <1>3, <1>7
  <2>2. \A i \in of(b) \ {} : f[i] = 0
    BY <2>1
  <2>3. SumOver(f, {}) = SumOver(f, of(b))
    BY <2>2, SumDropZeros, ZenonT(30)
  <2>4. QED
    BY <1>6, <2>3, SumEmpty
<1>9. \A n \in 1..N : left[n] <= left[n - 1]
  <2> SUFFICES ASSUME NEW n \in 1..N PROVE left[n] <= left[n - 1]
    OBVIOUS
  <2>1. f[n] \in Nat /\ left[n] = left[n - 1] - f[n] /\ left[n] \in Nat /\ left[n - 1] \in Nat
    BY <1>3
  <2>2. QED
    BY <2>1
<1>10. ASSUME NEW b \in Buckets \ Locked(date), NEW e \in Buckets \ Locked(date),
              take[b] > 0, e[1] < b[1]
       PROVE  take[e] = held[e]
  <2>1. \E n \in of(b) : f[n] # 0
    <3>1. SUFFICES ASSUME \A n \in of(b) : f[n] = 0 PROVE FALSE
      OBVIOUS
    <3>2. \A i \in of(b) \ {} : f[i] = 0
      BY <3>1
    <3>3. SumOver(f, {}) = SumOver(f, of(b))
      BY <3>2, SumDropZeros, ZenonT(30)
    <3>4. take[b] = 0
      BY <1>6, <3>3, SumEmpty
    <3>5. QED
      BY <1>10, <3>4
  <2>2. PICK n \in of(b) : f[n] # 0
    BY <2>1
  <2>3. n \in 1..N /\ n - 1 \in 0..N /\ left[n - 1] > 0
    <3>1. n \in 1..N /\ n - 1 \in 0..N
      OBVIOUS
    <3>2. f[n] \in Nat /\ f[n] <= left[n - 1] /\ left[n - 1] \in Nat
      BY <1>3, <3>1
    <3>3. QED
      BY <2>2, <3>1, <3>2
  <2>4. ASSUME NEW i \in of(e) PROVE f[i] = Q[i]
    <3>1. i \in 1..N /\ v[i].date = e[1] /\ v[n].date = b[1]
      OBVIOUS
    <3>2. v[i].date \in Nat /\ v[n].date \in Nat
      BY <2>3, <3>1, MaxDayAssumption DEF LotOrNone, Days
    <3>3. i < n
      <4>1. SUFFICES ASSUME ~ (i < n) PROVE FALSE
        OBVIOUS
      <4>2. v[n].date <= v[i].date
        BY <2>3, <3>1, <3>2, <4>1
      <4>3. QED
        BY <1>10, <3>1, <3>2, <4>2
    <3>4. i \in 0..N /\ i <= n - 1
      BY <2>3, <3>1, <3>3
    <3>5. left[n - 1] <= left[i]
      BY <1>2, <1>9, <2>3, <3>4, LeftFalls
    <3>6. left[i] \in Nat /\ left[n - 1] \in Nat
      BY <1>2, <2>3, <3>4
    <3>7. left[i] > 0
      BY <2>3, <3>5, <3>6
    <3>8. i \in opens
      BY <1>7, <3>1
    <3>9. QED
      BY <1>3, <3>1, <3>7, <3>8
  <2>5. SumOver(f, of(e)) = SumOver(Q, of(e))
    BY <2>4, SumSame
  <2>6. QED
    BY <1>6, <2>5
<1>11. Total(take) = SumOver(f, 1..N) /\ Available(held, date) = SumOver(Q, opens)
  <2> DEFINE S == 1..N
             C == Buckets \ Locked(date)
  <2>1. IsFiniteSet(S) /\ IsFiniteSet(Buckets) /\ IsFiniteSet(C)
    <3>1. IsFiniteSet(S)
      BY FS_Interval
    <3>2. IsFiniteSet(Buckets)
      BY BucketsFinite
    <3>3. IsFiniteSet(C)
      BY <3>2, FS_Difference
    <3>4. QED
      BY <3>1, <3>2, <3>3
  <2>2. \A i \in S : f[i] \in Nat /\ Q[i] \in Nat
    BY <1>3
  <2> DEFINE part == [b \in Buckets |-> of(b)]
  <2>3. /\ \A b, e \in Buckets : b # e => part[b] \cap part[e] = {}
        /\ \A i : i \in S <=> \E b \in Buckets : i \in part[b]
        /\ \A i : i \in opens <=> \E b \in C : i \in part[b]
    BY <1>7
  <2>4. \A b \in Buckets : /\ take[b] = SumOver(f, part[b])
                           /\ held[b] = SumOver(Q, part[b])
    BY <1>6
  <2>5. C \subseteq Buckets
    OBVIOUS
  <2> HIDE DEF bucket, opens, S, C, part
  <2>6. SumOver(take, Buckets) = SumOver(f, S)
    <3>1. \A i \in S : f[i] \in Nat
      BY <2>2
    <3>2. \A b \in Buckets : take[b] = SumOver(f, part[b])
      BY <2>4
    <3>3. \A b, e \in Buckets : b # e => part[b] \cap part[e] = {}
      BY <2>3
    <3>4. \A i : i \in S <=> \E b \in Buckets : i \in part[b]
      BY <2>3
    <3> DEFINE B == Buckets
    <3>5. IsFiniteSet(S) /\ IsFiniteSet(B)
      BY <2>1
    <3> HIDE DEF B
    <3>6. SumOver(take, B) = SumOver(f, S)
      <4>1. \A b \in B : take[b] = SumOver(f, part[b])
        BY <3>2 DEF B
      <4>2. \A b, e \in B : b # e => part[b] \cap part[e] = {}
        BY <3>3 DEF B
      <4>3. \A i : i \in S <=> \E b \in B : i \in part[b]
        BY <3>4 DEF B
      <4>4. QED
        BY <3>1, <3>5, <4>1, <4>2, <4>3, SumGrouped
    <3>7. QED
      BY <3>6 DEF B
  <2>7. SumOver(held, C) = SumOver(Q, opens)
    <3>1. IsFiniteSet(opens)
      <4>1. opens \in SUBSET S
        BY DEF opens, S
      <4>2. QED
        BY <2>1, <4>1, FS_Subset
    <3>2. \A i \in opens : Q[i] \in Nat
      BY <2>2 DEF opens, S
    <3>3. \A b \in C : held[b] = SumOver(Q, part[b])
      BY <2>4, <2>5
    <3>4. \A b, e \in C : b # e => part[b] \cap part[e] = {}
      BY <2>3, <2>5
    <3>5. \A i : i \in opens <=> \E b \in C : i \in part[b]
      BY <2>3
    <3>6. QED
      BY <2>1, <3>1, <3>2, <3>3, <3>4, <3>5, SumGrouped
  <2>8. QED
    BY <2>6, <2>7 DEF Total, Available, S, C
<1>12. SumOver(f, 1..N) = q - left[N]
  <2>1. \A n \in 1..N : f[n] \in Nat /\ left[n] = left[n - 1] - f[n]
    BY <1>3
  <2>2. (\A n \in 0..N : left[n] \in Nat) /\ left[0] = q
    BY <1>2
  <2>3. SumOver(f, 1..N) = left[0] - left[N]
    BY <2>1, <2>2, TakenInAll
  <2>4. QED
    BY <2>2, <2>3
<1>13. SumOver(f, 1..N) = SumOver(f, opens)
  <2>1. opens \subseteq 1..N /\ \A i \in (1..N) \ opens : f[i] = 0
    BY <1>3
  <2>2. QED
    BY <2>1, SumDropZeros
<1>14. /\ SumOver(f, opens) \in Nat /\ SumOver(Q, opens) \in Nat
       /\ SumOver(f, opens) <= SumOver(Q, opens)
  <2>1. opens \in SUBSET (1..N) /\ IsFiniteSet(1..N)
    BY FS_Interval
  <2>2. IsFiniteSet(opens)
    BY <2>1, FS_Subset
  <2>3. \A i \in opens : f[i] \in Nat /\ R[i] \in Nat /\ Q[i] = f[i] + R[i]
    <3> SUFFICES ASSUME NEW i \in 1..N PROVE f[i] \in Nat /\ R[i] \in Nat /\ Q[i] = f[i] + R[i]
      BY <2>1
    <3>1. f[i] \in Nat /\ Q[i] \in Nat /\ R[i] = Q[i] - f[i] /\ R[i] \in Nat
      BY <1>3, <1>4
    <3>2. QED
      BY <3>1
  <2> HIDE DEF opens
  <2>4. SumOver(Q, opens) = SumOver(f, opens) + SumOver(R, opens)
    BY <2>2, <2>3, SumAdd
  <2>5. SumOver(f, opens) \in Nat /\ SumOver(R, opens) \in Nat
    BY <2>2, <2>3, SumType
  <2>6. QED
    BY <2>4, <2>5
<1>15. left[N] > 0 => SumOver(f, opens) = SumOver(Q, opens)
  <2> SUFFICES ASSUME left[N] > 0 PROVE SumOver(f, opens) = SumOver(Q, opens)
    OBVIOUS
  <2>1. ASSUME NEW i \in opens PROVE f[i] = Q[i]
    <3>1. i \in 1..N /\ i \in 0..N /\ N \in 0..N /\ i <= N
      OBVIOUS
    <3>2. left[N] <= left[i]
      BY <1>2, <1>9, <3>1, LeftFalls
    <3>3. left[N] \in Nat /\ left[i] \in Nat
      BY <1>2, <3>1
    <3>4. left[i] > 0
      BY <3>2, <3>3
    <3>5. QED
      BY <1>3, <3>1, <3>4
  <2>2. QED
    BY <2>1, SumSame
<1>16. left[N] \in Nat
  BY <1>2
<1> DEFINE sold == SumOver(f, opens)
           free == SumOver(Q, opens)
<1>17. /\ sold = q - left[N] /\ left[N] \in Nat /\ sold \in Nat /\ free \in Nat
       /\ sold <= free /\ (left[N] > 0 => sold = free)
  BY <1>12, <1>13, <1>14, <1>15, <1>16
<1> HIDE DEF sold, free
<1>18. sold = Lesser(q, free) /\ (left[N] > 0 <=> free < q)
  BY <1>17 DEF Lesser
<1>19. Total(take) = sold /\ Available(held, date) = free
  BY <1>11, <1>13 DEF sold, free
<1>20. IsFifoTake(held, take, q, date)
  <2>1. \A b \in Buckets : take[b] <= held[b]
    BY <1>6
  <2>2. \A b \in Locked(date) \cap Buckets : take[b] = 0
    BY <1>8
  <2>3. \A b, e \in Buckets \ Locked(date) : take[b] > 0 /\ e[1] < b[1] => take[e] = held[e]
    BY <1>10
  <2>4. Total(take) = Lesser(q, Available(held, date))
    BY <1>18, <1>19
  <2>5. QED
    BY <2>1, <2>2, <2>3, <2>4 DEF IsFifoTake
<1>21. (left[N] > 0) = (Available(held, date) < q)
  BY <1>18, <1>19
<1>22. QED
  BY <1>4, <1>20, <1>21 DEF held, take

-----------------------------------------------------------------------------
(* One more lot. *)
LEMMA BagOfAppend ==
  ASSUME NEW v \in Seq(Lot), NEW lot \in Lot
  PROVE  BagOf(Append(v, lot)) = AddLot(BagOf(v), lot.date, lot.t0, lot.quantity)
<1> DEFINE N == Len(v)
           w == Append(v, lot)
           key == <<lot.date, lot.t0>>
<1>1. N \in Nat /\ DOMAIN v = 1..N /\ \A i \in 1..N : v[i] \in Lot
  BY LenProperties, ElementOfSeq
<1>2. /\ DOMAIN w = 1..(N + 1) /\ w[N + 1] = lot
      /\ \A i \in 1..N : w[i] = v[i]
  BY <1>1, AppendProperties
<1> HIDE DEF N, w
<1>3. key \in Buckets /\ lot.quantity \in Nat /\ \A i \in 1..N : v[i].quantity \in Nat
  BY <1>1, LotBookAssumption DEF Lot, Buckets
<1>4. /\ \A i \in 1..N : Quantities(v)[i] = v[i].quantity /\ Quantities(w)[i] = v[i].quantity
      /\ Quantities(w)[N + 1] = lot.quantity
  BY <1>1, <1>2 DEF Quantities
<1>5. \A b : InBucket(v, b) \subseteq 1..N /\ IsFiniteSet(InBucket(v, b)) /\ N + 1 \notin InBucket(v, b)
  <2>1. \A b : InBucket(v, b) \in SUBSET (1..N)
    BY <1>1 DEF InBucket
  <2>2. IsFiniteSet(1..N) /\ N + 1 \notin 1..N
    BY <1>1, FS_Interval
  <2>3. QED
    BY <2>1, <2>2, FS_Subset
<1>6. \A b : InBucket(w, b) = IF b = key THEN InBucket(v, b) \cup {N + 1} ELSE InBucket(v, b)
  <2>1. 1..(N + 1) = (1..N) \cup {N + 1}
    BY <1>1
  <2>2. QED
    BY <1>1, <1>2, <2>1 DEF InBucket
<1>7. ASSUME NEW b \in Buckets, b # key
      PROVE  BagOf(w)[b] = BagOf(v)[b]
  <2>1. InBucket(w, b) = InBucket(v, b)
    BY <1>6, <1>7
  <2>2. \A i \in InBucket(v, b) : Quantities(w)[i] = Quantities(v)[i]
    BY <1>4, <1>5
  <2>3. SumOver(Quantities(w), InBucket(v, b)) = SumOver(Quantities(v), InBucket(v, b))
    BY <2>2, SumSame
  <2>4. QED
    BY <2>1, <2>3 DEF BagOf
<1>8. BagOf(w)[key] = BagOf(v)[key] + lot.quantity
  <2> DEFINE A == InBucket(v, key)
             f == Quantities(v)
             g == Quantities(w)
  <2>1. InBucket(w, key) = A \cup {N + 1}
    BY <1>6
  <2>2. IsFiniteSet(A) /\ N + 1 \notin A
    BY <1>5
  <2>3. (\A i \in A : f[i] \in Nat /\ g[i] = f[i]) /\ g[N + 1] \in Nat
    BY <1>3, <1>4, <1>5
  <2> HIDE DEF A, f, g
  <2>4. SumOver(g, A \cup {N + 1}) = SumOver(f, A) + g[N + 1]
    BY <2>2, <2>3, SumExtend
  <2>5. BagOf(w)[key] = SumOver(g, A \cup {N + 1}) /\ BagOf(v)[key] = SumOver(f, A)
    BY <1>3, <2>1 DEF BagOf, A, f, g
  <2>6. g[N + 1] = lot.quantity
    BY <1>4 DEF g
  <2>7. QED
    BY <2>4, <2>5, <2>6
<1>9. BagOf(w) = [BagOf(v) EXCEPT ![key] = @ + lot.quantity]
  <2>1. \A b \in Buckets : BagOf(w)[b] = [BagOf(v) EXCEPT ![key] = @ + lot.quantity][b]
    BY <1>3, <1>7, <1>8 DEF BagOf
  <2>2. DOMAIN BagOf(w) = Buckets /\ DOMAIN BagOf(v) = Buckets
    BY DEF BagOf
  <2>3. BagOf(w) = [b \in Buckets |-> BagOf(w)[b]]
    BY DEF BagOf
  <2>4. [BagOf(v) EXCEPT ![key] = @ + lot.quantity]
          = [b \in Buckets |-> [BagOf(v) EXCEPT ![key] = @ + lot.quantity][b]]
    BY <2>2
  <2>5. QED
    BY <2>1, <2>3, <2>4
<1>10. QED
  BY <1>9 DEF AddLot, w

(* A sale of the vector is a sale of the bag. *)
LEMMA SellIsFifoTake ==
  ASSUME BookTypeOK, NEW q \in 1..MaxShares, Sell(q)
  PROVE  /\ vec' \in Seq(Lot) /\ Len(vec') <= MaxLots
         /\ IsFifoTake(BagOf(vec), BagTaken(vec, vec'), q, fillDate)
         /\ failed' = (Available(BagOf(vec), fillDate) < q)
<1> DEFINE N == Len(vec)
           v == SortedByDate(vec)
           left == LeftToSell(v, q, fillDate)
           w == Walked(v, left, fillDate)
<1>1. N \in Nat /\ N <= MaxLots /\ vec \in [1..N -> LotOrNone] /\ q \in Nat /\ fillDate \in Days
  <2>1. N \in Nat /\ DOMAIN vec = 1..N /\ \A i \in 1..N : vec[i] \in Lot
    BY LenProperties, ElementOfSeq DEF BookTypeOK
  <2>2. \A lot \in Lot : lot \in LotOrNone
    BY LotBookAssumption DEF Lot, LotOrNone
  <2>3. vec \in [1..N -> LotOrNone]
    BY <2>1, <2>2, LenProperties DEF BookTypeOK
  <2>4. QED
    BY <2>1, <2>3, LotBookAssumption DEF BookTypeOK
<1>2. /\ v \in [1..N -> LotOrNone] /\ BagOf(v) = BagOf(vec)
      /\ \A m, n \in 1..N : m < n => v[m].date <= v[n].date
  <2> HIDE DEF N
  <2>1. QED
    BY <1>1, SortedLots
<1>3. Len(v) = N
  <2> HIDE DEF v
  <2>1. QED
    BY <1>1, <1>2, SeqDef, LenProperties
<1>4. vec' = Retained(w) /\ failed' = (left[N] > 0)
  BY <1>3 DEF Sell
<1> HIDE DEF N, v, left, w
<1>5. /\ w \in [1..N -> LotOrNone]
      /\ IsFifoTake(BagOf(v), BagTaken(v, w), q, fillDate)
      /\ (left[N] > 0) = (Available(BagOf(v), fillDate) < q)
  BY <1>1, <1>2, WalkIsFifoTake DEF left, w
<1>6. vec' \in Seq(Lot) /\ Len(vec') <= N /\ BagOf(vec') = BagOf(w)
  BY <1>1, <1>4, <1>5, RetainedLots
<1>7. BagTaken(v, w) = BagTaken(vec, vec')
  BY <1>2, <1>6 DEF BagTaken
<1>8. Len(vec') <= MaxLots
  BY <1>1, <1>6, LotBookAssumption, LenProperties
<1>9. QED
  BY <1>2, <1>4, <1>5, <1>6, <1>7, <1>8

LEMMA BookInitTypes == BookInit => BookTypeOK
<1> SUFFICES ASSUME BookInit PROVE BookTypeOK
  OBVIOUS
<1>1. PICK n \in 0..MaxLots : vec \in [1..n -> Lot]
  BY DEF BookInit
<1>2. vec \in Seq(Lot) /\ Len(vec) = n
  BY <1>1, LotBookAssumption, SeqDef, LenProperties
<1>3. Len(vec) <= MaxLots
  BY <1>1, <1>2, LotBookAssumption
<1>4. fillDate \in Days /\ failed \in BOOLEAN
  BY DEF BookInit
<1>5. QED
  BY <1>2, <1>3, <1>4 DEF BookTypeOK

(* What a step of the vector does to the bag: see VectorIsBag. *)
BagStep ==
  \/ \E q \in 1..MaxShares, t0 \in BOOLEAN :
       /\ BagOf(vec') = AddLot(BagOf(vec), fillDate, t0, q)
       /\ ~failed'
  \/ \E q \in 1..MaxShares :
       /\ IsFifoTake(BagOf(vec), BagTaken(vec, vec'), q, fillDate)
       /\ failed' = (Available(BagOf(vec), fillDate) < q)
  \/ UNCHANGED vec /\ fillDate' > fillDate

LEMMA BookSteps ==
  BookTypeOK /\ [BookNext]_bookVars => BookTypeOK' /\ [BagStep]_bookVars
<1> SUFFICES ASSUME BookTypeOK, [BookNext]_bookVars
             PROVE  BookTypeOK' /\ [BagStep]_bookVars
  OBVIOUS
<1>1. ASSUME NEW q \in 1..MaxShares, NEW t0 \in BOOLEAN, Buy(q, t0)
      PROVE  BookTypeOK' /\ BagStep
  <2> DEFINE lot == [date |-> fillDate, t0 |-> t0, quantity |-> q]
  <2>1. /\ lot \in Lot /\ vec \in Seq(Lot) /\ vec' = Append(vec, lot)
        /\ lot.date = fillDate /\ lot.t0 = t0 /\ lot.quantity = q
    BY <1>1 DEF Buy, BookTypeOK, Lot
  <2> HIDE DEF lot
  <2>2. vec' \in Seq(Lot) /\ Len(vec') = Len(vec) + 1
    BY <2>1, AppendProperties
  <2>3. Len(vec) \in Nat /\ Len(vec) < MaxLots /\ MaxLots \in Nat
    BY <1>1, <2>1, LenProperties, LotBookAssumption DEF Buy
  <2>4. BookTypeOK'
    <3>1. Len(vec') <= MaxLots
      BY <2>2, <2>3
    <3>2. fillDate' \in Days /\ failed' \in BOOLEAN
      BY <1>1 DEF Buy, BookTypeOK
    <3>3. QED
      BY <2>2, <3>1, <3>2 DEF BookTypeOK
  <2>5. BagOf(vec') = AddLot(BagOf(vec), fillDate, t0, q)
    BY <2>1, BagOfAppend
  <2>6. QED
    BY <1>1, <2>4, <2>5 DEF Buy, BagStep
<1>2. ASSUME NEW q \in 1..MaxShares, Sell(q)
      PROVE  BookTypeOK' /\ BagStep
  <2>1. /\ vec' \in Seq(Lot) /\ Len(vec') <= MaxLots
        /\ IsFifoTake(BagOf(vec), BagTaken(vec, vec'), q, fillDate)
        /\ failed' = (Available(BagOf(vec), fillDate) < q)
    BY <1>2, SellIsFifoTake
  <2>2. fillDate' \in Days /\ failed' \in BOOLEAN
    BY <1>2, <2>1 DEF Sell, BookTypeOK
  <2>3. QED
    BY <2>1, <2>2 DEF BookTypeOK, BagStep
<1>3. ASSUME NEW d \in Days, NextDay(d)
      PROVE  BookTypeOK' /\ BagStep
  BY <1>3 DEF NextDay, BookTypeOK, BagStep
<1>4. ASSUME UNCHANGED bookVars PROVE BookTypeOK' /\ [BagStep]_bookVars
  BY <1>4 DEF bookVars, BookTypeOK
<1>5. QED
  BY <1>1, <1>2, <1>3, <1>4 DEF BookNext

(***************************************************************************)
(* The vector of lots implements the bag of shares, however many lots and  *)
(* shares there are and in whatever order they came: a buy adds one        *)
(* bucket's shares, a sale takes first-in first-out, skips what is locked  *)
(* and fails exactly when too little is unlocked (apply_fill,              *)
(* consume_lots_fifo).                                                     *)
(***************************************************************************)
THEOREM VectorImplementsBag == BookSpec => VectorIsBag
<1>1. BookSpec => [][BagStep]_bookVars
  BY BookInitTypes, BookSteps, PTL DEF BookSpec
<1>2. QED
  BY <1>1 DEF VectorIsBag, BagStep

=============================================================================
