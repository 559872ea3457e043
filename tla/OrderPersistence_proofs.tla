---------------------- MODULE OrderPersistence_proofs ----------------------
(***************************************************************************)
(* The invariants of OrderPersistence for any number of orders, calls in   *)
(* flight, restarts and failing statements.                                *)
(***************************************************************************)
EXTENDS OrderPersistence, TLAPS

(* WasTrue of the next state, of a copy that is what it is now. *)
StillTrue(id, c) ==
  /\ phase'[id] # "None"
  /\ c.left >= left'[id]
  /\ c.status \notin LiveStatus => phase'[id] = c.status /\ left'[id] = c.left

(* What a copy says stays true of the past while its order goes on living. *)

LEMMA QuantityType == \A n \in Quantities : n \in Nat
BY PersistenceAssumption DEF Quantities

LEMMA AfterPlace ==
  ASSUME TypeOK, NEW o \in OrderIds, NEW q, Engine!Place(o, q),
         NEW id \in OrderIds, NEW c, WasTrue(id, c)
  PROVE  StillTrue(id, c)
BY DEF TypeOK, WasTrue, StillTrue, Engine!Place

LEMMA AfterCancel ==
  ASSUME TypeOK, NEW o \in OrderIds, Engine!Cancel(o),
         NEW id \in OrderIds, NEW c, WasTrue(id, c)
  PROVE  StillTrue(id, c)
BY DEF TypeOK, WasTrue, StillTrue, Engine!Cancel, LiveStatus

LEMMA AfterFill ==
  ASSUME TypeOK, NEW o \in OrderIds, NEW q \in 1..left[o], Engine!Fill(o, q),
         NEW id \in OrderIds, NEW c, c.left \in Nat, WasTrue(id, c)
  PROVE  StillTrue(id, c)
<1>1. CASE id # o
  BY <1>1 DEF TypeOK, WasTrue, StillTrue, Engine!Fill
<1>2. CASE id = o
  <2>1. c.status \in LiveStatus /\ phase'[id] # "None"
    BY <1>2 DEF TypeOK, WasTrue, StillTrue, Engine!Fill, LiveStatus
  <2>2. left'[id] = left[id] - q
    BY <1>2 DEF TypeOK, Engine!Fill
  <2>4. left[id] \in Nat
    BY QuantityType DEF TypeOK
  <2>5. q \in Nat /\ c.left >= left[id]
    BY <1>2, <2>4 DEF WasTrue
  <2>3. QED
    BY <2>1, <2>2, <2>4, <2>5 DEF StillTrue
<1>3. QED
  BY <1>1, <1>2

LEMMA InitInv == Init => IInv
<1> SUFFICES ASSUME Init PROVE IInv
  OBVIOUS
<1>1. TypeOK
  BY PersistenceAssumption DEF Init, Engine!Init, TypeOK, Quantities, Rows
<1>2. QED
  BY <1>1 DEF Init, Engine!Init, IInv, RowsWereTrue, FillsHaveOrders, AccountCoversFills,
              PumpAtWork

-----------------------------------------------------------------------------
(* gRPC tasks *)

LEMMA SubmitInv ==
  ASSUME IInv, NEW o \in OrderIds, NEW q \in 1..MaxQuantity, Submit(o, q)
  PROVE  IInv'
<1> DEFINE new == [id |-> o, status |-> "New", left |-> q]
<1>1. /\ TypeOK /\ Engine!Place(o, q) /\ o \notin lost
      /\ inflight' = inflight \cup {new}
      /\ UNCHANGED <<booked, pump, tables, life>>
  BY DEF Submit, IInv
<1>2. new \in Copies /\ q \in Quantities
  BY PersistenceAssumption DEF Copies, Status, LiveStatus, Quantities
<1>3. TypeOK'
  BY <1>1, <1>2 DEF TypeOK, Engine!Place, Status, LiveStatus, pump, tables, life
<1>4. StillTrue(o, new)
  <2>1. left'[o] = q /\ phase'[o] = "New"
    BY <1>1 DEF TypeOK, Engine!Place
  <2>2. q \in Nat
    OBVIOUS
  <2>3. QED
    BY <2>1, <2>2 DEF StillTrue, LiveStatus
<1>5. RowsWereTrue'
  <2>1. SUFFICES ASSUME NEW p \in DOMAIN rows \ lost PROVE StillTrue(p, rows[p])
    BY <1>1 DEF RowsWereTrue, WasTrue, StillTrue, tables, life
  <2>2. p \in OrderIds /\ WasTrue(p, rows[p])
    BY <1>1 DEF TypeOK, IInv, RowsWereTrue
  <2>3. QED
    BY <1>1, <2>2, AfterPlace
<1>6. (\A c \in inflight \cup carried : c.id \notin lost /\ WasTrue(c.id, c))'
  <2>1. SUFFICES ASSUME NEW c \in inflight \cup carried \cup {new}
                 PROVE  c.id \notin lost /\ StillTrue(c.id, c)
    BY <1>1 DEF pump, life, WasTrue, StillTrue
  <2>2. CASE c = new
    BY <2>2, <1>1, <1>4
  <2>3. CASE c # new
    BY <2>3, <1>1, AfterPlace DEF IInv, TypeOK, Copies
  <2>4. QED
    BY <2>2, <2>3
<1>7. (\A p \in lost : phase[p] = "None")'
  BY <1>1 DEF IInv, TypeOK, Engine!Place, life
<1>8. (\A f \in booked : phase[f.id] # "None")'
  BY <1>1 DEF IInv, TypeOK, Fills, Engine!Place
<1>9. QED
  BY <1>1, <1>3, <1>5, <1>6, <1>7, <1>8
  DEF IInv, FillsHaveOrders, AccountCoversFills, PumpAtWork, pump, tables, life

LEMMA CancelInv ==
  ASSUME IInv, NEW o \in OrderIds, Cancel(o)
  PROVE  IInv'
<1> DEFINE copy == [id |-> o, status |-> "Cancelled", left |-> left[o]]
<1>1. /\ TypeOK /\ Engine!Cancel(o)
      /\ inflight' = inflight \cup {copy}
      /\ UNCHANGED <<booked, pump, tables, life>>
  BY DEF Cancel, IInv
<1>2. copy \in Copies
  BY <1>1 DEF Copies, Status, TypeOK
<1>3. TypeOK'
  BY <1>1, <1>2 DEF TypeOK, Engine!Cancel, Status, pump, tables, life
<1>4. StillTrue(o, copy)
  <2>1. left'[o] = left[o] /\ phase'[o] = "Cancelled"
    BY <1>1 DEF TypeOK, Engine!Cancel
  <2>2. left[o] \in Nat
    BY <1>1, QuantityType DEF TypeOK
  <2>3. QED
    BY <2>1, <2>2 DEF StillTrue
<1>5. RowsWereTrue'
  <2>1. SUFFICES ASSUME NEW p \in DOMAIN rows \ lost PROVE StillTrue(p, rows[p])
    BY <1>1 DEF RowsWereTrue, WasTrue, StillTrue, tables, life
  <2>2. p \in OrderIds /\ WasTrue(p, rows[p])
    BY <1>1 DEF TypeOK, IInv, RowsWereTrue
  <2>3. QED
    BY <1>1, <2>2, AfterCancel
<1>6. o \notin lost
  BY <1>1 DEF IInv, Engine!Cancel
<1>7. (\A c \in inflight \cup carried : c.id \notin lost /\ WasTrue(c.id, c))'
  <2>1. SUFFICES ASSUME NEW c \in inflight \cup carried \cup {copy}
                 PROVE  c.id \notin lost /\ StillTrue(c.id, c)
    BY <1>1 DEF pump, life, WasTrue, StillTrue
  <2>2. CASE c = copy
    BY <2>2, <1>4, <1>6
  <2>3. CASE c # copy
    BY <2>3, <1>1, AfterCancel DEF IInv, TypeOK, Copies
  <2>4. QED
    BY <2>2, <2>3
<1>8. (\A p \in lost : phase[p] = "None")'
  BY <1>1, <1>6 DEF IInv, TypeOK, Engine!Cancel, life
<1>9. (\A f \in booked : phase[f.id] # "None")'
  BY <1>1 DEF IInv, TypeOK, Fills, Engine!Cancel
<1>10. QED
  BY <1>1, <1>3, <1>5, <1>7, <1>8, <1>9
  DEF IInv, FillsHaveOrders, AccountCoversFills, PumpAtWork, pump, tables, life

(* What an upsert makes of the table: a row more, or a row replaced. *)
LEMMA AfterUpsert ==
  ASSUME IInv, UNCHANGED <<phase, left, lost>>, NEW c \in Copies,
         c.id \notin lost, WasTrue(c.id, c), Upsert(c)
  PROVE  /\ DOMAIN rows' = DOMAIN rows \cup {c.id}
         /\ DOMAIN rows' \subseteq OrderIds
         /\ rows' \in [DOMAIN rows' -> Rows]
         /\ RowsWereTrue'
<1>1. /\ DOMAIN rows' = DOMAIN rows \cup {c.id}
      /\ rows'[c.id] = [status |-> c.status, left |-> c.left]
      /\ \A p \in DOMAIN rows : p # c.id => rows'[p] = rows[p]
      /\ rows' = [p \in DOMAIN rows' |-> rows'[p]]
  BY DEF Upsert
<1>2. rows' \in [DOMAIN rows' -> Rows] /\ DOMAIN rows' \subseteq OrderIds
  <2>1. [status |-> c.status, left |-> c.left] \in Rows
    BY DEF Copies, Rows
  <2>2. \A p \in DOMAIN rows' : rows'[p] \in Rows
    BY <1>1, <2>1 DEF IInv, TypeOK
  <2>3. DOMAIN rows' \subseteq OrderIds
    BY <1>1 DEF IInv, TypeOK, Copies
  <2>4. QED
    BY <1>1, <2>2, <2>3
<1>3. StillTrue(c.id, rows'[c.id])
  BY <1>1 DEF WasTrue, StillTrue, Copies
<1>4. \A p \in DOMAIN rows \ lost : p # c.id => StillTrue(p, rows'[p])
  BY <1>1 DEF WasTrue, StillTrue, IInv, RowsWereTrue
<1>5. RowsWereTrue'
  BY <1>1, <1>3, <1>4 DEF RowsWereTrue, WasTrue, StillTrue
<1>6. QED
  BY <1>1, <1>2, <1>5

LEMMA SaveCopyInv ==
  ASSUME IInv, NEW c \in inflight, SaveCopy(c)
  PROVE  IInv'
<1>1. /\ TypeOK /\ c \in Copies /\ c.id \notin lost /\ WasTrue(c.id, c)
      /\ inflight' = inflight \ {c}
      /\ UNCHANGED <<memory, pump, fillRows, accountRow, life>>
  BY DEF SaveCopy, IInv, TypeOK
<1>2. /\ DOMAIN rows \subseteq DOMAIN rows' /\ DOMAIN rows' \subseteq OrderIds
      /\ rows' \in [DOMAIN rows' -> Rows] /\ RowsWereTrue'
  <2>1. CASE Upsert(c)
    BY <2>1, <1>1, AfterUpsert DEF memory, life
  <2>2. CASE UNCHANGED rows
    BY <2>2, <1>1 DEF IInv, TypeOK, RowsWereTrue, WasTrue, memory, life
  <2>3. QED
    BY <2>1, <2>2 DEF SaveCopy
<1>3. TypeOK'
  BY <1>1, <1>2 DEF TypeOK, memory, pump, life
<1>4. (\A d \in inflight \cup carried : d.id \notin lost /\ WasTrue(d.id, d))'
  BY <1>1 DEF IInv, WasTrue, memory, pump, life
<1>5. QED
  BY <1>1, <1>2, <1>3, <1>4
  DEF IInv, FillsHaveOrders, AccountCoversFills, PumpAtWork, memory, pump, life

-----------------------------------------------------------------------------
(* The pump *)

LEMMA MatchOneInv ==
  ASSUME IInv, NEW o \in OrderIds, NEW q \in 1..left[o], MatchOne(o, q)
  PROVE  IInv'
<1> DEFINE fill == [id |-> o, from |-> left[o], to |-> left[o] - q]
<1>1. /\ TypeOK /\ Engine!Fill(o, q) /\ pc' = "matching"
      /\ booked' = booked \cup {fill} /\ unsaved' = unsaved \cup {fill}
      /\ UNCHANGED <<inflight, current, carried, balance, tables, life>>
  BY DEF MatchOne, IInv
<1>2. left[o] \in Quantities /\ left[o] - q \in Quantities /\ o \notin lost
  <2>1. left[o] \in Quantities
    BY <1>1 DEF TypeOK
  <2>2. left[o] - q \in Quantities
    BY <2>1, PersistenceAssumption DEF Quantities
  <2>3. o \notin lost
    BY <1>1 DEF IInv, Engine!Fill
  <2>4. QED
    BY <2>1, <2>2, <2>3
<1>3. fill \in Fills
  BY <1>2 DEF Fills
<1> HIDE DEF fill
<1>4. TypeOK'
  <2>1. phase' \in [OrderIds -> {"None"} \cup Status] /\ left' \in [OrderIds -> Quantities]
    BY <1>1, <1>2 DEF TypeOK, Engine!Fill, Status, LiveStatus
  <2>2. QED
    BY <1>1, <1>3, <2>1 DEF TypeOK, tables, life
<1>5. RowsWereTrue'
  <2>1. SUFFICES ASSUME NEW p \in DOMAIN rows \ lost PROVE StillTrue(p, rows[p])
    BY <1>1 DEF RowsWereTrue, WasTrue, StillTrue, tables, life
  <2>2. p \in OrderIds /\ WasTrue(p, rows[p]) /\ rows[p].left \in Nat
    BY <1>1, QuantityType DEF TypeOK, IInv, RowsWereTrue, Rows
  <2>3. QED
    BY <1>1, <2>2, AfterFill
<1>6. (\A c \in inflight \cup carried : c.id \notin lost /\ WasTrue(c.id, c))'
  <2>1. SUFFICES ASSUME NEW c \in inflight \cup carried PROVE StillTrue(c.id, c)
    BY <1>1 DEF IInv, WasTrue, StillTrue, life
  <2>2. c.id \in OrderIds /\ WasTrue(c.id, c) /\ c.left \in Nat
    BY <1>1, QuantityType DEF TypeOK, IInv, Copies
  <2>3. QED
    BY <1>1, <2>2, AfterFill
<1>7. (\A p \in lost : phase[p] = "None")'
  BY <1>1, <1>2 DEF IInv, TypeOK, Engine!Fill, life
<1>8. (\A f \in booked : phase[f.id] # "None")'
  <2>1. phase'[o] # "None" /\ fill.id = o
    BY <1>1 DEF TypeOK, Engine!Fill, fill
  <2>2. \A p \in OrderIds : p # o => phase'[p] = phase[p]
    BY <1>1 DEF TypeOK, Engine!Fill
  <2>3. QED
    BY <1>1, <2>1, <2>2 DEF IInv, TypeOK, Fills
<1>9. FillsHaveOrders' /\ AccountCoversFills' /\ PumpAtWork'
  BY <1>1 DEF IInv, FillsHaveOrders, AccountCoversFills, PumpAtWork, MatchOne, tables, life
<1>10. (\A f \in fillRows : f.id \notin lost => f \in booked)'
  BY <1>1 DEF IInv, tables, life
<1>11. QED
  BY <1>4, <1>5, <1>6, <1>7, <1>8, <1>9, <1>10 DEF IInv

LEMMA PlaceExitInv ==
  ASSUME IInv, NEW o \in OrderIds, NEW q \in 1..MaxQuantity, PlaceExit(o, q)
  PROVE  IInv'
<1> DEFINE new == [id |-> o, status |-> "New", left |-> q]
<1>1. /\ TypeOK /\ Engine!Place(o, q) /\ o \notin lost /\ pc = "idle"
      /\ carried' = {new} /\ pc' = "save exit"
      /\ UNCHANGED <<booked, inflight, unsaved, current, balance, tables, life>>
  BY DEF PlaceExit, IInv
<1>2. new \in Copies /\ q \in Quantities
  BY PersistenceAssumption DEF Copies, Status, LiveStatus, Quantities
<1>3. TypeOK'
  BY <1>1, <1>2 DEF TypeOK, Engine!Place, Status, LiveStatus, tables, life
<1>4. StillTrue(o, new)
  <2>1. left'[o] = q /\ phase'[o] = "New"
    BY <1>1 DEF TypeOK, Engine!Place
  <2>2. q \in Nat
    OBVIOUS
  <2>3. QED
    BY <2>1, <2>2 DEF StillTrue, LiveStatus
<1>5. RowsWereTrue'
  <2>1. SUFFICES ASSUME NEW p \in DOMAIN rows \ lost PROVE StillTrue(p, rows[p])
    BY <1>1 DEF RowsWereTrue, WasTrue, StillTrue, tables, life
  <2>2. p \in OrderIds /\ WasTrue(p, rows[p])
    BY <1>1 DEF TypeOK, IInv, RowsWereTrue
  <2>3. QED
    BY <1>1, <2>2, AfterPlace
<1>6. (\A c \in inflight \cup carried : c.id \notin lost /\ WasTrue(c.id, c))'
  <2>1. SUFFICES ASSUME NEW c \in inflight \cup {new}
                 PROVE  c.id \notin lost /\ StillTrue(c.id, c)
    BY <1>1 DEF life, WasTrue, StillTrue
  <2>2. CASE c = new
    BY <2>2, <1>1, <1>4
  <2>3. CASE c # new
    BY <2>3, <1>1, AfterPlace DEF IInv, TypeOK, Copies
  <2>4. QED
    BY <2>2, <2>3
<1>7. (\A p \in lost : phase[p] = "None")'
  BY <1>1 DEF IInv, TypeOK, Engine!Place, life
<1>8. (\A f \in booked : phase[f.id] # "None")'
  BY <1>1 DEF IInv, TypeOK, Fills, Engine!Place
<1>9. QED
  BY <1>1, <1>3, <1>5, <1>6, <1>7, <1>8
  DEF IInv, FillsHaveOrders, AccountCoversFills, PumpAtWork, tables, life

(***************************************************************************)
(* The steps of the pump that leave the orders in memory, the account and  *)
(* the copies of the tasks alone.                                          *)
(***************************************************************************)
LEMMA KeepsMemory ==
  ASSUME IInv, TypeOK', UNCHANGED <<memory, inflight, life>>,
         RowsWereTrue', FillsHaveOrders', AccountCoversFills', PumpAtWork',
         \A c \in carried' : c.id \notin lost /\ WasTrue(c.id, c),
         \A f \in fillRows' : f.id \notin lost => f \in booked
  PROVE  IInv'
BY DEF IInv, WasTrue, memory, life

LEMMA EndMatchingInv == IInv /\ EndMatching => IInv'
<1> SUFFICES ASSUME IInv, EndMatching PROVE IInv'
  OBVIOUS
<1>1. TypeOK'
  BY DEF EndMatching, IInv, TypeOK, memory, tables, life
<1>2. RowsWereTrue'
  BY DEF EndMatching, IInv, RowsWereTrue, WasTrue, memory, tables, life
<1>3. FillsHaveOrders' /\ AccountCoversFills' /\ PumpAtWork'
  BY DEF EndMatching, IInv, FillsHaveOrders, AccountCoversFills, PumpAtWork, memory, tables, life
<1>4. QED
  BY <1>1, <1>2, <1>3, KeepsMemory DEF EndMatching, IInv, tables

LEMMA ReadOrderInv ==
  ASSUME IInv, NEW f \in unsaved, ReadOrder(f)
  PROVE  IInv'
<1>1. /\ TypeOK /\ f \in booked /\ f \in Fills /\ phase[f.id] # "None"
      /\ current' = {f} /\ unsaved' = unsaved \ {f} /\ carried' = {CopyOf(f.id)}
      /\ pc = "order" /\ pc' = "save order"
      /\ UNCHANGED <<memory, inflight, balance, tables, life>>
  BY DEF ReadOrder, IInv, TypeOK, PumpAtWork
<1>2. CopyOf(f.id) \in Copies /\ WasTrue(f.id, CopyOf(f.id)) /\ f.id \notin lost
  <2>1. f.id \in OrderIds /\ left[f.id] \in Nat
    BY <1>1, QuantityType DEF TypeOK, Fills
  <2>2. CopyOf(f.id) \in Copies
    BY <1>1, <2>1 DEF CopyOf, Copies, TypeOK
  <2>3. CopyOf(f.id).left = left[f.id] /\ CopyOf(f.id).status = phase[f.id]
    BY DEF CopyOf
  <2>4. WasTrue(f.id, CopyOf(f.id))
    <3>1. phase[f.id] # "None"
      BY <1>1
    <3>2. QED
      BY <2>1, <2>3, <3>1 DEF WasTrue
  <2>5. QED
    BY <1>1, <2>2, <2>4 DEF IInv
<1>3. CopyOf(f.id).id = f.id
  BY DEF CopyOf
<1>4. TypeOK'
  BY <1>1, <1>2 DEF TypeOK, memory, tables, life
<1>5. RowsWereTrue'
  BY <1>1 DEF IInv, RowsWereTrue, WasTrue, memory, tables, life
<1>6. PumpAtWork'
  BY <1>1, <1>3 DEF IInv, PumpAtWork, memory, tables, life
<1>7. FillsHaveOrders' /\ AccountCoversFills'
  BY <1>1 DEF IInv, FillsHaveOrders, AccountCoversFills, memory, tables, life
<1>8. QED
  BY <1>1, <1>2, <1>3, <1>4, <1>5, <1>6, <1>7, KeepsMemory DEF IInv, tables

(* A failed save of the pump: nothing it holds is left, no table changes. *)
LEMMA StopInv ==
  ASSUME IInv, Stop, UNCHANGED <<memory, inflight, tables, life>>
  PROVE  IInv'
<1>1. TypeOK'
  BY DEF Stop, IInv, TypeOK, memory, tables, life
<1>2. RowsWereTrue'
  BY DEF IInv, RowsWereTrue, WasTrue, memory, tables, life
<1>3. FillsHaveOrders' /\ AccountCoversFills' /\ PumpAtWork'
  BY DEF Stop, IInv, FillsHaveOrders, AccountCoversFills, PumpAtWork, memory, tables, life
<1>4. QED
  BY <1>1, <1>2, <1>3, KeepsMemory DEF Stop, IInv, tables

LEMMA SaveOrderInv ==
  ASSUME IInv, NEW c \in carried, SaveOrder(c)
  PROVE  IInv'
<1>1. /\ TypeOK /\ c \in Copies /\ c.id \notin lost /\ WasTrue(c.id, c)
      /\ pc = "save order"
      /\ UNCHANGED <<memory, inflight, fillRows, accountRow, life>>
  BY DEF SaveOrder, IInv, TypeOK
<1>2. CASE Stop /\ UNCHANGED rows
  BY <1>1, <1>2, StopInv DEF tables
<1>3. CASE Upsert(c) /\ pc' = "save fill" /\ carried' = {}
           /\ UNCHANGED <<unsaved, current, balance>>
  <2>1. /\ DOMAIN rows' = DOMAIN rows \cup {c.id} /\ DOMAIN rows' \subseteq OrderIds
        /\ rows' \in [DOMAIN rows' -> Rows] /\ RowsWereTrue'
    BY <1>1, <1>3, AfterUpsert DEF memory, life
  <2>2. TypeOK'
    BY <1>1, <1>3, <2>1 DEF TypeOK, memory, life
  <2>3. FillsHaveOrders'
    BY <1>1, <1>3, <2>1 DEF IInv, FillsHaveOrders, PumpAtWork
  <2>4. AccountCoversFills' /\ PumpAtWork'
    BY <1>1, <1>3 DEF IInv, AccountCoversFills, PumpAtWork, memory, life
  <2>5. QED
    BY <1>1, <1>3, <2>1, <2>2, <2>3, <2>4, KeepsMemory DEF IInv
<1>4. QED
  BY <1>2, <1>3 DEF SaveOrder

LEMMA SaveExitInv ==
  ASSUME IInv, NEW c \in carried, SaveExit(c)
  PROVE  IInv'
<1>1. /\ TypeOK /\ c \in Copies /\ c.id \notin lost /\ WasTrue(c.id, c)
      /\ pc = "save exit"
      /\ UNCHANGED <<memory, inflight, fillRows, accountRow, life>>
  BY DEF SaveExit, IInv, TypeOK
<1>2. CASE Stop /\ UNCHANGED rows
  BY <1>1, <1>2, StopInv DEF tables
<1>3. CASE Upsert(c) /\ pc' = "idle" /\ carried' = {}
           /\ UNCHANGED <<unsaved, current, balance>>
  <2>1. /\ DOMAIN rows' = DOMAIN rows \cup {c.id} /\ DOMAIN rows' \subseteq OrderIds
        /\ rows' \in [DOMAIN rows' -> Rows] /\ RowsWereTrue'
    BY <1>1, <1>3, AfterUpsert DEF memory, life
  <2>2. TypeOK'
    BY <1>1, <1>3, <2>1 DEF TypeOK, memory, life
  <2>3. FillsHaveOrders'
    BY <1>1, <1>3, <2>1 DEF IInv, FillsHaveOrders, PumpAtWork
  <2>4. AccountCoversFills' /\ PumpAtWork'
    BY <1>1, <1>3 DEF IInv, AccountCoversFills, PumpAtWork, memory, life
  <2>5. QED
    BY <1>1, <1>3, <2>1, <2>2, <2>3, <2>4, KeepsMemory DEF IInv
<1>4. QED
  BY <1>2, <1>3 DEF SaveExit

LEMMA SaveFillInv ==
  ASSUME IInv, NEW f \in current, SaveFill(f)
  PROVE  IInv'
<1>1. /\ TypeOK /\ f \in booked /\ f \in Fills /\ pc = "save fill"
      /\ UNCHANGED <<memory, inflight, rows, accountRow, life>>
  BY DEF SaveFill, IInv, TypeOK, PumpAtWork
<1>2. CASE Stop /\ UNCHANGED fillRows
  BY <1>1, <1>2, StopInv DEF tables
<1>3. CASE /\ f.id \in DOMAIN rows /\ fillRows' = fillRows \cup {f}
           /\ pc' = "account" /\ current' = {}
           /\ UNCHANGED <<unsaved, carried, balance>>
  <2>1. TypeOK'
    BY <1>1, <1>3 DEF TypeOK, memory, life
  <2>2. RowsWereTrue'
    BY <1>1 DEF IInv, RowsWereTrue, WasTrue, memory, life
  <2>3. FillsHaveOrders' /\ AccountCoversFills' /\ PumpAtWork'
    BY <1>1, <1>3 DEF IInv, FillsHaveOrders, AccountCoversFills, PumpAtWork, memory, life
  <2>4. \A g \in fillRows' : g.id \notin lost => g \in booked
    BY <1>1, <1>3 DEF IInv
  <2>5. QED
    BY <1>1, <1>3, <2>1, <2>2, <2>3, <2>4, KeepsMemory DEF IInv
<1>4. QED
  BY <1>2, <1>3 DEF SaveFill

LEMMA ReadAccountInv == IInv /\ ReadAccount => IInv'
<1> SUFFICES ASSUME IInv, ReadAccount PROVE IInv'
  OBVIOUS
<1>1. TypeOK'
  BY DEF ReadAccount, IInv, TypeOK, memory, tables, life
<1>2. RowsWereTrue'
  BY DEF ReadAccount, IInv, RowsWereTrue, WasTrue, memory, tables, life
<1>3. FillsHaveOrders' /\ AccountCoversFills' /\ PumpAtWork'
  BY DEF ReadAccount, IInv, FillsHaveOrders, AccountCoversFills, PumpAtWork, memory, tables, life
<1>4. QED
  BY <1>1, <1>2, <1>3, KeepsMemory DEF ReadAccount, IInv, tables

LEMMA SaveAccountInv == IInv /\ SaveAccount => IInv'
<1> SUFFICES ASSUME IInv, SaveAccount PROVE IInv'
  OBVIOUS
<1>1. CASE Stop /\ UNCHANGED accountRow
  BY <1>1, StopInv DEF SaveAccount, tables
<1>2. CASE /\ accountRow' = balance
           /\ pc' = IF unsaved = {} THEN "idle" ELSE "order"
           /\ balance' = {}
           /\ UNCHANGED <<unsaved, current, carried>>
  <2>1. TypeOK'
    BY <1>2 DEF SaveAccount, IInv, TypeOK, memory, life
  <2>2. RowsWereTrue'
    BY DEF SaveAccount, IInv, RowsWereTrue, WasTrue, memory, life
  <2>3. FillsHaveOrders' /\ AccountCoversFills' /\ PumpAtWork'
    BY <1>2 DEF SaveAccount, IInv, FillsHaveOrders, AccountCoversFills, PumpAtWork,
                memory, life
  <2>4. QED
    BY <1>2, <2>1, <2>2, <2>3, KeepsMemory DEF SaveAccount, IInv
<1>3. QED
  BY <1>1, <1>2 DEF SaveAccount

LEMMA RestartInv == IInv /\ Restart => IInv'
<1> SUFFICES ASSUME IInv, Restart PROVE IInv'
  OBVIOUS
<1>1. TypeOK'
  <2>1. restarts' \in 0..MaxRestarts
    <3>1. restarts \in 0..MaxRestarts
      BY DEF IInv, TypeOK
    <3>2. restarts' = restarts + 1 /\ restarts < MaxRestarts
      BY DEF Restart
    <3>3. QED
      BY <3>1, <3>2, PersistenceAssumption
  <2>2. 0 \in Quantities
    BY PersistenceAssumption DEF Quantities
  <2>3. /\ phase' \in [OrderIds -> {"None"} \cup Status]
        /\ left' \in [OrderIds -> Quantities]
    BY <2>2 DEF Restart
  <2>4. lost' \subseteq OrderIds
    BY DEF Restart, IInv, TypeOK
  <2>5. QED
    BY <2>1, <2>3, <2>4 DEF Restart, IInv, TypeOK, tables
<1>2. \A o \in OrderIds \ lost' : phase[o] = "None" /\ o \notin lost
  BY DEF Restart
<1>3. \A o \in DOMAIN rows : o \in lost'
  BY <1>2 DEF IInv, RowsWereTrue, WasTrue, TypeOK
<1>4. \A f \in fillRows \cup accountRow : f.id \in lost'
  BY <1>2 DEF IInv, TypeOK, Fills, AccountCoversFills
<1>5. RowsWereTrue'
  BY <1>3 DEF RowsWereTrue, Restart, tables
<1>6. FillsHaveOrders' /\ AccountCoversFills' /\ PumpAtWork'
  BY <1>4 DEF IInv, Restart, FillsHaveOrders, AccountCoversFills, PumpAtWork, tables
<1>7. (\A p \in lost : phase[p] = "None")'
  BY DEF Restart, IInv, TypeOK
<1>8. QED
  BY <1>1, <1>4, <1>5, <1>6, <1>7 DEF IInv, Restart, tables

LEMMA StutterInv == IInv /\ UNCHANGED vars => IInv'
<1> SUFFICES ASSUME IInv, UNCHANGED vars PROVE IInv'
  OBVIOUS
<1>1. TypeOK'
  BY DEF IInv, TypeOK, vars, memory, pump, tables, life
<1>2. RowsWereTrue'
  BY DEF IInv, RowsWereTrue, WasTrue, vars, memory, tables, life
<1>3. FillsHaveOrders' /\ AccountCoversFills' /\ PumpAtWork'
  BY DEF IInv, FillsHaveOrders, AccountCoversFills, PumpAtWork, vars, memory, pump, tables, life
<1>4. QED
  BY <1>1, <1>2, <1>3, KeepsMemory DEF IInv, vars, memory, pump, tables

LEMMA NextInv == IInv /\ [Next]_vars => IInv'
<1> SUFFICES ASSUME IInv, [Next]_vars PROVE IInv'
  OBVIOUS
<1>1. CASE GrpcTask
  BY <1>1, SubmitInv, CancelInv, SaveCopyInv DEF GrpcTask
<1>2. CASE PumpSaves
  BY <1>2, EndMatchingInv, ReadOrderInv, SaveOrderInv, SaveExitInv, SaveFillInv,
     ReadAccountInv, SaveAccountInv DEF PumpSaves
<1>3. CASE Pump
  BY <1>2, <1>3, MatchOneInv, PlaceExitInv DEF Pump
<1>4. CASE Restart
  BY <1>4, RestartInv
<1>5. CASE UNCHANGED vars
  BY <1>5, StutterInv
<1>6. QED
  BY <1>1, <1>3, <1>4, <1>5 DEF Next

-----------------------------------------------------------------------------
(***************************************************************************)
(* The inductive invariant: what is under way between memory and tables    *)
(* (handler.rs persist_order, persist_fill).                               *)
(***************************************************************************)
THEOREM Invariance == Spec => []IInv
<1>1. QED
  BY InitInv, NextInv, PTL DEF Spec

(***************************************************************************)
(* The orders table never runs ahead of the engine, whichever saves fail   *)
(* or come late and however often the process is started again.            *)
(***************************************************************************)
THEOREM RowsNeverAhead == Spec => []RowsWereTrue
<1>1. IInv => RowsWereTrue
  BY DEF IInv
<1>2. QED
  BY <1>1, Invariance, PTL

(***************************************************************************)
(* A fill in the table has its order in the table, and save_fill never     *)
(* meets the foreign key (migrations fills.sql).                           *)
(***************************************************************************)
THEOREM FillsKeepTheirOrders == Spec => []FillsHaveOrders
<1>1. IInv => FillsHaveOrders
  BY DEF IInv
<1>2. QED
  BY <1>1, Invariance, PTL

(***************************************************************************)
(* The newest account row covers the fills table between two fills, and    *)
(* shows no fill that was not booked.                                      *)
(***************************************************************************)
THEOREM AccountKeepsUp == Spec => []AccountCoversFills
<1>1. IInv => AccountCoversFills
  BY DEF IInv
<1>2. QED
  BY <1>1, Invariance, PTL

(***************************************************************************)
(* When the pump comes back for the next snapshot, every fill of this life *)
(* is in the fills table.                                                  *)
(***************************************************************************)
THEOREM FillsSaved == Spec => []FillsReachTheTable
<1>1. IInv => FillsReachTheTable
  BY DEF IInv, PumpAtWork, FillsReachTheTable
<1>2. QED
  BY <1>1, Invariance, PTL

=============================================================================
