-------------------------- MODULE OrderPersistence --------------------------
(***************************************************************************)
(* What the paper-trading engine writes to PostgreSQL, and when.           *)
(*                                                                         *)
(* An order changes in memory inside the handler's mutex.  A copy of it is *)
(* saved after the mutex is released: by the gRPC task that submitted or   *)
(* cancelled it, or by the pump, which saves the order, the fill and the   *)
(* account of each fill one after the other (handler.rs persist_order,     *)
(* persist_fill).  save_order is an upsert: the last writer wins.          *)
(*                                                                         *)
(* What orders do in memory is OrderLifecycle, which MockExecution is      *)
(* shown to implement; here its steps are joined with the saves they set   *)
(* off.  The account is the set of fills it has applied.  Any number of    *)
(* gRPC tasks may run: each is the copy it has in flight.                  *)
(***************************************************************************)
EXTENDS Integers

CONSTANTS
  OrderIds,       \* bound: the ids new_id hands out
  ClientIdOf,     \* client_order_id with which the order of an id is submitted
  MaxQuantity,    \* bound: shares of an order
  MaxRestarts,    \* bound: how often the process is started again
  SaveMayFail     \* whether a statement can fail although nothing forbids it

VARIABLES
  phase, left,    \* State.orders: status and unfilled shares
  booked,         \* fills applied to State.account
  inflight,       \* copies that gRPC tasks have yet to save
  pc,             \* where the pump is
  unsaved,        \* fills of the snapshot that the pump has yet to save
  current,        \* the fill it is saving
  carried,        \* the copy of an order it is saving
  balance,        \* the copy of the account it is saving
  rows,           \* table orders
  fillRows,       \* table fills
  accountRow,     \* the newest row of table accounts
  lost,           \* orders of earlier lives of the process
  restarts        \* how many there were

memory == <<phase, left, booked>>
pump   == <<pc, unsaved, current, carried, balance>>
tables == <<rows, fillRows, accountRow>>
life   == <<lost, restarts>>
vars   == <<memory, inflight, pump, tables, life>>

LiveStatus == {"New", "PartiallyFilled"}
Status     == LiveStatus \cup {"Filled", "Cancelled"}
Quantities == 0..MaxQuantity

(* What save_order gets: the order as it was when the mutex was released. *)
Copies == [id : OrderIds, status : Status, left : Quantities]
Rows   == [status : Status, left : Quantities]

(* A fill took an order from so many unfilled shares to so many. *)
Fills == [id : OrderIds, from : Quantities, to : Quantities]

ASSUME PersistenceAssumption ==
  /\ MaxQuantity \in Nat /\ MaxRestarts \in Nat
  /\ SaveMayFail \in BOOLEAN
  /\ DOMAIN ClientIdOf = OrderIds

Engine == INSTANCE OrderLifecycle WITH Ids <- OrderIds

TypeOK ==
  /\ phase \in [OrderIds -> {"None"} \cup Status]
  /\ left \in [OrderIds -> Quantities]
  /\ booked \subseteq Fills
  /\ inflight \subseteq Copies
  /\ pc \in {"idle", "matching", "order", "save order", "save fill", "account",
             "save account", "save exit", "stopped"}
  /\ unsaved \subseteq Fills
  /\ current \subseteq Fills
  /\ carried \subseteq Copies
  /\ balance \subseteq Fills
  /\ DOMAIN rows \subseteq OrderIds
  /\ rows \in [DOMAIN rows -> Rows]
  /\ fillRows \subseteq Fills
  /\ accountRow \subseteq Fills
  /\ lost \subseteq OrderIds
  /\ restarts \in 0..MaxRestarts

Init ==
  /\ Engine!Init
  /\ booked = {} /\ inflight = {}
  /\ pc = "idle" /\ unsaved = {} /\ current = {} /\ carried = {} /\ balance = {}
  /\ rows = [x \in {} |-> x] /\ fillRows = {} /\ accountRow = {}
  /\ lost = {} /\ restarts = 0

CopyOf(o) == [id |-> o, status |-> phase[o], left |-> left[o]]

Unlocked == pc # "matching"

-----------------------------------------------------------------------------
(* The database *)

(* UNIQUE (client_order_id): no other order has the client's id already. *)
Unique(o) == \A p \in DOMAIN rows : ClientIdOf[p] = ClientIdOf[o] => p = o

(* INSERT INTO orders ... ON CONFLICT (id) DO UPDATE *)
Upsert(c) ==
  /\ Unique(c.id)
  /\ rows' = [o \in DOMAIN rows \cup {c.id} |->
                IF o = c.id THEN [status |-> c.status, left |-> c.left] ELSE rows[o]]

OrderRefused(c) == ~Unique(c.id) \/ SaveMayFail

(* fills.order_id REFERENCES orders(id) *)
FillRefused(f) == f.id \notin DOMAIN rows \/ SaveMayFail

-----------------------------------------------------------------------------
(* gRPC tasks *)

(* The critical section of an accepted submit. *)
Submit(o, q) ==
  /\ Unlocked
  /\ o \notin lost
  /\ Engine!Place(o, q)
  /\ inflight' = inflight \cup {[id |-> o, status |-> "New", left |-> q]}
  /\ UNCHANGED <<booked, pump, tables, life>>

(* Mutant of Cancel: the return for orders that are over is left out. *)
CancelFinal(o) ==
  /\ Unlocked
  /\ o \in DOMAIN rows /\ phase[o] # "None"
  /\ phase' = [phase EXCEPT ![o] = IF @ \in LiveStatus THEN "Cancelled" ELSE @]
  /\ inflight' = inflight \cup {[id |-> o, status |-> "Cancelled", left |-> left[o]]}
  /\ UNCHANGED <<left, booked, pump, tables, life>>

(* The critical section of a cancel; of an order that is over, it does        *)
(* nothing.  A client knows an order's id once submit has returned it, or    *)
(* from the table, so the order was saved before.                            *)
Cancel(o) ==
  /\ Unlocked
  /\ o \in DOMAIN rows
  /\ Engine!Cancel(o)
  /\ inflight' = inflight \cup {[id |-> o, status |-> "Cancelled", left |-> left[o]]}
  /\ UNCHANGED <<booked, pump, tables, life>>

(* persist_order at the end of a task; a failure only reaches its client. *)
SaveCopy(c) ==
  /\ c \in inflight
  /\ inflight' = inflight \ {c}
  /\ Upsert(c) \/ (OrderRefused(c) /\ UNCHANGED rows)
  /\ UNCHANGED <<memory, pump, fillRows, accountRow, life>>

-----------------------------------------------------------------------------
(* The pump: on_snapshot *)

(* One order is filled inside the mutex; a snapshot fills each at most once. *)
MatchOne(o, q) ==
  /\ pc \in {"idle", "matching"}
  /\ \A f \in unsaved : f.id # o
  /\ Engine!Fill(o, q)
  /\ LET fill == [id |-> o, from |-> left[o], to |-> left[o] - q]
     IN  booked' = booked \cup {fill} /\ unsaved' = unsaved \cup {fill}
  /\ pc' = "matching"
  /\ UNCHANGED <<inflight, current, carried, balance, tables, life>>

EndMatching ==
  /\ pc = "matching"
  /\ pc' = "order"
  /\ UNCHANGED <<memory, inflight, unsaved, current, carried, balance, tables, life>>

(* get_order for the next fill *)
ReadOrder(f) ==
  /\ pc = "order" /\ f \in unsaved
  /\ current' = {f} /\ unsaved' = unsaved \ {f}
  /\ carried' = {CopyOf(f.id)}
  /\ pc' = "save order"
  /\ UNCHANGED <<memory, inflight, balance, tables, life>>

(* A save of the pump fails: on_snapshot returns the error, Engine::run ends. *)
Stop ==
  /\ pc' = "stopped"
  /\ unsaved' = {} /\ current' = {} /\ carried' = {} /\ balance' = {}

(* Mutant of SaveOrder: a refused order does not end the loop over the fills. *)
SaveOrderAnyway(c) ==
  /\ pc = "save order" /\ c \in carried
  /\ Upsert(c) \/ (OrderRefused(c) /\ UNCHANGED rows)
  /\ pc' = "save fill" /\ carried' = {}
  /\ UNCHANGED <<memory, inflight, unsaved, current, balance, fillRows, accountRow, life>>

(* persist_order *)
SaveOrder(c) ==
  /\ pc = "save order" /\ c \in carried
  /\ \/ /\ Upsert(c)
        /\ pc' = "save fill" /\ carried' = {}
        /\ UNCHANGED <<unsaved, current, balance>>
     \/ OrderRefused(c) /\ Stop /\ UNCHANGED rows
  /\ UNCHANGED <<memory, inflight, fillRows, accountRow, life>>

(* Mutant of SaveFill: the account is saved once the last fill was. *)
SaveFillOnly(f) ==
  /\ pc = "save fill" /\ f \in current
  /\ f.id \in DOMAIN rows
  /\ fillRows' = fillRows \cup {f}
  /\ pc' = (IF unsaved = {} THEN "account" ELSE "order") /\ current' = {}
  /\ UNCHANGED <<memory, inflight, unsaved, carried, balance, rows, accountRow, life>>

(* persist_fill, first half: save_fill *)
SaveFill(f) ==
  /\ pc = "save fill" /\ f \in current
  /\ \/ /\ f.id \in DOMAIN rows
        /\ fillRows' = fillRows \cup {f}
        /\ pc' = "account" /\ current' = {}
        /\ UNCHANGED <<unsaved, carried, balance>>
     \/ FillRefused(f) /\ Stop /\ UNCHANGED fillRows
  /\ UNCHANGED <<memory, inflight, rows, accountRow, life>>

(* persist_fill, second half: the account is read inside the mutex. *)
ReadAccount ==
  /\ pc = "account"
  /\ balance' = booked
  /\ pc' = "save account"
  /\ UNCHANGED <<memory, inflight, unsaved, current, carried, tables, life>>

(* Mutant of SaveAccount: what is left to save is forgotten. *)
SaveAccountOnce ==
  /\ pc = "save account"
  /\ accountRow' = balance
  /\ pc' = "idle" /\ unsaved' = {} /\ balance' = {}
  /\ UNCHANGED <<memory, inflight, current, carried, rows, fillRows, life>>

(* save_account: a new row; then the next fill. *)
SaveAccount ==
  /\ pc = "save account"
  /\ \/ /\ accountRow' = balance
        /\ pc' = IF unsaved = {} THEN "idle" ELSE "order"
        /\ balance' = {}
        /\ UNCHANGED <<unsaved, current, carried>>
     \/ SaveMayFail /\ Stop /\ UNCHANGED accountRow
  /\ UNCHANGED <<memory, inflight, rows, fillRows, life>>

(* The pump submits a hard exit at the end of a snapshot, under a client id  *)
(* of its own.  That the exit may be refused is MockExecution's matter.      *)
PlaceExit(o, q) ==
  /\ pc = "idle"
  /\ o \notin lost
  /\ \A p \in OrderIds : ClientIdOf[p] = ClientIdOf[o] => p = o
  /\ Engine!Place(o, q)
  /\ carried' = {[id |-> o, status |-> "New", left |-> q]}
  /\ pc' = "save exit"
  /\ UNCHANGED <<booked, inflight, unsaved, current, balance, tables, life>>

SaveExit(c) ==
  /\ pc = "save exit" /\ c \in carried
  /\ \/ /\ Upsert(c)
        /\ pc' = "idle" /\ carried' = {}
        /\ UNCHANGED <<unsaved, current, balance>>
     \/ OrderRefused(c) /\ Stop /\ UNCHANGED rows
  /\ UNCHANGED <<memory, inflight, fillRows, accountRow, life>>

-----------------------------------------------------------------------------
(* The process ends at any point and starts with a new handler: main.rs      *)
(* connects it to the tables and reads nothing from them.                    *)
Restart ==
  /\ restarts < MaxRestarts
  /\ restarts' = restarts + 1
  /\ lost' = lost \cup {o \in OrderIds : phase[o] # "None"}
  /\ phase' = [o \in OrderIds |-> "None"] /\ left' = [o \in OrderIds |-> 0]
  /\ booked' = {} /\ inflight' = {}
  /\ pc' = "idle" /\ unsaved' = {} /\ current' = {} /\ carried' = {} /\ balance' = {}
  /\ UNCHANGED tables

GrpcTask ==
  \/ \E o \in OrderIds : Cancel(o) \/ (\E q \in 1..MaxQuantity : Submit(o, q))
  \/ \E c \in inflight : SaveCopy(c)

(* What the pump does once a snapshot has filled orders. *)
PumpSaves ==
  \/ EndMatching
  \/ \E f \in unsaved : ReadOrder(f)
  \/ \E c \in carried : SaveOrder(c) \/ SaveExit(c)
  \/ \E f \in current : SaveFill(f)
  \/ ReadAccount
  \/ SaveAccount

Pump ==
  \/ \E o \in OrderIds : \E q \in 1..MaxQuantity : PlaceExit(o, q)
  \/ \E o \in OrderIds : \E q \in 1..left[o] : MatchOne(o, q)
  \/ PumpSaves

Next == GrpcTask \/ Pump \/ Restart

Spec == Init /\ [][Next]_vars

-----------------------------------------------------------------------------
(* Properties *)

(* What c says of its order was so at some point: not less is left now, and *)
(* an end it shows is the order's end.                                      *)
WasTrue(id, c) ==
  /\ phase[id] # "None"
  /\ c.left >= left[id]
  /\ c.status \notin LiveStatus => phase[id] = c.status /\ left[id] = c.left

(***************************************************************************)
(* The orders table may lag behind the engine, for good when a stale copy  *)
(* is saved last, but it never runs ahead of it: no task can save a fill   *)
(* or an end of an order of this life that did not happen in memory.       *)
(***************************************************************************)
RowsWereTrue == \A o \in DOMAIN rows \ lost : WasTrue(o, rows[o])

(***************************************************************************)
(* The pump's save_fill never meets the foreign key: when it comes to a    *)
(* fill the order's row is there, although the task that submitted the     *)
(* order may not have saved it, or may have failed to.                     *)
(***************************************************************************)
FillsHaveOrders ==
  /\ \A f \in fillRows : f.id \in DOMAIN rows
  /\ pc = "save fill" => \A f \in current : f.id \in DOMAIN rows

(***************************************************************************)
(* Whenever the pump is between two fills the newest account row contains  *)
(* every fill of this life in the fills table, and it never contains one   *)
(* that the account has not applied.                                       *)
(***************************************************************************)
AccountCoversFills ==
  /\ \A f \in accountRow : f.id \notin lost => f \in booked
  /\ pc \in {"idle", "matching", "order", "save order", "save fill", "save exit"} =>
       \A f \in fillRows : f.id \notin lost => f \in accountRow

(***************************************************************************)
(* The pump forgets no fill while it saves others of the same snapshot,    *)
(* and none is added behind its back: whenever it comes back for the next  *)
(* snapshot, every fill the account has applied is in the fills table.     *)
(***************************************************************************)
FillsReachTheTable == pc \in {"idle", "save exit"} => booked \subseteq fillRows

(***************************************************************************)
(* The inductive invariant of OrderPersistence_proofs: the copies on their *)
(* way were true, the pump saves the order of the fill it is at, and what  *)
(* it has of the account and of fills belongs to this life.                *)
(***************************************************************************)
PumpAtWork ==
  /\ pc = "save order" => \A c \in carried, f \in current : c.id = f.id
  /\ unsaved \cup current \cup balance \subseteq booked
  /\ pc # "stopped" => booked \subseteq unsaved \cup current \cup fillRows
  /\ \A f, g \in current : f = g
  /\ pc \notin {"save order", "save fill"} => current = {}
  /\ pc \in {"idle", "save exit"} => unsaved = {}
  /\ pc = "save account" => \A f \in fillRows : f.id \notin lost => f \in balance

IInv ==
  /\ TypeOK
  /\ RowsWereTrue
  /\ \A c \in inflight \cup carried : c.id \notin lost /\ WasTrue(c.id, c)
  /\ FillsHaveOrders
  /\ AccountCoversFills
  /\ PumpAtWork
  /\ \A f \in fillRows : f.id \notin lost => f \in booked
  /\ \A o \in lost : phase[o] = "None"
  /\ \A f \in booked : phase[f.id] # "None"

(***************************************************************************)
(* What the design says of the account's transitions, each atomic and      *)
(* under a transaction: with every save done, the orders table shows the   *)
(* orders as they are.                                                     *)
(***************************************************************************)
QuietRowsAgree ==
  pc = "idle" /\ inflight = {} =>
    \A o \in DOMAIN rows \ lost : rows[o] = [status |-> phase[o], left |-> left[o]]

(***************************************************************************)
(* What the design says of a failed save, that it is tried again: a        *)
(* refused statement does not make the engine drop the snapshot's fills.   *)
(***************************************************************************)
NoFillDropped ==
  [][pc' = "stopped" => unsaved \cup current = {}]_vars

=============================================================================
