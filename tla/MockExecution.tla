--------------------------- MODULE MockExecution ---------------------------
(***************************************************************************)
(* The paper-trading execution engine (tg-mock-order-engine): one          *)
(* MockExecutionHandler, whose State sits behind one mutex, is called by   *)
(*   - any number of gRPC tasks, which submit and cancel orders, and       *)
(*   - one engine task, the ExecutionPump, which hands it one market       *)
(*     snapshot at a time (handler.rs on_snapshot).                        *)
(* submit and cancel each change the state in one critical section.        *)
(* on_snapshot matches every order inside one critical section, modelled   *)
(* one loop iteration at a time with pc = "matching" for the held mutex,   *)
(* then, with the mutex released, persists the fills one by one and        *)
(* submits the hard stop-loss it decided on.  An error anywhere ends       *)
(* Engine::run, and with it the pump: pc = "stopped".                      *)
(*                                                                         *)
(* A rejected submit leaves the state as it was, so only accepted ones are *)
(* actions.  Soft risk caps may refuse any buy; they are not modelled,     *)
(* which only adds behaviours.  Ids are fresh members of a set whose order *)
(* means nothing.  Limit prices are taken inside the daily band.         *)
(***************************************************************************)
EXTENDS VirtualAccount, Decimals, Functions

CONSTANTS
  Symbols,
  ClientIds,     \* bound: the ids new_id hands out to gRPC submits
  PumpIds,       \* bound: the ids it hands out to the pump's own submits
  Requests,      \* bound: the intents that gRPC clients submit
  Feed,          \* bound: the snapshots that the data feed can yield
  Prices,        \* prices of quotes and limit orders
  LotSize,       \* LOT_SIZE, 100 shares in the code
  Slippage,      \* price * slippage_bps, per share
  InitialCash,
  Market,        \* the price of a market order
  RepoMayFail    \* whether saving an order or a fill can return an error

VARIABLES
  cash, frozen,       \* VirtualAccount.cash, frozen_cash
  lots,               \* VirtualAccount.lots, as bags of shares
  reservedSell,       \* VirtualAccount.reserved_sell
  orders,             \* State.orders
  reservations,       \* State.reservations
  latest,             \* State.latest: date and ask of each symbol's last quote
  meta,               \* State.meta: "stock" or "t0_etf"
  hardExit,           \* State.hard_exit_triggered
  today,              \* State.today
  pc,                 \* where the pump is
  snap,               \* the snapshot being matched
  fills,              \* orders filled by it and not yet persisted
  hardIntents         \* hard_intents of the snapshot, not yet submitted

account  == <<cash, frozen, lots, reservedSell>>
book     == <<orders, reservations>>
market   == <<latest, meta, hardExit, today>>
pump     == <<pc, snap, fills, hardIntents>>
vars     == <<account, book, market, pump>>

OrderIds     == ClientIds \cup PumpIds
Sides        == {"Buy", "Sell"}
LiveStatus   == {"New", "PartiallyFilled"}
FinalStatus  == {"Filled", "Cancelled"}   \* no order ever becomes Rejected
MetaKinds    == {"stock", "t0_etf"}

(* OrderIntent: t0 is strategy_tag = T0, hard a rule_stoploss client id. *)
Intents ==
  [sym : Symbols, side : Sides, price : Prices \cup {Market}, qty : Nat,
   t0 : BOOLEAN, hard : BOOLEAN]

Orders ==
  [intent : Intents, status : LiveStatus \cup FinalStatus, filled : Nat]

Reservations == [cash : Nat, sell : Nat, orig : Nat \ {0}]

(* A quote without sellers has ask 0. *)
Quotes == [date : Days, ask : Prices \cup {0}]

(***************************************************************************)
(* What a snapshot decides: its best prices, the shares each order of a    *)
(* side may get (0 in a call auction, on an empty book or behind a sealed  *)
(* price limit) and whether last is beyond the stop-loss or take-profit    *)
(* price of the position.                                                  *)
(***************************************************************************)
Snapshots ==
  [sym : Symbols, date : Days, ask : Prices \cup {0}, bid : Prices \cup {0},
   buyable : Nat, sellable : Nat, exit : BOOLEAN]

NoSnapshot == [exit |-> FALSE]

ASSUME ExecutionAssumption ==
  /\ ClientIds \cap PumpIds = {}
  /\ Prices \subseteq Nat \ {0}
  /\ Market \notin Nat
  /\ \A i \in Requests : i \in Intents /\ ~i.hard
  /\ \A sn \in Feed : sn \in Snapshots
  /\ LotSize \in Nat \ {0}
  /\ Slippage \in Nat /\ (\A p \in Prices : Slippage < p)
  /\ InitialCash \in Nat
  /\ RepoMayFail \in BOOLEAN

TypeOK ==
  /\ cash \in Int /\ frozen \in Nat
  /\ lots \in [Symbols -> Lots]
  /\ reservedSell \in [Symbols -> Nat]
  /\ DOMAIN orders \subseteq OrderIds
  /\ orders \in [DOMAIN orders -> Orders]
  /\ DOMAIN reservations \subseteq OrderIds
  /\ reservations \in [DOMAIN reservations -> Reservations]
  /\ DOMAIN latest \subseteq Symbols
  /\ latest \in [DOMAIN latest -> Quotes]
  /\ DOMAIN meta \subseteq Symbols
  /\ meta \in [DOMAIN meta -> MetaKinds]
  /\ hardExit \subseteq Symbols
  /\ today \in Days
  /\ pc \in {"idle", "matching", "persisting", "exiting", "stopped"}
  /\ IF pc = "matching" THEN snap \in Snapshots ELSE snap = NoSnapshot
  /\ fills \subseteq OrderIds
  /\ hardIntents \subseteq Intents

EmptyMap == [x \in {} |-> x]

(* HashMap::insert *)
Put(map, key, value) ==
  [x \in DOMAIN map \cup {key} |-> IF x = key THEN value ELSE map[x]]

(* HashMap::remove *)
Drop(map, key) == Restrict(map, DOMAIN map \ {key})

Init ==
  /\ cash = InitialCash /\ frozen = 0
  /\ lots = [s \in Symbols |-> NoLots]
  /\ reservedSell = [s \in Symbols |-> 0]
  /\ orders = EmptyMap /\ reservations = EmptyMap
  /\ latest = EmptyMap /\ meta = EmptyMap
  /\ hardExit = {}
  /\ today \in Days
  /\ pc = "idle" /\ snap = NoSnapshot /\ fills = {} /\ hardIntents = {}

Live(o)      == orders[o].status \in LiveStatus
Remaining(o) == orders[o].intent.qty - orders[o].filled

(* The state's mutex is free. *)
Unlocked == pc # "matching"

-----------------------------------------------------------------------------
(* submit *)

(* validate_quantity, LOT_SIZE *)
WholeLots(q) == q > 0 /\ q % LotSize = 0

(* estimate_buy_price; 0 when it returns an error *)
EstimatedPrice(i) ==
  IF i.price # Market THEN i.price
  ELSE IF i.sym \in DOMAIN latest THEN latest[i.sym].ask ELSE 0

(* The cash a buy reserves: the notional at the estimated price, and fees. *)
Required(i) ==
  LET notional == EstimatedPrice(i) * i.qty
  IN  IF i.side = "Buy" THEN notional + Fees(notional) ELSE 0

(* Mutant of Unreserved: what other open sells have reserved counts again. *)
AllAvailable(s, date) == Available(lots[s], date)

Unreserved(s, date) == Available(lots[s], date) - reservedSell[s]

(* Mutant of Deliverable: validate_submit's own T+1 check is left out. *)
DeliverableToday(i) ==
  i.sym \in DOMAIN latest /\ Unreserved(i.sym, today) >= i.qty

(* validate_submit's T+1 check on the date of the quote, reserve_sell's on today. *)
Deliverable(i) ==
  /\ i.sym \in DOMAIN latest
  /\ Unreserved(i.sym, latest[i.sym].date) >= i.qty
  /\ Unreserved(i.sym, today) >= i.qty

(* validate_submit, then freeze_cash or reserve_sell. *)
Accepts(i) ==
  /\ i.sym \in DOMAIN meta \cup DOMAIN latest
  /\ WholeLots(i.qty)
  /\ i.side = "Buy" =>
       /\ EstimatedPrice(i) > 0
       /\ cash - frozen >= Required(i)
  /\ i.side = "Sell" => Deliverable(i)

(* The reservation and the new order enter the state. *)
Enter(o, i) ==
  LET sell == IF i.side = "Sell" THEN i.qty ELSE 0
  IN  /\ o \in OrderIds \ DOMAIN orders
      /\ frozen' = frozen + Required(i)
      /\ reservedSell' = [reservedSell EXCEPT ![i.sym] = @ + sell]
      /\ reservations' =
           Put(reservations, o, [cash |-> Required(i), sell |-> sell, orig |-> i.qty])
      /\ orders' = Put(orders, o, [intent |-> i, status |-> "New", filled |-> 0])
      /\ UNCHANGED <<cash, lots, market>>

(* A gRPC task's submit. *)
Submit(o, i) ==
  /\ Unlocked
  /\ Accepts(i)
  /\ Enter(o, i)
  /\ UNCHANGED pump

-----------------------------------------------------------------------------
(* Mutant of Cancel: the frozen cash is not given back. *)
CancelKeepsFrozen(o) ==
  /\ Unlocked
  /\ o \in DOMAIN orders /\ Live(o)
  /\ orders' = [orders EXCEPT ![o].status = "Cancelled"]
  /\ reservations' = Drop(reservations, o)
  /\ LET s == orders[o].intent.sym
     IN  reservedSell' = [reservedSell EXCEPT ![s] = AtLeastZero(@ - reservations[o].sell)]
  /\ UNCHANGED <<frozen, cash, lots, market, pump>>

(* cancel of an order that is not yet final; any other cancel changes nothing *)
Cancel(o) ==
  /\ Unlocked
  /\ o \in DOMAIN orders /\ Live(o)
  /\ orders' = [orders EXCEPT ![o].status = "Cancelled"]
  /\ IF o \in DOMAIN reservations
     THEN LET r == reservations[o]
              s == orders[o].intent.sym
          IN  /\ reservations' = Drop(reservations, o)
              /\ frozen' = AtLeastZero(frozen - r.cash)
              /\ reservedSell' = [reservedSell EXCEPT ![s] = AtLeastZero(@ - r.sell)]
     ELSE UNCHANGED <<reservations, frozen, reservedSell>>
  /\ UNCHANGED <<cash, lots, market, pump>>

(* set_instrument_meta *)
SetInstrumentMeta(s, kind) ==
  /\ Unlocked
  /\ meta' = Put(meta, s, kind)
  /\ UNCHANGED <<account, book, latest, hardExit, today, pump>>

-----------------------------------------------------------------------------
(* on_snapshot *)

(***************************************************************************)
(* The pump gets the feed's next snapshot: RealtimeDataFeed yields only    *)
(* strictly newer ones of a symbol, so its trading date never goes back,   *)
(* while State.today follows whichever symbol came last.                   *)
(***************************************************************************)
BeginSnapshot(sn) ==
  /\ pc = "idle"
  /\ sn.sym \in DOMAIN latest => sn.date >= latest[sn.sym].date
  /\ today' = sn.date
  /\ latest' = Put(latest, sn.sym, [date |-> sn.date, ask |-> sn.ask])
  /\ meta' = IF sn.sym \in DOMAIN meta THEN meta ELSE Put(meta, sn.sym, "stock")
  /\ snap' = sn
  /\ pc' = "matching"
  /\ UNCHANGED <<account, book, hardExit, fills, hardIntents>>

BookPrice(side) == IF side = "Buy" THEN snap.ask ELSE snap.bid
BookShares(side) == IF side = "Buy" THEN snap.buyable ELSE snap.sellable

(* limit_gate of an order that is not held back by a price limit *)
PriceGate(i) ==
  \/ i.price = Market
  \/ i.side = "Buy"  /\ snap.ask <= i.price
  \/ i.side = "Sell" /\ snap.bid >= i.price

(* Mutant of MatchedShares: an order that is over is matched again. *)
MatchedAfterEnd(o) ==
  LET i == orders[o].intent
  IN  IF i.sym = snap.sym /\ PriceGate(i) /\ BookPrice(i.side) > 0
      THEN AtLeastZero(Lesser(Remaining(o), BookShares(i.side)))
      ELSE 0

(* try_match: the shares the order gets, 0 for None. *)
MatchedShares(o) ==
  LET i == orders[o].intent
  IN  IF /\ i.sym = snap.sym /\ Live(o)
         /\ PriceGate(i) /\ BookPrice(i.side) > 0
      THEN AtLeastZero(Lesser(Remaining(o), BookShares(i.side)))
      ELSE 0

Completes(o, q) == orders[o].filled + q >= orders[o].intent.qty

(* Mutant of Released: every fill releases what all of them did so far. *)
ReleasedAnew(o, q) ==
  LET r == reservations[o]
  IN  IF orders[o].intent.side = "Buy"
      THEN RoundDp(r.cash * (orders[o].filled + q), r.orig) ELSE 0

(* What a fill of q returns to available cash: a quotient of decimals. *)
Released(o, q) ==
  LET r == reservations[o]
  IN  IF orders[o].intent.side = "Buy" THEN RoundDp(r.cash * q, r.orig) ELSE 0

CashKept(o, q) == AtLeastZero(reservations[o].cash - Released(o, q))

SharesKept(o, q) ==
  IF orders[o].intent.side = "Sell"
  THEN AtLeastZero(reservations[o].sell - q) ELSE reservations[o].sell

(* apply_fill_to_state: what becomes of the order and of its reservation. *)
FillOrder(o, q) ==
  /\ orders' = [orders EXCEPT ![o].filled = @ + q,
                             ![o].status = IF Completes(o, q) THEN "Filled"
                                           ELSE "PartiallyFilled"]
  /\ \/ /\ o \notin DOMAIN reservations
        /\ UNCHANGED <<reservations, frozen>>
     \/ /\ o \in DOMAIN reservations /\ ~Completes(o, q)
        /\ reservations' = [reservations EXCEPT ![o].cash = CashKept(o, q),
                                               ![o].sell = SharesKept(o, q)]
        /\ frozen' = AtLeastZero(frozen - Released(o, q))
     \/ /\ o \in DOMAIN reservations /\ Completes(o, q)
        /\ reservations' = Drop(reservations, o)
        /\ frozen' = AtLeastZero(AtLeastZero(frozen - Released(o, q)) - CashKept(o, q))

(* Mutant of SellReserveAfter: the reservation and the account both lower it. *)
SellReserveTwice(o, q) ==
  LET s    == orders[o].intent.sym
      sold == IF orders[o].intent.side = "Sell" THEN q ELSE 0
  IN  [reservedSell EXCEPT ![s] = AtLeastZero(@ - 2 * sold)]

(* reserved_sell once the fill has released the shares it no longer needs. *)
SellReserveAfter(o, q) ==
  LET s     == orders[o].intent.sym
      spare == IF o \in DOMAIN reservations /\ Completes(o, q)
               THEN SharesKept(o, q) ELSE 0
      sold  == IF orders[o].intent.side = "Sell" THEN q ELSE 0
  IN  [reservedSell EXCEPT ![s] = AtLeastZero(AtLeastZero(@ - spare) - sold)]

(* VirtualAccount.apply_fill of a buy: at the ask plus slippage. *)
SettleBuy(o, q) ==
  LET i        == orders[o].intent
      notional == (snap.ask + Slippage) * q
      t0       == meta[i.sym] = "t0_etf" /\ i.t0
  IN  /\ i.side = "Buy"
      /\ cash' = cash - notional - Fees(notional)
      /\ lots' = [lots EXCEPT ![i.sym] = AddLot(@, snap.date, t0, q)]
      /\ fills' = fills \cup {o}
      /\ UNCHANGED <<pc, snap>>

(***************************************************************************)
(* VirtualAccount.apply_fill of a sale: at the bid minus slippage, first   *)
(* in first out.  With too few unlocked lots it returns an error after     *)
(* everything else was changed, and on_snapshot ends with it.              *)
(***************************************************************************)
SettleSell(o, q) ==
  LET i        == orders[o].intent
      notional == (snap.bid - Slippage) * q
      short    == Available(lots[i.sym], snap.date) < q
  IN  /\ i.side = "Sell"
      /\ cash' = cash + notional - Fees(notional)
      /\ \E held \in ConsumeFifo(lots[i.sym], q, snap.date) :
           lots' = [lots EXCEPT ![i.sym] = held]
      /\ fills' = IF short THEN {} ELSE fills \cup {o}
      /\ pc' = IF short THEN "stopped" ELSE pc
      /\ snap' = IF short THEN NoSnapshot ELSE snap

(* One iteration of the matching loop that produces a fill. *)
MatchOne(o) ==
  /\ pc = "matching"
  /\ o \in DOMAIN orders \ fills
  /\ MatchedShares(o) > 0
  /\ LET q == MatchedShares(o)
     IN  /\ FillOrder(o, q)
         /\ reservedSell' = SellReserveAfter(o, q)
         /\ SettleBuy(o, q) \/ SettleSell(o, q)
  /\ UNCHANGED <<market, hardIntents>>

(* RiskEngine.hard_exit_intent for the position in the snapshot's symbol. *)
HardExitIntents ==
  LET s     == snap.sym
      avail == Available(lots[s], snap.date)
  IN  IF snap.exit /\ avail > 0 /\ s \notin hardExit
      THEN {[sym |-> s, side |-> "Sell", price |-> Market, qty |-> avail,
             t0 |-> FALSE, hard |-> TRUE]}
      ELSE {}

(* Mutant of NextStage: hard exits are forgotten while fills are persisted. *)
NextStageForgets(unsaved, intents) == IF unsaved # {} THEN "persisting" ELSE "idle"

(* What remains to be done decides where the pump goes next. *)
NextStage(unsaved, intents) ==
  IF unsaved # {} THEN "persisting" ELSE IF intents # {} THEN "exiting" ELSE "idle"

(* Mutant of EndMatching: hard_exit_triggered is not updated. *)
EndMatchingForgets ==
  /\ pc = "matching"
  /\ \A o \in DOMAIN orders \ fills : MatchedShares(o) = 0
  /\ hardIntents' = HardExitIntents
  /\ pc' = NextStage(fills, HardExitIntents)
  /\ snap' = NoSnapshot
  /\ UNCHANGED <<account, book, latest, meta, today, fills, hardExit>>

(* The loop is over: hard exits are decided and the mutex is released. *)
EndMatching ==
  /\ pc = "matching"
  /\ \A o \in DOMAIN orders \ fills : MatchedShares(o) = 0
  /\ hardIntents' = HardExitIntents
  /\ hardExit' = hardExit \cup {i.sym : i \in HardExitIntents}
  /\ pc' = NextStage(fills, HardExitIntents)
  /\ snap' = NoSnapshot
  /\ UNCHANGED <<account, book, latest, meta, today, fills>>

(* get_order, persist_order and persist_fill of one fill, which may fail. *)
PersistFill(o) ==
  /\ pc = "persisting"
  /\ o \in fills
  /\ \/ /\ fills' = fills \ {o}
        /\ pc' = NextStage(fills \ {o}, hardIntents)
        /\ UNCHANGED hardIntents
     \/ /\ RepoMayFail
        /\ fills' = {} /\ hardIntents' = {}
        /\ pc' = "stopped"
  /\ UNCHANGED <<account, book, market, snap>>

(* The pump submits the hard exit; saving the accepted order may fail. *)
SubmitHardExit(o, i) ==
  /\ pc = "exiting"
  /\ i \in hardIntents
  /\ Accepts(i)
  /\ Enter(o, i)
  /\ hardIntents' = {}
  /\ pc' \in {"idle"} \cup (IF RepoMayFail THEN {"stopped"} ELSE {})
  /\ UNCHANGED <<snap, fills>>

(* submit refuses the hard exit: on_snapshot returns the error. *)
RejectHardExit(i) ==
  /\ pc = "exiting"
  /\ i \in hardIntents
  /\ ~Accepts(i)
  /\ hardIntents' = {}
  /\ pc' = "stopped"
  /\ UNCHANGED <<account, book, market, snap, fills>>

-----------------------------------------------------------------------------
Client ==
  \/ \E o \in ClientIds : \E i \in Requests : Submit(o, i)
  \/ \E o \in OrderIds : Cancel(o)
  \/ \E s \in Symbols : \E kind \in MetaKinds : SetInstrumentMeta(s, kind)

Matching == (\E o \in OrderIds : MatchOne(o)) \/ EndMatching

Exiting ==
  \E i \in hardIntents : (\E o \in PumpIds : SubmitHardExit(o, i)) \/ RejectHardExit(i)

PumpWork == Matching \/ (\E o \in OrderIds : PersistFill(o)) \/ Exiting

Next == Client \/ (\E sn \in Feed : BeginSnapshot(sn)) \/ PumpWork

Spec == Init /\ [][Next]_vars

(* tokio runs the engine task: once it has a snapshot it keeps going. *)
FairSpec == Spec /\ WF_vars(PumpWork)

-----------------------------------------------------------------------------
(* Properties *)

(***************************************************************************)
(* frozen_cash is exactly what the reservations of the open orders add up  *)
(* to.  It is kept incrementally by submit, cancel and every fill, with    *)
(* rounding and clamping at zero, so cash leaked by one path would stay    *)
(* unusable for the rest of the run.                                       *)
(***************************************************************************)
FrozenIsReserved ==
  frozen = SumOver([o \in DOMAIN reservations |-> reservations[o].cash],
                   DOMAIN reservations)

OpenSells(s) ==
  {o \in DOMAIN orders :
     Live(o) /\ orders[o].intent.sym = s /\ orders[o].intent.side = "Sell"}

(***************************************************************************)
(* reserved_sell of a symbol is what its open sell orders still have to    *)
(* sell: it is lowered both by the reservation and by the account on every *)
(* fill, and neither may happen twice or be forgotten.                     *)
(***************************************************************************)
ReservedSellIsOpenSells ==
  \A s \in Symbols :
    reservedSell[s] = SumOver([o \in DOMAIN orders |-> Remaining(o)], OpenSells(s))

(***************************************************************************)
(* An order holds a reservation exactly while it is open, and a sell's     *)
(* reservation is its unfilled rest: cancel, completion and partial fills  *)
(* of the same order cannot release anything twice.                        *)
(***************************************************************************)
ReservationsFollowOrders ==
  /\ DOMAIN reservations = {o \in DOMAIN orders : Live(o)}
  /\ \A o \in DOMAIN reservations :
       LET i == orders[o].intent
           r == reservations[o]
       IN  /\ r.orig = i.qty
           /\ i.side = "Sell" => r.sell = Remaining(o) /\ r.cash = 0
           /\ i.side = "Buy"  => r.sell = 0

(***************************************************************************)
(* Status and filled quantity agree: never overfilled, Filled exactly when *)
(* nothing remains, New exactly before the first fill.                     *)
(***************************************************************************)
OrdersConsistent ==
  \A o \in DOMAIN orders :
    /\ orders[o].filled <= orders[o].intent.qty
    /\ orders[o].status = "Filled" <=> Remaining(o) = 0
    /\ orders[o].status = "New" => orders[o].filled = 0
    /\ orders[o].status = "PartiallyFilled" => orders[o].filled > 0

OrdersOn(s, side) ==
  {o \in DOMAIN orders : orders[o].intent.sym = s /\ orders[o].intent.side = side}

FilledOn(s, side) ==
  SumOver([o \in DOMAIN orders |-> orders[o].filled], OrdersOn(s, side))

(***************************************************************************)
(* The account holds what the orders bought minus what they sold: the lots *)
(* and the orders are changed by different code on each fill, and a failed *)
(* FIFO walk would make them part.                                         *)
(***************************************************************************)
HoldingsAreFills ==
  \A s \in Symbols : Total(lots[s]) = FilledOn(s, "Buy") - FilledOn(s, "Sell")

(***************************************************************************)
(* Every open sell can be delivered from shares that may be sold on the    *)
(* symbol's current trading date, although State.today may have been moved *)
(* back or forth by other symbols when the order was accepted.  It is why  *)
(* consume_lots_fifo never fails during matching and T+1 is never broken.  *)
(***************************************************************************)
SellsCovered ==
  \A s \in Symbols :
    reservedSell[s] > 0 =>
      /\ s \in DOMAIN latest
      /\ reservedSell[s] <= Available(lots[s], latest[s].date)

(***************************************************************************)
(* However its fills are cut, an open limit buy keeps reserved the share   *)
(* of its submit-time estimate that belongs to its unfilled part, less     *)
(* half a unit for each fill: every one of them releases a fraction of     *)
(* what is left of the reservation, rounded up or down, and an error must  *)
(* not grow with the fills that follow.  There are at most as many fills   *)
(* as filled shares.                                                       *)
(***************************************************************************)
BuysStayFunded ==
  \A o \in DOMAIN reservations :
    LET i == orders[o].intent
    IN  i.side = "Buy" /\ i.price # Market =>
          (2 * reservations[o].cash + orders[o].filled) * i.qty
            >= (2 * Required(i)) * Remaining(o)

HardOrders(s) ==
  {o \in DOMAIN orders : orders[o].intent.hard /\ orders[o].intent.sym = s}

OpenExits(s) == {o \in HardOrders(s) : Live(o)}

(***************************************************************************)
(* Never two stop-loss orders of a symbol at work together, counting the   *)
(* one on its way: snapshots keep arriving below the stop price while the  *)
(* first exit is being persisted, booked and filled in parts.              *)
(***************************************************************************)
ExitsDoNotOverlap ==
  /\ \A i, j \in hardIntents : i = j
  /\ \A s \in Symbols :
       /\ \A o, p \in OpenExits(s) : o = p
       /\ (\E i \in hardIntents : i.sym = s) => OpenExits(s) = {}

(***************************************************************************)
(* The inductive invariant behind the theorems of MockExecution_proofs:    *)
(* hard_exit_triggered remembers every exit that is under way or booked    *)
(* and nothing clears it, so that a symbol gets one exit in its life.      *)
(* That is how the code keeps exits apart, and more than it should do: see *)
(* ExitAtEachCrossing.                                                     *)
(***************************************************************************)
ExitsRemembered ==
  /\ \A i \in hardIntents : i.hard /\ i.sym \in hardExit
  /\ \A o \in DOMAIN orders : orders[o].intent.hard => orders[o].intent.sym \in hardExit

ExitsLatched ==
  /\ \A i, j \in hardIntents : i = j
  /\ \A s \in Symbols :
       /\ \A o, p \in HardOrders(s) : o = p
       /\ (\E i \in hardIntents : i.sym = s) => HardOrders(s) = {}

IInv ==
  /\ TypeOK
  /\ ReservationsFollowOrders
  /\ OrdersConsistent
  /\ ExitsRemembered
  /\ ExitsLatched

(***************************************************************************)
(* What the accounting theorems of MockExecution_proofs need besides: no   *)
(* lot is younger than its symbol's last quote, which is the snapshot that *)
(* orders are being matched against.                                       *)
(***************************************************************************)
LotsDated ==
  \A s \in Symbols : \A b \in Buckets :
    lots[s][b] > 0 => s \in DOMAIN latest /\ b[1] <= latest[s].date

MatchesLatest ==
  pc = "matching" =>
    snap.sym \in DOMAIN latest /\ snap.date = latest[snap.sym].date

AccountInv ==
  /\ IInv
  /\ IsFiniteSet(DOMAIN orders)
  /\ FrozenIsReserved
  /\ ReservedSellIsOpenSells
  /\ LotsDated
  /\ MatchesLatest
  /\ SellsCovered
  /\ HoldingsAreFills

(***************************************************************************)
(* T+1: shares bought on a trading day without T+0 stay in the account     *)
(* until a snapshot of their symbol carries a later date.                  *)
(***************************************************************************)
TPlusOne ==
  [][\A s \in DOMAIN latest :
       latest'[s].date = latest[s].date =>
         lots'[s][<<latest[s].date, FALSE>>] >= lots[s][<<latest[s].date, FALSE>>]
    ]_vars

(***************************************************************************)
(* The engine keeps the promises of OrderLifecycle: matching, cancelling   *)
(* and submitting from several tasks never fill an order twice, beyond its *)
(* quantity or after its end, and never bring one back.                    *)
(***************************************************************************)
Lifecycle ==
  INSTANCE OrderLifecycle WITH
    Ids   <- OrderIds,
    phase <- [o \in OrderIds |-> IF o \in DOMAIN orders THEN orders[o].status ELSE "None"],
    left  <- [o \in OrderIds |-> IF o \in DOMAIN orders THEN Remaining(o) ELSE 0]

ImplementsLifecycle == Lifecycle!Init /\ [][Lifecycle!Next]_(Lifecycle!vars)

(***************************************************************************)
(* Once a hard exit is triggered its order reaches the book, or the engine *)
(* stops: persisting earlier fills and client calls in between cannot make *)
(* the pump drop the intent and go on.                                     *)
(***************************************************************************)
HardExitResolved ==
  \A s \in Symbols :
    s \in hardExit ~> (HardOrders(s) # {} \/ pc = "stopped")

(***************************************************************************)
(* What the design promises of stop-losses (ADR-019: executed by rule,     *)
(* always): a symbol whose exit was triggered has its exit order in the    *)
(* book or on its way there.                                               *)
(***************************************************************************)
HardExitNotLost ==
  \A s \in hardExit :
    HardOrders(s) # {} \/ (\E i \in hardIntents : i.sym = s)

(***************************************************************************)
(* What the design asks of stop-losses besides (at once whenever the price *)
(* crosses, from a stop price that follows every fill): once a snapshot    *)
(* beyond it is matched, the shares left that may be sold have an exit in  *)
(* the book or on its way.  hard_exit_triggered forbids it after a first   *)
(* exit that was cancelled, or filled before the symbol was bought again.  *)
(***************************************************************************)
ExitAtEachCrossing ==
  [][EndMatching /\ snap.exit /\ Available(lots[snap.sym], snap.date) > 0 =>
       (\E i \in hardIntents' : i.sym = snap.sym) \/ OpenExits(snap.sym) # {}]_vars

(***************************************************************************)
(* What the design promises of frozen cash: a fill unfreezes the part that *)
(* belongs to it, so that without fees and slippage an open limit buy      *)
(* keeps the notional of its unfilled part frozen.                         *)
(***************************************************************************)
FrozenIsUnfilledNotional ==
  \A o \in DOMAIN reservations :
    LET i == orders[o].intent
    IN  i.side = "Buy" /\ i.price # Market =>
          reservations[o].cash = i.price * Remaining(o)

=============================================================================
