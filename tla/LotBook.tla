------------------------------ MODULE LotBook ------------------------------
(***************************************************************************)
(* One symbol's Vec<PositionLot> as VirtualAccount keeps it: buys push a   *)
(* lot, a sale stable-sorts the vector by trading_date and walks it.  The  *)
(* module shows that the vector implements the bag of shares used by       *)
(* VirtualAccount: every push is AddLot, every sale an IsFifoTake.         *)
(***************************************************************************)
EXTENDS VirtualAccount, Listings

CONSTANTS
  MaxLots,     \* bound: lots the vector may hold
  MaxShares    \* bound: shares of one buy or one sale

ASSUME LotBookAssumption == MaxLots \in Nat /\ MaxShares \in Nat \ {0}

VARIABLES
  vec,         \* lots[symbol], in vector order
  fillDate,    \* trading date of the fills being applied
  failed       \* the last sale returned RiskRejected

bookVars == <<vec, fillDate, failed>>

Lot == [date : Days, t0 : BOOLEAN, quantity : 1..MaxShares]

BookTypeOK ==
  /\ vec \in Seq(Lot) /\ Len(vec) <= MaxLots
  /\ fillDate \in Days
  /\ failed \in BOOLEAN

(* Lots that were there before, in any order: add_lot. *)
BookInit ==
  /\ fillDate \in Days
  /\ vec \in UNION {[1..n -> Lot] : n \in 0..MaxLots}
  /\ \A i \in DOMAIN vec : vec[i].date <= fillDate
  /\ failed = FALSE

(* apply_fill of a buy. *)
Buy(q, t0) ==
  /\ Len(vec) < MaxLots
  /\ vec' = Append(vec, [date |-> fillDate, t0 |-> t0, quantity |-> q])
  /\ failed' = FALSE
  /\ UNCHANGED fillDate

(* lots.sort_by_key(trading_date): a stable sort. *)
SortedByDate(v) == SortedOn(v, [i \in DOMAIN v |-> v[i].date])

(* Mutant of Take: lots bought today are taken like any other. *)
TakeLocked(lot, left, date) == Lesser(lot.quantity, left)

(* What one turn of the loop takes from its lot, when left is still to sell. *)
Take(lot, left, date) ==
  IF lot.date = date /\ ~lot.t0 THEN 0 ELSE Lesser(lot.quantity, left)

(* What is still to sell after each lot. *)
LeftToSell(v, q, date) ==
  LET left[n \in 0..Len(v)] ==
        IF n = 0 THEN q ELSE left[n - 1] - Take(v[n], left[n - 1], date)
  IN  left

(* The lots after the loop. *)
Walked(v, left, date) ==
  [n \in DOMAIN v |-> [v[n] EXCEPT !.quantity = @ - Take(v[n], left[n - 1], date)]]

(* lots.retain *)
Retained(v) == Filtered(v, {n \in DOMAIN v : v[n].quantity > 0})

(* apply_fill of a sale: consume_lots_fifo and its error. *)
Sell(q) ==
  LET sorted == SortedByDate(vec)
      left   == LeftToSell(sorted, q, fillDate)
  IN  /\ vec' = Retained(Walked(sorted, left, fillDate))
      /\ failed' = (left[Len(sorted)] > 0)
      /\ UNCHANGED fillDate

(* The trading date of the next fill. *)
NextDay(d) ==
  /\ d > fillDate
  /\ fillDate' = d
  /\ UNCHANGED <<vec, failed>>

BookNext ==
  \/ \E q \in 1..MaxShares, t0 \in BOOLEAN : Buy(q, t0)
  \/ \E q \in 1..MaxShares : Sell(q)
  \/ \E d \in Days : NextDay(d)

BookSpec == BookInit /\ [][BookNext]_bookVars

-----------------------------------------------------------------------------
(* The bag of shares the vector stands for. *)
Quantities(v) == [i \in DOMAIN v |-> v[i].quantity]

InBucket(v, b) == {i \in DOMAIN v : <<v[i].date, v[i].t0>> = b}

BagOf(v) == [b \in Buckets |-> SumOver(Quantities(v), InBucket(v, b))]

BagTaken(v, w) == [b \in Buckets |-> BagOf(v)[b] - BagOf(w)[b]]

(***************************************************************************)
(* Every change of the vector is a change VirtualAccount's operators       *)
(* describe: a buy adds one bucket's shares, a sale takes shares first-in  *)
(* first-out, skips today's locked lots, and fails exactly when fewer than *)
(* q unlocked shares are held (account.rs consume_lots_fifo).              *)
(***************************************************************************)
VectorIsBag ==
  [][ \/ \E q \in 1..MaxShares, t0 \in BOOLEAN :
           /\ BagOf(vec') = AddLot(BagOf(vec), fillDate, t0, q)
           /\ ~failed'
      \/ \E q \in 1..MaxShares :
           /\ IsFifoTake(BagOf(vec), BagTaken(vec, vec'), q, fillDate)
           /\ failed' = (Available(BagOf(vec), fillDate) < q)
      \/ UNCHANGED vec /\ fillDate' > fillDate
    ]_bookVars

=============================================================================
