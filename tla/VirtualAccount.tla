--------------------------- MODULE VirtualAccount ---------------------------
(***************************************************************************)
(* Share holdings and fees of the paper-trading account                    *)
(* (tg-mock-order-engine: account.rs, cost.rs).                            *)
(*                                                                         *)
(* The code keeps, per symbol, a vector of PositionLot.  What the rest of  *)
(* the engine can observe of it is how many shares were bought on which    *)
(* trading day and whether they may be sold on that same day (T+0), so     *)
(* holdings are a bag of shares over buckets <<trading_date, t0_eligible>>.*)
(* LotBook.tla checks that the vector and its FIFO loop implement this     *)
(* bag.  The average cost of a lot is not modelled.                        *)
(***************************************************************************)
EXTENDS Integers, Sums

CONSTANTS
  MaxDay,      \* bound on trading dates: days are 0..MaxDay
  MinFee,      \* CostConfig.min_commission
  FeePer       \* one unit of proportional fees per FeePer units of notional

ASSUME MaxDayAssumption == MaxDay \in Nat
ASSUME FeeAssumption == MinFee \in Nat /\ FeePer \in Nat \ {0}

Days    == 0..MaxDay
Buckets == Days \X BOOLEAN
Lots    == [Buckets -> Nat]

NoLots == [b \in Buckets |-> 0]

AtLeastZero(x) == IF x < 0 THEN 0 ELSE x
Lesser(x, y)   == IF x < y THEN x ELSE y

(* Bought today and not T+0: may not be sold before the next trading day. *)
Locked(today) == {<<today, FALSE>>}

Total(held) == SumOver(held, Buckets)

(* Position.available_quantity = total - t1_locked. *)
Available(held, today) == SumOver(held, Buckets \ Locked(today))

(* Mutant of AddLot: a second buy of the day replaces the first. *)
ReplaceLot(held, date, t0, q) == [held EXCEPT ![<<date, t0>>] = q]

AddLot(held, date, t0, q) == [held EXCEPT ![<<date, t0>>] = @ + q]

(* Mutant of IsFifoTake: the walk over the lots does not skip today's. *)
IsLockBlindTake(held, take, q, today) ==
  /\ \A b \in Buckets : take[b] <= held[b]
  /\ \A b, e \in Buckets : take[b] > 0 /\ e[1] < b[1] => take[e] = held[e]
  /\ Total(take) = Lesser(q, Total(held))

(***************************************************************************)
(* How many shares a sale of q may take from each bucket: nothing that is  *)
(* locked, all of an older day before any of a younger one, q in all, or   *)
(* everything unlocked when there is less than q.  Within one day the code *)
(* follows the order of insertion, which buckets do not keep, so several   *)
(* results are possible there.                                             *)
(***************************************************************************)
IsFifoTake(held, take, q, today) ==
  LET open == Buckets \ Locked(today)
  IN  /\ \A b \in Buckets : take[b] <= held[b]
      /\ \A b \in Locked(today) \cap Buckets : take[b] = 0
      /\ \A b, e \in open : take[b] > 0 /\ e[1] < b[1] => take[e] = held[e]
      /\ Total(take) = Lesser(q, Available(held, today))

ConsumeFifo(held, q, today) ==
  {[b \in Buckets |-> held[b] - take[b]] :
     take \in {t \in [Buckets -> 0..q] : IsFifoTake(held, t, q, today)}}

(* Commission with its floor, stamp duty and transfer fee, as one amount. *)
Fees(notional) ==
  IF notional \div FeePer < MinFee THEN MinFee ELSE notional \div FeePer

=============================================================================
