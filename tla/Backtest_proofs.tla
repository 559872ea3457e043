--------------------------- MODULE Backtest_proofs ---------------------------
(***************************************************************************)
(* Theorems about Backtest: whatever the strategies do and the bars are,   *)
(* cash and positions are those of the fills, shares bought on a date stay *)
(* until the next, the equity curve follows the account, no strategy       *)
(* trades on a bar later than the event it handles, and a run that         *)
(* completes has handled all bars and booked all fills.  Then the price    *)
(* limits of all parts of the system, the closed trades of any list of     *)
(* fills (what they do to the money, and that they match the lots first    *)
(* bought first sold), the drawdown of any curve, and what the report of a *)
(* backtest says of its account.                                           *)
(***************************************************************************)
EXTENDS BacktestService, FillTape, Sums_proofs, SequenceTheorems

LEMMA Product ==
  ASSUME NEW a \in Nat, NEW b \in Nat PROVE a * b \in Nat
OBVIOUS

LEMMA FillType ==
  ASSUME NEW f \in Fills
  PROVE  /\ f.symbol \in Symbols /\ f.side \in Sides /\ f.price \in Nat /\ f.lots \in Nat
         /\ FeesOf(f) \in Nat
<1>1. f.symbol \in Symbols /\ f.side \in Sides /\ f.price \in Paid /\ f.lots \in 1..MaxLots
  BY DEF Fills
<1>2. f.price \in Nat /\ f.lots \in Nat
  BY <1>1, CostAssumption, BacktestAssumption DEF Paid
<1>3. Notional(f) \in Notionals
  BY <1>1 DEF Notional, Notionals
<1>4. FeesOf(f) \in Nat
  BY <1>1, <1>3, CostAssumption DEF FeesOf
<1>5. QED
  BY <1>1, <1>2, <1>4

(* What a fill does to the money. *)
LEMMA MoneyTypes ==
  ASSUME NEW f \in Fills
  PROVE  /\ Notional(f) \in Nat /\ Cost(f) \in Nat /\ Proceeds(f) \in Int
         /\ PaidFor(f) \in Nat /\ GotFor(f) \in Nat /\ Shortfall(f) \in Nat
         /\ f.side = "Buy" => PaidFor(f) = Cost(f) /\ GotFor(f) = 0 /\ Shortfall(f) = 0
         /\ f.side = "Sell" =>
              GotFor(f) - PaidFor(f) = Proceeds(f) /\ Proceeds(f) + Shortfall(f) >= 0
<1>1. f.price \in Nat /\ f.lots \in Nat /\ f.side \in Sides /\ FeesOf(f) \in Nat
  BY FillType
<1>2. Notional(f) \in Nat
  BY <1>1, Product DEF Notional
<1>3. Cost(f) = Notional(f) + FeesOf(f) /\ Proceeds(f) = Notional(f) - FeesOf(f)
  BY DEF Cost, Proceeds
<1>4. Cost(f) \in Nat /\ Proceeds(f) \in Int
  BY <1>1, <1>2, <1>3
<1>5. CASE f.side = "Buy"
  <2>1. PaidFor(f) = Cost(f) /\ GotFor(f) = 0 /\ Shortfall(f) = 0
    BY <1>5 DEF PaidFor, GotFor, Shortfall
  <2>2. QED
    BY <1>2, <1>4, <1>5, <2>1
<1>6. CASE f.side = "Sell"
  <2>1. /\ PaidFor(f) = FeesOf(f) /\ GotFor(f) = Notional(f)
        /\ Shortfall(f) = IF Proceeds(f) < 0 THEN -Proceeds(f) ELSE 0
    BY <1>6 DEF PaidFor, GotFor, Shortfall
  <2>2. Shortfall(f) \in Nat /\ Proceeds(f) + Shortfall(f) >= 0
    BY <1>4, <2>1
  <2>3. GotFor(f) - PaidFor(f) = Proceeds(f)
    BY <1>1, <1>2, <1>3, <2>1
  <2>4. QED
    BY <1>1, <1>2, <1>4, <1>6, <2>1, <2>2, <2>3
<1>7. QED
  BY <1>1, <1>5, <1>6 DEF Sides

LEMMA TotalValueType ==
  ASSUME NEW money \in Int, NEW position \in [Symbols -> Nat], NEW price \in [Symbols -> Nat]
  PROVE  TotalValue(money, position, price) \in Int
<1> DEFINE value == [s \in Symbols |-> position[s] * price[s]]
<1>1. \A s \in Symbols : value[s] \in Nat
  BY Product
<1> HIDE DEF value
<1>2. SumOver(value, Symbols) \in Nat
  BY <1>1, SumType, BacktestAssumption
<1>3. QED
  BY <1>2 DEF TotalValue, value

LEMMA RecordedType ==
  ASSUME LedgerTypes, NEW d \in Dates, NEW v \in Int,
         equity' = Recorded(d, v)
  PROVE  /\ DOMAIN equity' \subseteq Dates /\ \A e \in DOMAIN equity' : equity'[e] \in Int
         /\ d \in DOMAIN equity' /\ equity'[d] = v
BY DEF Recorded, LedgerTypes

-----------------------------------------------------------------------------
(* The ledger *)

LEMMA LedgerUnchanged ==
  ASSUME LedgerInv, UNCHANGED <<current, ledger, lastDate>>, orders' \in Nat, orders' >= orders
  PROVE  LedgerInv'
<1>1. UNCHANGED <<current, cash, total, locked, available, mark, equity, fills, lastDate>>
  BY DEF ledger
<1>2. LedgerTypes'
  BY <1>1 DEF LedgerInv, LedgerTypes
<1>3. SharesSplit' /\ BooksAreFills' /\ cash' + Lost' >= 0
  BY <1>1 DEF LedgerInv, SharesSplit, BooksAreFills, Spent, Earned, Lost, LotsOf, FillsOn
<1>4. EquityRecorded' /\ MarksFollow'
  <2>1. EquityRecorded'
    BY <1>1 DEF LedgerInv, EquityRecorded, LastFillDated, LastFill
  <2>2. \A s \in Symbols : LastPrice(s)' = LastPrice(s)
    BY <1>1 DEF LastPrice
  <2>3. MarksFollow'
    BY <1>1, <2>2 DEF LedgerInv, MarksFollow
  <2>4. QED
    BY <2>1, <2>3
<1>5. \A f \in fills : f.id <= orders' /\ f.ts <= current[f.symbol].ts
  BY DEF LedgerInv, LedgerTypes, Fills
<1>6. QED
  BY <1>1, <1>2, <1>3, <1>4, <1>5 DEF LedgerInv

LEMMA TimesAreNat == Times \subseteq Nat
BY BacktestAssumption DEF Times

(* A bar that a symbol had not had before brings its close as last price. *)
LEMMA BarPrice ==
  ASSUME LedgerInv, NEW s \in Symbols, NEW ts \in Nat, current[s].ts < ts, UNCHANGED fills,
         NEW new \in CurrentBars, new.ts = ts, current' = [current EXCEPT ![s] = new]
  PROVE  /\ LastPrice(s)' = new.close
         /\ \A r \in Symbols : r # s => LastPrice(r)' = LastPrice(r)
<1>1. \A r \in Symbols : current'[r] = IF r = s THEN new ELSE current[r]
  BY DEF LedgerInv, LedgerTypes
<1>2. \A f \in fills : f.symbol = s => f.ts # ts
  <2> TAKE f \in fills
  <2>1. f.ts <= current[f.symbol].ts
    BY DEF LedgerInv
  <2>2. f.ts \in Nat /\ current[s].ts \in Nat
    BY TimesAreNat DEF LedgerInv, LedgerTypes, Fills, CurrentBars
  <2>3. QED
    BY <2>1, <2>2
<1>3. {f \in fills' : f.symbol = s /\ f.ts = current'[s].ts} = {}
  BY <1>1, <1>2
<1>4. LastPrice(s)' = new.close
  BY <1>1, <1>3 DEF LastPrice
<1>5. \A r \in Symbols : r # s => LastPrice(r)' = LastPrice(r)
  BY <1>1 DEF LastPrice
<1>6. QED
  BY <1>4, <1>5

(* A bar is taken: positions are unlocked on a new date and revalued. *)
LEMMA TakeBarLedger ==
  ASSUME LedgerInv, NEW b \in replay, b \in Slots, NEW shape \in Shapes, TakeBar(b, shape),
         current[b.symbol].ts < b.ts
  PROVE  LedgerInv'
<1>1. b.symbol \in Symbols /\ b.ts \in Times /\ b.ts > 0 /\ b.ts \in 1..MaxTs /\ b.ts \in Nat
  BY BacktestAssumption DEF Slots, Times
<1>2. TradingDate[b.ts] \in Dates
  BY <1>1, BacktestAssumption
<1>3. shape.open \in Nat /\ shape.low \in Nat /\ shape.high \in Nat /\ shape.close \in Nat
      /\ shape.close \in Closes
  BY BacktestAssumption DEF Closes
<1>4. /\ lastDate' = TradingDate[b.ts]
      /\ UNCHANGED <<cash, total, fills, orders>>
      /\ mark' = IF total[b.symbol] > 0 THEN [mark EXCEPT ![b.symbol] = shape.close] ELSE mark
      /\ equity' = Recorded(TradingDate[b.ts], TotalValue(cash, total, mark'))
  BY DEF TakeBar, MarkToMarket, UnlockForDate, matcher
<1>5. \/ UNCHANGED <<locked, available>>
      \/ locked' = [s \in Symbols |-> 0] /\ available' = total
  BY DEF TakeBar, MarkToMarket, UnlockForDate
<1>6. mark' \in [Symbols -> Nat]
  BY <1>1, <1>3, <1>4 DEF LedgerInv, LedgerTypes
<1>7. locked' \in [Symbols -> Nat] /\ available' \in [Symbols -> Nat]
      /\ \A s \in Symbols : total[s] = locked'[s] + available'[s]
  BY <1>5 DEF LedgerInv, LedgerTypes, SharesSplit
<1>8. TotalValue(cash, total, mark') \in Int
  BY <1>6, TotalValueType DEF LedgerInv, LedgerTypes
<1>9. /\ DOMAIN equity' \subseteq Dates /\ \A e \in DOMAIN equity' : equity'[e] \in Int
      /\ TradingDate[b.ts] \in DOMAIN equity'
      /\ equity'[TradingDate[b.ts]] = TotalValue(cash, total, mark')
  BY <1>2, <1>4, <1>8, RecordedType DEF LedgerInv
<1>10. PICK new \in CurrentBars :
         /\ current' = [current EXCEPT ![b.symbol] = new]
         /\ new.ts = b.ts /\ new.close = shape.close
  <2>1. PICK pre \in Nat :
          current' = [current EXCEPT ![b.symbol] =
                        [ts |-> b.ts, pre |-> pre, open |-> shape.open, low |-> shape.low,
                         high |-> shape.high, close |-> shape.close]]
    BY <1>1, <1>3 DEF TakeBar, LedgerInv, LedgerTypes, CurrentBars
  <2>2. [ts |-> b.ts, pre |-> pre, open |-> shape.open, low |-> shape.low,
         high |-> shape.high, close |-> shape.close] \in CurrentBars
    BY <1>1, <1>3 DEF CurrentBars
  <2>3. QED
    BY <2>1, <2>2
<1>11. current' \in [Symbols -> CurrentBars]
       /\ \A s \in Symbols : current'[s] = IF s = b.symbol THEN new ELSE current[s]
  BY <1>1, <1>10 DEF LedgerInv, LedgerTypes
<1>12. \A s \in Symbols : current'[s].ts > 0 => current'[s].close \in Closes
  BY <1>3, <1>10, <1>11 DEF LedgerInv
<1>13. LedgerTypes'
  BY <1>2, <1>4, <1>6, <1>7, <1>9, <1>11 DEF LedgerInv, LedgerTypes
<1>14. SharesSplit'
  BY <1>4, <1>7 DEF SharesSplit
<1>15. BooksAreFills' /\ cash' + Lost' >= 0
  BY <1>4 DEF LedgerInv, BooksAreFills, Spent, Earned, Lost, LotsOf, FillsOn
<1>16. EquityRecorded'
  BY <1>4, <1>9 DEF EquityRecorded
<1>17. MarksFollow'
  <2>1. /\ LastPrice(b.symbol)' = shape.close
        /\ \A r \in Symbols : r # b.symbol => LastPrice(r)' = LastPrice(r)
    BY <1>1, <1>4, <1>10, BarPrice
  <2>2. \A s \in Symbols : total[s] > 0 =>
          mark'[s] = IF s = b.symbol THEN shape.close ELSE mark[s]
    BY <1>1, <1>4 DEF LedgerInv, LedgerTypes
  <2>3. QED
    BY <1>3, <1>4, <2>1, <2>2 DEF LedgerInv, MarksFollow
<1>18. \A f \in fills' : f.id <= orders' /\ f.ts <= current'[f.symbol].ts
  <2> TAKE f \in fills'
  <2>1. f \in fills /\ f.id <= orders /\ f.ts <= current[f.symbol].ts
    BY <1>4 DEF LedgerInv
  <2>2. f.symbol \in Symbols /\ f.ts \in Nat
    BY <2>1, TimesAreNat DEF LedgerInv, LedgerTypes, Fills
  <2>3. current[f.symbol].ts \in Nat
    BY <2>2, TimesAreNat DEF LedgerInv, LedgerTypes, CurrentBars
  <2>4. QED
    BY <1>1, <1>4, <1>10, <1>11, <2>1, <2>2, <2>3
<1>19. QED
  BY <1>12, <1>13, <1>14, <1>15, <1>16, <1>17, <1>18 DEF LedgerInv

(* What a new fill adds to the sums of the books. *)
LEMMA SumsGrow ==
  ASSUME fills \subseteq Fills, IsFiniteSet(fills), NEW f \in Fills, f \notin fills,
         fills' = fills \cup {f}
  PROVE  /\ Spent \in Nat /\ Spent' = Spent + PaidFor(f)
         /\ Earned \in Nat /\ Earned' = Earned + GotFor(f)
         /\ Lost \in Nat /\ Lost' = Lost + Shortfall(f)
<1>1. \A x \in fills' : PaidFor(x) \in Nat /\ GotFor(x) \in Nat /\ Shortfall(x) \in Nat
  BY MoneyTypes
<1>2. ASSUME NEW old, NEW new, \A x \in fills : old[x] \in Nat /\ new[x] = old[x], new[f] \in Nat
      PROVE  SumOver(old, fills) \in Nat /\ SumOver(new, fills') = SumOver(old, fills) + new[f]
  BY <1>2, SumType, SumExtend
<1>3. Spent \in Nat /\ Spent' = Spent + PaidFor(f)
  <2> DEFINE old == [x \in fills |-> PaidFor(x)]
             new == [x \in fills' |-> PaidFor(x)]
  <2>1. (\A x \in fills : old[x] \in Nat /\ new[x] = old[x]) /\ new[f] \in Nat /\ new[f] = PaidFor(f)
    BY <1>1
  <2>2. Spent = SumOver(old, fills) /\ Spent' = SumOver(new, fills')
    BY DEF Spent
  <2> HIDE DEF old, new
  <2>3. QED
    BY <1>2, <2>1, <2>2
<1>4. Earned \in Nat /\ Earned' = Earned + GotFor(f)
  <2> DEFINE old == [x \in fills |-> GotFor(x)]
             new == [x \in fills' |-> GotFor(x)]
  <2>1. (\A x \in fills : old[x] \in Nat /\ new[x] = old[x]) /\ new[f] \in Nat /\ new[f] = GotFor(f)
    BY <1>1
  <2>2. Earned = SumOver(old, fills) /\ Earned' = SumOver(new, fills')
    BY DEF Earned
  <2> HIDE DEF old, new
  <2>3. QED
    BY <1>2, <2>1, <2>2
<1>5. Lost \in Nat /\ Lost' = Lost + Shortfall(f)
  <2> DEFINE old == [x \in fills |-> Shortfall(x)]
             new == [x \in fills' |-> Shortfall(x)]
  <2>1. (\A x \in fills : old[x] \in Nat /\ new[x] = old[x]) /\ new[f] \in Nat /\ new[f] = Shortfall(f)
    BY <1>1
  <2>2. Lost = SumOver(old, fills) /\ Lost' = SumOver(new, fills')
    BY DEF Lost
  <2> HIDE DEF old, new
  <2>3. QED
    BY <1>2, <2>1, <2>2
<1>6. QED
  BY <1>3, <1>4, <1>5

LEMMA LotsGrow ==
  ASSUME fills \subseteq Fills, IsFiniteSet(fills), NEW f \in Fills, f \notin fills,
         fills' = fills \cup {f}, NEW side \in Sides, NEW s \in Symbols
  PROVE  /\ LotsOf(side, s) \in Nat
         /\ LotsOf(side, s)' = LotsOf(side, s)
              + IF f.side = side /\ f.symbol = s THEN f.lots ELSE 0
<1> DEFINE old == [x \in fills |-> x.lots]
           new == [x \in fills' |-> x.lots]
           S   == {x \in FillsOn(side) : x.symbol = s}
           T   == {x \in FillsOn(side)' : x.symbol = s}
<1>1. IsFiniteSet(S) /\ S \subseteq fills /\ f \notin S
  BY FS_Subset DEF FillsOn
<1>2. \A x \in S : old[x] \in Nat /\ new[x] = old[x]
  BY <1>1 DEF Fills
<1>3. new[f] \in Nat
  BY DEF Fills
<1>4. new[f] = f.lots
  OBVIOUS
<1>5. T = IF f.side = side /\ f.symbol = s THEN S \cup {f} ELSE S
  BY DEF FillsOn
<1>6. LotsOf(side, s) = SumOver(old, S) /\ LotsOf(side, s)' = SumOver(new, T)
  BY DEF LotsOf
<1> HIDE DEF old, new, S, T
<1>7. SumOver(old, S) \in Nat
  BY <1>1, <1>2, SumType
<1>8. SumOver(new, S \cup {f}) = SumOver(old, S) + new[f]
  BY <1>1, <1>2, <1>3, SumExtend
<1>9. SumOver(new, S) = SumOver(old, S)
  BY <1>2, SumSame
<1>10. QED
  BY <1>4, <1>5, <1>6, <1>7, <1>8, <1>9

LEMMA LotsType ==
  ASSUME LedgerTypes, NEW side, NEW s
  PROVE  LotsOf(side, s) \in Nat
<1> DEFINE T == {f \in FillsOn(side) : f.symbol = s}
           lots == [f \in fills |-> f.lots]
<1>1. IsFiniteSet(T)
  BY FS_Subset DEF FillsOn, LedgerTypes
<1>2. \A f \in T : lots[f] \in Nat
  BY BacktestAssumption DEF FillsOn, LedgerTypes, Fills
<1> HIDE DEF T, lots
<1>3. SumOver(lots, T) \in Nat
  BY <1>1, <1>2, SumType
<1>4. QED
  BY <1>3 DEF LotsOf, T, lots

LEMMA BooksType ==
  ASSUME LedgerTypes
  PROVE  Spent \in Nat /\ Earned \in Nat
<1> DEFINE paid == [f \in fills |-> PaidFor(f)]
           got == [f \in fills |-> GotFor(f)]
<1>1. \A f \in fills : paid[f] \in Nat /\ got[f] \in Nat
  BY MoneyTypes DEF LedgerTypes
<1> HIDE DEF paid, got
<1>2. SumOver(paid, fills) \in Nat /\ SumOver(got, fills) \in Nat
  BY <1>1, SumType DEF LedgerTypes
<1>3. QED
  BY <1>2 DEF Spent, Earned, paid, got

(* A new fill is the last one, and its price the last of its symbol. *)
LEMMA FillLast ==
  ASSUME LedgerInv, NEW f \in Fills, f.id > orders, f.ts = current[f.symbol].ts,
         fills' = fills \cup {f}, UNCHANGED current
  PROVE  /\ LastFill' = {f}
         /\ LastPrice(f.symbol)' = f.price
         /\ \A r \in Symbols : r # f.symbol => LastPrice(r)' = LastPrice(r)
<1>1. \A g \in fills : g.id < f.id /\ g.id \in Nat /\ g # f
  BY DEF LedgerInv, LedgerTypes, Fills
<1>2. f.id \in Nat
  BY DEF Fills
<1>3. LastFill' = {f}
  BY <1>1, <1>2 DEF LastFill
<1> DEFINE since == {g \in fills' : g.symbol = f.symbol /\ g.ts = current'[f.symbol].ts}
           last == LastOf(since)
<1>4. f \in since /\ \A g \in since : g \in fills \cup {f}
  OBVIOUS
<1>5. LastPrice(f.symbol)' = IF since = {} THEN current'[f.symbol].close ELSE last.price
  BY DEF LastPrice
<1> HIDE DEF since
<1>6. \A h \in since : h.id <= f.id
  BY <1>1, <1>2, <1>4
<1>7. last \in since /\ f.id <= last.id
  BY <1>4, <1>6 DEF LastOf
<1>8. last = f
  BY <1>1, <1>2, <1>4, <1>7
<1>9. \A r \in Symbols : r # f.symbol => LastPrice(r)' = LastPrice(r)
  <2> TAKE r \in Symbols
  <2>1. HAVE r # f.symbol
  <2>2. {g \in fills' : g.symbol = r /\ g.ts = current'[r].ts} = {g \in fills : g.symbol = r /\ g.ts = current[r].ts}
    BY <2>1
  <2>3. QED
    BY <2>2 DEF LastPrice
<1>10. QED
  BY <1>3, <1>4, <1>5, <1>8, <1>9

(* Its symbol has its price as a mark, the others keep theirs. *)
MarkedBy(f) ==
  \A s \in Symbols : total'[s] > 0 =>
    IF s = f.symbol THEN mark'[s] = f.price ELSE total[s] > 0 /\ mark'[s] = mark[s]

(* A new fill is booked: everything of the ledger but the books. *)
LEMMA FillRecorded ==
  ASSUME LedgerInv, NEW f \in Fills, f.symbol \in Symbols, f.ts = current[f.symbol].ts, f.id > orders,
         UNCHANGED <<current, lastDate>>, orders' = f.id,
         cash' \in Int, total' \in [Symbols -> Nat], locked' \in [Symbols -> Nat],
         available' \in [Symbols -> Nat], mark' \in [Symbols -> Nat], MarkedBy(f),
         SharesSplit', BooksAreFills', cash' + Lost' >= 0,
         fills' = fills \cup {f},
         equity' = Recorded(TradingDate[f.ts], TotalValue(cash', total', mark'))
  PROVE  LedgerInv'
<1>1. f.ts \in Times /\ TradingDate[f.ts] \in Dates /\ orders' \in Nat /\ f.price \in Nat /\ f.ts \in Nat
  BY FillType, BacktestAssumption DEF Fills, Times
<1>2. TotalValue(cash', total', mark') \in Int
  BY TotalValueType
<1>3. /\ DOMAIN equity' \subseteq Dates /\ \A e \in DOMAIN equity' : equity'[e] \in Int
      /\ TradingDate[f.ts] \in DOMAIN equity'
      /\ equity'[TradingDate[f.ts]] = TotalValue(cash', total', mark')
  BY <1>1, <1>2, RecordedType DEF LedgerInv
<1>4. IsFiniteSet(fills')
  BY FS_AddElement DEF LedgerInv, LedgerTypes
<1>5. LedgerTypes'
  BY <1>1, <1>3, <1>4 DEF LedgerInv, LedgerTypes
<1>6. /\ LastFill' = {f} /\ LastPrice(f.symbol)' = f.price
      /\ \A r \in Symbols : r # f.symbol => LastPrice(r)' = LastPrice(r)
  BY FillLast
<1>7. EquityRecorded'
  <2>1. LastFillDated' => TradingDate[f.ts] = lastDate'
    BY <1>6 DEF LastFillDated
  <2>2. QED
    BY <1>3, <2>1 DEF EquityRecorded
<1>8. MarksFollow'
  BY <1>1, <1>6 DEF LedgerInv, MarksFollow, MarkedBy
<1>9. \A x \in fills' : x.id <= orders' /\ x.ts <= current'[x.symbol].ts
  <2>1. SUFFICES ASSUME NEW x \in fills PROVE x.id <= orders' /\ x.ts <= current'[x.symbol].ts
    BY <1>1
  <2>2. x.id <= orders /\ x.id \in Nat /\ orders \in Nat /\ x.ts <= current[x.symbol].ts
    BY DEF LedgerInv, LedgerTypes, Fills
  <2>3. QED
    BY <1>1, <2>2
<1>10. QED
  BY <1>5, <1>7, <1>8, <1>9 DEF LedgerInv

LEMMA BuyBooked ==
  ASSUME LedgerInv, NEW f \in Fills, f \notin fills, f.side = "Buy", cash >= Cost(f), Bought(f),
         fills' = fills \cup {f}
  PROVE  /\ cash' \in Int /\ total' \in [Symbols -> Nat] /\ locked' \in [Symbols -> Nat]
         /\ available' \in [Symbols -> Nat] /\ mark' \in [Symbols -> Nat] /\ MarkedBy(f)
         /\ SharesSplit' /\ BooksAreFills' /\ cash' + Lost' >= 0
<1>1. f.symbol \in Symbols /\ f.lots \in Nat /\ f.price \in Nat /\ Cost(f) \in Nat
      /\ PaidFor(f) = Cost(f) /\ GotFor(f) = 0 /\ Shortfall(f) = 0
  BY MoneyTypes, FillType
<1>2. cash \in Int /\ cash' = cash - Cost(f) /\ cash' \in Int /\ cash' >= 0
  BY <1>1 DEF Bought, LedgerInv, LedgerTypes
<1>3. /\ total' \in [Symbols -> Nat] /\ locked' \in [Symbols -> Nat]
      /\ available' \in [Symbols -> Nat] /\ mark' \in [Symbols -> Nat]
  BY <1>1 DEF Bought, LedgerInv, LedgerTypes
<1>4. MarkedBy(f)
  BY <1>1 DEF Bought, LedgerInv, LedgerTypes, MarkedBy
<1>5. SharesSplit'
  BY <1>1 DEF Bought, LedgerInv, LedgerTypes, SharesSplit
<1>6. fills \subseteq Fills /\ IsFiniteSet(fills)
  BY DEF LedgerInv, LedgerTypes
<1>7. /\ Spent \in Nat /\ Spent' = Spent + PaidFor(f)
      /\ Earned \in Nat /\ Earned' = Earned + GotFor(f)
      /\ Lost \in Nat /\ Lost' = Lost + Shortfall(f)
  BY <1>6, SumsGrow
<1>8. cash + Spent = InitialCash + Earned
  BY DEF LedgerInv, BooksAreFills
<1>9. cash' + Spent' = InitialCash + Earned' /\ cash' + Lost' >= 0
  BY <1>1, <1>2, <1>7, <1>8, BacktestAssumption
<1>10. ASSUME NEW s \in Symbols
       PROVE  total'[s] + LotsOf("Sell", s)' = LotsOf("Buy", s)'
  <2>1. LotsOf("Sell", s) \in Nat /\ LotsOf("Sell", s)' = LotsOf("Sell", s) + 0
    BY <1>6, LotsGrow DEF Sides
  <2>2. /\ LotsOf("Buy", s) \in Nat
        /\ LotsOf("Buy", s)' = LotsOf("Buy", s) + IF f.symbol = s THEN f.lots ELSE 0
    BY <1>6, LotsGrow DEF Sides
  <2>3. total[s] \in Nat /\ total'[s] = total[s] + IF f.symbol = s THEN f.lots ELSE 0
    BY <1>1 DEF Bought, LedgerInv, LedgerTypes
  <2>4. total[s] + LotsOf("Sell", s) = LotsOf("Buy", s)
    BY DEF LedgerInv, BooksAreFills
  <2>5. QED
    BY <1>1, <2>1, <2>2, <2>3, <2>4
<1>11. BooksAreFills'
  BY <1>9, <1>10 DEF BooksAreFills
<1>12. QED
  BY <1>2, <1>3, <1>4, <1>5, <1>9, <1>11

LEMMA SaleBooked ==
  ASSUME LedgerInv, NEW f \in Fills, f \notin fills, f.side = "Sell",
         available[f.symbol] >= f.lots, Sold(f),
         fills' = fills \cup {f}
  PROVE  /\ cash' \in Int /\ total' \in [Symbols -> Nat] /\ locked' \in [Symbols -> Nat]
         /\ available' \in [Symbols -> Nat] /\ mark' \in [Symbols -> Nat] /\ MarkedBy(f)
         /\ SharesSplit' /\ BooksAreFills' /\ cash' + Lost' >= 0
         /\ locked' = locked
<1> DEFINE s == f.symbol
<1>1. s \in Symbols /\ f.lots \in Nat /\ f.lots >= 1 /\ f.price \in Nat /\ Proceeds(f) \in Int
      /\ PaidFor(f) \in Nat /\ GotFor(f) \in Nat /\ Shortfall(f) \in Nat
      /\ GotFor(f) - PaidFor(f) = Proceeds(f) /\ Proceeds(f) + Shortfall(f) >= 0
  BY MoneyTypes, FillType DEF Fills
<1>2. cash \in Int /\ cash' = cash + Proceeds(f) /\ cash' \in Int
  BY <1>1 DEF Sold, LedgerInv, LedgerTypes
<1>3. /\ total[s] \in Nat /\ locked[s] \in Nat /\ available[s] \in Nat
      /\ total[s] = locked[s] + available[s] /\ available[s] >= f.lots
  BY <1>1 DEF LedgerInv, LedgerTypes, SharesSplit
<1>4. total[s] - f.lots \in Nat /\ available[s] - f.lots \in Nat /\ locked[s] <= total[s] - f.lots
  BY <1>1, <1>3
<1>5. /\ total' = [total EXCEPT ![s] = @ - f.lots]
      /\ locked' = locked
      /\ available' = [available EXCEPT ![s] = @ - f.lots]
      /\ mark' \in [Symbols -> Nat]
      /\ \A r \in Symbols : r # s => mark'[r] = mark[r]
      /\ total'[s] > 0 => mark'[s] = f.price
  <2>1. CASE total[s] - f.lots <= 0
    <3>1. total[s] - f.lots = 0 /\ locked[s] = 0 /\ available[s] - f.lots = 0
      BY <1>1, <1>3, <1>4, <2>1
    <3>2. /\ total' = [total EXCEPT ![s] = 0] /\ locked' = [locked EXCEPT ![s] = 0]
          /\ available' = [available EXCEPT ![s] = 0] /\ mark' = [mark EXCEPT ![s] = 0]
      BY <1>4, <2>1 DEF Sold
    <3>3. locked' = locked /\ mark' \in [Symbols -> Nat] /\ \A r \in Symbols : r # s => mark'[r] = mark[r]
      BY <1>1, <3>1, <3>2 DEF LedgerInv, LedgerTypes
    <3>4. total' = [total EXCEPT ![s] = @ - f.lots] /\ available' = [available EXCEPT ![s] = @ - f.lots]
      BY <1>1, <3>1, <3>2 DEF LedgerInv, LedgerTypes
    <3>5. ~(total'[s] > 0)
      BY <1>1, <3>2 DEF LedgerInv, LedgerTypes
    <3>6. QED
      BY <3>3, <3>4, <3>5
  <2>2. CASE total[s] - f.lots > 0
    <3>1. /\ total' = [total EXCEPT ![s] = total[s] - f.lots]
          /\ locked' = [locked EXCEPT ![s] = IF @ > total[s] - f.lots THEN total[s] - f.lots ELSE @]
          /\ available' = [available EXCEPT ![s] = @ - f.lots]
          /\ mark' = [mark EXCEPT ![s] = f.price]
      BY <1>4, <2>2 DEF Sold
    <3>2. ~(locked[s] > total[s] - f.lots)
      BY <1>3, <1>4
    <3>3. locked' = locked
      BY <1>1, <3>1, <3>2 DEF LedgerInv, LedgerTypes
    <3>4. QED
      BY <1>1, <3>1, <3>3 DEF LedgerInv, LedgerTypes
  <2>3. QED
    BY <1>4, <2>1, <2>2
<1>6. /\ total' \in [Symbols -> Nat] /\ locked' \in [Symbols -> Nat]
      /\ available' \in [Symbols -> Nat] /\ mark' \in [Symbols -> Nat]
  BY <1>1, <1>4, <1>5 DEF LedgerInv, LedgerTypes
<1>7. MarkedBy(f)
  BY <1>1, <1>5 DEF LedgerInv, LedgerTypes, MarkedBy
<1>8. SharesSplit'
  BY <1>1, <1>5 DEF LedgerInv, LedgerTypes, SharesSplit
<1>9. fills \subseteq Fills /\ IsFiniteSet(fills)
  BY DEF LedgerInv, LedgerTypes
<1>10. /\ Spent \in Nat /\ Spent' = Spent + PaidFor(f)
       /\ Earned \in Nat /\ Earned' = Earned + GotFor(f)
       /\ Lost \in Nat /\ Lost' = Lost + Shortfall(f)
  BY <1>9, SumsGrow
<1>11. cash + Spent = InitialCash + Earned /\ cash + Lost >= 0
  BY DEF LedgerInv, BooksAreFills
<1>12. cash' + Spent' = InitialCash + Earned' /\ cash' + Lost' >= 0
  BY <1>1, <1>2, <1>10, <1>11, BacktestAssumption
<1>13. ASSUME NEW x \in Symbols
       PROVE  total'[x] + LotsOf("Sell", x)' = LotsOf("Buy", x)'
  <2>1. LotsOf("Buy", x) \in Nat /\ LotsOf("Buy", x)' = LotsOf("Buy", x) + 0
    BY <1>9, LotsGrow DEF Sides
  <2>2. /\ LotsOf("Sell", x) \in Nat
        /\ LotsOf("Sell", x)' = LotsOf("Sell", x) + IF f.symbol = x THEN f.lots ELSE 0
    BY <1>9, LotsGrow DEF Sides
  <2>3. total[x] \in Nat /\ total'[x] = total[x] - IF f.symbol = x THEN f.lots ELSE 0
    BY <1>1, <1>5 DEF LedgerInv, LedgerTypes
  <2>4. total[x] + LotsOf("Sell", x) = LotsOf("Buy", x)
    BY DEF LedgerInv, BooksAreFills
  <2>5. QED
    BY <1>1, <2>1, <2>2, <2>3, <2>4
<1>14. BooksAreFills'
  BY <1>12, <1>13 DEF BooksAreFills
<1>15. QED
  BY <1>2, <1>5, <1>6, <1>7, <1>8, <1>12, <1>14

LEMMA BookFill ==
  ASSUME LedgerInv, NEW f \in Fills, f.id > orders, CanFill(f), ApplyFill(f),
         f.ts = current[f.symbol].ts,
         UNCHANGED <<current, lastDate>>, orders' = f.id
  PROVE  LedgerInv' /\ \A s \in Symbols : locked'[s] >= locked[s]
<1>1. f \notin fills
  BY DEF LedgerInv, LedgerTypes, Fills
<1>2. /\ IF f.side = "Buy" THEN Bought(f) ELSE Sold(f)
      /\ fills' = fills \cup {f}
      /\ equity' = Recorded(TradingDate[f.ts], TotalValue(cash', total', mark'))
  BY <1>1 DEF ApplyFill
<1>3. f.symbol \in Symbols /\ f.lots \in Nat /\ f.side \in Sides
  BY DEF Fills
<1>4. CASE f.side = "Buy"
  <2>1. Bought(f) /\ cash >= Cost(f)
    BY <1>2, <1>4 DEF CanFill
  <2>2. /\ cash' \in Int /\ total' \in [Symbols -> Nat] /\ locked' \in [Symbols -> Nat]
        /\ available' \in [Symbols -> Nat] /\ mark' \in [Symbols -> Nat] /\ MarkedBy(f)
        /\ SharesSplit' /\ BooksAreFills' /\ cash' + Lost' >= 0
    BY <1>1, <1>2, <1>4, <2>1, BuyBooked
  <2>3. LedgerInv'
    BY <1>2, <1>3, <2>2, FillRecorded
  <2>4. \A s \in Symbols : locked'[s] >= locked[s]
    BY <1>3, <2>1 DEF Bought, LedgerInv, LedgerTypes
  <2>5. QED
    BY <2>3, <2>4
<1>5. CASE f.side = "Sell"
  <2>1. Sold(f) /\ available[f.symbol] >= f.lots
    BY <1>2, <1>5 DEF CanFill
  <2>2. /\ cash' \in Int /\ total' \in [Symbols -> Nat] /\ locked' \in [Symbols -> Nat]
        /\ available' \in [Symbols -> Nat] /\ mark' \in [Symbols -> Nat] /\ MarkedBy(f)
        /\ SharesSplit' /\ BooksAreFills' /\ cash' + Lost' >= 0 /\ locked' = locked
    BY <1>1, <1>2, <1>5, <2>1, SaleBooked
  <2>3. LedgerInv'
    BY <1>2, <1>3, <2>2, FillRecorded
  <2>4. \A s \in Symbols : locked'[s] >= locked[s]
    BY <2>2 DEF LedgerInv, LedgerTypes
  <2>5. QED
    BY <2>3, <2>4
<1>6. QED
  BY <1>3, <1>4, <1>5 DEF Sides

LEMMA FillPrice ==
  ASSUME LedgerInv, NEW i \in Intents, current[i.symbol].ts > 0
  PROVE  MatchPrice(i, current[i.symbol]) \in Paid
<1> DEFINE price == IF i.type = "Market" THEN current[i.symbol].close ELSE i.price
<1>1. i.symbol \in Symbols /\ i.side \in Sides
      /\ (i.type = "Market" \/ (i.type = "Limit" /\ i.price \in Limits))
  BY DEF Intents
<1>2. current[i.symbol].close \in Closes
  BY <1>1 DEF LedgerInv
<1>3. price \in Quotes
  BY <1>1, <1>2 DEF Quotes
<1>4. MatchPrice(i, current[i.symbol]) = Slipped[i.side][price]
  BY DEF MatchPrice
<1> HIDE DEF price
<1>5. QED
  BY <1>1, <1>3, <1>4 DEF Paid

LEMMA SubmitLedger ==
  ASSUME LedgerInv, NEW i \in Intents, Submit(i)
  PROVE  LedgerInv' /\ \A s \in Symbols : locked'[s] >= locked[s]
<1> DEFINE bar == current[i.symbol]
           f   == FillOf(i, bar)
<1>1. orders \in Nat /\ orders' = orders + 1 /\ UNCHANGED <<current, lastDate>> /\ bar.ts > 0
  BY DEF Submit, LedgerInv, LedgerTypes
<1>2. i.symbol \in Symbols /\ i.side \in Sides /\ i.lots \in 1..MaxLots
  BY DEF Intents
<1>3. bar.ts \in Times
  BY <1>2 DEF LedgerInv, LedgerTypes, CurrentBars
<1>4. MatchPrice(i, bar) \in Paid
  BY <1>1, FillPrice
<1>5. f \in Fills /\ f.id = orders + 1 /\ f.ts = current[f.symbol].ts
  BY <1>1, <1>2, <1>3, <1>4 DEF FillOf, Fills
<1>6. \/ UNCHANGED ledger
      \/ CanFill(f) /\ ApplyFill(f)
  BY DEF Submit
<1> HIDE DEF bar, f
<1>7. CASE UNCHANGED ledger
  <2>1. LedgerInv'
    BY <1>1, <1>7, LedgerUnchanged
  <2>2. \A s \in Symbols : locked'[s] >= locked[s]
    BY <1>7 DEF ledger, LedgerInv, LedgerTypes
  <2>3. QED
    BY <2>1, <2>2
<1>8. CASE CanFill(f) /\ ApplyFill(f)
  <2>1. f.id > orders /\ orders' = f.id
    BY <1>1, <1>5
  <2>2. QED
    BY <1>1, <1>5, <1>8, <2>1, BookFill
<1>9. QED
  BY <1>6, <1>7, <1>8

(* A fill that comes through the loop is in the ledger already. *)
LEMMA DispatchFillLedger ==
  ASSUME QueueInv, NEW q \in pending, DispatchFill(q)
  PROVE  UNCHANGED ledger
<1>1. q.subject \in fills
  BY DEF DispatchFill, QueueInv
<1>2. QED
  BY <1>1 DEF DispatchFill, ApplyFill

-----------------------------------------------------------------------------
(* The loop *)

LEMMA ReceivedAreSent ==
  ASSUME QueueInv
  PROVE  Received(sent) \in Seq(fills \cap Fills)
<1>1. sent \in Seq(Fills) /\ Len(sent) \in Nat /\ DOMAIN sent = 1..Len(sent)
      /\ \A i \in 1..Len(sent) : sent[i] \in fills /\ sent[i] \in Fills
  BY LenProperties, ElementOfSeq DEF QueueInv, QueueTypes
<1>2. sent \in Seq(fills \cap Fills)
  BY <1>1, IsASeq
<1>3. CASE Len(sent) <= Capacity
  BY <1>2, <1>3 DEF Received
<1>4. CASE ~(Len(sent) <= Capacity)
  <2>1. Len(sent) - Capacity + 1 \in 1..Len(sent) /\ Len(sent) \in 1..Len(sent)
    BY <1>1, <1>4, EngineAssumption
  <2>2. SubSeq(sent, Len(sent) - Capacity + 1, Len(sent)) \in Seq(fills \cap Fills)
    BY <1>1, <1>2, <2>1, SubSeqProperties
  <2>3. QED
    BY <1>4, <2>2 DEF Received
<1>5. QED
  BY <1>3, <1>4

(* Every step but that which takes a bar: the queue loses events and gains *)
(* fills that are booked.                                                  *)
LEMMA QueueStep ==
  ASSUME QueueInv, NEW new, \A q \in new : q \in QueuedEvents /\ q.kind = "Fill" /\ q.subject \in fills',
         pending' \subseteq pending \cup new, timers' \subseteq timers,
         UNCHANGED <<replay, current, lastDate>>, fills \subseteq fills',
         sent' \in Seq(Fills), \A i \in DOMAIN sent' : sent'[i] \in fills',
         seq' \in Nat, now' \in Times, target' \in Times,
         pc' \in {"peek", "taking", "pop", "handling", "done"},
         pc' = "taking" => \A q \in pending : q.kind = "Bar" => q.ts >= target',
         stage' \in {"start", "load"} => stage \in {"start", "load"}
  PROVE  QueueInv'
<1>1. QueueTypes'
  <2>1. pending' \subseteq QueuedEvents /\ timers' = {}
    BY DEF QueueInv, QueueTypes
  <2>2. replay' \subseteq Slots
    BY DEF QueueInv, QueueTypes
  <2>3. QED
    BY <2>1, <2>2 DEF QueueTypes
<1>2. \A q \in pending' : q.kind = "Bar" => q \in pending
  OBVIOUS
<1>3. NoLookAhead'
  BY <1>2 DEF QueueInv, NoLookAhead
<1>4. \A q \in pending' : q.kind = "Fill" => q.subject \in fills'
  BY DEF QueueInv
<1>5. pc' = "taking" => \A q \in pending' : q.kind = "Bar" => q.ts >= target'
  BY <1>2
<1>6. \A b \in replay' : /\ lastDate' <= TradingDate[b.ts] /\ \A s \in Symbols : current'[s].ts <= b.ts
                         /\ current'[b.symbol].ts < b.ts
  BY DEF QueueInv
<1>7. stage' \in {"start", "load"} => lastDate' = 0 /\ \A s \in Symbols : current'[s].ts = 0
  BY DEF QueueInv
<1>8. QED
  BY <1>1, <1>3, <1>4, <1>5, <1>6, <1>7 DEF QueueInv

(* A step that the loop does not see. *)
LEMMA QueueUnchanged ==
  ASSUME QueueInv, UNCHANGED <<engine, replay, current, lastDate>>, fills \subseteq fills',
         sent' \in Seq(Fills), \A i \in DOMAIN sent' : sent'[i] \in fills',
         stage' \in {"start", "load"} => stage \in {"start", "load"}
  PROVE  QueueInv'
<1>1. UNCHANGED <<pending, timers, seq, now, target, pc, replay, current, lastDate>>
  BY DEF engine
<1>2. seq' \in Nat /\ now' \in Times /\ target' \in Times
      /\ pc' \in {"peek", "taking", "pop", "handling", "done"}
      /\ (pc' = "taking" => \A q \in pending : q.kind = "Bar" => q.ts >= target')
  BY <1>1 DEF QueueInv, QueueTypes
<1> DEFINE none == {}
<1>3. /\ pending' \subseteq pending \cup none /\ timers' \subseteq timers
      /\ \A q \in none : q \in QueuedEvents /\ q.kind = "Fill" /\ q.subject \in fills'
  BY <1>1
<1> HIDE DEF none
<1>4. QED
  BY <1>1, <1>2, <1>3, QueueStep

(* A step that leaves the channel alone and adds nothing to the queue. *)
LEMMA QueueShrinks ==
  ASSUME QueueInv, pending' \subseteq pending, timers' \subseteq timers,
         UNCHANGED <<replay, current, lastDate, sent, fills, stage, seq>>,
         now' \in Times, target' \in Times,
         pc' \in {"peek", "taking", "pop", "handling", "done"},
         pc' = "taking" => \A q \in pending : q.kind = "Bar" => q.ts >= target'
  PROVE  QueueInv'
<1>1. seq' \in Nat /\ sent' \in Seq(Fills) /\ (\A i \in DOMAIN sent' : sent'[i] \in fills')
  BY DEF QueueInv, QueueTypes
<1>2. /\ fills \subseteq fills' /\ UNCHANGED <<replay, current, lastDate>>
      /\ (stage' \in {"start", "load"} => stage \in {"start", "load"})
  OBVIOUS
<1> DEFINE none == {}
<1>3. /\ pending' \subseteq pending \cup none
      /\ \A q \in none : q \in QueuedEvents /\ q.kind = "Fill" /\ q.subject \in fills'
  OBVIOUS
<1> HIDE DEF none
<1>4. QED
  BY <1>1, <1>2, <1>3, QueueStep

LEMMA PeekFeedQueue ==
  ASSUME QueueInv, PeekFeed
  PROVE  QueueInv'
<1>1. UNCHANGED <<replay, current, lastDate, sent, fills, stage>>
  BY DEF PeekFeed, ledger, matcher, runner
<1>2. /\ seq \in Nat /\ now \in Times /\ target \in Times
      /\ pending \subseteq QueuedEvents /\ timers = {}
  BY DEF QueueInv, QueueTypes
<1>3. CASE GroupTaken(Heads)
  <2>1. UNCHANGED <<pending, timers, seq, now, target>> /\ pc' = "peek"
    BY <1>3 DEF GroupTaken
  <2>2. QED
    BY <1>1, <1>2, <2>1, QueueShrinks
<1>4. CASE Peek(Heads)
  <2> DEFINE times == Heads \cup {q.ts : q \in pending}
  <2>1. UNCHANGED <<seq, now>>
    BY <1>4 DEF Peek
  <2>2. \A q \in pending : q.ts \in times /\ q.ts \in Times
    BY <1>2 DEF QueuedEvents
  <2>3. Heads \subseteq Times
    BY BacktestAssumption DEF Heads, NextBars, QueueInv, QueueTypes, Slots, Times
  <2>4. \/ UNCHANGED <<pending, timers, target>> /\ pc' = "done"
        \/ \E next \in times :
             /\ \A t \in times : next <= t
             /\ target' = next
             /\ UNCHANGED <<pending, timers>>
             /\ pc' = IF next \in Heads THEN "taking" ELSE "pop"
    BY <1>2, <1>4 DEF Peek
  <2>5. times \subseteq Times
    BY <2>2, <2>3
  <2> HIDE DEF times
  <2>6. CASE UNCHANGED <<pending, timers, target>> /\ pc' = "done"
    BY <1>1, <1>2, <2>1, <2>6, QueueShrinks
  <2>7. ASSUME NEW next \in times, \A t \in times : next <= t, target' = next,
               UNCHANGED <<pending, timers>>,
               pc' = IF next \in Heads THEN "taking" ELSE "pop"
        PROVE  QueueInv'
    <3>1. \A q \in pending : q.ts >= target'
      <4>1. SUFFICES ASSUME NEW q \in pending PROVE q.ts >= next
        BY <2>7
      <4>2. q.ts \in times /\ next <= q.ts
        BY <2>2, <2>7
      <4>3. Times \subseteq Nat
        BY BacktestAssumption, EngineAssumption DEF Times
      <4>4. next \in Nat /\ q.ts \in Nat
        BY <2>5, <4>2, <4>3
      <4>5. QED
        BY <4>2, <4>4
    <3>2. target' \in Times
      BY <2>5, <2>7
    <3>3. pending' \subseteq pending /\ timers' \subseteq timers
          /\ pc' \in {"peek", "taking", "pop", "handling", "done"}
      BY <2>7
    <3>4. QED
      BY <1>1, <1>2, <2>1, <3>1, <3>2, <3>3, QueueShrinks
  <2>8. QED
    BY <2>4, <2>6, <2>7
<1>5. QED
  BY <1>3, <1>4 DEF PeekFeed

LEMMA BeginQueue ==
  ASSUME QueueInv, NEW q \in pending, Begin(q),
         UNCHANGED <<replay, current, lastDate, sent, fills, stage>>
  PROVE  QueueInv'
<1>1. /\ pending' \subseteq pending /\ timers' \subseteq timers
      /\ UNCHANGED <<seq, target>> /\ now' = q.ts /\ pc' = "handling"
  BY DEF Begin, QueueInv, QueueTypes
<1>2. target' \in Times /\ now' \in Times
  BY <1>1 DEF QueueInv, QueueTypes, QueuedEvents
<1>3. QED
  BY <1>1, <1>2, QueueShrinks

LEMMA StrategyReturnsQueue ==
  ASSUME QueueInv, StrategyReturns
  PROVE  QueueInv'
<1> DEFINE received == Received(sent)
           new      == {Queued("Fill", received[i].ts, received[i], seq + i) : i \in DOMAIN received}
<1>1. received \in Seq(fills \cap Fills)
  BY ReceivedAreSent
<1>2. UNCHANGED <<replay, current, lastDate, fills, stage>> /\ sent' = <<>>
  BY DEF StrategyReturns, ledger, runner
<1>3. /\ pending' \subseteq pending \cup new /\ timers' \subseteq timers
      /\ UNCHANGED <<now, target>> /\ pc' = "peek" /\ seq' = seq + Len(received)
  BY DEF StrategyReturns, Finish, QueueInv, QueueTypes
<1>4. /\ seq \in Nat /\ now \in Times /\ target \in Times
  BY DEF QueueInv, QueueTypes
<1> HIDE DEF received
<1>5. /\ Len(received) \in Nat
      /\ \A i \in DOMAIN received : received[i] \in fills /\ received[i] \in Fills
  BY <1>1, LenProperties, ElementOfSeq
<1>6. DOMAIN received \subseteq Nat
  BY <1>1, LenProperties
<1>7. \A q \in new : q \in QueuedEvents /\ q.kind = "Fill" /\ q.subject \in fills'
  <2>1. SUFFICES ASSUME NEW i \in DOMAIN received,
                        NEW q, q = Queued("Fill", received[i].ts, received[i], seq + i)
                 PROVE  q \in QueuedEvents /\ q.kind = "Fill" /\ q.subject \in fills'
    OBVIOUS
  <2>2. received[i] \in fills /\ received[i] \in Fills /\ received[i].ts \in Times
        /\ seq + i \in Nat
    BY <1>5, <1>4, <1>6 DEF Fills
  <2>3. q = [kind |-> "Fill", ts |-> received[i].ts, subject |-> received[i], seq |-> seq + i]
    BY <2>1 DEF Queued
  <2>4. q \in [kind : {"Fill"}, ts : Times, subject : Fills, seq : Nat]
    BY <2>2, <2>3
  <2>5. QED
    BY <1>2, <2>2, <2>3, <2>4 DEF QueuedEvents
<1>8. sent' \in Seq(Fills) /\ \A i \in DOMAIN sent' : sent'[i] \in fills'
  BY <1>2
<1>9. seq' \in Nat
  BY <1>5, <1>3, <1>4
<1> HIDE DEF new
<1>10. fills \subseteq fills' /\ UNCHANGED <<replay, current, lastDate>>
      /\ (stage' \in {"start", "load"} => stage \in {"start", "load"})
  BY <1>2
<1>11. QED
  BY <1>3, <1>4, <1>7, <1>8, <1>9, <1>10, QueueStep

LEMMA TakeBarQueue ==
  ASSUME QueueInv, LedgerInv, NEW b \in replay, NEW shape \in Shapes, TakeBar(b, shape)
  PROVE  /\ QueueInv'
         /\ lastDate' >= lastDate
         /\ lastDate' = lastDate => \A s \in Symbols : locked'[s] >= locked[s]
<1> DEFINE new == Queued("Bar", b.ts, b.symbol, seq + 1)
<1>1. /\ stage = "engine" /\ pc = "taking" /\ b.ts = target
      /\ \A c \in replay : Precedes(b, c)
      /\ pending' = pending \cup {new} /\ seq' = seq + 1
      /\ replay' = replay \ {b}
      /\ UNCHANGED <<timers, now, target, pc, sent, fills, stage>>
  BY DEF TakeBar, Take, NextBars, MarkToMarket, matcher, runner
<1>2. /\ lastDate' = TradingDate[b.ts]
      /\ lastDate' = lastDate => UNCHANGED locked
  BY DEF TakeBar, MarkToMarket, UnlockForDate
<1>3. /\ b \in Slots /\ b.symbol \in Symbols /\ b.ts \in Times /\ b.ts \in Nat
      /\ lastDate \in Dates /\ TradingDate[b.ts] \in Dates /\ seq \in Nat
  BY BacktestAssumption DEF QueueInv, QueueTypes, LedgerInv, LedgerTypes, Slots, Times
<1>4. lastDate <= TradingDate[b.ts] /\ \A s \in Symbols : current[s].ts <= b.ts
  BY DEF QueueInv
<1>5. \A s \in Symbols : current'[s].ts = IF s = b.symbol THEN b.ts ELSE current[s].ts
  BY <1>3 DEF TakeBar, LedgerInv, LedgerTypes
<1>6. \A s \in Symbols : current'[s].ts \in Nat /\ current'[s].ts <= b.ts
  BY <1>3, <1>4, <1>5 DEF LedgerInv, LedgerTypes, CurrentBars, Times
<1>7. new \in QueuedEvents /\ new.kind = "Bar" /\ new.ts = b.ts
  <2>1. new = [kind |-> "Bar", ts |-> b.ts, subject |-> b.symbol, seq |-> seq + 1]
    BY DEF Queued
  <2>2. new \in [kind : {"Bar"}, ts : Times, subject : Symbols, seq : Nat]
    BY <1>3, <2>1
  <2>3. QED
    BY <2>1, <2>2 DEF QueuedEvents
<1> HIDE DEF new
<1>8. \A q \in pending' : q.kind = "Bar" => q.ts \in Nat /\ q.ts >= target /\ q.ts >= b.ts
  <2>1. SUFFICES ASSUME NEW q \in pending \cup {new}, q.kind = "Bar"
                 PROVE  q.ts \in Nat /\ q.ts >= b.ts
    BY <1>1
  <2>2. CASE q = new
    BY <1>3, <1>7, <2>2
  <2>3. CASE q \in pending
    <3>1. q.ts >= target
      BY <1>1, <2>1, <2>3 DEF QueueInv
    <3>2. q \in QueuedEvents
      BY <2>3 DEF QueueInv, QueueTypes
    <3>3. q.ts \in Times
      BY <3>2 DEF QueuedEvents
    <3>4. Times \subseteq Nat
      BY BacktestAssumption, EngineAssumption DEF Times
    <3>5. QED
      BY <1>1, <3>1, <3>3, <3>4
  <2>4. QED
    BY <2>2, <2>3
<1>9. QueueTypes'
  BY <1>1, <1>3, <1>7 DEF QueueInv, QueueTypes
<1>10. NoLookAhead'
  <2>1. SUFFICES ASSUME NEW q \in pending', q.kind = "Bar", NEW s \in Symbols
                 PROVE  current'[s].ts <= q.ts
    BY DEF NoLookAhead
  <2>2. q.ts \in Nat /\ q.ts >= b.ts
    BY <1>8, <2>1
  <2>3. current'[s].ts \in Nat /\ current'[s].ts <= b.ts
    BY <1>6
  <2>4. QED
    BY <1>3, <2>2, <2>3
<1>11. \A c \in replay' : lastDate' <= TradingDate[c.ts] /\ \A s \in Symbols : current'[s].ts <= c.ts
  <2>1. SUFFICES ASSUME NEW c \in replay
                 PROVE  /\ TradingDate[b.ts] <= TradingDate[c.ts]
                        /\ \A s \in Symbols : current'[s].ts <= c.ts
    BY <1>1, <1>2
  <2>2. c.ts \in Times /\ c.ts \in Nat
    BY BacktestAssumption DEF QueueInv, QueueTypes, Slots, Times
  <2>3. b.ts <= c.ts
    BY <1>1, <1>3, <2>2 DEF Precedes
  <2>4. TradingDate[b.ts] <= TradingDate[c.ts]
    BY <1>3, <2>2, <2>3, BacktestAssumption
  <2>5. \A s \in Symbols : current'[s].ts <= c.ts
    BY <1>3, <1>6, <2>2, <2>3
  <2>6. QED
    BY <2>4, <2>5
<1>12. \A c \in replay' : current'[c.symbol].ts < c.ts
  <2>1. SUFFICES ASSUME NEW c \in replay, c # b PROVE current'[c.symbol].ts < c.ts
    BY <1>1
  <2>2. c \in Slots /\ c.symbol \in Symbols /\ c.ts \in Nat
    BY BacktestAssumption DEF QueueInv, QueueTypes, Slots
  <2>3. CASE c.symbol = b.symbol
    <3>1. c.ts # b.ts
      BY <1>3, <2>1, <2>2, <2>3 DEF Slots
    <3>2. b.ts <= c.ts
      BY <1>1, <1>3, <2>2 DEF Precedes
    <3>3. QED
      BY <1>3, <1>5, <2>2, <2>3, <3>1, <3>2
  <2>4. CASE c.symbol # b.symbol
    BY <1>5, <2>1, <2>2, <2>4 DEF QueueInv
  <2>5. QED
    BY <2>3, <2>4
<1>12a. /\ \A i \in DOMAIN sent' : sent'[i] \in fills'
       /\ \A q \in pending' : q.kind = "Fill" => q.subject \in fills'
       /\ stage' \notin {"start", "load"}
  BY <1>1, <1>7 DEF QueueInv
<1>13. QueueInv'
  BY <1>1, <1>8, <1>9, <1>10, <1>11, <1>12, <1>12a DEF QueueInv
<1>14. lastDate' >= lastDate
  BY <1>2, <1>3, <1>4 DEF Dates
<1>15. lastDate' = lastDate => \A s \in Symbols : locked'[s] >= locked[s]
  BY <1>2 DEF LedgerInv, LedgerTypes
<1>16. QED
  BY <1>13, <1>14, <1>15

(* The bars are loaded before any was taken. *)
LEMMA LoadBarsQueue ==
  ASSUME QueueInv, NEW bars \in SUBSET Slots, LoadBars(bars)
  PROVE  QueueInv'
<1>1. /\ UNCHANGED <<pending, timers, seq, now, target, pc, current, lastDate, sent, fills>>
      /\ replay' = bars /\ stage = "load" /\ stage' = "engine"
  BY DEF LoadBars, outside, engine, ledger, matcher
<1>2. QueueTypes'
  BY <1>1 DEF QueueInv, QueueTypes
<1>3. lastDate = 0 /\ \A s \in Symbols : current[s].ts = 0
  BY <1>1 DEF QueueInv
<1>4. \A c \in replay' : lastDate' <= TradingDate[c.ts] /\ \A s \in Symbols : current'[s].ts <= c.ts
  <2>1. SUFFICES ASSUME NEW c \in Slots PROVE 0 <= TradingDate[c.ts] /\ 0 <= c.ts
    BY <1>1, <1>3
  <2>2. c.ts \in Times /\ 0 <= c.ts /\ TradingDate[c.ts] \in Dates
    BY BacktestAssumption DEF Slots, Times
  <2>3. QED
    BY <2>2 DEF Dates
<1>5. NoLookAhead'
  BY <1>1 DEF QueueInv, NoLookAhead
<1>6. \A c \in replay' : current'[c.symbol].ts < c.ts
  <2>1. SUFFICES ASSUME NEW c \in Slots PROVE 0 < c.ts /\ c.symbol \in Symbols
    BY <1>1, <1>3
  <2>2. QED
    BY BacktestAssumption DEF Slots
<1>7. QED
  BY <1>1, <1>2, <1>4, <1>5, <1>6 DEF QueueInv

LEMMA InitInv == Init => IInv
<1> SUFFICES ASSUME Init PROVE IInv
  OBVIOUS
<1>1. /\ 0 \in Times /\ 0 \in Dates /\ InitialCash \in Nat
      /\ NoBar \in CurrentBars
  BY BacktestAssumption DEF Times, Dates, NoBar, CurrentBars
<1>2. timers = {} /\ pending = {} /\ seq = 0
  BY BacktestAssumption, FS_EmptySet DEF Init, EngineInit
<1>3. fills = {} /\ IsFiniteSet(fills)
  BY FS_EmptySet DEF Init
<1>4. DOMAIN equity = {}
  BY DEF Init
<1>5. LedgerTypes
  BY <1>1, <1>3, <1>4 DEF Init, LedgerTypes
<1>6. QueueTypes
  <2>1. sent \in Seq(Fills)
    BY DEF Init
  <2>2. now = 0 /\ target = 0 /\ pc = "peek" /\ replay = {}
    BY DEF Init, EngineInit
  <2>3. QED
    BY <1>1, <1>2, <2>1, <2>2 DEF QueueTypes
<1>7. RunTypes
  BY DEF Init, RunTypes
<1>8. FillsOn("Buy") = {} /\ FillsOn("Sell") = {}
       /\ \A s \in Symbols, side \in Sides : {f \in FillsOn(side) : f.symbol = s} = {}
  BY <1>3 DEF FillsOn
<1>9. BooksAreFills /\ cash + Lost >= 0
  <2>1. \A s \in Symbols : LotsOf("Sell", s) = 0 /\ LotsOf("Buy", s) = 0 /\ total[s] = 0
    BY <1>8, SumEmpty DEF LotsOf, Init, Sides
  <2>2. Spent = 0 /\ Earned = 0 /\ Lost = 0
    BY <1>3, SumEmpty DEF Spent, Earned, Lost
  <2>3. cash = InitialCash
    BY DEF Init
  <2>4. QED
    BY <1>1, <2>1, <2>2, <2>3 DEF BooksAreFills
<1>10. LedgerInv
  <2>1. MarksFollow
    BY <1>3 DEF Init, MarksFollow, LastPrice, NoBar
  <2>2. QED
    BY <1>3, <1>5, <1>9, <2>1 DEF Init, LedgerInv, SharesSplit, EquityRecorded, NoBar
<1>11. NoLookAhead
  BY <1>2 DEF NoLookAhead
<1>12. QueueInv
  BY <1>2, <1>6, <1>11 DEF Init, EngineInit, QueueInv, NoBar
<1>13. QED
  BY <1>7, <1>10, <1>12 DEF IInv

-----------------------------------------------------------------------------
(* The steps *)

(* The action of TPlusOne. *)
SameDayLocked ==
  /\ lastDate' >= lastDate
  /\ lastDate' = lastDate => \A s \in Symbols : locked'[s] >= locked[s]

(* A step that changes neither the ledger nor the matcher's bars. *)
LEMMA LedgerKept ==
  ASSUME LedgerInv, UNCHANGED <<current, ledger, lastDate, orders>>
  PROVE  LedgerInv' /\ SameDayLocked
<1>1. orders' \in Nat /\ orders' >= orders
  BY DEF LedgerInv, LedgerTypes
<1>2. LedgerInv'
  BY <1>1, LedgerUnchanged
<1>3. SameDayLocked
  BY DEF SameDayLocked, ledger, LedgerInv, LedgerTypes, Dates
<1>4. QED
  BY <1>2, <1>3

(* A step of the runner, which touches neither. *)
LEMMA OutsideStep ==
  ASSUME IInv, UNCHANGED <<outside, replay>>,
         stage' \in {"start", "load"} => stage \in {"start", "load"}
  PROVE  LedgerInv' /\ QueueInv' /\ SameDayLocked
<1>1. UNCHANGED <<engine, replay, current, ledger, lastDate, orders, sent, fills>>
  BY DEF outside, matcher, ledger
<1>2. LedgerInv' /\ SameDayLocked
  BY <1>1, LedgerKept DEF IInv
<1>3. sent' \in Seq(Fills) /\ (\A i \in DOMAIN sent' : sent'[i] \in fills') /\ fills \subseteq fills'
  BY <1>1 DEF IInv, QueueInv, QueueTypes
<1>4. QueueInv'
  BY <1>1, <1>3, QueueUnchanged DEF IInv
<1>5. QED
  BY <1>2, <1>4

LEMMA SubmitInv ==
  ASSUME IInv, NEW i \in Intents, Submit(i)
  PROVE  IInv' /\ SameDayLocked
<1> DEFINE f == FillOf(i, current[i.symbol])
<1>1. LedgerInv' /\ \A s \in Symbols : locked'[s] >= locked[s]
  BY SubmitLedger DEF IInv
<1>2. UNCHANGED <<engine, replay, current, lastDate, handed, runner>>
      /\ orders' = orders + 1
  BY DEF Submit
<1>3. \/ UNCHANGED <<fills, sent>>
      \/ f \in fills' /\ fills \subseteq fills' /\ sent' = Append(sent, f)
  BY DEF Submit, ApplyFill, ledger
<1>4. open' = open \/ open' = open \cup {orders + 1}
  BY DEF Submit, FillOf
<1> HIDE DEF f
<1>5. /\ fills \subseteq fills' /\ fills' \subseteq Fills
      /\ sent \in Seq(Fills) /\ \A j \in DOMAIN sent : sent[j] \in fills
  BY <1>1, <1>3 DEF IInv, QueueInv, QueueTypes, LedgerInv, LedgerTypes
<1>6. sent' \in Seq(Fills) /\ \A j \in DOMAIN sent' : sent'[j] \in fills'
  <2>1. CASE UNCHANGED <<fills, sent>>
    BY <1>5, <2>1
  <2>2. CASE f \in fills' /\ fills \subseteq fills' /\ sent' = Append(sent, f)
    <3>1. f \in Fills
      BY <1>5, <2>2
    <3>2. sent' \in Seq(Fills) /\ Len(sent) \in Nat /\ DOMAIN sent = 1..Len(sent)
      BY <1>5, <2>2, <3>1, AppendProperties, LenProperties
    <3>3. /\ Len(sent') = Len(sent) + 1 /\ DOMAIN sent' = 1..Len(sent')
          /\ \A j \in 1..Len(sent) : sent'[j] = sent[j]
          /\ sent'[Len(sent) + 1] = f
      BY <1>5, <2>2, <3>1, <3>2, AppendProperties, LenProperties
    <3>4. QED
      BY <1>5, <2>2, <3>2, <3>3
  <2>3. QED
    BY <1>3, <2>1, <2>2
<1>7. UNCHANGED stage /\ UNCHANGED row
  BY <1>2 DEF runner
<1>8. QueueInv'
  BY <1>2, <1>5, <1>6, <1>7, QueueUnchanged DEF IInv
<1>9. RunTypes'
  <2>1. open \subseteq Nat /\ orders + 1 \in Nat
    BY DEF IInv, RunTypes, LedgerInv, LedgerTypes
  <2>2. open' \subseteq Nat
    BY <1>4, <2>1
  <2>3. QED
    BY <1>2, <1>7, <2>2 DEF IInv, RunTypes
<1>10. SameDayLocked
  BY <1>1, <1>2 DEF SameDayLocked, IInv, LedgerInv, LedgerTypes, Dates
<1>11. QED
  BY <1>1, <1>8, <1>9, <1>10 DEF IInv

LEMMA DispatchInv ==
  ASSUME IInv, NEW q \in pending, DispatchBar(q) \/ DispatchFill(q)
  PROVE  IInv' /\ SameDayLocked
<1>1. UNCHANGED ledger
  <2>1. CASE DispatchFill(q)
    BY <2>1, DispatchFillLedger DEF IInv
  <2>2. CASE ~DispatchFill(q)
    BY <2>2 DEF DispatchBar
  <2>3. QED
    BY <2>1, <2>2
<1>2. /\ Begin(q) /\ UNCHANGED <<replay, current, lastDate, matcher, runner>>
      /\ handed' \in {handed, handed + 1}
  BY DEF DispatchBar, DispatchFill
<1>3. UNCHANGED <<orders, sent, open, fills, stage, row>>
  BY <1>1, <1>2 DEF matcher, ledger, runner
<1>4. LedgerInv' /\ SameDayLocked
  BY <1>1, <1>2, <1>3, LedgerKept DEF IInv
<1>5. QueueInv'
  BY <1>2, <1>3, BeginQueue DEF IInv
<1>6. RunTypes'
  BY <1>2, <1>3 DEF IInv, RunTypes
<1>7. QED
  BY <1>4, <1>5, <1>6 DEF IInv

LEMMA EngineTaskInv ==
  ASSUME IInv, EngineTask
  PROVE  IInv' /\ SameDayLocked
<1>1. CASE PeekFeed
  <2>1. UNCHANGED <<current, ledger, lastDate, orders, open, handed, stage, row>>
    BY <1>1 DEF PeekFeed, matcher, runner
  <2>2. LedgerInv' /\ SameDayLocked
    BY <2>1, LedgerKept DEF IInv
  <2>3. QueueInv'
    BY <1>1, PeekFeedQueue DEF IInv
  <2>4. RunTypes'
    BY <2>1 DEF IInv, RunTypes
  <2>5. QED
    BY <2>2, <2>3, <2>4 DEF IInv
<1>2. ASSUME NEW b \in replay, NEW shape \in Shapes, TakeBar(b, shape)
      PROVE  IInv' /\ SameDayLocked
  <2>1. b \in Slots /\ current[b.symbol].ts < b.ts
    BY DEF IInv, QueueInv, QueueTypes
  <2>2. LedgerInv'
    BY <1>2, <2>1, TakeBarLedger DEF IInv
  <2>3. QueueInv' /\ SameDayLocked
    BY <1>2, TakeBarQueue DEF IInv, SameDayLocked
  <2>4. RunTypes'
    BY <1>2 DEF TakeBar, matcher, runner, IInv, RunTypes
  <2>5. QED
    BY <2>2, <2>3, <2>4 DEF IInv
<1>3. ASSUME NEW q \in pending, DispatchBar(q) \/ DispatchFill(q)
      PROVE  IInv' /\ SameDayLocked
  BY <1>3, DispatchInv
<1>4. ASSUME NEW i \in Intents, Submit(i)
      PROVE  IInv' /\ SameDayLocked
  BY <1>4, SubmitInv
<1>5. ASSUME NEW id \in open, Cancel(id)
      PROVE  IInv' /\ SameDayLocked
  <2>1. /\ UNCHANGED <<engine, replay, current, ledger, lastDate, orders, sent, handed, fills, stage, row>>
        /\ open' \subseteq open
    BY <1>5 DEF Cancel, ledger, runner
  <2>2. LedgerInv' /\ SameDayLocked
    BY <2>1, LedgerKept DEF IInv
  <2>3. sent' \in Seq(Fills) /\ (\A i \in DOMAIN sent' : sent'[i] \in fills') /\ fills \subseteq fills'
    BY <2>1 DEF IInv, QueueInv, QueueTypes
  <2>4. QueueInv'
    BY <2>1, <2>3, QueueUnchanged DEF IInv
  <2>5. RunTypes'
    BY <2>1 DEF IInv, RunTypes
  <2>6. QED
    BY <2>2, <2>4, <2>5 DEF IInv
<1>6. CASE StrategyReturns
  <2>1. UNCHANGED <<current, ledger, lastDate, orders, open, handed, stage, row>>
    BY <1>6 DEF StrategyReturns, runner
  <2>2. LedgerInv' /\ SameDayLocked
    BY <2>1, LedgerKept DEF IInv
  <2>3. QueueInv'
    BY <1>6, StrategyReturnsQueue DEF IInv
  <2>4. RunTypes'
    BY <2>1 DEF IInv, RunTypes
  <2>5. QED
    BY <2>2, <2>3, <2>4 DEF IInv
<1>7. CASE StrategyFails
  <2>1. UNCHANGED <<outside, replay, row>> /\ stage' = "failed"
    BY <1>7 DEF StrategyFails, outside
  <2>2. LedgerInv' /\ QueueInv' /\ SameDayLocked
    BY <2>1, OutsideStep
  <2>3. RunTypes'
    BY <2>1 DEF outside, matcher, IInv, RunTypes
  <2>4. QED
    BY <2>2, <2>3 DEF IInv
<1>8. QED
  BY <1>1, <1>2, <1>3, <1>4, <1>5, <1>6, <1>7 DEF EngineTask

LEMMA NextInv ==
  ASSUME IInv, [Next]_vars
  PROVE  IInv' /\ SameDayLocked
<1>1. CASE SaveRunning \/ LoadFails \/ EngineReturns \/ SaveResult
  <2>1. UNCHANGED <<outside, replay>>
    BY <1>1 DEF SaveRunning, LoadFails, EngineReturns, SaveResult
  <2>2. stage' \in {"start", "load"} => stage \in {"start", "load"}
    BY <1>1 DEF SaveRunning, LoadFails, EngineReturns, SaveResult
  <2>3. /\ stage' \in {"start", "load", "engine", "done", "failed", "end"}
        /\ row' \in {"none", "running", "done", "failed"}
    BY <1>1 DEF SaveRunning, LoadFails, EngineReturns, SaveResult, IInv, RunTypes
  <2>4. RunTypes'
    BY <2>1, <2>3 DEF outside, matcher, IInv, RunTypes
  <2>5. QED
    BY <2>1, <2>2, <2>4, OutsideStep DEF IInv
<1>2. ASSUME NEW bars \in SUBSET Slots, LoadBars(bars)
      PROVE  IInv' /\ SameDayLocked
  <2>1. UNCHANGED <<current, ledger, lastDate, orders, open, handed, row>> /\ stage' = "engine"
    BY <1>2 DEF LoadBars, outside, matcher
  <2>2. LedgerInv' /\ SameDayLocked
    BY <2>1, LedgerKept DEF IInv
  <2>3. QueueInv'
    BY <1>2, LoadBarsQueue DEF IInv
  <2>4. RunTypes'
    BY <2>1 DEF IInv, RunTypes
  <2>5. QED
    BY <2>2, <2>3, <2>4 DEF IInv
<1>3. CASE EngineTask
  BY <1>3, EngineTaskInv
<1>4. CASE UNCHANGED vars
  <2>1. UNCHANGED <<outside, replay, stage, row>>
    BY <1>4 DEF vars, outside, runner
  <2>2. RunTypes'
    BY <2>1 DEF outside, matcher, IInv, RunTypes
  <2>3. QED
    BY <2>1, <2>2, OutsideStep DEF IInv
<1>5. QED
  BY <1>1, <1>2, <1>3, <1>4 DEF Next

-----------------------------------------------------------------------------
(* The end of a run *)

(* What is left of the bars has a first one. *)
LEMMA FirstBar ==
  ASSUME replay \subseteq Slots, replay # {}
  PROVE  NextBars # {}
<1> DEFINE times == {b.ts : b \in replay}
<1>1. \A b \in replay : b.ts \in Nat /\ b.symbol \in Nat
  <2>1. Symbols \subseteq Nat /\ 1..MaxTs \subseteq Nat
    BY BacktestAssumption
  <2>2. QED
    BY <2>1 DEF Slots
<1>2. times \subseteq Nat /\ times # {}
  BY <1>1
<1>3. PICK t \in times : \A u \in times : t <= u
  BY <1>2, LeastNat
<1> DEFINE symbols == {b.symbol : b \in {c \in replay : c.ts = t}}
<1>4. symbols \subseteq Nat /\ symbols # {}
  BY <1>1, <1>3
<1>5. PICK s \in symbols : \A x \in symbols : s <= x
  BY <1>4, LeastNat
<1>6. PICK b \in replay : b.ts = t /\ b.symbol = s
  BY <1>5
<1>7. ASSUME NEW c \in replay PROVE Precedes(b, c)
  <2>1. t <= c.ts
    BY <1>3
  <2>2. c.ts = t => s <= c.symbol
    BY <1>5
  <2>3. QED
    BY <1>1, <1>2, <1>3, <1>6, <2>1, <2>2 DEF Precedes
<1>8. QED
  BY <1>6, <1>7 DEF NextBars

LEMMA EndKept ==
  ASSUME IInv, EndInv, [Next]_vars
  PROVE  EndInv'
<1>1. CASE UNCHANGED <<pc, replay, pending, stage, row>>
  BY <1>1 DEF EndInv
<1>2. CASE PeekFeed
  <2>1. UNCHANGED <<replay, stage, row>> /\ stage = "engine" /\ timers = {}
    BY <1>2 DEF PeekFeed, runner, IInv, QueueInv, QueueTypes
  <2>2. pc \in {"peek", "taking"}
    BY <1>2 DEF PeekFeed, Peek, GroupTaken
  <2>3. row # "done"
    BY <2>2 DEF EndInv
  <2>4. pc' = "done" => replay = {} /\ pending' = {}
    <3>1. SUFFICES ASSUME pc' = "done" PROVE replay = {} /\ pending' = {}
      OBVIOUS
    <3>2. Heads = {} /\ pending = {} /\ UNCHANGED pending
      BY <1>2, <3>1 DEF PeekFeed, Peek, GroupTaken
    <3>3. replay = {}
      BY <3>2, FirstBar DEF Heads, IInv, QueueInv, QueueTypes
    <3>4. QED
      BY <3>2, <3>3
  <2>5. QED
    BY <2>1, <2>3, <2>4 DEF EndInv
<1>3. ASSUME NEW b \in replay, NEW shape \in Shapes, TakeBar(b, shape)
      PROVE  EndInv'
  <2>1. stage = "engine" /\ pc = "taking" /\ UNCHANGED <<pc, stage, row>>
    BY <1>3 DEF TakeBar, Take, runner
  <2>2. QED
    BY <2>1 DEF EndInv
<1>4. ASSUME NEW q \in pending, DispatchBar(q) \/ DispatchFill(q)
      PROVE  EndInv'
  <2>1. stage = "engine" /\ pc = "pop" /\ pc' = "handling" /\ UNCHANGED <<stage, row>>
    BY <1>4 DEF DispatchBar, DispatchFill, Begin, runner
  <2>2. QED
    BY <2>1 DEF EndInv
<1>5. CASE StrategyReturns
  <2>1. stage = "engine" /\ pc = "handling" /\ pc' = "peek" /\ UNCHANGED <<stage, row>>
    BY <1>5 DEF StrategyReturns, Finish, runner
  <2>2. QED
    BY <2>1 DEF EndInv
<1>6. CASE StrategyFails \/ LoadFails
  <2>1. stage' = "failed" /\ UNCHANGED <<pc, replay, pending, row>>
    BY <1>6 DEF StrategyFails, LoadFails, engine, outside
  <2>2. QED
    BY <2>1 DEF EndInv
<1>7. CASE SaveRunning
  <2>1. stage = "start" /\ stage' \in {"load", "end"} /\ row' \in {"running", row}
        /\ UNCHANGED <<pc, replay, pending>>
    BY <1>7 DEF SaveRunning, outside, engine
  <2>2. QED
    BY <2>1 DEF EndInv
<1>8. ASSUME NEW bars \in SUBSET Slots, LoadBars(bars)
      PROVE  EndInv'
  <2>1. stage = "load" /\ stage' = "engine" /\ UNCHANGED <<pc, pending, row>>
    BY <1>8 DEF LoadBars, outside, engine
  <2>2. QED
    BY <2>1 DEF EndInv
<1>9. CASE EngineReturns
  <2>1. pc = "done" /\ stage' = "done" /\ UNCHANGED <<pc, replay, pending, row>>
    BY <1>9 DEF EngineReturns, outside, engine
  <2>2. QED
    BY <2>1 DEF EndInv
<1>10. CASE SaveResult
  <2>1. row' \in {stage, row} /\ stage' = "end" /\ UNCHANGED <<pc, replay, pending>>
    BY <1>10 DEF SaveResult, outside, engine
  <2>2. QED
    BY <2>1 DEF EndInv
<1>11. ASSUME NEW i \in Intents, Submit(i) PROVE EndInv'
  BY <1>1, <1>11 DEF Submit, engine, runner
<1>12. ASSUME NEW id \in open, Cancel(id) PROVE EndInv'
  BY <1>1, <1>12 DEF Cancel, engine, runner
<1>13. CASE UNCHANGED vars
  BY <1>1, <1>13 DEF vars, engine, runner
<1>14. QED
  BY <1>2, <1>3, <1>4, <1>5, <1>6, <1>7, <1>8, <1>9, <1>10, <1>11, <1>12, <1>13
  DEF Next, EngineTask

(* A set that 1..n numbers has n elements. *)
LEMMA NumberedSet ==
  ASSUME NEW n \in Nat, NEW S, NEW f \in [1..n -> S],
         \A i, j \in 1..n : f[i] = f[j] => i = j,
         \A x \in S : \E i \in 1..n : f[i] = x
  PROVE  IsFiniteSet(S) /\ Cardinality(S) = n
<1>1. f \in Bijection(1..n, S)
  BY DEF Bijection, Injection, Surjection, IsInjective
<1>2. ExistsBijection(1..n, S)
  BY <1>1 DEF ExistsBijection
<1>3. IsFiniteSet(1..n) /\ Cardinality(1..n) = n
  BY FS_Interval
<1>4. QED
  BY <1>2, <1>3, FS_Bijection

(* A step that neither queues, hands on nor books a fill. *)
LEMMA HandedUnchanged ==
  ASSUME HandedInv, FillsQueued' = FillsQueued, IsFiniteSet(pending'),
         \A q \in pending' : q.seq <= seq', UNCHANGED <<sent, orders, handed, fills>>
  PROVE  HandedInv'
BY DEF HandedInv

LEMMA PeekFeedHanded ==
  ASSUME IInv, HandedInv, PeekFeed
  PROVE  HandedInv'
<1>1. UNCHANGED <<pending, seq, sent, orders, handed, fills>>
  BY DEF PeekFeed, Peek, GroupTaken, matcher, ledger, IInv, QueueInv, QueueTypes
<1>2. QED
  BY <1>1, HandedUnchanged DEF HandedInv, FillsQueued

LEMMA TakeBarHanded ==
  ASSUME IInv, HandedInv, NEW b \in replay, NEW shape \in Shapes, TakeBar(b, shape)
  PROVE  HandedInv'
<1> DEFINE new == Queued("Bar", b.ts, b.symbol, seq + 1)
<1>1. /\ pending' = pending \cup {new} /\ seq' = seq + 1
      /\ UNCHANGED <<sent, orders, handed, fills>>
  BY DEF TakeBar, Take, matcher, MarkToMarket
<1>2. new.kind = "Bar" /\ new.seq = seq + 1
  BY DEF Queued
<1>3. seq \in Nat /\ \A q \in pending : q.seq \in Nat
  BY DEF IInv, QueueInv, QueueTypes, QueuedEvents
<1> HIDE DEF new
<1>4. FillsQueued' = FillsQueued
  BY <1>1, <1>2 DEF FillsQueued
<1>5. IsFiniteSet(pending')
  BY <1>1, FS_AddElement DEF HandedInv
<1>6. \A q \in pending' : q.seq <= seq'
  BY <1>1, <1>2, <1>3 DEF HandedInv
<1>7. QED
  BY <1>1, <1>4, <1>5, <1>6, HandedUnchanged

LEMMA DispatchHanded ==
  ASSUME IInv, HandedInv, NEW q \in pending, DispatchBar(q) \/ DispatchFill(q)
  PROVE  HandedInv'
<1>1. UNCHANGED <<seq, sent, orders, fills>> /\ pending' = pending \ {q}
  <2>1. UNCHANGED fills
    BY DispatchFillLedger DEF DispatchBar, ledger, IInv
  <2>2. QED
    BY <2>1 DEF DispatchBar, DispatchFill, Begin, matcher, IInv, QueueInv, QueueTypes
<1>2. IsFiniteSet(pending') /\ \A r \in pending' : r.seq <= seq'
  BY <1>1, FS_RemoveElement DEF HandedInv
<1>3. CASE DispatchBar(q)
  <2>1. FillsQueued' = FillsQueued /\ UNCHANGED handed
    BY <1>1, <1>3 DEF DispatchBar, FillsQueued
  <2>2. QED
    BY <1>1, <1>2, <2>1, HandedUnchanged
<1>4. CASE DispatchFill(q)
  <2>1. q \in FillsQueued /\ FillsQueued' = FillsQueued \ {q} /\ handed' = handed + 1
    BY <1>1, <1>4 DEF DispatchFill, FillsQueued
  <2>2. IsFiniteSet(FillsQueued)
    BY FS_Subset DEF HandedInv, FillsQueued
  <2>3. Cardinality(FillsQueued') = Cardinality(FillsQueued) - 1 /\ Cardinality(FillsQueued) \in Nat
    BY <2>1, <2>2, FS_RemoveElement, FS_CardinalityType
  <2>4. handed \in Nat /\ Len(sent) \in Nat
    BY LenProperties DEF IInv, RunTypes, QueueInv, QueueTypes
  <2>5. handed' + Cardinality(FillsQueued') = handed + Cardinality(FillsQueued)
    BY <2>1, <2>3, <2>4
  <2>6. QED
    BY <1>1, <1>2, <2>5 DEF HandedInv
<1>5. QED
  BY <1>3, <1>4

LEMMA SubmitHanded ==
  ASSUME IInv, HandedInv, NEW i \in Intents, Submit(i)
  PROVE  HandedInv'
<1> DEFINE f == FillOf(i, current[i.symbol])
<1>1. UNCHANGED <<pending, seq, handed>> /\ orders' = orders + 1 /\ orders < MaxOrders
  BY DEF Submit, engine
<1>2. \/ UNCHANGED <<fills, sent>>
      \/ fills' = fills \cup {f} /\ sent' = Append(sent, f) /\ f \notin fills
  <2>1. f.id = orders + 1 /\ orders \in Nat /\ \A g \in fills : g.id <= orders /\ g.id \in Nat
    BY DEF FillOf, IInv, LedgerInv, LedgerTypes, Fills
  <2> HIDE DEF f
  <2>2. f \notin fills
    BY <2>1
  <2>3. \/ UNCHANGED <<ledger, sent>>
        \/ ApplyFill(f) /\ sent' = Append(sent, f)
    BY DEF Submit, f
  <2>4. QED
    BY <2>2, <2>3 DEF ApplyFill, ledger
<1>3. /\ sent \in Seq(Fills) /\ Len(sent) \in Nat /\ orders \in Nat /\ IsFiniteSet(fills)
      /\ handed \in Nat /\ MaxOrders \in Nat /\ sent' \in Seq(Fills)
      /\ Len(sent) <= orders /\ IsFiniteSet(fills)
  BY SubmitInv, LenProperties, BacktestAssumption
  DEF IInv, QueueInv, QueueTypes, LedgerInv, LedgerTypes, RunTypes, HandedInv
<1>4. Cardinality(FillsQueued) \in Nat /\ Cardinality(fills) \in Nat
  BY <1>3, FS_Subset, FS_CardinalityType DEF HandedInv, FillsQueued
<1> HIDE DEF f
<1>5. CASE UNCHANGED <<fills, sent>>
  <2>1. Len(sent') <= orders' /\ orders' <= MaxOrders
    BY <1>1, <1>3, <1>5
  <2>2. QED
    BY <1>1, <1>5, <2>1 DEF HandedInv, FillsQueued
<1>6. CASE fills' = fills \cup {f} /\ sent' = Append(sent, f) /\ f \notin fills
  <2>1. Cardinality(fills') = Cardinality(fills) + 1
    BY <1>3, <1>6, FS_AddElement
  <2>2. Len(sent') = Len(sent) + 1
    BY <1>3, <1>6
  <2>3. Len(sent') <= orders' /\ orders' <= MaxOrders
    BY <1>1, <1>3, <2>2
  <2>4. FillsQueued' = FillsQueued
    BY <1>1 DEF FillsQueued
  <2>5. MaxOrders <= Capacity =>
          handed + Cardinality(FillsQueued) + Len(sent') = Cardinality(fills')
    BY <1>3, <1>4, <2>1, <2>2 DEF HandedInv
  <2>6. QED
    BY <1>1, <2>3, <2>4, <2>5 DEF HandedInv
<1>7. QED
  BY <1>2, <1>5, <1>6

LEMMA StrategyReturnsHanded ==
  ASSUME IInv, HandedInv, StrategyReturns
  PROVE  HandedInv'
<1> DEFINE received == Received(sent)
           entries  == {Queued("Fill", received[i].ts, received[i], seq + i) : i \in 1..Len(received)}
<1>1. received \in Seq(Fills) /\ Len(received) \in Nat /\ DOMAIN received = 1..Len(received)
  <2>1. received \in Seq(fills \cap Fills)
    BY ReceivedAreSent DEF IInv
  <2>2. received \in Seq(Fills)
    BY <2>1
  <2>3. QED
    BY <2>2, LenProperties
<1>2. /\ UNCHANGED <<orders, handed, fills>> /\ sent' = <<>>
      /\ pending' = pending \cup entries /\ seq' = seq + Len(received)
  BY <1>1 DEF StrategyReturns, Finish, ledger, IInv, QueueInv, QueueTypes
<1>3. /\ seq \in Nat /\ \A q \in pending : q.seq \in Nat /\ q.seq <= seq
      /\ Len(sent) \in Nat /\ orders \in Nat /\ handed \in Nat
  BY LenProperties
  DEF IInv, QueueInv, QueueTypes, QueuedEvents, HandedInv, LedgerInv, LedgerTypes, RunTypes
<1>4. MaxOrders <= Capacity => Len(received) = Len(sent)
  BY <1>3, BacktestAssumption, EngineAssumption DEF HandedInv, Received
<1> HIDE DEF received
<1>5. IsFiniteSet(entries) /\ Cardinality(entries) = Len(received)
  <2> DEFINE n == Len(received)
             entry == [i \in 1..n |-> Queued("Fill", received[i].ts, received[i], seq + i)]
  <2>1. entry \in [1..n -> entries] /\ \A e \in entries : \E i \in 1..n : entry[i] = e
    OBVIOUS
  <2>2. \A i \in 1..n : entry[i].seq = seq + i
    BY DEF Queued
  <2>3. n \in Nat
    BY <1>1
  <2> HIDE DEF n, entry, entries
  <2>4. ASSUME NEW i \in 1..n, NEW j \in 1..n, entry[i] = entry[j]
        PROVE  i = j
    <3>1. seq + i = seq + j
      BY <2>2, <2>4
    <3>2. QED
      BY <1>3, <2>3, <3>1
  <2>5. IsFiniteSet(entries) /\ Cardinality(entries) = n
    BY <2>1, <2>3, <2>4, NumberedSet
  <2>6. QED
    BY <2>5 DEF n
<1>6. \A q \in entries : q.kind = "Fill" /\ \E i \in 1..Len(received) : q.seq = seq + i
  BY DEF Queued
<1> HIDE DEF entries
<1>7. IsFiniteSet(FillsQueued) /\ IsFiniteSet(pending)
  BY FS_Subset DEF HandedInv, FillsQueued
<1>8. FillsQueued' = FillsQueued \cup entries
  BY <1>2, <1>6 DEF FillsQueued
<1>9. FillsQueued \cap entries = {}
  <2>1. \A q \in entries : q.seq > seq
    BY <1>1, <1>3, <1>6
  <2>2. QED
    BY <1>3, <2>1 DEF FillsQueued
<1>10. Cardinality(FillsQueued') = Cardinality(FillsQueued) + Len(received)
       /\ Cardinality(FillsQueued) \in Nat
  <2>1. Cardinality(FillsQueued \cup entries)
          = Cardinality(FillsQueued) + Cardinality(entries) - Cardinality(FillsQueued \cap entries)
    BY <1>5, <1>7, FS_Union
  <2>2. Cardinality(FillsQueued \cap entries) = 0 /\ Cardinality(FillsQueued) \in Nat
    BY <1>7, <1>9, FS_EmptySet, FS_CardinalityType
  <2>3. QED
    BY <1>1, <1>5, <1>8, <2>1, <2>2
<1>11. IsFiniteSet(pending')
  BY <1>2, <1>5, <1>7, FS_Union
<1>12. \A q \in pending' : q.seq <= seq'
  <2>1. SUFFICES ASSUME NEW q \in pending' PROVE q.seq <= seq + Len(received)
    BY <1>2
  <2>2. CASE q \in pending
    BY <1>1, <1>3, <2>2
  <2>3. CASE q \in entries
    BY <1>1, <1>3, <1>6, <2>3
  <2>4. QED
    BY <1>2, <2>2, <2>3
<1>13. Len(sent') = 0 /\ Len(sent') <= orders'
  BY <1>2, <1>3
<1>14. MaxOrders <= Capacity =>
         handed' + Cardinality(FillsQueued') + Len(sent') = Cardinality(fills')
  BY <1>2, <1>3, <1>4, <1>10, <1>13 DEF HandedInv
<1>15. QED
  BY <1>2, <1>11, <1>12, <1>13, <1>14 DEF HandedInv

LEMMA HandedKept ==
  ASSUME IInv, HandedInv, [Next]_vars
  PROVE  HandedInv'
<1>1. CASE UNCHANGED <<pending, seq, sent, orders, handed, fills>>
  BY <1>1, HandedUnchanged DEF HandedInv, FillsQueued
<1>2. CASE SaveRunning \/ LoadFails \/ EngineReturns \/ SaveResult \/ StrategyFails
  BY <1>1, <1>2
  DEF SaveRunning, LoadFails, EngineReturns, SaveResult, StrategyFails, outside, engine,
      ledger, matcher
<1>3. ASSUME NEW bars \in SUBSET Slots, LoadBars(bars) PROVE HandedInv'
  BY <1>1, <1>3 DEF LoadBars, outside, engine, ledger, matcher
<1>4. ASSUME NEW id \in open, Cancel(id) PROVE HandedInv'
  BY <1>1, <1>4 DEF Cancel, engine, ledger
<1>5. CASE UNCHANGED vars
  BY <1>1, <1>5 DEF vars, engine, ledger, matcher
<1>6. QED
  BY <1>2, <1>3, <1>4, <1>5, PeekFeedHanded, TakeBarHanded, DispatchHanded, SubmitHanded,
     StrategyReturnsHanded
  DEF Next, EngineTask

LEMMA InitComplete == Init => EndInv /\ HandedInv
<1> SUFFICES ASSUME Init PROVE EndInv /\ HandedInv
  OBVIOUS
<1>1. pc = "peek" /\ stage = "start" /\ row = "none"
  BY DEF Init, EngineInit
<1>2. pending = {} /\ FillsQueued = {} /\ fills = {} /\ sent = <<>> /\ orders = 0 /\ handed = 0
  BY DEF Init, EngineInit, FillsQueued
<1>3. IsFiniteSet({}) /\ Cardinality({}) = 0
  BY FS_EmptySet
<1>4. EndInv
  BY <1>1 DEF EndInv
<1>5. Len(sent) = 0 /\ MaxOrders \in Nat
  BY <1>2, BacktestAssumption
<1>6. HandedInv
  BY <1>2, <1>3, <1>5 DEF HandedInv
<1>7. QED
  BY <1>4, <1>6

-----------------------------------------------------------------------------
(***************************************************************************)
(* The inductive invariant: the books, what of them is in the channel and  *)
(* the heap, and the order of what is still to be taken and handled.       *)
(***************************************************************************)
THEOREM Invariance == Spec => []IInv
<1>1. Init => IInv
  BY InitInv
<1>2. IInv /\ [Next]_vars => IInv'
  BY NextInv
<1>3. QED
  BY <1>1, <1>2, PTL DEF Spec

(***************************************************************************)
(* Types: in any backtest every position stays a natural number.           *)
(***************************************************************************)
THEOREM TypeCorrect == Spec => []TypeOK
<1>1. IInv => TypeOK
  BY DEF IInv, LedgerInv, QueueInv, TypeOK
<1>2. QED
  BY <1>1, Invariance, PTL

(***************************************************************************)
(* Cash and positions are those of the fills: apply_fill, called twice for *)
(* each of them, books it once.                                            *)
(***************************************************************************)
THEOREM FillsBookedOnce == Spec => []BooksAreFills
<1>1. IInv => BooksAreFills
  BY DEF IInv, LedgerInv
<1>2. QED
  BY <1>1, Invariance, PTL

(***************************************************************************)
(* Whatever slippage below the price and whatever fees, no buy overdraws   *)
(* the ledger, and sales do by no more than their fees exceed what they    *)
(* bring in; the locked and the available shares of a position are all of  *)
(* it, and none is negative (assert_account_can_fill).                     *)
(***************************************************************************)
THEOREM LedgerSound == Spec => []LedgerHolds
<1>1. IInv => LedgerHolds
  BY DEF IInv, LedgerInv, LedgerTypes, LedgerHolds
<1>2. QED
  BY <1>1, Invariance, PTL

(* The account's own total is what its fills are worth. *)
LEMMA ValueOfFills ==
  ASSUME LedgerInv
  PROVE  TotalValue(cash, total, mark) = WorthOfFills
<1> DEFINE held == [s \in Symbols |-> total[s] * mark[s]]
           left == [s \in Symbols |-> (LotsOf("Buy", s) - LotsOf("Sell", s)) * LastPrice(s)]
<1>1. ASSUME NEW s \in Symbols PROVE held[s] = left[s] /\ held[s] \in Nat
  <2>1. LotsOf("Buy", s) \in Nat /\ LotsOf("Sell", s) \in Nat
    BY LotsType DEF LedgerInv
  <2>2. total[s] \in Nat /\ total[s] + LotsOf("Sell", s) = LotsOf("Buy", s)
    BY DEF LedgerInv, LedgerTypes, BooksAreFills
  <2>3. LotsOf("Buy", s) - LotsOf("Sell", s) = total[s]
    BY <2>1, <2>2
  <2>4. mark[s] \in Nat /\ LastPrice(s) \in Nat /\ (total[s] > 0 => mark[s] = LastPrice(s))
    BY DEF LedgerInv, LedgerTypes, MarksFollow
  <2>5. total[s] * mark[s] = total[s] * LastPrice(s) /\ total[s] * mark[s] \in Nat
    <3>1. CASE total[s] = 0
      BY <2>4, <3>1
    <3>2. CASE total[s] # 0
      BY <2>2, <2>4, <3>2, Product
    <3>3. QED
      BY <3>1, <3>2
  <2>6. QED
    BY <2>3, <2>5
<1>2. TotalValue(cash, total, mark) = cash + SumOver(held, Symbols)
  BY DEF TotalValue
<1>3. WorthOfFills = InitialCash + Earned - Spent + SumOver(left, Symbols)
  BY DEF WorthOfFills
<1> HIDE DEF held, left
<1>4. SumOver(held, Symbols) = SumOver(left, Symbols) /\ SumOver(held, Symbols) \in Nat
  BY <1>1, SumSame, SumType, BacktestAssumption
<1>5. Earned \in Nat /\ Spent \in Nat
  BY BooksType DEF LedgerInv
<1>6. cash + Spent = InitialCash + Earned /\ cash \in Int /\ InitialCash \in Nat
  BY BacktestAssumption DEF LedgerInv, LedgerTypes, BooksAreFills
<1>7. cash = InitialCash + Earned - Spent
  BY <1>5, <1>6
<1>8. QED
  BY <1>2, <1>3, <1>4, <1>5, <1>6, <1>7

(***************************************************************************)
(* The last entry of the equity curve is what all fills so far are worth,  *)
(* each symbol at its last price, unless the last fill was of a symbol     *)
(* without a bar of the date (apply_fill, mark_to_market).                 *)
(***************************************************************************)
THEOREM CurveFollows == Spec => []EquityFollows
<1>1. IInv => EquityFollows
  BY ValueOfFills DEF IInv, LedgerInv, EquityRecorded, EquityFollows
<1>2. QED
  BY <1>1, Invariance, PTL

(***************************************************************************)
(* The matcher has no bar that is later than what is still to be handled.  *)
(***************************************************************************)
THEOREM NothingAhead == Spec => []NoLookAhead
<1>1. IInv => NoLookAhead
  BY DEF IInv, QueueInv
<1>2. QED
  BY <1>1, Invariance, PTL

(***************************************************************************)
(* What was bought of a share on a trading date is not sold before the     *)
(* next one, and trading dates only move forward.                          *)
(***************************************************************************)
THEOREM SettledNextDay == Spec => TPlusOne
<1>1. IInv /\ [Next]_vars =>
        [/\ lastDate' >= lastDate
         /\ lastDate' = lastDate => \A s \in Symbols \ Etfs : locked'[s] >= locked[s]]_vars
  BY NextInv DEF SameDayLocked
<1>2. QED
  BY <1>1, Invariance, PTL DEF Spec, TPlusOne

(***************************************************************************)
(* A run whose row says done has replayed every bar and dispatched every   *)
(* event, and its strategies were told of every fill but those of          *)
(* on_shutdown, unless the channel is too short for the orders of a run.   *)
(***************************************************************************)
THEOREM DoneComplete == Spec => []DoneIsComplete
<1>1. Init => EndInv /\ HandedInv
  BY InitComplete
<1>2. IInv /\ EndInv /\ HandedInv /\ [Next]_vars => EndInv' /\ HandedInv'
  BY EndKept, HandedKept
<1>3. IInv /\ EndInv /\ HandedInv => DoneIsComplete
  <2>1. SUFFICES ASSUME IInv, EndInv, HandedInv, row = "done"
                 PROVE  /\ replay = {} /\ pending = {} /\ timers = {}
                        /\ MaxOrders <= Capacity => handed + Len(sent) = Cardinality(fills)
    BY DEF DoneIsComplete
  <2>2. replay = {} /\ pending = {} /\ timers = {}
    BY <2>1 DEF EndInv, IInv, QueueInv, QueueTypes
  <2>3. Cardinality(FillsQueued) = 0
    BY <2>2, FS_EmptySet DEF FillsQueued
  <2>4. handed \in Nat /\ Len(sent) \in Nat
    BY <2>1, LenProperties DEF IInv, RunTypes, QueueInv, QueueTypes
  <2>5. QED
    BY <2>1, <2>2, <2>3, <2>4 DEF HandedInv
<1>4. QED
  BY <1>1, <1>2, <1>3, Invariance, PTL DEF Spec

-----------------------------------------------------------------------------
(***************************************************************************)
(* The price limits.  Three parts work them out for themselves, and two of *)
(* them do not round; no board and no previous price lets them disagree by *)
(* a cent.                                                                 *)
(***************************************************************************)
LEMMA Percents ==
  ASSUME NEW board \in Boards
  PROVE  LimitUpPct(board) \in 10..30
BY DEF Boards, LimitUpPct

(* round_dp to cents is within half a cent and keeps the order. *)
LEMMA RoundedToCents ==
  ASSUME NEW n \in Nat
  PROVE  /\ RoundDp(n, 100) \in Nat
         /\ n - 50 <= 100 * RoundDp(n, 100) /\ 100 * RoundDp(n, 100) <= n + 50
<1> DEFINE q == n \div 100
           r == n % 100
<1>1. q \in Nat /\ r \in 0..99 /\ n = 100 * q + r
  OBVIOUS
<1>2. RoundDp(n, 100) = IF 2 * r < 100 \/ (2 * r = 100 /\ q % 2 = 0) THEN q ELSE q + 1
  BY DEF RoundDp
<1> HIDE DEF q, r
<1>3. \/ RoundDp(n, 100) = q /\ 2 * r <= 100
      \/ RoundDp(n, 100) = q + 1 /\ 2 * r >= 100
  BY <1>1, <1>2
<1>4. QED
  BY <1>1, <1>3

LEMMA RoundingKeepsOrder ==
  ASSUME NEW n \in Nat, NEW m \in Nat, n <= m
  PROVE  RoundDp(n, 100) <= RoundDp(m, 100)
<1> DEFINE q == n \div 100
           r == n % 100
           p == m \div 100
           t == m % 100
<1>1. q \in Nat /\ r \in 0..99 /\ n = 100 * q + r /\ p \in Nat /\ t \in 0..99 /\ m = 100 * p + t
  OBVIOUS
<1>2. /\ RoundDp(n, 100) = IF 2 * r < 100 \/ (2 * r = 100 /\ q % 2 = 0) THEN q ELSE q + 1
      /\ RoundDp(m, 100) = IF 2 * t < 100 \/ (2 * t = 100 /\ p % 2 = 0) THEN p ELSE p + 1
  BY DEF RoundDp
<1> HIDE DEF q, r, p, t
<1>3. q < p \/ (q = p /\ r <= t)
  BY <1>1
<1>4. CASE q < p
  BY <1>1, <1>2, <1>4
<1>5. CASE q = p /\ r <= t
  BY <1>1, <1>2, <1>5
<1>6. QED
  BY <1>3, <1>4, <1>5

(***************************************************************************)
(* A price that the backtest accepts, or a bar that the cleaning of market *)
(* data lets pass, is in the band of the paper engine, and strictly inside *)
(* that band they all agree, for every board and every previous price.     *)
(***************************************************************************)
THEOREM BandsAgree == \A pre \in Nat, board \in Boards : BandsNest(pre, board)
<1>1. SUFFICES ASSUME NEW pre \in Nat, NEW board \in Boards PROVE BandsNest(pre, board)
  OBVIOUS
<1> DEFINE pct == LimitUpPct(board)
           above == pre * (100 + pct)
           below == pre * (100 - pct)
           up == RoundDp(above, 100)
           down == RoundDp(below, 100)
<1>2. pct \in 10..30 /\ 100 + pct \in Nat /\ 100 - pct \in Nat
  BY Percents
<1>3. above \in Nat /\ below \in Nat
  BY <1>2, Product
<1>4. /\ up \in Nat /\ above - 50 <= 100 * up /\ 100 * up <= above + 50
      /\ down \in Nat /\ below - 50 <= 100 * down /\ 100 * down <= below + 50
  BY <1>3, RoundedToCents
<1>5. SUFFICES ASSUME NEW price \in 0..(2 * pre)
               PROVE  /\ InBacktestBand(price, pre, board) => InPaperBand(price, pre, board)
                      /\ PriceWithinLimit(price, price, pre, board) => InPaperBand(price, pre, board)
                      /\ price \in (down + 1)..(up - 1) =>
                           /\ InBacktestBand(price, pre, board)
                           /\ PriceWithinLimit(price, price, pre, board)
  BY DEF BandsNest, LimitPrices
<1>6. InPaperBand(price, pre, board) <=> price \in down..up
  BY DEF InPaperBand, LimitPrices
<1>7. InBacktestBand(price, pre, board) <=> below < 100 * price /\ 100 * price < above
  BY DEF InBacktestBand, AboveLower, BelowUpper
<1>8. PriceWithinLimit(price, price, pre, board) <=>
        pre > 0 /\ 100 * price <= above /\ 100 * price >= below
  BY DEF PriceWithinLimit
<1>9. price \in Nat /\ price <= 2 * pre
  OBVIOUS
<1>10. pre = 0 => above = 0 /\ below = 0
  BY <1>2
<1> HIDE DEF up, down, above, below, pct
<1>11. 100 * price <= above /\ 100 * price >= below => price \in down..up
  BY <1>3, <1>4, <1>9
<1>12. price \in (down + 1)..(up - 1) => below < 100 * price /\ 100 * price < above /\ pre > 0
  BY <1>3, <1>4, <1>9, <1>10
<1>13. QED
  BY <1>3, <1>6, <1>7, <1>8, <1>9, <1>11, <1>12

(***************************************************************************)
(* A limit-up signal is at a price of the band of every board, and the     *)
(* gate of the paper engine's matcher lets the buy through, if the seal    *)
(* the strategy asks for is stronger than the matcher's.                   *)
(***************************************************************************)
THEOREM SealsTrade ==
  \A snap \in [pre : Nat, last : Nat, bids : Nat, asks : Nat], board \in Boards :
    \A ratio, least, multiplier \in Nat : SealsAreTraded(snap, board, ratio, least, multiplier)
<1>1. SUFFICES ASSUME NEW snap \in [pre : Nat, last : Nat, bids : Nat, asks : Nat],
                      NEW board \in Boards,
                      NEW ratio \in Nat, NEW least \in Nat, NEW multiplier \in Nat,
                      ratio > multiplier, least > 0, IsSealed(snap, 10, ratio, least)
               PROVE  InPaperBand(snap.last, snap.pre, board)
                      /\ ~GateBlocked("Buy", snap, board, multiplier)
  BY DEF SealsAreTraded, LimitUpSignals
<1> DEFINE pct == LimitUpPct(board)
           pre == snap.pre
<1>2. pct \in 10..30 /\ pre \in Nat /\ snap.bids \in Nat /\ snap.asks \in Nat
  BY Percents
<1>3. /\ snap.last = RoundDp(pre * 110, 100) /\ snap.bids >= least
      /\ snap.asks > 0 => snap.bids >= snap.asks * ratio
  BY <1>1 DEF IsSealed
<1>4. /\ pre * (100 - pct) <= pre * 110 /\ pre * 110 <= pre * (100 + pct)
      /\ pre * (100 - pct) \in Nat /\ pre * 110 \in Nat /\ pre * (100 + pct) \in Nat
  <2>1. \A a, b \in Nat : a <= b => pre * a <= pre * b /\ pre * a \in Nat /\ pre * b \in Nat
    BY <1>2, Product
  <2>2. 100 - pct \in Nat /\ 100 + pct \in Nat /\ 100 - pct <= 110 /\ 110 <= 100 + pct
    BY <1>2
  <2>3. QED
    BY <2>1, <2>2
<1>5. InPaperBand(snap.last, snap.pre, board)
  <2>1. RoundDp(pre * (100 - pct), 100) <= snap.last
        /\ snap.last <= RoundDp(pre * (100 + pct), 100)
    BY <1>3, <1>4, RoundingKeepsOrder
  <2>2. QED
    BY <1>4, <2>1, RoundedToCents DEF InPaperBand, LimitPrices
<1>6. snap.bids > multiplier * snap.asks
  <2>1. CASE snap.asks = 0
    BY <1>1, <1>2, <1>3, <2>1
  <2>2. CASE snap.asks > 0
    <3>1. snap.asks * ratio > multiplier * snap.asks
      BY <1>1, <1>2, <2>2
    <3>2. QED
      BY <1>2, <1>3, <2>2, <3>1, Product
  <2>3. QED
    BY <1>2, <2>1, <2>2
<1>7. ~GateBlocked("Buy", snap, board, multiplier)
  BY <1>2, <1>6, Product DEF GateBlocked
<1>8. QED
  BY <1>5, <1>7

-----------------------------------------------------------------------------
(* The report of a run: sums over lists, which may be negative *)

LEMMA DivType ==
  ASSUME NEW x \in Int, NEW l \in Nat \ {0} PROVE x \div l \in Int
OBVIOUS

LEMMA DivExact ==
  ASSUME NEW m \in Int, NEW l \in Nat \ {0} PROVE (m * l) \div l = m
OBVIOUS

LEMMA DivWhole ==
  ASSUME NEW x \in Nat, NEW l \in Nat \ {0}, x % l = 0
  PROVE  x \div l \in Nat /\ x = (x \div l) * l
OBVIOUS

LEMMA MulType ==
  ASSUME NEW a \in Int, NEW b \in Int PROVE a * b \in Int
OBVIOUS

LEMMA Regroup ==
  ASSUME NEW k \in Int, NEW l \in Int, NEW f \in Int, NEW n \in Int
  PROVE  ((k * l) * f) * n = ((k * f) * n) * l
OBVIOUS

AddsUp(sum, list, N) ==
  sum[0] = 0 /\ \A n \in 1..N : sum[n] = sum[n - 1] + list[n]

(* A sum is that of one place less, and the last value. *)
LEMMA SumOfLoop ==
  ASSUME NEW N \in Nat, NEW list, Len(list) = N, \A i \in 1..N : list[i] \in Int
  PROVE  \E sum \in [0..N -> Int] :
           AddsUp(sum, list, N) /\ SumOf(list) = sum[N]
<1> DEFINE next == [p \in (1..N) \X Int |-> p[2] + list[p[1]]]
           Sums(g) == g = [n \in 0..N |-> IF n = 0 THEN 0 ELSE g[n - 1] + list[n]]
           upTo == CHOOSE g : Sums(g)
<1>1. next \in [(1..N) \X Int -> Int]
  OBVIOUS
<1>2. \A n \in 1..N, x \in Int : next[<<n, x>>] = x + list[n]
  OBVIOUS
<1> HIDE DEF next
<1>3. PICK f \in [0..N -> Int] : Loops(f, 0, next, N)
  <2> DEFINE ints == Int
  <2>1. 0 \in ints /\ next \in [(1..N) \X ints -> ints]
    BY <1>1
  <2> HIDE DEF ints
  <2>2. \E f \in [0..N -> ints] : Loops(f, 0, next, N)
    BY <2>1, Iterates
  <2>3. QED
    BY <2>2 DEF ints
<1>4. ASSUME NEW n \in 1..N PROVE f[n] = f[n - 1] + list[n]
  <2>1. n - 1 \in 0..N /\ f[n - 1] \in Int
    OBVIOUS
  <2>2. f[n] = next[<<n, f[n - 1]>>]
    BY <1>3 DEF Loops
  <2>3. QED
    BY <1>2, <2>1, <2>2
<1>5. Sums(f)
  <2>1. \A n \in 0..N : f[n] = IF n = 0 THEN 0 ELSE f[n - 1] + list[n]
    BY <1>3, <1>4 DEF Loops
  <2>2. f = [n \in 0..N |-> f[n]]
    BY <1>3
  <2>3. QED
    BY <2>1, <2>2
<1>6. Sums(upTo)
  <2> HIDE DEF Sums
  <2>1. QED
    BY <1>5
<1>7. SumOf(list) = upTo[N]
  BY DEF SumOf
<1> HIDE DEF upTo
<1>8. upTo[0] = 0 /\ \A n \in 1..N : upTo[n] = upTo[n - 1] + list[n]
  BY <1>6
<1> DEFINE good == {n \in 0..N : upTo[n] \in Int}
<1>9. \A n \in 0..N : n \in good
  <2>1. 0 \in good
    BY <1>8
  <2>2. \A n \in 1..N : n - 1 \in good => n \in good
    BY <1>8
  <2> HIDE DEF good
  <2>3. QED
    BY <2>1, <2>2, Climb
<1>10. upTo \in [0..N -> Int]
  BY <1>6, <1>9
<1>11. QED
  BY <1>7, <1>8, <1>10 DEF AddsUp

(* Two sums of the same values are equal, whatever the sequences are. *)
LEMMA SumOfUnique ==
  ASSUME NEW N \in Nat, NEW f, NEW g, NEW a, NEW b,
         AddsUp(f, a, N), AddsUp(g, b, N), \A n \in 1..N : a[n] = b[n]
  PROVE  f[N] = g[N]
<1> USE DEF AddsUp
<1> DEFINE good == {n \in 0..N : f[n] = g[n]}
<1>1. 0 \in good
  OBVIOUS
<1>2. \A n \in 1..N : n - 1 \in good => n \in good
  OBVIOUS
<1> HIDE DEF good
<1>3. \A n \in 0..N : n \in good
  BY <1>1, <1>2, Climb
<1>4. QED
  BY <1>3 DEF good

(* The sum of the first n values of a function. *)
Total(e, n) == SumOf([j \in 1..n |-> e[j]])

LEMMA TotalIs ==
  ASSUME NEW N \in Nat, NEW list, Len(list) = N, \A i \in 1..N : list[i] \in Int,
         NEW e, \A i \in 1..N : e[i] = list[i]
  PROVE  SumOf(list) = Total(e, N) /\ Total(e, N) \in Int
<1> DEFINE other == [j \in 1..N |-> e[j]]
<1>1. Len(other) = N /\ \A i \in 1..N : other[i] = list[i] /\ other[i] \in Int
  OBVIOUS
<1> HIDE DEF other
<1>2. PICK f \in [0..N -> Int] :
        AddsUp(f, list, N) /\ SumOf(list) = f[N]
  BY SumOfLoop
<1>3. PICK g \in [0..N -> Int] :
        AddsUp(g, other, N) /\ SumOf(other) = g[N]
  BY <1>1, SumOfLoop
<1>4. f[N] = g[N]
  <2>1. \A n \in 1..N : list[n] = other[n]
    BY <1>1
  <2>2. QED
    BY <1>2, <1>3, <2>1, SumOfUnique
<1>5. QED
  BY <1>2, <1>3, <1>4 DEF Total, other

LEMMA TotalNext ==
  ASSUME NEW n \in Nat, NEW e, \A i \in 1..(n + 1) : e[i] \in Int
  PROVE  /\ Total(e, 0) = 0 /\ Total(e, n) \in Int
         /\ Total(e, n + 1) = Total(e, n) + e[n + 1]
<1> DEFINE more == [j \in 1..(n + 1) |-> e[j]]
           less == [j \in 1..n |-> e[j]]
           none == [j \in 1..0 |-> e[j]]
<1>1. Len(more) = n + 1 /\ \A i \in 1..(n + 1) : more[i] = e[i] /\ more[i] \in Int
  OBVIOUS
<1>2. Len(less) = n /\ \A i \in 1..n : less[i] = e[i] /\ less[i] \in Int
  OBVIOUS
<1>3. Len(none) = 0 /\ \A i \in 1..0 : none[i] \in Int
  OBVIOUS
<1> HIDE DEF more, less, none
<1>4. PICK f \in [0..(n + 1) -> Int] :
        AddsUp(f, more, n + 1) /\ SumOf(more) = f[n + 1]
  <2>1. n + 1 \in Nat
    OBVIOUS
  <2>2. QED
    BY <1>1, <2>1, SumOfLoop
<1>5. PICK g \in [0..n -> Int] :
        AddsUp(g, less, n) /\ SumOf(less) = g[n]
  BY <1>2, SumOfLoop
<1>6. SumOf(none) = 0
  BY <1>3, SumOfLoop DEF AddsUp
<1>7. f[n] = g[n]
  <2>1. AddsUp(f, more, n)
    BY <1>4 DEF AddsUp
  <2>2. \A m \in 1..n : more[m] = less[m]
    <3>1. \A m \in 1..n : m \in 1..(n + 1)
      OBVIOUS
    <3>2. QED
      BY <1>1, <1>2, <3>1
  <2>3. QED
    BY <1>5, <2>1, <2>2, SumOfUnique
<1>8. f[n + 1] = f[n] + e[n + 1]
  <2>1. n + 1 \in 1..(n + 1) /\ (n + 1) - 1 = n
    OBVIOUS
  <2>2. QED
    BY <1>1, <1>4, <2>1 DEF AddsUp
<1>9. g[n] \in Int
  BY <1>5
<1>10. QED
  BY <1>4, <1>5, <1>6, <1>7, <1>8, <1>9 DEF Total, more, less, none

(* A sum over a sequence that gets one more element. *)
LEMMA SumOfAppend ==
  ASSUME NEW n \in Nat, NEW list, NEW more, Len(list) = n, Len(more) = n + 1,
         \A i \in 1..n : list[i] \in Int /\ more[i] = list[i], more[n + 1] \in Int
  PROVE  SumOf(list) \in Int /\ SumOf(more) = SumOf(list) + more[n + 1]
<1>1. \A i \in 1..(n + 1) : more[i] \in Int
  OBVIOUS
<1>2. SumOf(list) = Total(more, n) /\ Total(more, n) \in Int
  BY TotalIs
<1>3. SumOf(more) = Total(more, n + 1)
  <2>1. n + 1 \in Nat
    OBVIOUS
  <2>2. QED
    BY <1>1, <2>1, TotalIs
<1>4. QED
  BY <1>1, <1>2, <1>3, TotalNext

-----------------------------------------------------------------------------
(* The loops of closed_trades_from_fills *)

LotsOpen(S) == [symbol : S, lots : Nat \ {0}, at : Nat, price : Nat, cost : Int]

TradesOf(S) ==
  [symbol : S, lots : Nat \ {0}, openedAt : Nat, closedAt : Nat, entry : Nat, exit : Nat, pnl : Int]

Accounts(S) == [left : Nat, lots : Seq(LotsOpen(S)), trades : Seq(TradesOf(S))]

(* A fill whose fees can be shared out among its lots. *)
FillsOf(S) ==
  {f \in [symbol : S, side : {"Buy", "Sell"}, price : Nat, lots : Nat \ {0}, ts : Nat, fees : Nat] :
     Denom % f.lots = 0}

LotsIn(lots, s) == SumOf([i \in DOMAIN lots |-> IF lots[i].symbol = s THEN lots[i].lots ELSE 0])

(* What one lot brings in that is sold, less its share of the fees. *)
PerLot(fill) == Denom * fill.price - (Denom \div fill.lots) * fill.fees

LEMMA PnlOfMore ==
  ASSUME NEW S, NEW trades \in Seq(TradesOf(S)), NEW t \in TradesOf(S)
  PROVE  TotalPnl(trades) \in Int /\ TotalPnl(Append(trades, t)) = TotalPnl(trades) + t.pnl
<1> DEFINE n == Len(trades)
           less == [i \in DOMAIN trades |-> trades[i].pnl]
           more == [i \in DOMAIN Append(trades, t) |-> Append(trades, t)[i].pnl]
<1>1. n \in Nat /\ DOMAIN trades = 1..n /\ \A i \in 1..n : trades[i].pnl \in Int
  <2>1. n \in Nat /\ DOMAIN trades = 1..n /\ \A i \in 1..n : trades[i] \in TradesOf(S)
    BY ElementOfSeq, LenProperties
  <2>2. \A x \in TradesOf(S) : x.pnl \in Int
    BY DEF TradesOf
  <2>3. QED
    BY <2>1, <2>2
<1>2. /\ Append(trades, t) \in Seq(TradesOf(S)) /\ Len(Append(trades, t)) = n + 1
      /\ Append(trades, t)[n + 1] = t /\ \A i \in 1..n : Append(trades, t)[i] = trades[i]
  BY AppendProperties
<1>3. DOMAIN Append(trades, t) = 1..(n + 1)
  BY <1>2, LenProperties
<1>4. Len(less) = n /\ \A i \in 1..n : less[i] = trades[i].pnl
  BY <1>1
<1>5. /\ Len(more) = n + 1 /\ more[n + 1] = t.pnl
      /\ \A i \in 1..n : more[i] = trades[i].pnl
  BY <1>1, <1>2, <1>3
<1>6. t.pnl \in Int
  BY DEF TradesOf
<1> HIDE DEF n, less, more
<1>7. SumOf(less) \in Int /\ SumOf(more) = SumOf(less) + more[n + 1]
  <2>1. \A i \in 1..n : less[i] \in Int /\ more[i] = less[i]
    BY <1>1, <1>4, <1>5
  <2>2. QED
    BY <1>1, <1>4, <1>5, <1>6, <2>1, SumOfAppend
<1>8. QED
  BY <1>5, <1>7 DEF TotalPnl, less, more

LEMMA CostOfMore ==
  ASSUME NEW S, NEW lots \in Seq(LotsOpen(S)), NEW lot \in LotsOpen(S)
  PROVE  OpenCost(lots) \in Int /\ OpenCost(Append(lots, lot)) = OpenCost(lots) + lot.cost
<1> DEFINE n == Len(lots)
           less == [i \in DOMAIN lots |-> lots[i].cost]
           more == [i \in DOMAIN Append(lots, lot) |-> Append(lots, lot)[i].cost]
<1>1. n \in Nat /\ DOMAIN lots = 1..n /\ \A i \in 1..n : lots[i].cost \in Int
  <2>1. n \in Nat /\ DOMAIN lots = 1..n /\ \A i \in 1..n : lots[i] \in LotsOpen(S)
    BY ElementOfSeq, LenProperties
  <2>2. \A x \in LotsOpen(S) : x.cost \in Int
    BY DEF LotsOpen
  <2>3. QED
    BY <2>1, <2>2
<1>2. /\ Append(lots, lot) \in Seq(LotsOpen(S)) /\ Len(Append(lots, lot)) = n + 1
      /\ Append(lots, lot)[n + 1] = lot /\ \A i \in 1..n : Append(lots, lot)[i] = lots[i]
  BY AppendProperties
<1>3. DOMAIN Append(lots, lot) = 1..(n + 1)
  BY <1>2, LenProperties
<1>4. Len(less) = n /\ \A i \in 1..n : less[i] = lots[i].cost
  BY <1>1
<1>5. /\ Len(more) = n + 1 /\ more[n + 1] = lot.cost
      /\ \A i \in 1..n : more[i] = lots[i].cost
  BY <1>1, <1>2, <1>3
<1>6. lot.cost \in Int
  BY DEF LotsOpen
<1> HIDE DEF n, less, more
<1>7. SumOf(less) \in Int /\ SumOf(more) = SumOf(less) + more[n + 1]
  <2>1. \A i \in 1..n : less[i] \in Int /\ more[i] = less[i]
    BY <1>1, <1>4, <1>5
  <2>2. QED
    BY <1>1, <1>4, <1>5, <1>6, <2>1, SumOfAppend
<1>8. QED
  BY <1>5, <1>7 DEF OpenCost, less, more

LEMMA LotsInMore ==
  ASSUME NEW S, NEW lots \in Seq(LotsOpen(S)), NEW lot \in LotsOpen(S), NEW s
  PROVE  /\ LotsIn(lots, s) \in Int
         /\ LotsIn(Append(lots, lot), s)
              = LotsIn(lots, s) + IF lot.symbol = s THEN lot.lots ELSE 0
<1> DEFINE n == Len(lots)
           less == [i \in DOMAIN lots |-> IF lots[i].symbol = s THEN lots[i].lots ELSE 0]
           more == [i \in DOMAIN Append(lots, lot) |->
                      IF Append(lots, lot)[i].symbol = s THEN Append(lots, lot)[i].lots ELSE 0]
<1>1. n \in Nat /\ DOMAIN lots = 1..n /\ \A i \in 1..n : lots[i].lots \in Int
  <2>1. n \in Nat /\ DOMAIN lots = 1..n /\ \A i \in 1..n : lots[i] \in LotsOpen(S)
    BY ElementOfSeq, LenProperties
  <2>2. \A x \in LotsOpen(S) : x.lots \in Int
    BY DEF LotsOpen
  <2>3. QED
    BY <2>1, <2>2
<1>2. /\ Append(lots, lot) \in Seq(LotsOpen(S)) /\ Len(Append(lots, lot)) = n + 1
      /\ Append(lots, lot)[n + 1] = lot /\ \A i \in 1..n : Append(lots, lot)[i] = lots[i]
  BY AppendProperties
<1>3. DOMAIN Append(lots, lot) = 1..(n + 1)
  BY <1>2, LenProperties
<1>4. /\ Len(less) = n
      /\ \A i \in 1..n : less[i] = (IF lots[i].symbol = s THEN lots[i].lots ELSE 0) /\ less[i] \in Int
  BY <1>1
<1>5. /\ Len(more) = n + 1 /\ more[n + 1] = IF lot.symbol = s THEN lot.lots ELSE 0
  BY <1>1, <1>2, <1>3
<1>6. \A i \in 1..n : more[i] = IF lots[i].symbol = s THEN lots[i].lots ELSE 0
  BY <1>1, <1>2, <1>3
<1>7. (IF lot.symbol = s THEN lot.lots ELSE 0) \in Int
  BY DEF LotsOpen
<1> HIDE DEF n, less, more
<1>8. SumOf(less) \in Int /\ SumOf(more) = SumOf(less) + more[n + 1]
  <2>1. \A i \in 1..n : less[i] \in Int /\ more[i] = less[i]
    BY <1>4, <1>6
  <2>2. more[n + 1] \in Int
    BY <1>5, <1>7
  <2>3. QED
    BY <1>1, <1>4, <1>5, <2>1, <2>2, SumOfAppend
<1>9. LotsIn(lots, s) = SumOf(less) /\ LotsIn(Append(lots, lot), s) = SumOf(more)
  BY DEF LotsIn, less, more
<1>10. QED
  BY <1>5, <1>8, <1>9

Taken(a, lot, fill) == IF lot.symbol = fill.symbol THEN LessOf(a.left, lot.lots) ELSE 0

LEMMA TradePnl ==
  ASSUME NEW S, NEW fill \in FillsOf(S), NEW lot \in LotsOpen(S), NEW n \in Nat \ {0}, NEW cost \in Int
  PROVE  /\ TradeOf(lot, fill, n, cost) \in TradesOf(S) \/ fill.symbol # lot.symbol
         /\ TradeOf(lot, fill, n, cost).pnl = n * PerLot(fill) - cost
<1> DEFINE l == fill.lots
           fees == fill.fees
           share == Denom \div l
           paid == Denom * fill.price
<1>1. /\ l \in Nat \ {0} /\ fees \in Nat /\ fill.price \in Nat /\ fill.ts \in Nat
      /\ fill.symbol \in S /\ Denom \in Nat /\ Denom % l = 0
  BY DenomAssumption DEF FillsOf
<1>2. share \in Nat /\ Denom = share * l
  BY <1>1, DivWhole
<1>3. paid \in Int /\ share * fees \in Int /\ (share * fees) * n \in Int
  BY <1>1, <1>2, MulType
<1> HIDE DEF l, fees, share, paid
<1>4. (Denom * fees) * n = ((share * fees) * n) * l
  BY <1>1, <1>2, Regroup
<1>5. ((Denom * fees) * n) \div l = (share * fees) * n
  BY <1>1, <1>3, <1>4, DivExact
<1>6. paid * n - (share * fees) * n = n * (paid - share * fees)
  <2>1. \A x, y \in Int : x * n - y * n = n * (x - y)
    OBVIOUS
  <2>2. QED
    BY <1>3, <2>1
<1>7. TradeOf(lot, fill, n, cost).pnl = n * PerLot(fill) - cost
  <2>1. TradeOf(lot, fill, n, cost).pnl = (paid * n - ((Denom * fees) * n) \div l) - cost
    BY DEF TradeOf, paid, fees, l
  <2>2. PerLot(fill) = paid - share * fees
    BY DEF PerLot, paid, share, fees, l
  <2>3. QED
    BY <1>5, <1>6, <2>1, <2>2
<1>8. TradeOf(lot, fill, n, cost).pnl \in Int
  <2>1. n * (paid - share * fees) \in Int
    BY <1>3, MulType
  <2>2. PerLot(fill) = paid - share * fees
    BY DEF PerLot, paid, share, fees, l
  <2>3. QED
    BY <1>7, <2>1, <2>2
<1>9. TradeOf(lot, fill, n, cost) \in TradesOf(S)
  <2>1. lot.symbol \in S /\ lot.at \in Nat /\ lot.price \in Nat
    BY DEF LotsOpen
  <2>2. QED
    BY <1>1, <1>8, <2>1 DEF TradeOf, TradesOf
<1>10. QED
  BY <1>7, <1>9

LEMMA LotLeft ==
  ASSUME NEW S, NEW lot \in LotsOpen(S), NEW n, NEW cost,
         lot.lots - n \in Nat \ {0}, lot.cost - cost \in Int
  PROVE  [lot EXCEPT !.lots = @ - n, !.cost = @ - cost] \in LotsOpen(S)
BY DEF LotsOpen

(* What one turn of the inner loop does: it sells n lots of the lot, and    *)
(* the money it explains is that of the lots it sold.                       *)
LotClosed(S, a, lot, fill, b, n) ==
  /\ b \in Accounts(S)
  /\ n \in Nat /\ n <= a.left /\ n <= lot.lots /\ b.left = a.left - n
  /\ TotalPnl(b.trades) - OpenCost(b.lots)
       = TotalPnl(a.trades) - OpenCost(a.lots) - lot.cost + n * PerLot(fill)
  /\ \A s : LotsIn(b.lots, s)
       = LotsIn(a.lots, s) + (IF lot.symbol = s THEN lot.lots ELSE 0)
           - (IF fill.symbol = s THEN n ELSE 0)

LEMMA CloseLotIs ==
  ASSUME NEW S, NEW a \in Accounts(S), NEW lot \in LotsOpen(S), NEW fill \in FillsOf(S)
  PROVE  LotClosed(S, a, lot, fill, CloseLot(a, lot, fill), Taken(a, lot, fill))
<1> USE DEF LotClosed
<1> DEFINE b == CloseLot(a, lot, fill)
           n == Taken(a, lot, fill)
           cost == (lot.cost * n) \div lot.lots
           rest == [lot EXCEPT !.lots = @ - n, !.cost = @ - cost]
           t == TradeOf(lot, fill, n, cost)
<1>1. /\ a.left \in Nat /\ a.lots \in Seq(LotsOpen(S)) /\ a.trades \in Seq(TradesOf(S))
      /\ a = [left |-> a.left, lots |-> a.lots, trades |-> a.trades]
  BY DEF Accounts
<1>2. /\ lot.lots \in Nat \ {0} /\ lot.cost \in Int /\ lot.symbol \in S /\ lot.at \in Nat
      /\ lot.price \in Nat
  BY DEF LotsOpen
<1>3. n \in Nat /\ n <= a.left /\ n <= lot.lots
  BY <1>1, <1>2 DEF Taken, LessOf
<1>4. PerLot(fill) \in Int
  <2>1. /\ fill.lots \in Nat \ {0} /\ fill.fees \in Nat /\ fill.price \in Nat /\ Denom \in Nat
        /\ Denom % fill.lots = 0
    BY DenomAssumption DEF FillsOf
  <2>2. Denom \div fill.lots \in Int
    BY <2>1, DivWhole
  <2>3. (Denom \div fill.lots) * fill.fees \in Int /\ Denom * fill.price \in Int
    BY <2>1, <2>2, MulType
  <2>4. QED
    BY <2>3 DEF PerLot
<1>5. /\ TotalPnl(a.trades) \in Int /\ OpenCost(a.lots) \in Int
      /\ OpenCost(Append(a.lots, lot)) = OpenCost(a.lots) + lot.cost
  <2>1. TotalPnl(a.trades) \in Int
    <3> DEFINE some == [symbol |-> fill.symbol, lots |-> 1, openedAt |-> 0, closedAt |-> 0,
                        entry |-> 0, exit |-> 0, pnl |-> 0]
    <3>1. some \in TradesOf(S)
      BY DEF TradesOf, FillsOf
    <3> HIDE DEF some
    <3>2. QED
      BY <1>1, <3>1, PnlOfMore
  <2>2. QED
    BY <1>1, <2>1, CostOfMore
<1>6. CASE n = 0
  <2>1. b = [a EXCEPT !.lots = Append(@, lot)]
    <3>1. lot.symbol # fill.symbol \/ LessOf(a.left, lot.lots) = 0
      BY <1>6 DEF Taken
    <3>2. QED
      BY <3>1 DEF CloseLot
  <2>2. b.left = a.left /\ b.lots = Append(a.lots, lot) /\ b.trades = a.trades
    BY <1>1, <2>1
  <2>3. Append(a.lots, lot) \in Seq(LotsOpen(S))
    BY <1>1, AppendProperties
  <2>4. b \in Accounts(S)
    BY <1>1, <2>1, <2>3 DEF Accounts
  <2>5. \A s : LotsIn(b.lots, s) = LotsIn(a.lots, s) + (IF lot.symbol = s THEN lot.lots ELSE 0)
               /\ LotsIn(a.lots, s) \in Int
    BY <1>1, <2>2, LotsInMore
  <2>6. 0 * PerLot(fill) = 0
    BY <1>4
  <2> HIDE DEF b, n
  <2>7. TotalPnl(b.trades) - OpenCost(b.lots)
          = TotalPnl(a.trades) - OpenCost(a.lots) - lot.cost + n * PerLot(fill)
    BY <1>2, <1>5, <1>6, <2>2, <2>6
  <2>8. \A s : LotsIn(b.lots, s)
                  = LotsIn(a.lots, s) + (IF lot.symbol = s THEN lot.lots ELSE 0)
                      - (IF fill.symbol = s THEN n ELSE 0)
    <3> TAKE s
    <3>1. (IF lot.symbol = s THEN lot.lots ELSE 0) \in Int
      BY <1>2
    <3>2. QED
      BY <1>6, <2>5, <3>1
  <2>9. QED
    BY <1>1, <1>3, <1>6, <2>2, <2>4, <2>7, <2>8 DEF b, n
<1>7. CASE n # 0
  <2>1. lot.symbol = fill.symbol /\ n = LessOf(a.left, lot.lots) /\ n \in Nat \ {0}
    BY <1>3, <1>7 DEF Taken
  <2>2. cost \in Int
    <3>1. lot.cost * n \in Int
      BY <1>2, <1>3, MulType
    <3>2. QED
      BY <1>2, <3>1, DivType
  <2>3. b = [left |-> a.left - n, lots |-> IF rest.lots = 0 THEN a.lots ELSE Append(a.lots, rest),
             trades |-> Append(a.trades, t)]
    BY <2>1 DEF CloseLot
  <2>4. t \in TradesOf(S) /\ t.pnl = n * PerLot(fill) - cost
    <3> HIDE DEF cost, n
    <3>1. QED
      BY <2>1, <2>2, TradePnl
  <2>5. /\ rest.lots = lot.lots - n /\ rest.cost = lot.cost - cost /\ rest.symbol = lot.symbol
        /\ rest.at = lot.at /\ rest.price = lot.price
    BY DEF LotsOpen
  <2>6. /\ TotalPnl(b.trades) = TotalPnl(a.trades) + (n * PerLot(fill) - cost)
        /\ b.trades \in Seq(TradesOf(S)) /\ b.left = a.left - n
    <3> HIDE DEF t, n, cost, rest
    <3>1. b.trades = Append(a.trades, t) /\ b.left = a.left - n
      BY <2>3
    <3> HIDE DEF b
    <3>2. QED
      BY <1>1, <2>4, <3>1, PnlOfMore, AppendProperties
  <2>7. n * PerLot(fill) \in Int
    BY <1>3, <1>4, MulType
  <2>8. CASE rest.lots = 0
    <3>1. n = lot.lots
      BY <1>2, <1>3, <2>5, <2>8
    <3>2. cost = lot.cost
      <4>1. cost = (lot.cost * lot.lots) \div lot.lots
        BY <3>1
      <4>2. QED
        BY <1>2, <4>1, DivExact
    <3>3. b.lots = a.lots
      BY <2>3, <2>8
    <3>4. b \in Accounts(S)
      <4> HIDE DEF n, cost, rest, t
      <4>1. b = [left |-> b.left, lots |-> b.lots, trades |-> b.trades]
        BY <2>3
      <4> HIDE DEF b
      <4>2. QED
        BY <1>1, <1>3, <2>6, <3>3, <4>1 DEF Accounts
    <3> HIDE DEF b, n, cost, rest, t
    <3>5. TotalPnl(b.trades) - OpenCost(b.lots)
            = TotalPnl(a.trades) - OpenCost(a.lots) - lot.cost + n * PerLot(fill)
      BY <1>2, <1>5, <2>6, <2>7, <3>2, <3>3
    <3>6. \A s : LotsIn(b.lots, s)
                    = LotsIn(a.lots, s) + (IF lot.symbol = s THEN lot.lots ELSE 0)
                        - (IF fill.symbol = s THEN n ELSE 0)
      <4> TAKE s
      <4>1. LotsIn(a.lots, s) \in Int
        BY <1>1, LotsInMore
      <4>2. QED
        BY <1>2, <2>1, <3>1, <3>3, <4>1
    <3>7. QED
      BY <1>1, <1>3, <2>6, <3>4, <3>5, <3>6 DEF b, n
  <2>9. CASE rest.lots # 0
    <3>1. rest.lots \in Nat \ {0}
      BY <1>2, <1>3, <2>5, <2>9
    <3>2. rest \in LotsOpen(S)
      <4> HIDE DEF cost, n
      <4>1. lot.lots - n \in Nat \ {0} /\ lot.cost - cost \in Int
        BY <1>2, <2>2, <2>5, <3>1
      <4>2. QED
        BY <4>1, LotLeft
    <3>3. b.lots = Append(a.lots, rest)
      BY <2>3, <2>9
    <3>4. b \in Accounts(S)
      <4> HIDE DEF n, cost, rest, t
      <4>1. b = [left |-> b.left, lots |-> b.lots, trades |-> b.trades]
        BY <2>3
      <4> HIDE DEF b
      <4>2. b.lots \in Seq(LotsOpen(S))
        BY <1>1, <3>2, <3>3, AppendProperties
      <4>3. QED
        BY <1>1, <1>3, <2>6, <4>1, <4>2 DEF Accounts
    <3> HIDE DEF b, n, cost, rest, t
    <3>5. OpenCost(b.lots) = OpenCost(a.lots) + (lot.cost - cost)
      BY <1>1, <2>5, <3>2, <3>3, CostOfMore
    <3>6. TotalPnl(b.trades) - OpenCost(b.lots)
            = TotalPnl(a.trades) - OpenCost(a.lots) - lot.cost + n * PerLot(fill)
      BY <1>2, <1>5, <2>2, <2>6, <2>7, <3>5
    <3>7. \A s : LotsIn(b.lots, s)
                    = LotsIn(a.lots, s) + (IF lot.symbol = s THEN lot.lots ELSE 0)
                        - (IF fill.symbol = s THEN n ELSE 0)
      <4> TAKE s
      <4>1. /\ LotsIn(a.lots, s) \in Int
            /\ LotsIn(b.lots, s) = LotsIn(a.lots, s) + IF rest.symbol = s THEN rest.lots ELSE 0
        BY <1>1, <3>2, <3>3, LotsInMore
      <4>2. QED
        BY <1>2, <1>3, <2>1, <2>5, <4>1
    <3>8. QED
      BY <1>1, <1>3, <2>6, <3>4, <3>6, <3>7 DEF b, n
  <2>10. QED
    BY <2>8, <2>9
<1>8. QED
  BY <1>6, <1>7

LEMMA PerLotType ==
  ASSUME NEW S, NEW fill \in FillsOf(S)
  PROVE  /\ PerLot(fill) \in Int
         /\ fill.lots * PerLot(fill) = Denom * (fill.price * fill.lots - fill.fees)
<1> DEFINE l == fill.lots
           fees == fill.fees
           price == fill.price
           share == Denom \div l
<1>1. l \in Nat \ {0} /\ fees \in Nat /\ price \in Nat /\ Denom \in Nat /\ Denom % l = 0
  BY DenomAssumption DEF FillsOf
<1>2. share \in Nat /\ Denom = share * l
  BY <1>1, DivWhole
<1>3. PerLot(fill) = Denom * price - share * fees
  BY DEF PerLot, share, l, fees, price
<1> HIDE DEF l, fees, price, share
<1>4. Denom * price \in Int /\ share * fees \in Int
  BY <1>1, <1>2, MulType
<1>5. l * (Denom * price - share * fees) = l * (Denom * price) - l * (share * fees)
  <2>1. \A x, y \in Int : l * (x - y) = l * x - l * y
    BY <1>1
  <2>2. QED
    BY <1>4, <2>1
<1>6. l * (share * fees) = Denom * fees
  BY <1>1, <1>2
<1>7. l * (Denom * price) = Denom * (price * l)
  BY <1>1
<1>8. Denom * (price * l - fees) = Denom * (price * l) - Denom * fees
  <2>1. price * l \in Int
    BY <1>1, MulType
  <2>2. \A x, y \in Int : Denom * (x - y) = Denom * x - Denom * y
    BY <1>1
  <2>3. QED
    BY <1>1, <2>1, <2>2
<1>9. PerLot(fill) \in Int
  BY <1>3, <1>4
<1>10. l * PerLot(fill) = Denom * (price * l - fees)
  BY <1>3, <1>5, <1>6, <1>7, <1>8
<1>11. QED
  BY <1>9, <1>10 DEF l, fees, price

LEMMA NothingOpen ==
  TotalPnl(<<>>) = 0 /\ OpenCost(<<>>) = 0 /\ \A s : LotsIn(<<>>, s) = 0
<1> DEFINE none == <<>>
           pnls == [i \in DOMAIN none |-> none[i].pnl]
           costs == [i \in DOMAIN none |-> none[i].cost]
           held(s) == [i \in DOMAIN none |-> IF none[i].symbol = s THEN none[i].lots ELSE 0]
<1>1. \A list : Len(list) = 0 /\ DOMAIN list = {} => SumOf(list) = 0
  <2> TAKE list
  <2>1. HAVE Len(list) = 0 /\ DOMAIN list = {}
  <2>2. \A i \in 1..0 : list[i] \in Int
    OBVIOUS
  <2>3. \E sum \in [0..0 -> Int] : AddsUp(sum, list, 0) /\ SumOf(list) = sum[0]
    BY <2>1, <2>2, SumOfLoop, SMTT(30)
  <2>4. QED
    BY <2>3 DEF AddsUp
<1>2. Len(pnls) = 0 /\ DOMAIN pnls = {} /\ Len(costs) = 0 /\ DOMAIN costs = {}
  OBVIOUS
<1>3. \A s : Len(held(s)) = 0 /\ DOMAIN held(s) = {}
  OBVIOUS
<1> HIDE DEF pnls, costs, held
<1>4. SumOf(pnls) = 0 /\ SumOf(costs) = 0 /\ \A s : SumOf(held(s)) = 0
  BY <1>1, <1>2, <1>3
<1>5. QED
  BY <1>4 DEF TotalPnl, OpenCost, LotsIn, pnls, costs, held

(* The inner loop, turn by turn. *)
LEMMA CloseLotsLoop ==
  ASSUME NEW S, NEW acc \in Accounts(S), NEW fill \in FillsOf(S)
  PROVE  \E turn \in [0..Len(acc.lots) -> Accounts(S)] :
           /\ turn[0] = [left |-> fill.lots, lots |-> <<>>, trades |-> acc.trades]
           /\ \A n \in 1..Len(acc.lots) : turn[n] = CloseLot(turn[n - 1], acc.lots[n], fill)
           /\ CloseLots(acc, fill) = turn[Len(acc.lots)]
<1> DEFINE N == Len(acc.lots)
           all == Accounts(S)
           start == [left |-> fill.lots, lots |-> <<>>, trades |-> acc.trades]
           next == [p \in (1..N) \X all |-> CloseLot(p[2], acc.lots[p[1]], fill)]
           Turns(g) == g = [n \in 0..N |-> IF n = 0 THEN start ELSE CloseLot(g[n - 1], acc.lots[n], fill)]
           turn == CHOOSE g : Turns(g)
<1>1. /\ N \in Nat /\ acc.lots \in Seq(LotsOpen(S)) /\ acc.trades \in Seq(TradesOf(S))
      /\ \A n \in 1..N : acc.lots[n] \in LotsOpen(S)
  <2>1. acc.lots \in Seq(LotsOpen(S)) /\ acc.trades \in Seq(TradesOf(S))
    BY DEF Accounts
  <2>2. QED
    BY <2>1, ElementOfSeq, LenProperties
<1>2. start \in all
  BY <1>1 DEF Accounts, FillsOf
<1>3. \A n \in 1..N, a \in all : CloseLot(a, acc.lots[n], fill) \in all
  BY <1>1, CloseLotIs DEF LotClosed
<1> HIDE DEF N, all, start
<1>4. next \in [(1..N) \X all -> all]
  BY <1>3
<1>5. \A n \in 1..N, a \in all : next[<<n, a>>] = CloseLot(a, acc.lots[n], fill)
  OBVIOUS
<1> HIDE DEF next
<1>6. PICK f \in [0..N -> all] : Loops(f, start, next, N)
  BY <1>1, <1>2, <1>4, Iterates
<1>7. \A n \in 1..N : f[n] = CloseLot(f[n - 1], acc.lots[n], fill)
  <2> TAKE n \in 1..N
  <2>1. n - 1 \in 0..N /\ f[n - 1] \in all
    BY <1>1
  <2>2. f[n] = next[<<n, f[n - 1]>>]
    BY <1>6 DEF Loops
  <2>3. QED
    BY <1>5, <2>1, <2>2
<1>8. Turns(f)
  <2>1. \A n \in 0..N : f[n] = IF n = 0 THEN start ELSE CloseLot(f[n - 1], acc.lots[n], fill)
    <3> TAKE n \in 0..N
    <3>1. CASE n = 0
      BY <1>6, <3>1 DEF Loops
    <3>2. CASE n # 0
      <4>1. n \in 1..N
        BY <1>1, <3>2
      <4>2. QED
        BY <1>7, <3>2, <4>1
    <3>3. QED
      BY <3>1, <3>2
  <2>2. f = [n \in 0..N |-> f[n]]
    OBVIOUS
  <2>3. QED
    BY <2>1, <2>2
<1>9. Turns(turn)
  <2> HIDE DEF Turns
  <2>1. QED
    BY <1>8
<1>10. CloseLots(acc, fill) = turn[N]
  BY DEF CloseLots, N, start
<1> HIDE DEF turn
<1>11. turn[0] = start /\ \A n \in 1..N : turn[n] = CloseLot(turn[n - 1], acc.lots[n], fill)
  <2>1. 0 \in 0..N /\ \A n \in 1..N : n \in 0..N /\ n # 0
    BY <1>1
  <2>2. QED
    BY <1>9, <2>1
<1> DEFINE good == {n \in 0..N : turn[n] \in all}
<1>12. \A n \in 0..N : n \in good
  <2>1. 0 \in good
    BY <1>1, <1>2, <1>11
  <2>2. \A n \in 1..N : n - 1 \in good => n \in good
    BY <1>1, <1>3, <1>11
  <2> HIDE DEF good
  <2>3. QED
    BY <1>1, <2>1, <2>2, Climb
<1>13. turn \in [0..N -> all]
  <2>1. turn = [n \in 0..N |-> turn[n]]
    BY <1>9
  <2>2. \A n \in 0..N : turn[n] \in all
    BY <1>12
  <2> HIDE DEF Turns, good
  <2>3. QED
    BY <2>1, <2>2
<1> HIDE DEF Turns, good
<1>14. QED
  BY <1>10, <1>11, <1>13 DEF N, all, start

(* A sale takes its lots from the open ones, and what the trades and the    *)
(* open lots explain grows by what the sale brings in.                      *)
LEMMA CloseLotsIs ==
  ASSUME NEW S, NEW acc \in Accounts(S), NEW fill \in FillsOf(S),
         LotsIn(acc.lots, fill.symbol) >= fill.lots
  PROVE  LET b == CloseLots(acc, fill)
         IN  /\ b \in Accounts(S)
             /\ TotalPnl(b.trades) - OpenCost(b.lots)
                  = TotalPnl(acc.trades) - OpenCost(acc.lots)
                      + Denom * (fill.price * fill.lots - fill.fees)
             /\ \A s : LotsIn(b.lots, s)
                  = LotsIn(acc.lots, s) - IF fill.symbol = s THEN fill.lots ELSE 0
<1> DEFINE N == Len(acc.lots)
           cost == [i \in DOMAIN acc.lots |-> acc.lots[i].cost]
           held(s) == [i \in DOMAIN acc.lots |-> IF acc.lots[i].symbol = s THEN acc.lots[i].lots ELSE 0]
           pnl == TotalPnl(acc.trades)
           per == PerLot(fill)
           sym == fill.symbol
           all == fill.lots
<1>1. /\ N \in Nat /\ acc.lots \in Seq(LotsOpen(S)) /\ acc.trades \in Seq(TradesOf(S))
      /\ DOMAIN acc.lots = 1..N
      /\ \A n \in 1..N : acc.lots[n] \in LotsOpen(S)
  <2>1. acc.lots \in Seq(LotsOpen(S)) /\ acc.trades \in Seq(TradesOf(S))
    BY DEF Accounts
  <2>2. QED
    BY <2>1, ElementOfSeq, LenProperties
<1>2. \A i \in 1..N : cost[i] = acc.lots[i].cost /\ cost[i] \in Int
  BY <1>1 DEF LotsOpen
<1>3. \A s : \A i \in 1..N :
        /\ held(s)[i] = IF acc.lots[i].symbol = s THEN acc.lots[i].lots ELSE 0
        /\ held(s)[i] \in Int
  BY <1>1, SMTT(30) DEF LotsOpen
<1>4. OpenCost(acc.lots) = Total(cost, N)
  <2>1. Len(cost) = N
    BY <1>1
  <2>2. SumOf(cost) = Total(cost, N)
    <3> HIDE DEF cost, N
    <3>1. QED
      BY <1>1, <1>2, <2>1, TotalIs
  <2>3. QED
    BY <2>2 DEF OpenCost
<1>5. \A s : LotsIn(acc.lots, s) = Total(held(s), N)
  <2> TAKE s
  <2>1. Len(held(s)) = N
    BY <1>1
  <2>2. SumOf(held(s)) = Total(held(s), N)
    <3> HIDE DEF held, N
    <3>1. QED
      BY <1>1, <1>3, <2>1, TotalIs
  <2>3. QED
    BY <2>2 DEF LotsIn
<1>6. pnl \in Int
  <2> DEFINE some == [symbol |-> fill.symbol, lots |-> 1, openedAt |-> 0, closedAt |-> 0,
                      entry |-> 0, exit |-> 0, pnl |-> 0]
  <2>1. some \in TradesOf(S)
    BY DEF TradesOf, FillsOf
  <2> HIDE DEF some
  <2>2. QED
    BY <1>1, <2>1, PnlOfMore
<1>7. all \in Nat \ {0} /\ per \in Int /\ all * per = Denom * (fill.price * fill.lots - fill.fees)
  BY PerLotType DEF FillsOf
<1>8. PICK turn \in [0..N -> Accounts(S)] :
        /\ turn[0] = [left |-> fill.lots, lots |-> <<>>, trades |-> acc.trades]
        /\ \A n \in 1..N : turn[n] = CloseLot(turn[n - 1], acc.lots[n], fill)
        /\ CloseLots(acc, fill) = turn[N]
  BY CloseLotsLoop
<1> DEFINE Holds(n) ==
             LET a == turn[n]
             IN  /\ a.left <= all
                 /\ TotalPnl(a.trades) - OpenCost(a.lots)
                      = pnl - Total(cost, n) + (all - a.left) * per
                 /\ \A s : LotsIn(a.lots, s)
                      = Total(held(s), n) - IF sym = s THEN all - a.left ELSE 0
                 /\ a.left > 0 => LotsIn(a.lots, sym) = 0
           good == {n \in 0..N : Holds(n)}
<1> HIDE DEF N, cost, held, pnl, per, sym, all
<1>9. Total(cost, 0) = 0 /\ \A s : Total(held(s), 0) = 0
  <2>1. \A e : Total(e, 0) = 0
    <3> TAKE e
    <3> DEFINE list == [j \in 1..0 |-> e[j]]
    <3>1. Len(list) = 0 /\ \A i \in 1..0 : list[i] \in Int
      OBVIOUS
    <3> HIDE DEF list
    <3>2. SumOf(list) = 0
      BY <3>1, SumOfLoop DEF AddsUp
    <3>3. QED
      BY <3>2 DEF Total, list
  <2>2. QED
    BY <2>1
<1>10. Holds(0)
  <2> DEFINE a == turn[0]
  <2>1. a.left = all /\ a.lots = <<>> /\ a.trades = acc.trades
    BY <1>8 DEF all
  <2>2. TotalPnl(a.trades) = pnl /\ OpenCost(a.lots) = 0 /\ \A s : LotsIn(a.lots, s) = 0
    BY <2>1, NothingOpen DEF pnl
  <2>3. (all - a.left) * per = 0
    <3>1. all - a.left = 0
      BY <1>7, <2>1
    <3>2. 0 * per = 0
      BY <1>7
    <3>3. QED
      BY <3>1, <3>2
  <2> HIDE DEF a
  <2>4. a.left <= all
    BY <1>7, <2>1
  <2>5. TotalPnl(a.trades) - OpenCost(a.lots) = pnl - Total(cost, 0) + (all - a.left) * per
    BY <1>6, <1>9, <2>2, <2>3
  <2>6. \A s : LotsIn(a.lots, s) = Total(held(s), 0) - IF sym = s THEN all - a.left ELSE 0
    BY <1>7, <1>9, <2>1, <2>2
  <2>7. QED
    BY <2>2, <2>4, <2>5, <2>6 DEF a
<1>11. ASSUME NEW n \in 1..N, Holds(n - 1) PROVE Holds(n)
  <2> DEFINE m == n - 1
             a == turn[m]
             b == turn[n]
             lot == acc.lots[n]
             k == Taken(a, lot, fill)
  <2>1. m \in Nat /\ m + 1 = n /\ m \in 0..N /\ n \in Nat
    BY <1>1
  <2>2. a \in Accounts(S) /\ lot \in LotsOpen(S) /\ b = CloseLot(a, lot, fill)
    BY <1>1, <1>8, <2>1
  <2> HIDE DEF a, b, lot
  <2>3. /\ b \in Accounts(S)
        /\ k \in Nat /\ k <= a.left /\ k <= lot.lots /\ b.left = a.left - k
        /\ TotalPnl(b.trades) - OpenCost(b.lots)
             = TotalPnl(a.trades) - OpenCost(a.lots) - lot.cost + k * per
        /\ \A s : LotsIn(b.lots, s)
             = LotsIn(a.lots, s) + (IF lot.symbol = s THEN lot.lots ELSE 0)
                 - (IF fill.symbol = s THEN k ELSE 0)
    <3>1. LotClosed(S, a, lot, fill, CloseLot(a, lot, fill), Taken(a, lot, fill))
      BY <2>2, CloseLotIs
    <3>2. LotClosed(S, a, lot, fill, b, k)
      BY <2>2, <3>1
    <3> HIDE DEF k
    <3>3. QED
      BY <3>2 DEF LotClosed, per
  <2>4. /\ Total(cost, m) \in Int /\ Total(cost, n) = Total(cost, m) + lot.cost
        /\ lot.cost \in Int
    <3>1. \A i \in 1..n : cost[i] \in Int
      BY <1>1, <1>2, <2>1
    <3>2. cost[n] = lot.cost /\ cost[n] \in Int
      BY <1>2 DEF lot
    <3>3. Total(cost, m) \in Int /\ Total(cost, m + 1) = Total(cost, m) + cost[m + 1]
      <4> HIDE DEF m
      <4>1. QED
        BY <2>1, <3>1, TotalNext
    <3>4. QED
      BY <2>1, <3>2, <3>3
  <2>5. \A s : /\ Total(held(s), m) \in Int
               /\ Total(held(s), n) = Total(held(s), m) + IF lot.symbol = s THEN lot.lots ELSE 0
    <3> TAKE s
    <3>1. \A i \in 1..n : held(s)[i] \in Int
      BY <1>1, <1>3, <2>1
    <3>2. held(s)[n] = IF lot.symbol = s THEN lot.lots ELSE 0
      BY <1>3 DEF lot
    <3>3. /\ Total(held(s), m) \in Int
          /\ Total(held(s), m + 1) = Total(held(s), m) + held(s)[m + 1]
      <4> HIDE DEF m
      <4>1. QED
        BY <2>1, <3>1, TotalNext
    <3>4. QED
      BY <2>1, <3>2, <3>3
  <2>6. lot.lots \in Nat \ {0} /\ a.left \in Nat
    BY <2>2 DEF LotsOpen, Accounts
  <2>7. /\ a.left <= all
        /\ TotalPnl(a.trades) - OpenCost(a.lots) = pnl - Total(cost, m) + (all - a.left) * per
    BY <1>11 DEF a
  <2>8. \A s : LotsIn(a.lots, s) = Total(held(s), m) - IF sym = s THEN all - a.left ELSE 0
    BY <1>11 DEF a
  <2>9. a.left > 0 => LotsIn(a.lots, sym) = 0
    BY <1>11 DEF a
  <2>10. k = IF lot.symbol = sym THEN LessOf(a.left, lot.lots) ELSE 0
    BY DEF Taken, sym
  <2> HIDE DEF k, m, Holds
  <2>11. (all - b.left) * per = (all - a.left) * per + k * per
    <3>1. \A x, y \in Int : (x + y) * per = x * per + y * per
      BY <1>7
    <3>2. all - b.left = (all - a.left) + k /\ all - a.left \in Int
      BY <1>7, <2>3, <2>6
    <3>3. k \in Int
      BY <2>3
    <3>4. QED
      BY <3>1, <3>2, <3>3
  <2>12. b.left <= all
    BY <1>7, <2>3, <2>6, <2>7
  <2>13. TotalPnl(b.trades) - OpenCost(b.lots) = pnl - Total(cost, n) + (all - b.left) * per
    <3>1. (all - a.left) * per \in Int /\ k * per \in Int
      BY <1>7, <2>3, <2>6, MulType
    <3>2. QED
      BY <1>6, <2>3, <2>4, <2>7, <2>11, <3>1
  <2>14. \A s : LotsIn(b.lots, s) = Total(held(s), n) - IF sym = s THEN all - b.left ELSE 0
    <3> TAKE s
    <3>1. LotsIn(b.lots, s) = LotsIn(a.lots, s) + (IF lot.symbol = s THEN lot.lots ELSE 0)
                                - (IF sym = s THEN k ELSE 0)
      BY <2>3 DEF sym
    <3>2. LotsIn(a.lots, s) = Total(held(s), m) - IF sym = s THEN all - a.left ELSE 0
      BY <2>8
    <3>3. QED
      BY <1>7, <2>3, <2>5, <2>6, <3>1, <3>2
  <2>15. b.left > 0 => LotsIn(b.lots, sym) = 0
    <3>1. HAVE b.left > 0
    <3>2. a.left > 0 /\ LotsIn(a.lots, sym) = 0
      BY <2>3, <2>6, <2>9, <3>1
    <3>3. LotsIn(b.lots, sym) = LotsIn(a.lots, sym) + (IF lot.symbol = sym THEN lot.lots ELSE 0) - k
      BY <2>3 DEF sym
    <3>4. lot.symbol = sym => k = lot.lots
      BY <2>3, <2>6, <2>10, <3>1 DEF LessOf
    <3>5. QED
      BY <2>6, <2>10, <3>2, <3>3, <3>4
  <2>16. QED
    BY <2>12, <2>13, <2>14, <2>15 DEF Holds, b
<1> HIDE DEF Holds
<1>12. \A n \in 0..N : n \in good
  <2>1. 0 \in good
    BY <1>1, <1>10
  <2>2. \A n \in 1..N : n - 1 \in good => n \in good
    BY <1>1, <1>11
  <2> HIDE DEF good
  <2>3. QED
    BY <1>1, <2>1, <2>2, Climb
<1> DEFINE b == turn[N]
<1>13. Holds(N) /\ b \in Accounts(S)
  BY <1>1, <1>8, <1>12
<1>14. /\ b.left <= all /\ b.left \in Nat
       /\ TotalPnl(b.trades) - OpenCost(b.lots) = pnl - OpenCost(acc.lots) + (all - b.left) * per
       /\ \A s : LotsIn(b.lots, s) = LotsIn(acc.lots, s) - IF sym = s THEN all - b.left ELSE 0
       /\ b.left > 0 => LotsIn(b.lots, sym) = 0
  BY <1>4, <1>5, <1>13 DEF Holds, Accounts
<1> HIDE DEF b
<1>15. b.left = 0
  <2>1. SUFFICES ASSUME b.left > 0 PROVE FALSE
    BY <1>14
  <2>2. LotsIn(acc.lots, sym) - (all - b.left) = 0 /\ LotsIn(acc.lots, sym) >= all
    BY <1>14, <2>1 DEF sym, all
  <2>3. LotsIn(acc.lots, sym) \in Int
    <3> DEFINE some == [symbol |-> fill.symbol, lots |-> 1, at |-> 0, price |-> 0, cost |-> 0]
    <3>1. some \in LotsOpen(S)
      BY DEF LotsOpen, FillsOf
    <3> HIDE DEF some
    <3>2. QED
      BY <1>1, <3>1, LotsInMore
  <2>4. QED
    BY <1>7, <1>14, <2>1, <2>2, <2>3
<1>16. all - b.left = all
  BY <1>7, <1>15
<1>17. TotalPnl(b.trades) - OpenCost(b.lots)
         = pnl - OpenCost(acc.lots) + Denom * (fill.price * fill.lots - fill.fees)
  BY <1>7, <1>14, <1>16
<1>18. QED
  BY <1>8, <1>13, <1>14, <1>16, <1>17 DEF b, pnl, sym, all

(* What a fill does to the money and to the lots of a symbol. *)
Money(fill) ==
  IF fill.side = "Buy" THEN -(fill.price * fill.lots + fill.fees)
  ELSE fill.price * fill.lots - fill.fees

Moved(fill, s) ==
  IF fill.symbol # s THEN 0 ELSE IF fill.side = "Buy" THEN fill.lots ELSE -fill.lots

FillTaken(S, acc, fill, b) ==
  /\ TotalPnl(b.trades) - OpenCost(b.lots)
       = TotalPnl(acc.trades) - OpenCost(acc.lots) + Denom * Money(fill)
  /\ \A s : LotsIn(b.lots, s) = LotsIn(acc.lots, s) + Moved(fill, s)

LEMMA AccountSums ==
  ASSUME NEW S, NEW acc \in Accounts(S), NEW x \in S
  PROVE  /\ TotalPnl(acc.trades) \in Int /\ OpenCost(acc.lots) \in Int
         /\ \A s : LotsIn(acc.lots, s) \in Int
<1> DEFINE t == [symbol |-> x, lots |-> 1, openedAt |-> 0, closedAt |-> 0,
                 entry |-> 0, exit |-> 0, pnl |-> 0]
           lot == [symbol |-> x, lots |-> 1, at |-> 0, price |-> 0, cost |-> 0]
<1>1. t \in TradesOf(S) /\ lot \in LotsOpen(S)
  BY DEF TradesOf, LotsOpen
<1>2. acc.lots \in Seq(LotsOpen(S)) /\ acc.trades \in Seq(TradesOf(S))
  BY DEF Accounts
<1> HIDE DEF t, lot
<1>3. TotalPnl(acc.trades) \in Int
  BY <1>1, <1>2, PnlOfMore
<1>4. OpenCost(acc.lots) \in Int
  BY <1>1, <1>2, CostOfMore
<1>5. \A s : LotsIn(acc.lots, s) \in Int
  BY <1>1, <1>2, LotsInMore
<1>6. QED
  BY <1>3, <1>4, <1>5

LEMMA TakeFillType ==
  ASSUME NEW S, NEW acc \in Accounts(S), NEW fill \in FillsOf(S)
  PROVE  TakeFill(acc, fill) \in Accounts(S)
<1>1. CASE fill.side = "Buy"
  <2>1. OpenLot(fill) \in LotsOpen(S)
    <3>1. /\ fill.symbol \in S /\ fill.lots \in Nat \ {0} /\ fill.ts \in Nat /\ fill.price \in Nat
          /\ fill.fees \in Nat /\ Denom \in Nat
      BY DenomAssumption DEF FillsOf
    <3>2. fill.price * fill.lots \in Int
      BY <3>1, MulType
    <3>3. Denom * (fill.price * fill.lots + fill.fees) \in Int
      BY <3>1, <3>2, MulType
    <3>4. QED
      BY <3>1, <3>3 DEF OpenLot, LotsOpen
  <2>2. TakeFill(acc, fill) = [acc EXCEPT !.lots = Append(@, OpenLot(fill))]
    BY <1>1 DEF TakeFill
  <2>3. Append(acc.lots, OpenLot(fill)) \in Seq(LotsOpen(S))
    BY <2>1, AppendProperties DEF Accounts
  <2>4. QED
    BY <2>2, <2>3 DEF Accounts
<1>2. CASE fill.side # "Buy"
  <2>1. TakeFill(acc, fill) = CloseLots(acc, fill)
    BY <1>2 DEF TakeFill
  <2>2. acc.lots \in Seq(LotsOpen(S))
    BY DEF Accounts
  <2>3. Len(acc.lots) \in 0..Len(acc.lots)
    BY <2>2, LenProperties
  <2>4. PICK turn \in [0..Len(acc.lots) -> Accounts(S)] :
          /\ turn[0] = [left |-> fill.lots, lots |-> <<>>, trades |-> acc.trades]
          /\ \A n \in 1..Len(acc.lots) : turn[n] = CloseLot(turn[n - 1], acc.lots[n], fill)
          /\ CloseLots(acc, fill) = turn[Len(acc.lots)]
    BY CloseLotsLoop
  <2>5. QED
    BY <2>1, <2>3, <2>4
<1>3. QED
  BY <1>1, <1>2

LEMMA TakeFillIs ==
  ASSUME NEW S, NEW acc \in Accounts(S), NEW fill \in FillsOf(S),
         fill.side = "Sell" => LotsIn(acc.lots, fill.symbol) >= fill.lots
  PROVE  FillTaken(S, acc, fill, TakeFill(acc, fill))
<1> DEFINE b == TakeFill(acc, fill)
<1>1. /\ fill.symbol \in S /\ fill.lots \in Nat \ {0} /\ fill.ts \in Nat /\ fill.price \in Nat
      /\ fill.fees \in Nat /\ Denom \in Nat /\ fill.side \in {"Buy", "Sell"}
  BY DenomAssumption DEF FillsOf
<1>2. fill.price * fill.lots \in Int
  BY <1>1, MulType
<1>3. Denom * (fill.price * fill.lots + fill.fees) \in Int
  BY <1>1, <1>2, MulType
<1>4. /\ TotalPnl(acc.trades) \in Int /\ OpenCost(acc.lots) \in Int
      /\ \A s : LotsIn(acc.lots, s) \in Int
  BY <1>1, AccountSums
<1>5. CASE fill.side = "Buy"
  <2> DEFINE lot == OpenLot(fill)
  <2>1. lot \in LotsOpen(S) /\ lot.symbol = fill.symbol /\ lot.lots = fill.lots
        /\ lot.cost = Denom * (fill.price * fill.lots + fill.fees)
    BY <1>1, <1>3 DEF OpenLot, LotsOpen
  <2>2. b = [acc EXCEPT !.lots = Append(@, lot)]
    BY <1>5 DEF TakeFill
  <2> HIDE DEF lot
  <2>3. b.lots = Append(acc.lots, lot) /\ b.trades = acc.trades /\ acc.lots \in Seq(LotsOpen(S))
    BY <2>2 DEF Accounts
  <2> HIDE DEF b
  <2>4. OpenCost(b.lots) = OpenCost(acc.lots) + lot.cost
    BY <2>1, <2>3, CostOfMore
  <2>5. \A s : LotsIn(b.lots, s) = LotsIn(acc.lots, s) + IF lot.symbol = s THEN lot.lots ELSE 0
    BY <2>1, <2>3, LotsInMore
  <2>6. Denom * Money(fill) = -lot.cost
    <3>1. \A x \in Int : Denom * (-x) = -(Denom * x)
      BY <1>1
    <3>2. Money(fill) = -(fill.price * fill.lots + fill.fees)
      BY <1>5 DEF Money
    <3>3. fill.price * fill.lots + fill.fees \in Int
      BY <1>1, <1>2
    <3>4. QED
      BY <2>1, <3>1, <3>2, <3>3
  <2>7. TotalPnl(b.trades) - OpenCost(b.lots)
          = TotalPnl(acc.trades) - OpenCost(acc.lots) + Denom * Money(fill)
    BY <1>3, <1>4, <2>1, <2>3, <2>4, <2>6
  <2>8. \A s : LotsIn(b.lots, s) = LotsIn(acc.lots, s) + Moved(fill, s)
    BY <1>5, <2>1, <2>5 DEF Moved
  <2>9. QED
    BY <2>7, <2>8 DEF b, FillTaken
<1>6. CASE fill.side # "Buy"
  <2>1. b = CloseLots(acc, fill) /\ fill.side = "Sell"
    BY <1>1, <1>6 DEF TakeFill
  <2>2. LotsIn(acc.lots, fill.symbol) >= fill.lots
    BY <2>1
  <2>3. Money(fill) = fill.price * fill.lots - fill.fees
    BY <1>6 DEF Money
  <2>4. TotalPnl(b.trades) - OpenCost(b.lots)
          = TotalPnl(acc.trades) - OpenCost(acc.lots) + Denom * Money(fill)
    BY <2>1, <2>2, <2>3, CloseLotsIs
  <2>5. \A s : LotsIn(b.lots, s) = LotsIn(acc.lots, s) - IF fill.symbol = s THEN fill.lots ELSE 0
    BY <2>1, <2>2, CloseLotsIs
  <2> HIDE DEF b
  <2>6. \A s : LotsIn(b.lots, s) = LotsIn(acc.lots, s) + Moved(fill, s)
    BY <1>1, <1>4, <1>6, <2>5 DEF Moved
  <2>7. QED
    BY <2>4, <2>6 DEF b, FillTaken
<1>7. QED
  BY <1>5, <1>6

(* The outer loop, turn by turn. *)
LEMMA ClosedLoop ==
  ASSUME NEW S, NEW tape \in Seq(FillsOf(S))
  PROVE  \E turn \in [0..Len(tape) -> Accounts(S)] :
           /\ turn[0] = [left |-> 0, lots |-> <<>>, trades |-> <<>>]
           /\ \A n \in 1..Len(tape) : turn[n] = TakeFill(turn[n - 1], tape[n])
           /\ Closed(tape) = turn[Len(tape)]
<1> DEFINE N == Len(tape)
           all == Accounts(S)
           start == [left |-> 0, lots |-> <<>>, trades |-> <<>>]
           next == [p \in (1..N) \X all |-> TakeFill(p[2], tape[p[1]])]
           Turns(g) == g = [n \in 0..N |-> IF n = 0 THEN start ELSE TakeFill(g[n - 1], tape[n])]
           turn == CHOOSE g : Turns(g)
<1>1. N \in Nat /\ \A n \in 1..N : tape[n] \in FillsOf(S)
  BY ElementOfSeq, LenProperties
<1>2. start \in all
  BY DEF Accounts
<1>3. \A n \in 1..N, a \in all : TakeFill(a, tape[n]) \in all
  BY <1>1, TakeFillType
<1> HIDE DEF N, all, start
<1>4. next \in [(1..N) \X all -> all]
  BY <1>3
<1>5. \A n \in 1..N, a \in all : next[<<n, a>>] = TakeFill(a, tape[n])
  OBVIOUS
<1> HIDE DEF next
<1>6. PICK f \in [0..N -> all] : Loops(f, start, next, N)
  BY <1>1, <1>2, <1>4, Iterates
<1>7. \A n \in 1..N : f[n] = TakeFill(f[n - 1], tape[n])
  <2> TAKE n \in 1..N
  <2>1. n - 1 \in 0..N /\ f[n - 1] \in all
    BY <1>1
  <2>2. f[n] = next[<<n, f[n - 1]>>]
    BY <1>6 DEF Loops
  <2>3. QED
    BY <1>5, <2>1, <2>2
<1>8. Turns(f)
  <2>1. \A n \in 0..N : f[n] = IF n = 0 THEN start ELSE TakeFill(f[n - 1], tape[n])
    <3> TAKE n \in 0..N
    <3>1. CASE n = 0
      BY <1>6, <3>1 DEF Loops
    <3>2. CASE n # 0
      <4>1. n \in 1..N
        BY <1>1, <3>2
      <4>2. QED
        BY <1>7, <3>2, <4>1
    <3>3. QED
      BY <3>1, <3>2
  <2>2. f = [n \in 0..N |-> f[n]]
    OBVIOUS
  <2>3. QED
    BY <2>1, <2>2
<1>9. Turns(turn)
  <2> HIDE DEF Turns
  <2>1. QED
    BY <1>8
<1>10. Closed(tape) = turn[N]
  BY DEF Closed, N, start
<1> HIDE DEF turn
<1>11. turn[0] = start /\ \A n \in 1..N : turn[n] = TakeFill(turn[n - 1], tape[n])
  <2>1. 0 \in 0..N /\ \A n \in 1..N : n \in 0..N /\ n # 0
    BY <1>1
  <2>2. QED
    BY <1>9, <2>1
<1> DEFINE good == {n \in 0..N : turn[n] \in all}
<1>12. \A n \in 0..N : n \in good
  <2>1. 0 \in good
    BY <1>1, <1>2, <1>11
  <2>2. \A n \in 1..N : n - 1 \in good => n \in good
    BY <1>1, <1>3, <1>11
  <2> HIDE DEF good
  <2>3. QED
    BY <1>1, <2>1, <2>2, Climb
<1>13. turn \in [0..N -> all]
  <2>1. turn = [n \in 0..N |-> turn[n]]
    BY <1>9
  <2>2. \A n \in 0..N : turn[n] \in all
    BY <1>12
  <2> HIDE DEF Turns, good
  <2>3. QED
    BY <2>1, <2>2
<1> HIDE DEF Turns, good
<1>14. QED
  BY <1>10, <1>11, <1>13 DEF N, all, start

(* No sale takes more than the fills before it have left open. *)
NeverShort(tape) ==
  \A i \in 1..Len(tape) : tape[i].side = "Sell" =>
    SumOf([j \in 1..(i - 1) |-> Moved(tape[j], tape[i].symbol)]) >= tape[i].lots

(* Every list of fills whose fees can be shared out, and that never sells   *)
(* short: the profit of the closed trades less the cost of the open lots is *)
(* what the fills did to the money, and the open lots are what was bought   *)
(* and not sold (closed_trades_from_fills).                                 *)
THEOREM TradesExplainMoney ==
  ASSUME NEW S, NEW tape \in Seq(FillsOf(S)), NeverShort(tape)
  PROVE  /\ TotalPnl(Closed(tape).trades) - OpenCost(Closed(tape).lots)
              = Denom * SumOf([i \in 1..Len(tape) |-> Money(tape[i])])
         /\ \A s : LotsIn(Closed(tape).lots, s) = SumOf([i \in 1..Len(tape) |-> Moved(tape[i], s)])
<1> DEFINE N == Len(tape)
           money == [i \in 1..N |-> Money(tape[i])]
           moved(s) == [i \in 1..N |-> Moved(tape[i], s)]
<1>1. N \in Nat /\ Denom \in Nat /\ \A n \in 1..N : tape[n] \in FillsOf(S)
  BY DenomAssumption, ElementOfSeq, LenProperties
<1>2. \A n \in 1..N : money[n] = Money(tape[n]) /\ money[n] \in Int
  <2>1. \A fill \in FillsOf(S) : Money(fill) \in Int
    <3> TAKE fill \in FillsOf(S)
    <3>1. fill.price \in Int /\ fill.lots \in Int /\ fill.fees \in Int
      BY DEF FillsOf
    <3>2. fill.price * fill.lots \in Int
      BY <3>1, MulType
    <3>3. QED
      BY <3>1, <3>2 DEF Money
  <2>2. QED
    BY <1>1, <2>1
<1>3. \A s : \A n \in 1..N : moved(s)[n] = Moved(tape[n], s) /\ moved(s)[n] \in Int
  <2>1. \A s : \A fill \in FillsOf(S) : Moved(fill, s) \in Int
    BY DEF FillsOf, Moved
  <2>2. QED
    BY <1>1, <2>1
<1>4. PICK turn \in [0..N -> Accounts(S)] :
        /\ turn[0] = [left |-> 0, lots |-> <<>>, trades |-> <<>>]
        /\ \A n \in 1..N : turn[n] = TakeFill(turn[n - 1], tape[n])
        /\ Closed(tape) = turn[N]
  BY ClosedLoop
<1>5. \A s : \A n \in 0..N : Total(moved(s), n) = SumOf([j \in 1..n |-> Moved(tape[j], s)])
  <2> TAKE s
  <2> TAKE n \in 0..N
  <2>1. [j \in 1..n |-> moved(s)[j]] = [j \in 1..n |-> Moved(tape[j], s)]
    BY <1>1, <1>3
  <2>2. QED
    BY <2>1 DEF Total
<1>6. Total(money, N) = SumOf([j \in 1..N |-> Money(tape[j])])
  <2>1. [j \in 1..N |-> money[j]] = [j \in 1..N |-> Money(tape[j])]
    BY <1>2
  <2>2. QED
    BY <2>1 DEF Total
<1> DEFINE Holds(n) ==
             /\ TotalPnl(turn[n].trades) - OpenCost(turn[n].lots) = Denom * Total(money, n)
             /\ \A s : LotsIn(turn[n].lots, s) = Total(moved(s), n)
           good == {n \in 0..N : Holds(n)}
<1> HIDE DEF N, money, moved
<1>7. Holds(0)
  <2>1. Total(money, 0) = 0 /\ \A s : Total(moved(s), 0) = 0
    <3>1. \A e : Total(e, 0) = 0
      <4> TAKE e
      <4> DEFINE list == [j \in 1..0 |-> e[j]]
      <4>1. Len(list) = 0 /\ \A i \in 1..0 : list[i] \in Int
        OBVIOUS
      <4> HIDE DEF list
      <4>2. SumOf(list) = 0
        BY <4>1, SumOfLoop DEF AddsUp
      <4>3. QED
        BY <4>2 DEF Total, list
    <3>2. QED
      BY <3>1
  <2>2. turn[0].lots = <<>> /\ turn[0].trades = <<>>
    BY <1>4
  <2>3. Denom * 0 = 0
    BY <1>1
  <2>4. QED
    BY <2>1, <2>2, <2>3, NothingOpen
<1>8. ASSUME NEW n \in 1..N, Holds(n - 1) PROVE Holds(n)
  <2> DEFINE m == n - 1
             a == turn[m]
             b == turn[n]
             fill == tape[n]
  <2>1. m \in Nat /\ m + 1 = n /\ m \in 0..N /\ n \in Nat
    BY <1>1
  <2>2. a \in Accounts(S) /\ fill \in FillsOf(S) /\ b = TakeFill(a, fill)
    BY <1>1, <1>4, <2>1
  <2>3. /\ TotalPnl(a.trades) - OpenCost(a.lots) = Denom * Total(money, m)
        /\ \A s : LotsIn(a.lots, s) = Total(moved(s), m)
    BY <1>8
  <2>4. fill.side = "Sell" => LotsIn(a.lots, fill.symbol) >= fill.lots
    <3>1. HAVE fill.side = "Sell"
    <3>2. SumOf([j \in 1..m |-> Moved(tape[j], fill.symbol)]) >= fill.lots
      BY <3>1 DEF NeverShort, N
    <3>3. SumOf([j \in 1..m |-> Moved(tape[j], fill.symbol)]) = Total(moved(fill.symbol), m)
      <4> HIDE DEF m, fill
      <4>1. QED
        BY <1>5, <2>1
    <3>4. QED
      BY <2>3, <3>2, <3>3
  <2> HIDE DEF a, b, fill
  <2>5. FillTaken(S, a, fill, b)
    BY <2>2, <2>4, TakeFillIs
  <2>6. fill.symbol \in S
    BY <2>2 DEF FillsOf
  <2>7. TotalPnl(a.trades) \in Int /\ OpenCost(a.lots) \in Int /\ \A s : LotsIn(a.lots, s) \in Int
    BY <2>2, <2>6, AccountSums
  <2>8. /\ Total(money, m) \in Int /\ Total(money, n) = Total(money, m) + Money(fill)
        /\ Money(fill) \in Int
    <3>1. \A i \in 1..n : money[i] \in Int
      BY <1>1, <1>2, <2>1
    <3>2. money[n] = Money(fill) /\ money[n] \in Int
      BY <1>2 DEF fill
    <3>3. Total(money, m) \in Int /\ Total(money, m + 1) = Total(money, m) + money[m + 1]
      <4> HIDE DEF m
      <4>1. QED
        BY <2>1, <3>1, TotalNext
    <3>4. QED
      BY <2>1, <3>2, <3>3
  <2>9. \A s : Total(moved(s), n) = Total(moved(s), m) + Moved(fill, s)
    <3> TAKE s
    <3>1. \A i \in 1..n : moved(s)[i] \in Int
      BY <1>1, <1>3, <2>1
    <3>2. moved(s)[n] = Moved(fill, s)
      BY <1>3 DEF fill
    <3>3. Total(moved(s), m + 1) = Total(moved(s), m) + moved(s)[m + 1]
      <4> HIDE DEF m
      <4>1. QED
        BY <2>1, <3>1, TotalNext
    <3>4. QED
      BY <2>1, <3>2, <3>3
  <2> HIDE DEF m, Holds
  <2>10. Denom * Total(money, n) = Denom * Total(money, m) + Denom * Money(fill)
    <3>1. \A x, y \in Int : Denom * (x + y) = Denom * x + Denom * y
      BY <1>1
    <3>2. QED
      BY <2>8, <3>1
  <2>11. TotalPnl(b.trades) - OpenCost(b.lots) = Denom * Total(money, n)
    BY <2>3, <2>5, <2>10 DEF FillTaken
  <2>12. \A s : LotsIn(b.lots, s) = Total(moved(s), n)
    BY <2>3, <2>5, <2>9 DEF FillTaken
  <2>13. QED
    BY <2>11, <2>12 DEF Holds, b
<1> HIDE DEF Holds
<1>9. \A n \in 0..N : n \in good
  <2>1. 0 \in good
    BY <1>1, <1>7
  <2>2. \A n \in 1..N : n - 1 \in good => n \in good
    BY <1>1, <1>8
  <2> HIDE DEF good
  <2>3. QED
    BY <1>1, <2>1, <2>2, Climb
<1>10. Holds(N) /\ N \in 0..N
  BY <1>1, <1>9
<1>11. QED
  BY <1>4, <1>5, <1>6, <1>10 DEF Holds, N

-----------------------------------------------------------------------------
(***************************************************************************)
(* The loop of max_drawdown.                                               *)
(***************************************************************************)
Falls == Int \X (Nat \ {0})

PeaksAndFalls == [peak : Nat, worst : Falls]

LEMMA ProductKeepsOrder ==
  ASSUME NEW a \in Int, NEW b \in Int, NEW c \in Nat, a <= b PROVE a * c <= b * c
OBVIOUS

LEMMA ProductShowsOrder ==
  ASSUME NEW a \in Int, NEW b \in Int, NEW c \in Nat \ {0}, a * c <= b * c PROVE a <= b
OBVIOUS

LEMMA ProductTurned ==
  ASSUME NEW a \in Int, NEW b \in Int, NEW c \in Int
  PROVE  (a * b) * c = (a * c) * b /\ (a * b) * c \in Int
OBVIOUS

(* Of three falls, the first not below the second and that not below the third. *)
LEMMA NotSmaller ==
  ASSUME NEW x \in Falls, NEW y \in Falls, NEW z \in Falls, ~Smaller(x, y), ~Smaller(y, z)
  PROVE  ~Smaller(x, z)
<1> DEFINE a == x[1]
           b == x[2]
           c == y[1]
           d == y[2]
           e == z[1]
           f == z[2]
<1>1. a \in Int /\ c \in Int /\ e \in Int
      /\ b \in Nat /\ d \in Nat \ {0} /\ f \in Nat
  BY DEF Falls
<1>2. /\ Smaller(x, y) <=> a * d < c * b
      /\ Smaller(y, z) <=> c * f < e * d
      /\ Smaller(x, z) <=> a * f < e * b
  BY DEF Smaller
<1> HIDE DEF a, b, c, d, e, f
<1>3. a * d \in Int /\ c * b \in Int /\ c * f \in Int /\ e * d \in Int /\ a * f \in Int /\ e * b \in Int
  BY <1>1, MulType
<1>4. c * b <= a * d /\ e * d <= c * f
  BY <1>2, <1>3
<1>5. (c * b) * f <= (a * d) * f
  BY <1>1, <1>3, <1>4, ProductKeepsOrder
<1>6. (e * d) * b <= (c * f) * b
  BY <1>1, <1>3, <1>4, ProductKeepsOrder
<1>7. (c * b) * f = (c * f) * b /\ (a * d) * f = (a * f) * d /\ (e * d) * b = (e * b) * d
      /\ (c * b) * f \in Int /\ (a * d) * f \in Int /\ (e * d) * b \in Int
  BY <1>1, ProductTurned
<1>8. (e * b) * d <= (a * f) * d
  BY <1>5, <1>6, <1>7
<1>9. e * b <= a * f
  BY <1>1, <1>3, <1>8, ProductShowsOrder
<1>10. QED
  BY <1>2, <1>3, <1>9

(* From a lower point the way down to the same value is less. *)
LEMMA LowerPeak ==
  ASSUME NEW c \in Nat \ {0}, NEW peak \in Nat, NEW v \in Nat, c <= peak
  PROVE  ~Smaller(<<peak - v, peak>>, <<c - v, c>>)
<1>1. (peak - v) * c = peak * c - v * c /\ (c - v) * peak = c * peak - v * peak
  OBVIOUS
<1>2. peak * c = c * peak /\ v * c = c * v /\ v * peak = peak * v
  OBVIOUS
<1>3. peak * c \in Int /\ c * v \in Int /\ peak * v \in Int
  BY MulType
<1>4. c * v <= peak * v
  BY ProductKeepsOrder
<1>5. ~((peak - v) * c < (c - v) * peak)
  BY <1>1, <1>2, <1>3, <1>4
<1>6. QED
  BY <1>5 DEF Smaller

LEMMA FallType ==
  ASSUME NEW acc \in PeaksAndFalls, NEW v \in Nat
  PROVE  Fall(acc, v) \in PeaksAndFalls
<1>1. acc.peak \in Nat /\ acc.worst \in Falls
  BY DEF PeaksAndFalls
<1> DEFINE peak == IF v > acc.peak THEN v ELSE acc.peak
<1>2. peak \in Nat /\ (peak > 0 => <<peak - v, peak>> \in Falls)
  BY <1>1 DEF Falls
<1>3. Fall(acc, v) = [peak |-> peak,
                      worst |-> IF peak > 0 /\ Smaller(acc.worst, <<peak - v, peak>>)
                                THEN <<peak - v, peak>> ELSE acc.worst]
  BY DEF Fall
<1> HIDE DEF peak
<1>4. QED
  BY <1>1, <1>2, <1>3 DEF PeaksAndFalls

LEMMA CurveLoop ==
  ASSUME NEW curve \in Seq(Nat)
  PROVE  \E turn \in [0..Len(curve) -> PeaksAndFalls] :
           /\ turn[0] = [peak |-> 0, worst |-> <<0, 1>>]
           /\ \A n \in 1..Len(curve) : turn[n] = Fall(turn[n - 1], curve[n])
           /\ MaxDrawdown(curve) = turn[Len(curve)].worst
<1> DEFINE N == Len(curve)
           all == PeaksAndFalls
           start == [peak |-> 0, worst |-> <<0, 1>>]
           next == [p \in (1..N) \X all |-> Fall(p[2], curve[p[1]])]
           Turns(g) == g = [n \in 0..N |-> IF n = 0 THEN start ELSE Fall(g[n - 1], curve[n])]
           turn == CHOOSE g : Turns(g)
<1>1. N \in Nat /\ \A n \in 1..N : curve[n] \in Nat
  BY ElementOfSeq, LenProperties
<1>2. start \in all
  BY DEF PeaksAndFalls, Falls
<1>3. \A n \in 1..N, a \in all : Fall(a, curve[n]) \in all
  BY <1>1, FallType
<1> HIDE DEF N, all, start
<1>4. next \in [(1..N) \X all -> all]
  BY <1>3
<1>5. \A n \in 1..N, a \in all : next[<<n, a>>] = Fall(a, curve[n])
  OBVIOUS
<1> HIDE DEF next
<1>6. PICK f \in [0..N -> all] : Loops(f, start, next, N)
  BY <1>1, <1>2, <1>4, Iterates
<1>7. \A n \in 1..N : f[n] = Fall(f[n - 1], curve[n])
  <2> TAKE n \in 1..N
  <2>1. n - 1 \in 0..N /\ f[n - 1] \in all
    BY <1>1
  <2>2. f[n] = next[<<n, f[n - 1]>>]
    BY <1>6 DEF Loops
  <2>3. QED
    BY <1>5, <2>1, <2>2
<1>8. Turns(f)
  <2>1. \A n \in 0..N : f[n] = IF n = 0 THEN start ELSE Fall(f[n - 1], curve[n])
    <3> TAKE n \in 0..N
    <3>1. CASE n = 0
      BY <1>6, <3>1 DEF Loops
    <3>2. CASE n # 0
      <4>1. n \in 1..N
        BY <1>1, <3>2
      <4>2. QED
        BY <1>7, <3>2, <4>1
    <3>3. QED
      BY <3>1, <3>2
  <2>2. f = [n \in 0..N |-> f[n]]
    OBVIOUS
  <2>3. QED
    BY <2>1, <2>2
<1>9. Turns(turn)
  <2> HIDE DEF Turns
  <2>1. QED
    BY <1>8
<1>10. MaxDrawdown(curve) = turn[N].worst
  BY DEF MaxDrawdown, N, start
<1> HIDE DEF turn
<1>11. turn[0] = start /\ \A n \in 1..N : turn[n] = Fall(turn[n - 1], curve[n])
  <2>1. 0 \in 0..N /\ \A n \in 1..N : n \in 0..N /\ n # 0
    BY <1>1
  <2>2. QED
    BY <1>9, <2>1
<1> DEFINE good == {n \in 0..N : turn[n] \in all}
<1>12. \A n \in 0..N : n \in good
  <2>1. 0 \in good
    BY <1>1, <1>2, <1>11
  <2>2. \A n \in 1..N : n - 1 \in good => n \in good
    BY <1>1, <1>3, <1>11
  <2> HIDE DEF good
  <2>3. QED
    BY <1>1, <2>1, <2>2, Climb
<1>13. turn \in [0..N -> all]
  <2>1. turn = [n \in 0..N |-> turn[n]]
    BY <1>9
  <2>2. \A n \in 0..N : turn[n] \in all
    BY <1>12
  <2> HIDE DEF Turns, good
  <2>3. QED
    BY <2>1, <2>2
<1> HIDE DEF Turns, good
<1>14. QED
  BY <1>10, <1>11, <1>13 DEF N, all, start

(* The falls of the first n points of a curve. *)
FallOf(curve, p, q) == <<curve[p] - curve[q], curve[p]>>

Deepest(curve, n, acc) ==
  /\ \A i \in 1..n : curve[i] <= acc.peak
  /\ \A q \in 1..n : \A p \in 1..q : curve[p] > 0 => ~Smaller(acc.worst, FallOf(curve, p, q))
  /\ \/ acc.worst = <<0, 1>>
     \/ \E q \in 1..n : \E p \in 1..q : curve[p] > 0 /\ acc.worst = FallOf(curve, p, q)
  /\ acc.peak = 0 \/ \E p \in 1..n : curve[p] = acc.peak

LEMMA FallDeepest ==
  ASSUME NEW curve, NEW n \in Nat, \A i \in 1..(n + 1) : curve[i] \in Nat,
         NEW acc \in PeaksAndFalls, Deepest(curve, n, acc)
  PROVE  Deepest(curve, n + 1, Fall(acc, curve[n + 1]))
<1> DEFINE v == curve[n + 1]
           peak == IF v > acc.peak THEN v ELSE acc.peak
           fall == <<peak - v, peak>>
           b == Fall(acc, v)
<1>1. /\ v \in Nat /\ acc.peak \in Nat /\ acc.worst \in Falls /\ b \in PeaksAndFalls
      /\ \A i \in 1..n : curve[i] \in Nat
  <2>1. v \in Nat
    OBVIOUS
  <2>2. b \in PeaksAndFalls
    BY <2>1, FallType
  <2>3. QED
    BY <2>1, <2>2 DEF PeaksAndFalls
<1>2. /\ peak \in Nat /\ v <= peak /\ acc.peak <= peak /\ (peak > 0 => fall \in Falls)
      /\ peak \in {v, acc.peak}
  BY <1>1 DEF Falls
<1>3. /\ b.peak = peak
      /\ b.worst = IF peak > 0 /\ Smaller(acc.worst, fall) THEN fall ELSE acc.worst
  BY DEF Fall
<1> HIDE DEF b, peak, v, fall
<1>4. b.worst \in Falls /\ b.peak \in Nat
  BY <1>1 DEF PeaksAndFalls
<1>5. ~Smaller(b.worst, acc.worst) /\ (peak > 0 => ~Smaller(b.worst, fall))
  <2>1. \A x \in Falls : ~Smaller(x, x)
    <3> TAKE x \in Falls
    <3>1. x[1] * x[2] \in Int
      BY MulType DEF Falls
    <3>2. QED
      BY <3>1 DEF Smaller
  <2>2. ASSUME NEW x \in Falls, NEW y \in Falls, Smaller(x, y) PROVE ~Smaller(y, x)
    <3>1. x[1] * y[2] \in Int /\ y[1] * x[2] \in Int
      BY MulType DEF Falls
    <3>2. QED
      BY <2>2, <3>1 DEF Smaller
  <2>3. CASE peak > 0 /\ Smaller(acc.worst, fall)
    BY <1>1, <1>2, <1>3, <2>1, <2>2, <2>3
  <2>4. CASE ~(peak > 0 /\ Smaller(acc.worst, fall))
    BY <1>1, <1>2, <1>3, <2>1, <2>4
  <2>5. QED
    BY <2>3, <2>4
<1>6. \A i \in 1..(n + 1) : curve[i] <= peak
  <2> TAKE i \in 1..(n + 1)
  <2>1. i = n + 1 \/ i \in 1..n
    OBVIOUS
  <2>2. i \in 1..n => curve[i] <= acc.peak /\ curve[i] \in Nat
    BY <1>1 DEF Deepest
  <2>3. QED
    BY <1>1, <1>2, <2>1, <2>2 DEF v
<1>7. ASSUME NEW q \in 1..(n + 1), NEW p \in 1..q, curve[p] > 0
      PROVE  ~Smaller(b.worst, FallOf(curve, p, q))
  <2>1. p \in 1..(n + 1) /\ curve[p] \in Nat \ {0} /\ curve[q] \in Nat /\ curve[p] <= peak
    <3>1. p \in 1..(n + 1)
      OBVIOUS
    <3>2. curve[p] \in Nat /\ curve[q] \in Nat
      BY <3>1
    <3>3. QED
      BY <1>6, <1>7, <3>1, <3>2
  <2>2. FallOf(curve, p, q) \in Falls
    BY <2>1 DEF FallOf, Falls
  <2>3. CASE q \in 1..n
    <3>1. ~Smaller(acc.worst, FallOf(curve, p, q))
      BY <1>7, <2>3 DEF Deepest
    <3>2. QED
      BY <1>1, <1>4, <1>5, <2>2, <3>1, NotSmaller
  <2>4. CASE q = n + 1
    <3>1. FallOf(curve, p, q) = <<curve[p] - v, curve[p]>>
      BY <2>4 DEF FallOf, v
    <3>2. ~Smaller(fall, FallOf(curve, p, q)) /\ peak > 0
      BY <1>1, <1>2, <2>1, <3>1, LowerPeak DEF fall
    <3>3. QED
      BY <1>2, <1>4, <1>5, <2>2, <3>2, NotSmaller
  <2>5. QED
    BY <2>3, <2>4
<1>8. peak = 0 \/ \E p \in 1..(n + 1) : curve[p] = peak
  <2>1. n + 1 \in 1..(n + 1) /\ \A p \in 1..n : p \in 1..(n + 1)
    OBVIOUS
  <2>2. QED
    BY <1>2, <2>1 DEF Deepest, v
<1>9. \/ b.worst = <<0, 1>>
      \/ \E q \in 1..(n + 1) : \E p \in 1..q : curve[p] > 0 /\ b.worst = FallOf(curve, p, q)
  <2>1. CASE b.worst = acc.worst
    <3>1. \A q \in 1..n : q \in 1..(n + 1)
      OBVIOUS
    <3>2. QED
      BY <2>1, <3>1 DEF Deepest
  <2>2. CASE b.worst = fall /\ peak > 0
    <3>1. PICK p \in 1..(n + 1) : curve[p] = peak
      BY <1>8, <2>2
    <3>2. n + 1 \in 1..(n + 1) /\ b.worst = FallOf(curve, p, n + 1) /\ curve[p] > 0
      BY <2>2, <3>1 DEF FallOf, fall, v
    <3>3. QED
      BY <3>1, <3>2
  <2>3. QED
    BY <1>3, <2>1, <2>2
<1>10. Deepest(curve, n + 1, b)
  BY <1>3, <1>6, <1>7, <1>8, <1>9 DEF Deepest
<1>11. QED
  BY <1>10 DEF b, v

(* Every curve of natural values, of any length: max_drawdown, which goes   *)
(* through it once with a running peak, returns the largest relative fall   *)
(* from any point to a later one, and one that the curve has.               *)
THEOREM DrawdownWorst == \A curve \in Seq(Nat) : DrawdownIsWorst(curve)
<1> TAKE curve \in Seq(Nat)
<1> DEFINE N == Len(curve)
           D == DOMAIN curve
           later == {<<curve[p[1]] - curve[p[2]], curve[p[1]]>> :
                       p \in {q \in D \X D : q[1] <= q[2] /\ curve[q[1]] > 0}}
           worst == MaxDrawdown(curve)
<1>1. N \in Nat /\ D = 1..N /\ \A n \in 1..N : curve[n] \in Nat
  BY ElementOfSeq, LenProperties
<1>2. PICK turn \in [0..N -> PeaksAndFalls] :
        /\ turn[0] = [peak |-> 0, worst |-> <<0, 1>>]
        /\ \A n \in 1..N : turn[n] = Fall(turn[n - 1], curve[n])
        /\ worst = turn[N].worst
  BY CurveLoop
<1> DEFINE good == {n \in 0..N : Deepest(curve, n, turn[n])}
<1>3. \A n \in 0..N : n \in good
  <2>1. 0 \in good
    BY <1>1, <1>2 DEF Deepest
  <2>2. ASSUME NEW n \in 1..N, n - 1 \in good PROVE n \in good
    <3> DEFINE m == n - 1
    <3>1. m \in Nat /\ m + 1 = n /\ m \in 0..N /\ n \in 0..N /\ \A i \in 1..n : i \in 1..N
      BY <1>1
    <3>2. Deepest(curve, m, turn[m]) /\ turn[n] = Fall(turn[m], curve[n])
      BY <1>2, <2>2
    <3> HIDE DEF m
    <3>3. turn[m] \in PeaksAndFalls /\ \A i \in 1..(m + 1) : curve[i] \in Nat
      BY <1>1, <3>1
    <3>4. Deepest(curve, m + 1, Fall(turn[m], curve[m + 1]))
      BY <3>1, <3>2, <3>3, FallDeepest
    <3>5. QED
      BY <3>1, <3>2, <3>4
  <2> HIDE DEF good
  <2>3. QED
    BY <1>1, <2>1, <2>2, Climb
<1>4. Deepest(curve, N, turn[N]) /\ turn[N] \in PeaksAndFalls
  BY <1>1, <1>3
<1>5. worst \in Falls
  BY <1>2, <1>4 DEF PeaksAndFalls
<1> HIDE DEF good, worst
<1>6. ASSUME NEW x \in later
      PROVE  \E q \in 1..N : \E p \in 1..q : curve[p] > 0 /\ x = FallOf(curve, p, q)
  <2>1. PICK r \in D \X D : r[1] <= r[2] /\ curve[r[1]] > 0 /\ x = <<curve[r[1]] - curve[r[2]], curve[r[1]]>>
    OBVIOUS
  <2>2. r[2] \in 1..N /\ r[1] \in 1..r[2]
    BY <1>1, <2>1
  <2>3. QED
    BY <2>1, <2>2 DEF FallOf
<1>7. ASSUME NEW q \in 1..N, NEW p \in 1..q, curve[p] > 0
      PROVE  FallOf(curve, p, q) \in later
  <2>1. p \in D /\ q \in D /\ p <= q
    BY <1>1
  <2>2. <<p, q>> \in {r \in D \X D : r[1] <= r[2] /\ curve[r[1]] > 0}
    BY <1>7, <2>1
  <2>3. QED
    BY <2>2 DEF FallOf
<1> HIDE DEF later
<1>8. \A x \in later : ~Smaller(worst, x)
  BY <1>2, <1>4, <1>6 DEF Deepest
<1>9. later # {} => \E x \in later : ~Smaller(x, worst)
  <2>1. HAVE later # {}
  <2>2. CASE worst = <<0, 1>>
    <3>1. PICK x \in later : TRUE
      BY <2>1
    <3>2. PICK q \in 1..N : \E p \in 1..q : curve[p] > 0 /\ x = FallOf(curve, p, q)
      BY <1>6, <3>1
    <3>3. PICK p \in 1..q : curve[p] > 0
      BY <3>2
    <3>4. p \in 1..N /\ p \in 1..p /\ curve[p] \in Nat
      BY <1>1, <3>2
    <3>5. FallOf(curve, p, p) \in later
      BY <1>7, <3>3, <3>4
    <3>6. FallOf(curve, p, p) = <<0, curve[p]>>
      BY <3>4 DEF FallOf
    <3>7. ~Smaller(<<0, curve[p]>>, <<0, 1>>)
      BY <3>4 DEF Smaller
    <3>8. QED
      BY <2>2, <3>5, <3>6, <3>7
  <2>3. CASE worst # <<0, 1>>
    <3>1. PICK q \in 1..N : \E p \in 1..q : curve[p] > 0 /\ worst = FallOf(curve, p, q)
      BY <1>2, <1>4, <2>3 DEF Deepest
    <3>2. worst \in later
      BY <1>7, <3>1
    <3>3. worst[1] * worst[2] \in Int
      BY <1>5, MulType DEF Falls
    <3>4. ~Smaller(worst, worst)
      BY <3>3 DEF Smaller
    <3>5. QED
      BY <3>2, <3>4
  <2>4. QED
    BY <2>2, <2>3
<1>10. QED
  BY <1>8, <1>9 DEF DrawdownIsWorst, later, worst

-----------------------------------------------------------------------------
(***************************************************************************)
(* The fills of a backtest as the list closed_trades_from_fills is given.  *)
(***************************************************************************)
LEMMA FiniteUpTo ==
  ASSUME NEW m \in Nat PROVE IsFiniteSet(1..m)
<1>1. 1 \in Int /\ m \in Int
  OBVIOUS
<1>2. QED
  BY <1>1, FS_Interval

Parts(n, list, up, down) ==
  \A i \in 1..n : up[i] \in Nat /\ down[i] \in Nat /\ list[i] = up[i] - down[i]

(* A list of differences adds up to the difference of two sums. *)
LEMMA SumOfParts ==
  ASSUME NEW n \in Nat, NEW list, Len(list) = n, NEW up, NEW down,
         Parts(n, list, up, down)
  PROVE  SumOf(list) = SumOver(up, 1..n) - SumOver(down, 1..n)
<1> DEFINE Holds(k) == Total(list, k) = SumOver(up, 1..k) - SumOver(down, 1..k)
           good == {k \in 0..n : Holds(k)}
<1>1. \A i \in 1..n : list[i] \in Int
  BY DEF Parts
<1>2. Holds(0)
  <2>1. 1..0 = {}
    OBVIOUS
  <2>2. SumOver(up, 1..0) = 0 /\ SumOver(down, 1..0) = 0
    BY <2>1, SumEmpty
  <2>3. Total(list, 0) = 0
    <3> DEFINE none == [j \in 1..0 |-> list[j]]
    <3>1. Len(none) = 0 /\ \A i \in 1..0 : none[i] \in Int
      OBVIOUS
    <3> HIDE DEF none
    <3>2. SumOf(none) = 0
      BY <3>1, SumOfLoop DEF AddsUp
    <3>3. QED
      BY <3>2 DEF Total, none
  <2>4. QED
    BY <2>2, <2>3
<1>3. ASSUME NEW k \in 1..n, Holds(k - 1) PROVE Holds(k)
  <2> DEFINE m == k - 1
  <2>1. m \in Nat /\ m + 1 = k /\ 1..k = (1..m) \cup {k} /\ k \notin 1..m /\ \A i \in 1..k : i \in 1..n
    OBVIOUS
  <2>2. Holds(m)
    BY <1>3
  <2> HIDE DEF m
  <2>3. Total(list, m) \in Int /\ Total(list, m + 1) = Total(list, m) + list[m + 1]
    <3>1. \A i \in 1..(m + 1) : list[i] \in Int
      BY <1>1, <2>1
    <3>2. QED
      BY <2>1, <3>1, TotalNext
  <2> DEFINE S == 1..m
  <2>4. IsFiniteSet(S) /\ k \notin S /\ 1..k = S \cup {k}
        /\ (\A i \in S : up[i] \in Nat /\ down[i] \in Nat)
        /\ (\A i \in S \cup {k} : up[i] \in Nat) /\ (\A i \in S \cup {k} : down[i] \in Nat)
    <3>1. IsFiniteSet(S)
      BY <2>1, FiniteUpTo
    <3>2. k \notin S /\ 1..k = S \cup {k} /\ \A i \in S \cup {k} : i \in 1..n
      BY <2>1
    <3> HIDE DEF S, m
    <3>3. QED
      BY <3>1, <3>2 DEF Parts
  <2>5. up[k] \in Nat /\ down[k] \in Nat /\ list[k] = up[k] - down[k]
    BY DEF Parts
  <2>6. Total(list, m) = SumOver(up, S) - SumOver(down, S)
    BY <2>2
  <2> HIDE DEF S
  <2>7. SumOver(up, S \cup {k}) = SumOver(up, S) + up[k] /\ SumOver(up, S) \in Nat
    <3>1. SumOver(up, S \cup {k}) = SumOver(up, S) + up[k]
      BY <2>4, SumInsert
    <3>2. SumOver(up, S) \in Nat
      BY <2>4, SumType
    <3>3. QED
      BY <3>1, <3>2
  <2>8. SumOver(down, S \cup {k}) = SumOver(down, S) + down[k] /\ SumOver(down, S) \in Nat
    <3>1. SumOver(down, S \cup {k}) = SumOver(down, S) + down[k]
      BY <2>4, SumInsert
    <3>2. SumOver(down, S) \in Nat
      BY <2>4, SumType
    <3>3. QED
      BY <3>1, <3>2
  <2>9. Total(list, k) = Total(list, m) + list[k]
    BY <2>1, <2>3
  <2>10. SumOver(up, 1..k) = SumOver(up, S) + up[k] /\ SumOver(down, 1..k) = SumOver(down, S) + down[k]
    BY <2>4, <2>7, <2>8
  <2>11. QED
    BY <2>5, <2>6, <2>7, <2>8, <2>9, <2>10
<1> HIDE DEF Holds
<1>4. \A k \in 0..n : k \in good
  <2>1. 0 \in good
    BY <1>2
  <2>2. \A k \in 1..n : k - 1 \in good => k \in good
    BY <1>3
  <2> HIDE DEF good
  <2>3. QED
    BY <2>1, <2>2, Climb
<1>5. Holds(n)
  BY <1>4
<1>6. SumOf(list) = Total(list, n)
  BY <1>1, TotalIs
<1>7. QED
  BY <1>5, <1>6 DEF Holds

(* Fills in the order of their ids: order[i] is the i-th. *)
Numbers(order, n) ==
  /\ n \in Nat /\ order \in Bijection(1..n, fills)
  /\ \A i, j \in 1..n : i < j => order[i].id < order[j].id

Entry(f) ==
  [symbol |-> f.symbol, side |-> f.side, price |-> f.price, lots |-> f.lots,
   ts |-> f.ts, fees |-> FeesOf(f)]

LEMMA TapeIs ==
  ASSUME LedgerTypes, TapeInv
  PROVE  \E n, order : Numbers(order, n) /\ Tape = [i \in 1..n |-> Entry(order[i])]
<1> DEFINE ids == {f.id : f \in fills}
           n == Cardinality(ids)
           byId == Placing(UpTo(ids))
           order == [i \in 1..n |-> CHOOSE f \in fills : f.id = byId[i]]
<1>1. IsFiniteSet(fills) /\ \A f \in fills : f.id \in Nat
  BY DEF LedgerTypes, Fills
<1>2. IsFiniteSet(ids) /\ ids \subseteq Int
  <2>1. ids \subseteq Int
    BY <1>1
  <2>2. IsFiniteSet(ids)
    <3> DEFINE name == [f \in fills |-> f.id]
    <3>1. name \in Surjection(fills, ids)
      BY DEF Surjection
    <3> HIDE DEF name, ids
    <3>2. QED
      BY <1>1, <3>1, FS_Surjection
  <2>3. QED
    BY <2>1, <2>2
<1>3. n \in Nat
  <2> HIDE DEF ids
  <2>1. QED
    BY <1>2, FS_CardinalityType
<1>4. byId \in Bijection(1..n, ids) /\ \A i, j \in 1..n : i < j => byId[i] < byId[j]
  <2> HIDE DEF ids
  <2>1. QED
    BY <1>2, UpToOrders
<1>5. /\ DOMAIN byId = 1..n /\ \A i \in 1..n : byId[i] \in ids
      /\ \A i, j \in 1..n : byId[i] = byId[j] => i = j
      /\ \A x \in ids : \E i \in 1..n : byId[i] = x
  <2> HIDE DEF ids, byId, n
  <2>1. QED
    BY <1>4 DEF Bijection, Injection, Surjection, IsInjective
<1>6. \A i \in 1..n : order[i] \in fills /\ order[i].id = byId[i]
  <2> TAKE i \in 1..n
  <2>1. \E f \in fills : f.id = byId[i]
    <3> HIDE DEF byId, n
    <3>1. QED
      BY <1>5
  <2> HIDE DEF byId, n
  <2>2. QED
    BY <2>1
<1>7. Tape = [i \in 1..n |-> Entry(order[i])]
  <2>1. Tape = [i \in DOMAIN byId |->
                  LET f == CHOOSE g \in fills : g.id = byId[i]
                  IN  [symbol |-> f.symbol, side |-> f.side, price |-> f.price, lots |-> f.lots,
                       ts |-> f.ts, fees |-> FeesOf(f)]]
    BY DEF Tape
  <2> HIDE DEF byId, n
  <2>2. QED
    BY <1>5, <2>1 DEF Entry
<1> HIDE DEF byId, n, order
<1>8. \A i, j \in 1..n : i < j => order[i].id < order[j].id
  BY <1>4, <1>6
<1>9. order \in Bijection(1..n, fills)
  <2>1. order \in [1..n -> fills]
    <3>1. DOMAIN order = 1..n /\ order = [i \in 1..n |-> order[i]]
      BY DEF order
    <3>2. QED
      BY <1>6, <3>1
  <2>2. \A i, j \in 1..n : order[i] = order[j] => i = j
    BY <1>5, <1>6
  <2>3. \A f \in fills : \E i \in 1..n : order[i] = f
    <3> TAKE f \in fills
    <3>1. PICK i \in 1..n : byId[i] = f.id
      BY <1>5
    <3>2. order[i] \in fills /\ order[i].id = f.id
      BY <1>6, <3>1
    <3>3. QED
      BY <3>2 DEF TapeInv
  <2>4. QED
    BY <2>1, <2>2, <2>3 DEF Bijection, Injection, Surjection, IsInjective
<1>10. QED
  BY <1>3, <1>7, <1>8, <1>9 DEF Numbers

(* A sum over the first fills. *)
LEMMA TapeSum ==
  ASSUME NEW n, NEW order, Numbers(order, n), NEW k \in 0..n, NEW list, Len(list) = k,
         NEW up, NEW down, \A f \in fills : up[f] \in Nat /\ down[f] \in Nat,
         \A i \in 1..k : list[i] = up[order[i]] - down[order[i]]
  PROVE  LET early == {order[i] : i \in 1..k}
         IN  SumOf(list) = SumOver(up, early) - SumOver(down, early)
<1> DEFINE early == {order[i] : i \in 1..k}
           pi == [i \in 1..k |-> order[i]]
           u == [i \in 1..k |-> up[order[i]]]
           d == [i \in 1..k |-> down[order[i]]]
<1>1. /\ n \in Nat /\ k \in Nat /\ \A i \in 1..n : order[i] \in fills
      /\ \A i, j \in 1..n : order[i] = order[j] => i = j
      /\ \A i \in 1..k : i \in 1..n
  <2>1. n \in Nat /\ order \in Bijection(1..n, fills)
    BY DEF Numbers
  <2>2. k \in Nat /\ \A i \in 1..k : i \in 1..n
    BY <2>1
  <2>3. order \in [1..n -> fills] /\ \A i, j \in 1..n : order[i] = order[j] => i = j
    BY <2>1 DEF Bijection, Injection, IsInjective
  <2>4. QED
    BY <2>1, <2>2, <2>3
<1>2. pi \in Bijection(1..k, early)
  <2>1. pi \in [1..k -> early] /\ \A i \in 1..k : pi[i] = order[i]
    OBVIOUS
  <2>2. \A i, j \in 1..k : pi[i] = pi[j] => i = j
    BY <1>1, <2>1
  <2>3. \A f \in early : \E i \in 1..k : pi[i] = f
    OBVIOUS
  <2> HIDE DEF pi, early
  <2>4. QED
    BY <2>1, <2>2, <2>3 DEF Bijection, Injection, Surjection, IsInjective
<1>3. \A i \in 1..k : u[i] = up[pi[i]] /\ d[i] = down[pi[i]] /\ pi[i] \in early
  OBVIOUS
<1>4. \A f \in early : up[f] \in Nat /\ down[f] \in Nat
  BY <1>1
<1>5. \A i \in 1..k : u[i] \in Nat /\ d[i] \in Nat /\ list[i] = u[i] - d[i]
  BY <1>1
<1> DEFINE S == 1..k
<1>6. IsFiniteSet(S)
  BY <1>1, FiniteUpTo
<1> HIDE DEF early, pi, u, d
<1>7. SumOf(list) = SumOver(u, 1..k) - SumOver(d, 1..k)
  <2>1. Parts(k, list, u, d)
    BY <1>5 DEF Parts
  <2>2. QED
    BY <1>1, <2>1, SumOfParts
<1>8. SumOver(u, 1..k) = SumOver(up, early)
  <2>1. \A i \in S : u[i] = up[pi[i]] /\ d[i] = down[pi[i]]
    BY <1>3
  <2>2. pi \in Bijection(S, early)
    BY <1>2
  <2> HIDE DEF S
  <2>3. SumOver(u, S) = SumOver(up, early) /\ SumOver(d, S) = SumOver(down, early)
    BY <1>4, <1>6, <2>1, <2>2, SumReindex
  <2>4. QED
    BY <2>3 DEF S
<1>9. SumOver(d, 1..k) = SumOver(down, early)
  <2>1. \A i \in S : u[i] = up[pi[i]] /\ d[i] = down[pi[i]]
    BY <1>3
  <2>2. pi \in Bijection(S, early)
    BY <1>2
  <2> HIDE DEF S
  <2>3. SumOver(u, S) = SumOver(up, early) /\ SumOver(d, S) = SumOver(down, early)
    BY <1>4, <1>6, <2>1, <2>2, SumReindex
  <2>4. QED
    BY <2>3 DEF S
<1>10. QED
  BY <1>7, <1>8, <1>9 DEF early

(* The fills before one of them are those with lower ids. *)
LEMMA EarlierFills ==
  ASSUME LedgerTypes, NEW n, NEW order, Numbers(order, n)
  PROVE  /\ {order[i] : i \in 1..n} = fills
         /\ \A k \in 1..n : {order[i] : i \in 1..(k - 1)} = {g \in fills : g.id < order[k].id}
<1>1. /\ n \in Nat /\ \A i \in 1..n : order[i] \in fills /\ order[i].id \in Nat
      /\ \A i, j \in 1..n : i < j => order[i].id < order[j].id
      /\ \A f \in fills : \E i \in 1..n : order[i] = f
  BY DEF Numbers, Bijection, Injection, Surjection, LedgerTypes, Fills
<1>2. {order[i] : i \in 1..n} = fills
  BY <1>1
<1>3. ASSUME NEW k \in 1..n
      PROVE  {order[i] : i \in 1..(k - 1)} = {g \in fills : g.id < order[k].id}
  <2>1. \A i \in 1..n : i \in 1..(k - 1) <=> order[i].id < order[k].id
    <3> TAKE i \in 1..n
    <3>1. i \in 1..(k - 1) <=> i < k
      BY <1>1
    <3>2. i < k => order[i].id < order[k].id
      BY <1>1
    <3>3. ~(i < k) => ~(order[i].id < order[k].id)
      <4>1. HAVE ~(i < k)
      <4>2. i = k \/ k < i
        BY <1>1, <4>1
      <4>3. order[k].id = order[i].id \/ order[k].id < order[i].id
        BY <1>1, <4>2
      <4>4. QED
        BY <1>1, <4>3
    <3>4. QED
      BY <3>1, <3>2, <3>3
  <2>2. \A i \in 1..(k - 1) : i \in 1..n
    BY <1>1
  <2>3. QED
    BY <1>1, <2>1, <2>2
<1>4. QED
  BY <1>2, <1>3

LEMMA EntryType ==
  ASSUME NEW f \in Fills
  PROVE  /\ Entry(f) \in FillsOf(Symbols)
         /\ Entry(f).symbol = f.symbol /\ Entry(f).side = f.side /\ Entry(f).lots = f.lots
         /\ Entry(f).price = f.price /\ Entry(f).fees = FeesOf(f)
<1>1. /\ f.symbol \in Symbols /\ f.side \in {"Buy", "Sell"} /\ f.price \in Nat
      /\ f.lots \in 1..MaxLots /\ f.ts \in Times
  BY FillType DEF Fills, Sides
<1>2. MaxLots \in Nat /\ MaxTs \in Nat /\ FeesOf(f) \in Nat
  BY FillType, BacktestAssumption
<1>3. f.lots \in Nat \ {0} /\ f.ts \in Nat
  BY <1>1, <1>2 DEF Times
<1>4. Denom % f.lots = 0
  BY <1>1, SharesAssumption
<1>5. QED
  BY <1>1, <1>2, <1>3, <1>4 DEF Entry, FillsOf

LEMMA TapeType ==
  ASSUME LedgerTypes, NEW n, NEW order, Numbers(order, n), Tape = [i \in 1..n |-> Entry(order[i])]
  PROVE  Tape \in Seq(FillsOf(Symbols)) /\ Len(Tape) = n
<1>1. n \in Nat /\ \A i \in 1..n : order[i] \in Fills
  BY DEF Numbers, Bijection, Injection, LedgerTypes
<1>2. \A i \in 1..n : Entry(order[i]) \in FillsOf(Symbols)
  BY <1>1, EntryType
<1>3. Tape \in Seq(FillsOf(Symbols))
  BY <1>1, <1>2, IsASeq
<1>4. QED
  BY <1>1, <1>3

(* The lots of the fills of one side and symbol, as a function of all fills. *)
LotsFor(side, s) ==
  [f \in fills |-> IF f.side = side /\ f.symbol = s THEN f.lots ELSE 0]

FillsAmong(E, side, s) == {f \in E : f.side = side /\ f.symbol = s}

LEMMA LotsForSum ==
  ASSUME LedgerTypes, NEW E, E \subseteq fills, NEW side, NEW s
  PROVE  /\ SumOver(LotsFor(side, s), E)
              = SumOver([f \in fills |-> f.lots], FillsAmong(E, side, s))
         /\ SumOver(LotsFor(side, s), E) \in Nat
         /\ \A f \in fills : LotsFor(side, s)[f] \in Nat
<1> DEFINE T == FillsAmong(E, side, s)
           all == [f \in fills |-> f.lots]
           part == LotsFor(side, s)
<1>1. \A f \in fills : f.lots \in Nat
  BY BacktestAssumption DEF LedgerTypes, Fills
<1>2. /\ T \subseteq E /\ \A f \in E \ T : part[f] = 0
      /\ \A f \in T : part[f] = all[f]
  BY DEF LotsFor, FillsAmong
<1>3. \A f \in fills : part[f] \in Nat
  BY <1>1 DEF LotsFor
<1>4. IsFiniteSet(E) /\ \A f \in E : part[f] \in Nat
  BY <1>3, FS_Subset DEF LedgerTypes
<1> HIDE DEF T, all, part
<1>5. SumOver(part, T) = SumOver(part, E)
  BY <1>2, SumDropZeros
<1>6. SumOver(part, T) = SumOver(all, T)
  BY <1>2, SumSame
<1>7. SumOver(part, E) \in Nat
  BY <1>4, SumType
<1>8. QED
  BY <1>3, <1>5, <1>6, <1>7 DEF T, all, part

LEMMA MovedIs ==
  ASSUME NEW f \in fills, f \in Fills, NEW s
  PROVE  Moved(Entry(f), s) = LotsFor("Buy", s)[f] - LotsFor("Sell", s)[f]
<1>1. f.side \in {"Buy", "Sell"} /\ f.lots \in Int
  BY BacktestAssumption DEF Fills, Sides
<1>2. QED
  BY <1>1, EntryType DEF Moved, LotsFor

LEMMA TapeMoves ==
  ASSUME LedgerTypes, NEW n, NEW order, Numbers(order, n), Tape = [i \in 1..n |-> Entry(order[i])],
         NEW k \in 0..n, NEW s
  PROVE  LET early == {order[i] : i \in 1..k}
         IN  SumOf([j \in 1..k |-> Moved(Tape[j], s)])
               = SumOver(LotsFor("Buy", s), early) - SumOver(LotsFor("Sell", s), early)
<1> DEFINE list == [j \in 1..k |-> Moved(Tape[j], s)]
           up == LotsFor("Buy", s)
           down == LotsFor("Sell", s)
<1>1. /\ n \in Nat /\ k \in Nat /\ \A i \in 1..k : i \in 1..n
      /\ \A i \in 1..n : order[i] \in fills /\ order[i] \in Fills
  BY DEF Numbers, Bijection, Injection, LedgerTypes
<1>2. \A i \in 1..k : list[i] = up[order[i]] - down[order[i]]
  BY <1>1, MovedIs
<1>3. Len(list) = k
  BY <1>1
<1>4. \A f \in fills : up[f] \in Nat /\ down[f] \in Nat
  <2>1. \A f \in fills : up[f] \in Nat
    BY LotsForSum
  <2>2. \A f \in fills : down[f] \in Nat
    BY LotsForSum
  <2>3. QED
    BY <2>1, <2>2
<1> HIDE DEF list, up, down
<1>5. LET early == {order[i] : i \in 1..k}
      IN  SumOf(list) = SumOver(up, early) - SumOver(down, early)
  BY <1>2, <1>3, <1>4, TapeSum
<1>6. QED
  BY <1>5 DEF list, up, down

LEMMA TapeNeverShort ==
  ASSUME LedgerTypes, TapeInv, NEW n, NEW order, Numbers(order, n),
         Tape = [i \in 1..n |-> Entry(order[i])]
  PROVE  NeverShort(Tape)
<1>1. /\ n \in Nat /\ \A i \in 1..n : order[i] \in fills /\ order[i] \in Fills
  BY DEF Numbers, Bijection, Injection, LedgerTypes
<1>2. Len(Tape) = n
  BY TapeType
<1>3. ASSUME NEW i \in 1..n, Tape[i].side = "Sell"
      PROVE  SumOf([j \in 1..(i - 1) |-> Moved(Tape[j], Tape[i].symbol)]) >= Tape[i].lots
  <2> DEFINE f == order[i]
             k == i - 1
             early == {order[j] : j \in 1..k}
             s == f.symbol
             up == SumOver(LotsFor("Buy", s), early)
             down == SumOver(LotsFor("Sell", s), early)
  <2>1. f \in fills /\ f \in Fills /\ k \in 0..n /\ Tape[i] = Entry(f)
    BY <1>1
  <2>2. Tape[i].symbol = s /\ Tape[i].lots = f.lots /\ f.side = "Sell" /\ f.lots \in Int
    <3>1. \A g \in Fills : g.lots \in Int
      BY BacktestAssumption DEF Fills
    <3> HIDE DEF f
    <3>2. QED
      BY <1>3, <2>1, <3>1, EntryType
  <2>3. early = {g \in fills : g.id < f.id} /\ early \subseteq fills
    <3>1. \A j \in 1..n : {order[m] : m \in 1..(j - 1)} = {g \in fills : g.id < order[j].id}
      BY EarlierFills
    <3>2. QED
      BY <3>1
  <2>4. SumOf([j \in 1..k |-> Moved(Tape[j], s)]) = up - down
    <3> HIDE DEF k, s
    <3>1. QED
      BY <2>1, TapeMoves
  <2> DEFINE Part(side) == FillsAmong(early, side, s)
  <2>5. /\ Part("Buy") = {g \in FillsOn("Buy") : g.symbol = f.symbol /\ g.id < f.id}
        /\ Part("Sell") = {g \in FillsOn("Sell") : g.symbol = f.symbol /\ g.id < f.id}
    <3> HIDE DEF f, early
    <3>1. QED
      BY <2>3 DEF FillsOn, FillsAmong
  <2>6. up = LotsBefore("Buy", f) /\ up \in Nat
    <3>1. up = SumOver([g \in fills |-> g.lots], Part("Buy")) /\ up \in Nat
      <4> HIDE DEF early, s
      <4>1. early \subseteq fills
        BY <2>3
      <4>2. up \in Nat
        BY <4>1, LotsForSum
      <4>3. up = SumOver([g \in fills |-> g.lots], Part("Buy"))
        BY <4>1, LotsForSum
      <4>4. QED
        BY <4>2, <4>3
    <3> HIDE DEF up, f, s, early, Part
    <3>2. QED
      BY <2>5, <3>1 DEF LotsBefore
  <2>7. down = LotsBefore("Sell", f) /\ down \in Nat
    <3>1. down = SumOver([g \in fills |-> g.lots], Part("Sell")) /\ down \in Nat
      <4> HIDE DEF early, s
      <4>1. early \subseteq fills
        BY <2>3
      <4>2. down \in Nat
        BY <4>1, LotsForSum
      <4>3. down = SumOver([g \in fills |-> g.lots], Part("Sell"))
        BY <4>1, LotsForSum
      <4>4. QED
        BY <4>2, <4>3
    <3> HIDE DEF down, f, s, early, Part
    <3>2. QED
      BY <2>5, <3>1 DEF LotsBefore
  <2>8. LotsBefore("Sell", f) + f.lots <= LotsBefore("Buy", f)
    <3>1. f \in FillsOn("Sell")
      BY <2>1, <2>2 DEF FillsOn
    <3> HIDE DEF f
    <3>2. QED
      BY <3>1 DEF TapeInv
  <2>9. up - down >= f.lots
    <3> HIDE DEF f, up, down
    <3>1. QED
      BY <2>2, <2>6, <2>7, <2>8
  <2>10. [j \in 1..(i - 1) |-> Moved(Tape[j], Tape[i].symbol)] = [j \in 1..k |-> Moved(Tape[j], s)]
    BY <2>2
  <2> HIDE DEF f, up, down, k, s
  <2>11. QED
    BY <2>2, <2>4, <2>9, <2>10
<1>4. QED
  BY <1>2, <1>3 DEF NeverShort

LEMMA MoneyIs ==
  ASSUME NEW f \in Fills
  PROVE  Money(Entry(f)) = GotFor(f) - PaidFor(f)
<1>1. f.side \in {"Buy", "Sell"} /\ Notional(f) \in Int /\ FeesOf(f) \in Int
  BY MoneyTypes, FillType DEF Sides
<1>2. Entry(f).side = f.side /\ Entry(f).lots = f.lots /\ Entry(f).price = f.price
      /\ Entry(f).fees = FeesOf(f)
  BY EntryType
<1>3. CASE f.side = "Buy"
  <2>1. GotFor(f) = 0 /\ PaidFor(f) = Notional(f) + FeesOf(f)
    BY <1>3 DEF GotFor, PaidFor, Cost
  <2>2. Money(Entry(f)) = -(Notional(f) + FeesOf(f))
    BY <1>2, <1>3 DEF Money, Notional
  <2>3. QED
    BY <1>1, <2>1, <2>2
<1>4. CASE f.side = "Sell"
  <2>1. GotFor(f) = Notional(f) /\ PaidFor(f) = FeesOf(f)
    BY <1>4 DEF GotFor, PaidFor
  <2>2. Money(Entry(f)) = Notional(f) - FeesOf(f)
    BY <1>2, <1>4 DEF Money, Notional
  <2>3. QED
    BY <1>1, <2>1, <2>2
<1>5. QED
  BY <1>1, <1>3, <1>4

LEMMA TapeMoney ==
  ASSUME LedgerInv, NEW n, NEW order, Numbers(order, n), Tape = [i \in 1..n |-> Entry(order[i])]
  PROVE  SumOf([i \in 1..n |-> Money(Tape[i])]) = cash - InitialCash
<1> DEFINE list == [j \in 1..n |-> Money(Tape[j])]
           early == {order[i] : i \in 1..n}
           got == [f \in fills |-> GotFor(f)]
           paid == [f \in fills |-> PaidFor(f)]
<1>1. /\ n \in Nat /\ n \in 0..n
      /\ \A i \in 1..n : order[i] \in fills /\ order[i] \in Fills
      /\ \A f \in fills : f \in Fills
  BY DEF Numbers, Bijection, Injection, LedgerInv, LedgerTypes
<1>2. \A i \in 1..n : list[i] = got[order[i]] - paid[order[i]]
  BY <1>1, MoneyIs
<1>3. Len(list) = n
  BY <1>1
<1>4. \A f \in fills : got[f] \in Nat /\ paid[f] \in Nat
  BY <1>1, MoneyTypes
<1>5. early = fills
  BY EarlierFills DEF LedgerInv
<1>6. Earned = SumOver(got, fills) /\ Spent = SumOver(paid, fills)
  BY DEF Earned, Spent
<1> HIDE DEF list, got, paid
<1>7. SumOf(list) = Earned - Spent
  <2>1. ASSUME NEW k \in 0..n, k = n
        PROVE  LET done == {order[i] : i \in 1..k}
               IN  SumOf(list) = SumOver(got, done) - SumOver(paid, done)
    <3>1. Len(list) = k /\ \A i \in 1..k : list[i] = got[order[i]] - paid[order[i]]
      BY <1>2, <1>3, <2>1
    <3>2. QED
      BY <1>4, <3>1, TapeSum
  <2>2. QED
    BY <1>1, <1>5, <1>6, <2>1
<1>8. cash \in Int /\ InitialCash \in Int /\ Earned \in Nat /\ Spent \in Nat
      /\ cash + Spent = InitialCash + Earned
  BY BooksType, BacktestAssumption DEF LedgerInv, LedgerTypes, BooksAreFills
<1>9. SumOf(list) = cash - InitialCash
  BY <1>7, <1>8
<1>10. QED
  BY <1>9 DEF list

(* The trades and the open lots of the fills so far are the account. *)
LEMMA AccountExplained ==
  ASSUME LedgerInv, TapeInv
  PROVE  LET closed == Closed(Tape)
         IN  /\ Denom * cash
                  = Denom * InitialCash + TotalPnl(closed.trades) - OpenCost(closed.lots)
             /\ \A s \in Symbols : LotsIn(closed.lots, s) = total[s]
<1> DEFINE pnl == TotalPnl(Closed(Tape).trades)
           spent == OpenCost(Closed(Tape).lots)
<1>1. PICK n, order : Numbers(order, n) /\ Tape = [i \in 1..n |-> Entry(order[i])]
  BY TapeIs DEF LedgerInv
<1>2. LedgerTypes /\ n \in Nat /\ n \in 0..n /\ Denom \in Nat
  BY <1>1, DenomAssumption DEF LedgerInv, Numbers
<1>3. Tape \in Seq(FillsOf(Symbols)) /\ Len(Tape) = n
  BY <1>1, <1>2, TapeType
<1>4. NeverShort(Tape)
  BY <1>1, <1>2, TapeNeverShort
<1>5. /\ pnl - spent = Denom * SumOf([i \in 1..n |-> Money(Tape[i])])
      /\ \A s : LotsIn(Closed(Tape).lots, s) = SumOf([i \in 1..n |-> Moved(Tape[i], s)])
  BY <1>3, <1>4, TradesExplainMoney
<1>6. pnl \in Int /\ spent \in Int
  <2>1. Tape \in Seq(FillsOf(Nat))
    <3>1. FillsOf(Symbols) \subseteq FillsOf(Nat)
      BY BacktestAssumption DEF FillsOf
    <3>2. \A i \in 1..n : Tape[i] \in FillsOf(Nat)
      BY <1>3, <3>1, ElementOfSeq
    <3>3. Tape = [i \in 1..n |-> Tape[i]]
      BY <1>1
    <3>4. QED
      BY <1>2, <3>2, <3>3, IsASeq
  <2>2. PICK turn \in [0..n -> Accounts(Nat)] : Closed(Tape) = turn[n]
    BY <1>3, <2>1, ClosedLoop
  <2>3. Closed(Tape) \in Accounts(Nat)
    BY <1>2, <2>2
  <2>4. QED
    BY <2>3, AccountSums
<1>7. SumOf([i \in 1..n |-> Money(Tape[i])]) = cash - InitialCash
  BY <1>1, TapeMoney
<1>8. cash \in Int /\ InitialCash \in Int
  BY BacktestAssumption DEF LedgerInv, LedgerTypes
<1>9. Denom * cash = Denom * InitialCash + pnl - spent
  <2>1. Denom * (cash - InitialCash) = Denom * cash - Denom * InitialCash
        /\ Denom * cash \in Int /\ Denom * InitialCash \in Int
    <3>1. \A x, y \in Int : Denom * (x - y) = Denom * x - Denom * y /\ Denom * x \in Int
      BY <1>2
    <3>2. QED
      BY <1>8, <3>1
  <2> HIDE DEF pnl, spent
  <2>2. pnl - spent = Denom * cash - Denom * InitialCash
    BY <1>5, <1>7, <2>1
  <2>3. QED
    BY <1>6, <2>1, <2>2
<1>10. ASSUME NEW s \in Symbols PROVE LotsIn(Closed(Tape).lots, s) = total[s]
  <2> DEFINE early == {order[i] : i \in 1..n}
             up == SumOver(LotsFor("Buy", s), early)
             down == SumOver(LotsFor("Sell", s), early)
  <2>1. early = fills
    BY <1>1, <1>2, EarlierFills
  <2>2. SumOf([i \in 1..n |-> Moved(Tape[i], s)]) = up - down
    BY <1>1, <1>2, TapeMoves
  <2>3. FillsAmong(fills, "Buy", s) = {f \in FillsOn("Buy") : f.symbol = s}
        /\ FillsAmong(fills, "Sell", s) = {f \in FillsOn("Sell") : f.symbol = s}
    BY DEF FillsAmong, FillsOn
  <2> HIDE DEF early
  <2>4. up = LotsOf("Buy", s) /\ up \in Nat
    <3>1. up = SumOver([f \in fills |-> f.lots], FillsAmong(fills, "Buy", s)) /\ up \in Nat
      BY <1>2, <2>1, LotsForSum
    <3> HIDE DEF up
    <3>2. QED
      BY <2>3, <3>1 DEF LotsOf
  <2>5. down = LotsOf("Sell", s) /\ down \in Nat
    <3>1. down = SumOver([f \in fills |-> f.lots], FillsAmong(fills, "Sell", s)) /\ down \in Nat
      BY <1>2, <2>1, LotsForSum
    <3> HIDE DEF down
    <3>2. QED
      BY <2>3, <3>1 DEF LotsOf
  <2> HIDE DEF up, down
  <2>6. total[s] + LotsOf("Sell", s) = LotsOf("Buy", s) /\ total[s] \in Int
    BY DEF LedgerInv, BooksAreFills, LedgerTypes
  <2>7. up - down = total[s]
    BY <2>4, <2>5, <2>6
  <2>8. QED
    BY <1>5, <2>2, <2>7
<1>11. QED
  BY <1>9, <1>10

-----------------------------------------------------------------------------
(* The fills as a list, through a run *)

LEMMA FillsKept ==
  ASSUME IInv, [Next]_vars
  PROVE  UNCHANGED fills \/ \E i \in Intents : Submit(i)
<1>1. CASE UNCHANGED vars
  BY <1>1 DEF vars, ledger
<1>2. CASE SaveRunning \/ LoadFails \/ EngineReturns \/ SaveResult \/ StrategyFails
  BY <1>2 DEF SaveRunning, LoadFails, EngineReturns, SaveResult, StrategyFails, outside, ledger
<1>3. ASSUME NEW bars \in SUBSET Slots, LoadBars(bars) PROVE UNCHANGED fills
  BY <1>3 DEF LoadBars, outside, ledger
<1>4. ASSUME NEW b \in replay, NEW shape \in Shapes, TakeBar(b, shape) PROVE UNCHANGED fills
  BY <1>4 DEF TakeBar, MarkToMarket
<1>5. ASSUME NEW q \in pending, DispatchBar(q) \/ DispatchFill(q) PROVE UNCHANGED fills
  BY <1>5, DispatchFillLedger DEF DispatchBar, ledger, IInv
<1>6. ASSUME NEW id \in open, Cancel(id) PROVE UNCHANGED fills
  BY <1>6 DEF Cancel, ledger
<1>7. CASE PeekFeed \/ StrategyReturns
  BY <1>7 DEF PeekFeed, StrategyReturns, ledger
<1>8. QED
  BY <1>1, <1>2, <1>3, <1>4, <1>5, <1>6, <1>7 DEF Next, EngineTask

(* An order that is filled gets an id that is higher than all, and a sale   *)
(* has its shares.                                                          *)
LEMMA SubmitTape ==
  ASSUME IInv, TapeInv, NEW i \in Intents, Submit(i), ~UNCHANGED fills
  PROVE  TapeInv'
<1>0. PICK f : f = FillOf(i, current[i.symbol])
  OBVIOUS
<1>1. fills' = fills \cup {f} /\ CanFill(f) /\ f.id = orders + 1
  BY <1>0 DEF Submit, ApplyFill, ledger, FillOf
<1>2. /\ i.symbol \in Symbols /\ i.side \in Sides /\ i.lots \in Nat
      /\ f.symbol = i.symbol /\ f.side = i.side /\ f.lots = i.lots
  BY <1>0, BacktestAssumption DEF Intents, FillOf
<1>3. /\ orders \in Nat /\ IsFiniteSet(fills)
      /\ \A g \in fills : g.id \in Nat /\ g.id <= orders /\ g.lots \in Nat
  BY BacktestAssumption DEF IInv, LedgerInv, LedgerTypes, Fills
<1>4. \A g, h \in fills' : g.id = h.id => g = h
  BY <1>1, <1>3 DEF TapeInv
<1>5. ASSUME NEW g \in fills, NEW side
      PROVE  LotsBefore(side, g)' = LotsBefore(side, g)
  <2> DEFINE T == {h \in FillsOn(side) : h.symbol = g.symbol /\ h.id < g.id}
             T1 == {h \in FillsOn(side)' : h.symbol = g.symbol /\ h.id < g.id}
             old == [h \in fills |-> h.lots]
             more == [h \in fills' |-> h.lots]
  <2>1. T1 = T
    BY <1>1, <1>3 DEF FillsOn
  <2>2. \A h \in T : more[h] = old[h]
    BY <1>1 DEF FillsOn
  <2>3. LotsBefore(side, g) = SumOver(old, T) /\ LotsBefore(side, g)' = SumOver(more, T1)
    BY DEF LotsBefore
  <2> HIDE DEF T, T1, old, more
  <2>4. SumOver(more, T) = SumOver(old, T)
    BY <2>2, SumSame
  <2>5. QED
    BY <2>1, <2>3, <2>4
<1>6. ASSUME NEW side
      PROVE  LotsBefore(side, f)' = LotsOf(side, f.symbol)
  <2> DEFINE T == {h \in FillsOn(side) : h.symbol = f.symbol}
             T1 == {h \in FillsOn(side)' : h.symbol = f.symbol /\ h.id < f.id}
             old == [h \in fills |-> h.lots]
             more == [h \in fills' |-> h.lots]
  <2>1. T1 = T
    BY <1>1, <1>3 DEF FillsOn
  <2>2. \A h \in T : more[h] = old[h]
    BY <1>1 DEF FillsOn
  <2>3. LotsOf(side, f.symbol) = SumOver(old, T)
    BY DEF LotsOf
  <2>4. LotsBefore(side, f)' = SumOver(more, T1)
    BY DEF LotsBefore
  <2> HIDE DEF T, T1, old, more
  <2>5. SumOver(more, T) = SumOver(old, T)
    BY <2>2, SumSame
  <2>6. QED
    BY <2>1, <2>3, <2>4, <2>5
<1>7. f.side = "Sell" => LotsOf("Sell", f.symbol) + f.lots <= LotsOf("Buy", f.symbol)
  <2>1. HAVE f.side = "Sell"
  <2>2. available[f.symbol] >= f.lots
    BY <1>1, <2>1 DEF CanFill
  <2>3. /\ total[f.symbol] = locked[f.symbol] + available[f.symbol]
        /\ total[f.symbol] + LotsOf("Sell", f.symbol) = LotsOf("Buy", f.symbol)
        /\ total[f.symbol] \in Nat /\ locked[f.symbol] \in Nat /\ available[f.symbol] \in Nat
    BY <1>2 DEF IInv, LedgerInv, SharesSplit, BooksAreFills, LedgerTypes
  <2>4. LotsOf("Sell", f.symbol) \in Nat
    <3> DEFINE T == {h \in FillsOn("Sell") : h.symbol = f.symbol}
               old == [h \in fills |-> h.lots]
    <3>1. IsFiniteSet(T)
      BY <1>3, FS_Subset DEF FillsOn
    <3>2. \A h \in T : old[h] \in Nat
      BY <1>3 DEF FillsOn
    <3> HIDE DEF T, old
    <3>3. SumOver(old, T) \in Nat
      BY <3>1, <3>2, SumType
    <3>4. QED
      BY <3>3 DEF LotsOf, T, old
  <2>5. QED
    BY <1>2, <2>2, <2>3, <2>4
<1>8. \A g \in FillsOn("Sell")' : LotsBefore("Sell", g)' + g.lots <= LotsBefore("Buy", g)'
  <2> TAKE g \in FillsOn("Sell")'
  <2>1. g \in fills \cup {f} /\ g.side = "Sell"
    BY <1>1 DEF FillsOn
  <2>2. CASE g \in fills
    <3>1. g \in FillsOn("Sell")
      BY <2>1, <2>2 DEF FillsOn
    <3>2. QED
      BY <1>5, <2>2, <3>1 DEF TapeInv
  <2>3. CASE g = f
    BY <1>6, <1>7, <2>1, <2>3
  <2>4. QED
    BY <2>1, <2>2, <2>3
<1>9. QED
  BY <1>4, <1>8 DEF TapeInv

LEMMA TapeKept ==
  ASSUME IInv, TapeInv, [Next]_vars
  PROVE  TapeInv'
<1>1. CASE UNCHANGED fills
  BY <1>1 DEF TapeInv, LotsBefore, FillsOn
<1>2. QED
  BY <1>1, FillsKept, SubmitTape

-----------------------------------------------------------------------------
(* The job *)

LEMMA MetricsKept ==
  ASSUME UNCHANGED <<fills, equity>> PROVE Metrics' = Metrics
<1>1. Tape' = Tape /\ Curve' = Curve
  BY DEF Tape, Curve
<1>2. QED
  BY <1>1 DEF Metrics

LEMMA ServiceStep ==
  ASSUME [ServiceNext]_<<vars, service>> PROVE [Next]_vars
<1>1. CASE SubmitBacktest \/ StartJob \/ FailJob \/ UNCHANGED <<vars, service>>
  BY <1>1 DEF SubmitBacktest, StartJob, FailJob
<1>2. CASE RunnerStep
  BY <1>2 DEF RunnerStep, Next
<1>3. CASE Compute
  BY <1>3 DEF Compute, Next
<1>4. CASE FinishJob
  BY <1>4 DEF FinishJob, Next
<1>5. QED
  BY <1>1, <1>2, <1>3, <1>4 DEF ServiceNext

LEMMA EngineTaskStage ==
  ASSUME EngineTask
  PROVE  stage = "engine" /\ stage' \in {"engine", "failed"} /\ UNCHANGED row
<1>1. CASE PeekFeed
  BY <1>1 DEF PeekFeed, runner
<1>2. ASSUME NEW b \in replay, NEW shape \in Shapes, TakeBar(b, shape)
      PROVE  stage = "engine" /\ UNCHANGED runner
  BY <1>2 DEF TakeBar
<1>3. ASSUME NEW q \in pending, DispatchBar(q) \/ DispatchFill(q)
      PROVE  stage = "engine" /\ UNCHANGED runner
  BY <1>3 DEF DispatchBar, DispatchFill
<1>4. ASSUME NEW i \in Intents, Submit(i)
      PROVE  stage = "engine" /\ UNCHANGED runner
  BY <1>4 DEF Submit, StrategyRuns
<1>5. ASSUME NEW id \in open, Cancel(id)
      PROVE  stage = "engine" /\ UNCHANGED runner
  BY <1>5 DEF Cancel, StrategyRuns
<1>6. CASE StrategyReturns
  BY <1>6 DEF StrategyReturns, runner
<1>7. CASE StrategyFails
  BY <1>7 DEF StrategyFails, StrategyRuns
<1>8. QED
  BY <1>1, <1>2, <1>3, <1>4, <1>5, <1>6, <1>7 DEF EngineTask, runner

LEMMA JobKept ==
  ASSUME JobInv, [ServiceNext]_<<vars, service>>
  PROVE  JobInv'
<1>1. CASE SubmitBacktest \/ StartJob \/ FailJob
  <2>1. UNCHANGED <<row, stage, report, fills, equity>> /\ job'.status # "done"
    BY <1>1 DEF SubmitBacktest, StartJob, FailJob, JobOf, vars, runner, ledger
  <2>2. QED
    BY <2>1, MetricsKept DEF JobInv
<1>2. CASE RunnerStep
  <2>1. job.status = "running" /\ UNCHANGED <<job, report>>
    BY <1>2 DEF RunnerStep, service
  <2>2. CASE SaveRunning
    BY <2>1, <2>2 DEF SaveRunning, JobInv
  <2>3. CASE LoadFails \/ \E bars \in SUBSET Slots : LoadBars(bars)
    BY <2>1, <2>3 DEF LoadFails, LoadBars, JobInv
  <2>4. CASE EngineTask
    BY <2>1, <2>4, EngineTaskStage DEF JobInv
  <2>5. QED
    BY <1>2, <2>2, <2>3, <2>4 DEF RunnerStep
<1>3. CASE Compute
  <2>1. /\ job.status = "running" /\ UNCHANGED <<job, row, fills, equity>>
        /\ stage = "engine" /\ stage' = "done" /\ report' = Metrics
    BY <1>3 DEF Compute, EngineReturns, outside, ledger
  <2>2. QED
    BY <2>1, MetricsKept DEF JobInv
<1>4. CASE FinishJob
  <2>1. /\ stage \in {"done", "failed"} /\ stage' = "end" /\ row' \in {stage, row}
        /\ job' = IF row' = "done" THEN JobOf("done", FALSE, report) ELSE JobOf("failed", TRUE, NoReport)
        /\ UNCHANGED <<report, fills, equity>>
    BY <1>4 DEF FinishJob, SaveResult, outside, ledger
  <2>2. Metrics' = Metrics
    BY <2>1, MetricsKept
  <2>3. row' = "done" => stage = "done"
    BY <2>1 DEF JobInv
  <2>4. job'.status = "done" => row' = "done" /\ ~job'.error /\ job'.metrics = report
    BY <2>1 DEF JobOf
  <2>5. QED
    BY <2>1, <2>2, <2>3, <2>4 DEF JobInv
<1>5. CASE UNCHANGED <<vars, service>>
  <2>1. UNCHANGED <<row, stage, report, job, fills, equity>>
    BY <1>5 DEF vars, service, runner, ledger
  <2>2. QED
    BY <2>1, MetricsKept DEF JobInv
<1>6. QED
  BY <1>1, <1>2, <1>3, <1>4, <1>5 DEF ServiceNext

(***************************************************************************)
(* A backtest that the service runs is a run of BacktestRunner: nothing a  *)
(* client or the table of jobs does shows in it (grpc.rs of tg-backtest).  *)
(***************************************************************************)
THEOREM ServiceRuns == ServiceSpec => Spec
<1>1. ServiceInit => Init
  BY DEF ServiceInit
<1>2. [ServiceNext]_<<vars, service>> => [Next]_vars
  BY ServiceStep
<1>3. QED
  BY <1>1, <1>2, PTL DEF ServiceSpec, Spec

(***************************************************************************)
(* What a client is told of a job that is done explains the account of the *)
(* run to the last part of a cent: the profit of the closed trades and the *)
(* cost of what is still open are the money that came and went, and the    *)
(* lots that are open are the positions.                                   *)
(***************************************************************************)
THEOREM ReportExplained == ServiceSpec => []ReportExplainsCash
<1>1. ServiceInit => TapeInv /\ JobInv
  <2>1. SUFFICES ASSUME ServiceInit PROVE TapeInv /\ JobInv
    OBVIOUS
  <2>2. fills = {} /\ row = "none" /\ stage = "start" /\ job.status = "none"
    BY <2>1 DEF ServiceInit, Init, JobOf
  <2>3. QED
    BY <2>2 DEF TapeInv, JobInv, FillsOn
<1>2. IInv /\ TapeInv /\ [Next]_vars => TapeInv'
  BY TapeKept
<1>3. JobInv /\ [ServiceNext]_<<vars, service>> => JobInv'
  BY JobKept
<1>4. [ServiceNext]_<<vars, service>> => [Next]_vars
  BY ServiceStep
<1>5. IInv /\ TapeInv /\ JobInv => ReportExplainsCash
  <2>1. SUFFICES ASSUME IInv, TapeInv, JobInv, job.status = "done" PROVE ReportExplainsCash
    BY DEF ReportExplainsCash
  <2>2. row = "done" /\ ~job.error /\ job.metrics = Metrics
    BY <2>1 DEF JobInv
  <2>3. Metrics.trades = Closed(Tape).trades /\ Metrics.open = Closed(Tape).lots
    BY DEF Metrics
  <2>4. /\ Denom * cash = Denom * InitialCash + TotalPnl(Metrics.trades) - OpenCost(Metrics.open)
        /\ \A s \in Symbols : LotsIn(Metrics.open, s) = total[s]
    BY <2>1, <2>3, AccountExplained DEF IInv
  <2>5. QED
    BY <2>2, <2>4 DEF ReportExplainsCash, LotsIn
<1>6. ServiceSpec => []IInv
  BY ServiceRuns, Invariance, PTL
<1>7. QED
  BY <1>1, <1>2, <1>3, <1>4, <1>5, <1>6, PTL DEF ServiceSpec

-----------------------------------------------------------------------------
(***************************************************************************)
(* First bought, first sold.  The lots of a symbol are numbered in the     *)
(* order they are bought in, and again in the order they are sold in; a    *)
(* fill has the numbers between two sums (Upto).  A sale closes of a buy   *)
(* the overlap of their numbers.  After k fills what is open of a buy is   *)
(* what is left of its numbers (StillOpen), and a sale in the middle of    *)
(* the loop over the open lots has still to sell what is left of its own   *)
(* (LeftAt); both loops keep this, so that the trades are the overlaps     *)
(* (ClosedBy) in order.                                                    *)
(***************************************************************************)
Traded(fill, s, side) == IF fill.symbol = s /\ fill.side = side THEN fill.lots ELSE 0

(* The lots of a symbol that the first k fills bought, or sold. *)
Upto(tape, s, side, k) == SumOf([j \in 1..k |-> Traded(tape[j], s, side)])

LEMMA UptoIs ==
  ASSUME NEW S, NEW tape \in Seq(FillsOf(S)), NEW s, NEW side
  PROVE  /\ Upto(tape, s, side, 0) = 0
         /\ \A k \in 0..Len(tape) : Upto(tape, s, side, k) \in Nat
         /\ \A k \in 1..Len(tape) :
              /\ Traded(tape[k], s, side) \in Nat
              /\ Upto(tape, s, side, k) = Upto(tape, s, side, k - 1) + Traded(tape[k], s, side)
         /\ \A i, j \in 0..Len(tape) : i <= j => Upto(tape, s, side, i) <= Upto(tape, s, side, j)
<1> DEFINE N == Len(tape)
           e == [j \in 1..N |-> Traded(tape[j], s, side)]
           U(k) == Upto(tape, s, side, k)
<1>1. N \in Nat /\ \A n \in 1..N : tape[n] \in FillsOf(S)
  BY ElementOfSeq, LenProperties
<1>2. \A fill \in FillsOf(S) : Traded(fill, s, side) \in Nat
  BY DEF FillsOf, Traded
<1>3. \A k \in 1..N : e[k] = Traded(tape[k], s, side) /\ e[k] \in Nat
  BY <1>1, <1>2
<1> HIDE DEF N
<1>4. ASSUME NEW k \in 0..N PROVE U(k) = Total(e, k)
  <2>1. [j \in 1..k |-> e[j]] = [j \in 1..k |-> Traded(tape[j], s, side)]
    BY <1>1
  <2>2. QED
    BY <2>1 DEF Total, Upto
<1> HIDE DEF e
<1>5. ASSUME NEW k \in 1..N
      PROVE  U(k) = U(k - 1) + e[k] /\ U(0) = 0 /\ U(k - 1) \in Int
  <2> DEFINE m == k - 1
  <2>1. m \in Nat /\ m + 1 = k /\ m \in 0..N /\ k \in 0..N /\ 0 \in 0..N
    BY <1>1
  <2>2. \A i \in 1..(m + 1) : e[i] \in Int
    BY <1>1, <1>3
  <2> HIDE DEF m
  <2>3. Total(e, 0) = 0 /\ Total(e, m) \in Int /\ Total(e, m + 1) = Total(e, m) + e[m + 1]
    BY <2>1, <2>2, TotalNext
  <2>4. U(k) = U(m) + e[k] /\ U(0) = 0 /\ U(m) \in Int
    BY <1>4, <2>1, <2>3
  <2>5. QED
    BY <2>4 DEF m
<1>6. U(0) = 0
  <2> DEFINE list == [j \in 1..0 |-> Traded(tape[j], s, side)]
  <2>1. Len(list) = 0 /\ \A i \in 1..0 : list[i] \in Int
    OBVIOUS
  <2> HIDE DEF list
  <2>2. SumOf(list) = 0
    BY <2>1, SumOfLoop DEF AddsUp
  <2>3. QED
    BY <2>2 DEF Upto, list
<1> HIDE DEF U
<1> DEFINE good == {k \in 0..N : U(k) \in Nat /\ \A i \in 0..k : U(i) <= U(k)}
<1>7. 0 \in good
  BY <1>1, <1>6
<1>8. ASSUME NEW k \in 1..N, k - 1 \in good PROVE k \in good
  <2>1. U(k - 1) \in Nat /\ \A i \in 0..(k - 1) : U(i) <= U(k - 1)
    BY <1>8
  <2>2. U(k) = U(k - 1) + e[k] /\ e[k] \in Nat
    BY <1>3, <1>5
  <2>3. U(k) \in Nat /\ U(k - 1) <= U(k)
    BY <2>1, <2>2
  <2>4. ASSUME NEW i \in 0..k PROVE U(i) <= U(k)
    <3>1. CASE i = k
      BY <2>3, <3>1
    <3>2. CASE i # k
      <4>1. i \in 0..(k - 1) /\ i \in 0..N
        BY <1>1, <3>2
      <4>2. U(i) \in Int
        <5>1. CASE i = 0
          BY <1>6, <5>1
        <5>2. CASE i # 0
          <6>1. i + 1 \in 1..N /\ (i + 1) - 1 = i
            BY <1>1, <3>2
          <6>2. QED
            BY <1>5, <6>1
        <5>3. QED
          BY <5>1, <5>2
      <4>3. QED
        BY <2>1, <2>3, <4>1, <4>2
    <3>3. QED
      BY <3>1, <3>2
  <2>5. QED
    BY <2>3, <2>4
<1> HIDE DEF good
<1>9. \A k \in 0..N : k \in good
  BY <1>1, <1>7, <1>8, Climb
<1>10. \A k \in 0..N : U(k) \in Nat /\ \A i \in 0..k : U(i) <= U(k)
  BY <1>9 DEF good
<1>11. \A i, j \in 0..N : i <= j => U(i) <= U(j)
  <2> TAKE i, j \in 0..N
  <2>1. HAVE i <= j
  <2>2. i \in 0..j
    BY <2>1
  <2>3. QED
    BY <1>10, <2>2
<1>12. \A k \in 1..N : Traded(tape[k], s, side) \in Nat /\ U(k) = U(k - 1) + Traded(tape[k], s, side)
  BY <1>3, <1>5
<1>13. QED
  BY <1>6, <1>10, <1>11, <1>12 DEF U, N

(* The lots of a symbol in the order they were bought, or sold, in: those   *)
(* of a fill take the places up to what had been traded with it.            *)
LEMMA PlacesOf ==
  ASSUME NEW S, NEW tape \in Seq(FillsOf(S)), NEW s, NEW side
  PROVE  LET U(k) == Upto(tape, s, side, k)
             places == LotsTraded(tape, s, side)
         IN  /\ Len(places) = U(Len(tape)) /\ DOMAIN places = 1..U(Len(tape))
             /\ \A p \in 1..U(Len(tape)) : \A i \in 1..Len(tape) :
                  places[p] = i <=> U(i - 1) < p /\ p <= U(i)
<1> DEFINE N == Len(tape)
           U(k) == Upto(tape, s, side, k)
           list == [i \in DOMAIN tape |->
                      IF tape[i].symbol = s /\ tape[i].side = side
                      THEN [n \in 1..tape[i].lots |-> i] ELSE <<>>]
           J(k) == JoinedTo(list, k)
           In(k) == /\ Len(J(k)) = U(k) /\ J(k) \in Seq(Nat)
                    /\ \A p \in 1..U(k) : /\ J(k)[p] \in 1..k
                                          /\ U(J(k)[p] - 1) < p /\ p <= U(J(k)[p])
           good == {k \in 0..N : In(k)}
<1>1. N \in Nat /\ DOMAIN tape = 1..N /\ \A n \in 1..N : tape[n] \in FillsOf(S)
  BY ElementOfSeq, LenProperties
<1>2. /\ U(0) = 0 /\ \A k \in 0..N : U(k) \in Nat
      /\ \A k \in 1..N : /\ Traded(tape[k], s, side) \in Nat
                         /\ U(k) = U(k - 1) + Traded(tape[k], s, side)
      /\ \A i, j \in 0..N : i <= j => U(i) <= U(j)
  BY UptoIs
<1>3. ASSUME NEW i \in 1..N
      PROVE  /\ list[i] \in Seq(Nat) /\ Len(list[i]) = Traded(tape[i], s, side)
             /\ \A p \in 1..Len(list[i]) : list[i][p] = i
  <2>1. tape[i].lots \in Nat
    BY <1>1 DEF FillsOf
  <2>2. CASE tape[i].symbol = s /\ tape[i].side = side
    <3> DEFINE run == [n \in 1..tape[i].lots |-> i]
    <3>1. run \in Seq(Nat) /\ Len(run) = tape[i].lots /\ \A p \in 1..tape[i].lots : run[p] = i
      BY <1>1, <2>1
    <3>2. list[i] = run /\ Traded(tape[i], s, side) = tape[i].lots
      BY <1>1, <2>2 DEF Traded
    <3> HIDE DEF list, run
    <3>3. QED
      BY <3>1, <3>2
  <2>3. CASE ~(tape[i].symbol = s /\ tape[i].side = side)
    <3>1. list[i] = <<>> /\ Traded(tape[i], s, side) = 0
      BY <1>1, <2>3 DEF Traded
    <3> HIDE DEF list
    <3>2. QED
      BY <3>1
  <2>4. QED
    BY <2>2, <2>3
<1>4. Joined(list) = J(N)
  <2>1. list = [j \in 1..N |-> list[j]]
    BY <1>1
  <2> HIDE DEF list
  <2>2. QED
    BY <2>1 DEF JoinedTo
<1>5. LotsTraded(tape, s, side) = J(N)
  BY <1>4 DEF LotsTraded
<1> HIDE DEF N, U, list, J
<1>6. In(0)
  <2>1. J(0) = <<>>
    BY JoinedToNone DEF J
  <2>2. Len(<<>>) = 0 /\ <<>> \in Seq(Nat) /\ 1..0 = {}
    OBVIOUS
  <2>3. QED
    BY <1>2, <2>1, <2>2
<1>7. ASSUME NEW k \in 1..N, In(k - 1) PROVE In(k)
  <2> DEFINE m == k - 1
             a == J(m)
             c == J(k)
             run == list[k]
             y == Traded(tape[k], s, side)
  <2>1. m \in Nat /\ m + 1 = k /\ m \in 0..N /\ k \in 0..N
    BY <1>1
  <2>2. a \in Seq(Nat) /\ run \in Seq(Nat) /\ c = a \o run
    <3>1. \A i \in 1..(m + 1) : list[i] \in Seq(Nat)
      BY <1>1, <1>3
    <3> HIDE DEF m
    <3>2. JoinedTo(list, m) \in Seq(Nat) /\ JoinedTo(list, m + 1) = JoinedTo(list, m) \o list[m + 1]
      BY <2>1, <3>1, JoinedToNext
    <3>3. QED
      BY <1>3, <2>1, <3>2 DEF J
  <2>3. Len(a) = U(m) /\ U(m) \in Nat /\ U(k) = U(m) + y /\ y \in Nat /\ U(k) \in Nat
    BY <1>2, <1>7, <2>1
  <2>4. Len(run) = y /\ \A p \in 1..y : run[p] = k
    BY <1>3
  <2>5. \A p \in 1..U(m) : a[p] \in 1..m /\ U(a[p] - 1) < p /\ p <= U(a[p])
    BY <1>7
  <2> HIDE DEF a, c, run, y
  <2>6. /\ Len(c) = U(k) /\ c \in Seq(Nat)
        /\ \A p \in 1..U(k) : c[p] = IF p <= U(m) THEN a[p] ELSE run[p - U(m)]
    BY <2>2, <2>3, <2>4, ConcatProperties, ZenonT(30)
  <2>7. ASSUME NEW p \in 1..U(k) PROVE c[p] \in 1..k /\ U(c[p] - 1) < p /\ p <= U(c[p])
    <3>1. CASE p <= U(m)
      <4>1. p \in 1..U(m)
        BY <2>3, <3>1
      <4>2. c[p] = a[p]
        BY <2>6, <3>1
      <4>3. \A x \in 1..m : x \in 1..k
        BY <2>1
      <4>4. QED
        BY <2>5, <4>1, <4>2, <4>3
    <3>2. CASE ~(p <= U(m))
      <4>1. p - U(m) \in 1..y
        BY <2>3, <3>2
      <4>2. c[p] = k
        BY <2>4, <2>6, <3>2, <4>1
      <4>3. U(k - 1) < p /\ p <= U(k)
        BY <2>3, <3>2
      <4>4. QED
        BY <2>1, <4>2, <4>3
    <3>3. QED
      BY <3>1, <3>2
  <2>8. QED
    BY <2>6, <2>7 DEF c
<1> HIDE DEF In
<1>8. \A k \in 0..N : k \in good
  <2>1. 0 \in good
    BY <1>1, <1>6
  <2>2. \A k \in 1..N : k - 1 \in good => k \in good
    BY <1>7
  <2> HIDE DEF good
  <2>3. QED
    BY <1>1, <2>1, <2>2, Climb
<1>9. In(N) /\ N \in 0..N
  BY <1>1, <1>8
<1>10. ASSUME NEW p \in 1..U(N), NEW i \in 1..N
       PROVE  J(N)[p] = i <=> U(i - 1) < p /\ p <= U(i)
  <2> DEFINE x == J(N)[p]
  <2>1. x \in 1..N /\ U(x - 1) < p /\ p <= U(x)
    BY <1>9 DEF In
  <2> HIDE DEF x
  <2>2. /\ x - 1 \in 0..N /\ x \in 0..N /\ i - 1 \in 0..N /\ i \in 0..N
        /\ x < i => x <= i - 1
        /\ i < x => i <= x - 1
    BY <1>1, <2>1
  <2>3. /\ U(x - 1) \in Nat /\ U(x) \in Nat /\ U(i - 1) \in Nat /\ U(i) \in Nat /\ p \in Nat
        /\ x < i => U(x) <= U(i - 1)
        /\ i < x => U(i) <= U(x - 1)
    BY <1>2, <1>9, <2>2, SMTT(30)
  <2>4. U(i - 1) < p /\ p <= U(i) => x = i
    BY <2>1, <2>2, <2>3
  <2>5. QED
    BY <2>1, <2>4 DEF x
<1>11. Len(J(N)) = U(N) /\ DOMAIN J(N) = 1..U(N)
  BY <1>9, LenProperties DEF In
<1>12. QED
  BY <1>5, <1>10, <1>11 DEF U, N

MoreOf(a, b) == IF a <= b THEN b ELSE a

(* How many lots of a buy a sale closes, if that is not negative. *)
Overlap(tape, buy, sale) ==
  LET U(side, k) == Upto(tape, tape[sale].symbol, side, k)
  IN  LessOf(U("Buy", buy), U("Sell", sale)) - MoreOf(U("Buy", buy - 1), U("Sell", sale - 1))

(* The lots one by one: those with the same number, bought and sold. *)
LEMMA MetIs ==
  ASSUME NEW S, NEW tape \in Seq(FillsOf(S)), NEW buy \in 1..Len(tape), NEW sale \in 1..Len(tape),
         Upto(tape, tape[sale].symbol, "Sell", Len(tape)) <= Upto(tape, tape[sale].symbol, "Buy", Len(tape))
  PROVE  LET bought == LotsTraded(tape, tape[sale].symbol, "Buy")
             sold   == LotsTraded(tape, tape[sale].symbol, "Sell")
         IN  /\ Overlap(tape, buy, sale) \in Int
             /\ Cardinality({n \in DOMAIN sold : <<bought[n], sold[n]>> = <<buy, sale>>})
                  = IF Overlap(tape, buy, sale) > 0 THEN Overlap(tape, buy, sale) ELSE 0
<1> DEFINE N == Len(tape)
           s == tape[sale].symbol
           bought == LotsTraded(tape, s, "Buy")
           sold == LotsTraded(tape, s, "Sell")
           B(k) == Upto(tape, s, "Buy", k)
           C(k) == Upto(tape, s, "Sell", k)
           lo == MoreOf(B(buy - 1), C(sale - 1))
           hi == LessOf(B(buy), C(sale))
           met == {n \in DOMAIN sold : <<bought[n], sold[n]>> = <<buy, sale>>}
<1>1. N \in Nat /\ buy - 1 \in 0..N /\ buy \in 0..N /\ sale - 1 \in 0..N /\ sale \in 0..N /\ N \in 0..N
  BY LenProperties
<1>2. /\ B(buy - 1) \in Nat /\ B(buy) \in Nat /\ B(N) \in Nat /\ B(buy) <= B(N)
      /\ C(sale - 1) \in Nat /\ C(sale) \in Nat /\ C(N) \in Nat /\ C(sale) <= C(N)
  <2>1. /\ \A k \in 0..N : B(k) \in Nat
        /\ \A i, j \in 0..N : i <= j => B(i) <= B(j)
    BY UptoIs
  <2>2. /\ \A k \in 0..N : C(k) \in Nat
        /\ \A i, j \in 0..N : i <= j => C(i) <= C(j)
    BY UptoIs
  <2>3. buy <= N /\ sale <= N
    BY <1>1
  <2>4. QED
    BY <1>1, <2>1, <2>2, <2>3
<1>3. \A p \in 1..B(N) : bought[p] = buy <=> B(buy - 1) < p /\ p <= B(buy)
  BY PlacesOf
<1>4. DOMAIN sold = 1..C(N) /\ \A p \in 1..C(N) : sold[p] = sale <=> C(sale - 1) < p /\ p <= C(sale)
  BY PlacesOf
<1>5. C(N) <= B(N)
  OBVIOUS
<1>6. Overlap(tape, buy, sale) = hi - lo
  BY DEF Overlap
<1> HIDE DEF N, s, bought, sold, B, C
<1>7. met = (lo + 1)..hi
  <2>1. \A n \in 1..C(N) : n \in 1..B(N)
    BY <1>2, <1>5
  <2>2. \A n \in met : n \in (lo + 1)..hi
    <3> TAKE n \in met
    <3>1. n \in 1..C(N) /\ n \in 1..B(N) /\ bought[n] = buy /\ sold[n] = sale
      BY <1>4, <2>1
    <3>2. B(buy - 1) < n /\ n <= B(buy) /\ C(sale - 1) < n /\ n <= C(sale)
      BY <1>3, <1>4, <3>1
    <3>3. QED
      BY <1>2, <3>1, <3>2 DEF LessOf, MoreOf
  <2>3. \A n \in (lo + 1)..hi : n \in met
    <3> TAKE n \in (lo + 1)..hi
    <3>1. B(buy - 1) < n /\ n <= B(buy) /\ C(sale - 1) < n /\ n <= C(sale) /\ n \in 1..C(N)
      BY <1>2, SMTT(30) DEF LessOf, MoreOf
    <3>2. bought[n] = buy /\ sold[n] = sale
      BY <1>3, <1>4, <2>1, <3>1
    <3>3. QED
      BY <1>4, <3>1, <3>2
  <2> HIDE DEF met, lo, hi
  <2>4. QED
    BY <2>2, <2>3
<1>8. lo \in Int /\ hi \in Int
  BY <1>2 DEF LessOf, MoreOf
<1> HIDE DEF lo, hi, met
<1>9. Cardinality((lo + 1)..hi) = IF lo + 1 > hi THEN 0 ELSE hi - (lo + 1) + 1
  <2>1. lo + 1 \in Int
    BY <1>8
  <2>2. QED
    BY <1>8, <2>1, FS_Interval
<1>10. Cardinality(met) = IF hi - lo > 0 THEN hi - lo ELSE 0
  BY <1>7, <1>8, <1>9
<1>11. QED
  BY <1>6, <1>8, <1>10 DEF met, bought, sold, s

(* What was bought and not yet sold. *)
HeldAfter(tape, s, k) ==
  LET b == Upto(tape, s, "Buy", k)
      c == Upto(tape, s, "Sell", k)
  IN  b \in Nat /\ c \in Nat /\ SumOf([j \in 1..k |-> Moved(tape[j], s)]) = b - c

LEMMA HeldIs ==
  ASSUME NEW S, NEW tape \in Seq(FillsOf(S)), NEW s
  PROVE  \A k \in 0..Len(tape) : HeldAfter(tape, s, k)
<1> DEFINE N == Len(tape)
           e == [j \in 1..N |-> Moved(tape[j], s)]
           B(k) == Upto(tape, s, "Buy", k)
           C(k) == Upto(tape, s, "Sell", k)
           good == {k \in 0..N : Total(e, k) = B(k) - C(k)}
<1>1. N \in Nat /\ \A n \in 1..N : tape[n] \in FillsOf(S)
  BY ElementOfSeq, LenProperties
<1>2. /\ B(0) = 0 /\ \A k \in 0..N : B(k) \in Nat
      /\ \A k \in 1..N : Traded(tape[k], s, "Buy") \in Nat /\ B(k) = B(k - 1) + Traded(tape[k], s, "Buy")
  BY UptoIs
<1>3. /\ C(0) = 0 /\ \A k \in 0..N : C(k) \in Nat
      /\ \A k \in 1..N : Traded(tape[k], s, "Sell") \in Nat /\ C(k) = C(k - 1) + Traded(tape[k], s, "Sell")
  BY UptoIs
<1>4. \A k \in 1..N : /\ e[k] = Traded(tape[k], s, "Buy") - Traded(tape[k], s, "Sell") /\ e[k] \in Int
                      /\ e[k] = Moved(tape[k], s)
  <2>1. \A f \in FillsOf(S) : /\ Moved(f, s) = Traded(f, s, "Buy") - Traded(f, s, "Sell")
                              /\ Moved(f, s) \in Int
    BY DEF FillsOf, Moved, Traded
  <2>2. QED
    BY <1>1, <2>1
<1> HIDE DEF N, e, B, C
<1>5. \A k \in 0..N : k \in good
  <2>1. 0 \in good
    <3>1. Total(e, 0) = 0
      <4> DEFINE list == [j \in 1..0 |-> e[j]]
      <4>1. Len(list) = 0 /\ \A i \in 1..0 : list[i] \in Int
        OBVIOUS
      <4> HIDE DEF list
      <4>2. SumOf(list) = 0
        BY <4>1, SumOfLoop DEF AddsUp
      <4>3. QED
        BY <4>2 DEF Total, list
    <3>2. QED
      BY <1>1, <1>2, <1>3, <3>1
  <2>2. ASSUME NEW k \in 1..N, k - 1 \in good PROVE k \in good
    <3> DEFINE m == k - 1
    <3>1. m \in Nat /\ m + 1 = k /\ m \in 0..N /\ k \in 0..N
      BY <1>1
    <3>2. \A i \in 1..(m + 1) : e[i] \in Int
      BY <1>1, <1>4
    <3>3. Total(e, m) = B(m) - C(m)
      BY <2>2
    <3> HIDE DEF m, good
    <3>4. Total(e, m + 1) = Total(e, m) + e[m + 1]
      BY <3>1, <3>2, TotalNext
    <3>5. B(k) = B(m) + Traded(tape[k], s, "Buy") /\ C(k) = C(m) + Traded(tape[k], s, "Sell")
      BY <1>2, <1>3 DEF m
    <3>6. /\ B(m) \in Nat /\ C(m) \in Nat /\ Traded(tape[k], s, "Buy") \in Nat
          /\ Traded(tape[k], s, "Sell") \in Nat
      BY <1>2, <1>3, <3>1
    <3>7. Total(e, k) = B(k) - C(k)
      BY <1>4, <3>1, <3>3, <3>4, <3>5, <3>6
    <3>8. QED
      BY <3>1, <3>7 DEF good
  <2> HIDE DEF good
  <2>3. QED
    BY <1>1, <2>1, <2>2, Climb
<1>6. ASSUME NEW k \in 0..N PROVE Total(e, k) = SumOf([j \in 1..k |-> Moved(tape[j], s)])
  <2>1. [j \in 1..k |-> Moved(tape[j], s)] = [j \in 1..k |-> e[j]]
    BY <1>1, <1>4
  <2> HIDE DEF e
  <2>2. QED
    BY <2>1 DEF Total
<1>7. ASSUME NEW k \in 0..N PROVE HeldAfter(tape, s, k)
  <2>1. Total(e, k) = B(k) - C(k)
    BY <1>5
  <2>2. B(k) \in Nat /\ C(k) \in Nat
    BY <1>2, <1>3
  <2>3. QED
    BY <1>6, <2>1, <2>2 DEF HeldAfter, B, C
<1>8. QED
  BY <1>7 DEF N

(* No more of a symbol is ever sold than was bought with earlier fills. *)
LEMMA NotShort ==
  ASSUME NEW S, NEW tape \in Seq(FillsOf(S)), NeverShort(tape), NEW s
  PROVE  \A k \in 0..Len(tape) : Upto(tape, s, "Sell", k) <= Upto(tape, s, "Buy", k)
<1> DEFINE N == Len(tape)
           B(k) == Upto(tape, s, "Buy", k)
           C(k) == Upto(tape, s, "Sell", k)
           fair == {k \in 0..N : C(k) <= B(k)}
<1>1. N \in Nat
  BY LenProperties
<1>2. /\ B(0) = 0 /\ \A k \in 0..N : B(k) \in Nat
      /\ \A k \in 1..N : Traded(tape[k], s, "Buy") \in Nat /\ B(k) = B(k - 1) + Traded(tape[k], s, "Buy")
  BY UptoIs
<1>3. /\ C(0) = 0 /\ \A k \in 0..N : C(k) \in Nat
      /\ \A k \in 1..N : Traded(tape[k], s, "Sell") \in Nat /\ C(k) = C(k - 1) + Traded(tape[k], s, "Sell")
  BY UptoIs
<1>4. ASSUME NEW k \in 1..N, k - 1 \in fair PROVE k \in fair
  <2>1. k - 1 \in 0..N /\ k \in 0..N /\ C(k - 1) <= B(k - 1)
    BY <1>1, <1>4
  <2>2. HeldAfter(tape, s, k - 1)
    BY <2>1, HeldIs
  <2>3. /\ B(k - 1) \in Nat /\ C(k - 1) \in Nat /\ B(k) \in Nat /\ C(k) \in Nat
        /\ SumOf([j \in 1..(k - 1) |-> Moved(tape[j], s)]) = B(k - 1) - C(k - 1)
    BY <1>2, <1>3, <2>1, <2>2 DEF HeldAfter
  <2>4. B(k - 1) <= B(k) /\ C(k) = C(k - 1) + Traded(tape[k], s, "Sell")
    BY <1>2, <1>3, <2>3
  <2>5. C(k) <= B(k)
    <3>1. CASE tape[k].side = "Sell" /\ tape[k].symbol = s
      <4>1. SumOf([j \in 1..(k - 1) |-> Moved(tape[j], s)]) >= tape[k].lots
        BY <3>1 DEF NeverShort
      <4>2. Traded(tape[k], s, "Sell") = tape[k].lots /\ Traded(tape[k], s, "Sell") \in Nat
        BY <1>3, <3>1 DEF Traded
      <4> DEFINE sum == SumOf([j \in 1..(k - 1) |-> Moved(tape[j], s)])
      <4> HIDE DEF sum, B, C
      <4>3. sum = B(k - 1) - C(k - 1) /\ sum >= tape[k].lots
        BY <2>3, <4>1 DEF sum
      <4>4. QED
        BY <2>3, <2>4, <4>2, <4>3
    <3>2. CASE ~(tape[k].side = "Sell" /\ tape[k].symbol = s)
      <4>1. Traded(tape[k], s, "Sell") = 0
        BY <3>2 DEF Traded
      <4> HIDE DEF B, C
      <4>2. QED
        BY <2>1, <2>3, <2>4, <4>1
    <3>3. QED
      BY <3>1, <3>2
  <2>6. QED
    BY <2>1, <2>5
<1>5. \A k \in 0..N : k \in fair
  <2>1. 0 \in fair
    BY <1>1, <1>2, <1>3
  <2> HIDE DEF fair
  <2>2. QED
    BY <1>1, <1>4, <2>1, Climb
<1>6. QED
  BY <1>5

(* How much of a buy is open after the first k fills, if anything. *)
LeftOf(tape, buy, k) ==
  LET U(side, n) == Upto(tape, tape[buy].symbol, side, n)
  IN  U("Buy", buy) - MoreOf(U("Buy", buy - 1), U("Sell", k))

(* What one lot of a buy cost, with its share of the fees. *)
PerBought(fill) == Denom * fill.price + (Denom \div fill.lots) * fill.fees

LotAfter(tape, buy, k) ==
  [symbol |-> tape[buy].symbol, lots |-> LeftOf(tape, buy, k), at |-> tape[buy].ts,
   price |-> tape[buy].price, cost |-> LeftOf(tape, buy, k) * PerBought(tape[buy])]

(* What is open after k fills, buy by buy. *)
StillOpen(tape, k) ==
  [buy \in 1..Len(tape) |->
     IF tape[buy].side = "Buy" /\ LeftOf(tape, buy, k) > 0 THEN <<LotAfter(tape, buy, k)>> ELSE <<>>]

(* The trade of a buy and a sale, and all trades of a sale, buy by buy. *)
FifoTrade(tape, buy, sale) ==
  LET n == Overlap(tape, buy, sale)
      b == tape[buy]
      s == tape[sale]
  IN  [symbol |-> s.symbol, lots |-> n, openedAt |-> b.ts, closedAt |-> s.ts,
       entry |-> b.price, exit |-> s.price, pnl |-> n * PerLot(s) - n * PerBought(b)]

ClosedBy(tape, sale) ==
  [buy \in 1..Len(tape) |->
     IF tape[sale].side = "Sell" /\ tape[buy].symbol = tape[sale].symbol /\ tape[buy].side = "Buy"
        /\ Overlap(tape, buy, sale) > 0
     THEN <<FifoTrade(tape, buy, sale)>> ELSE <<>>]

(* What a sale has still to sell when it has looked at the first buys. *)
LeftAt(tape, sale, buy) ==
  LET U(side, n) == Upto(tape, tape[sale].symbol, side, n)
  IN  MoreOf(0, U("Sell", sale) - MoreOf(U("Sell", sale - 1), U("Buy", buy)))

(* A buy has the places from b0 to b1 of what was bought and a sale those    *)
(* from c0 to c1 of what was sold.                                          *)
Meets(held, rest, over, left, later) ==
  /\ held \in Int /\ rest \in Int /\ over \in Int /\ left \in Nat /\ later \in Nat
  /\ held > 0 => /\ LessOf(left, held) = IF over > 0 THEN over ELSE 0
                 /\ later = left - LessOf(left, held)
                 /\ IF rest > 0 THEN rest = held - LessOf(left, held)
                    ELSE held = LessOf(left, held)
  /\ ~(held > 0) => ~(over > 0) /\ ~(rest > 0) /\ later = left

LEMMA Intervals ==
  ASSUME NEW b0 \in Nat, NEW b1 \in Nat, NEW c0 \in Nat, NEW c1 \in Nat, b0 <= b1, c0 <= c1
  PROVE  Meets(b1 - MoreOf(b0, c0), b1 - MoreOf(b0, c1), LessOf(b1, c1) - MoreOf(b0, c0),
               MoreOf(0, c1 - MoreOf(c0, b0)), MoreOf(0, c1 - MoreOf(c0, b1)))
BY DEF Meets, LessOf, MoreOf

LEMMA PerBoughtType ==
  ASSUME NEW S, NEW fill \in FillsOf(S)
  PROVE  /\ PerBought(fill) \in Int
         /\ fill.lots * PerBought(fill) = Denom * (fill.price * fill.lots + fill.fees)
         /\ \A n \in Nat : /\ (Denom * fill.fees * n) \div fill.lots \in Int
                           /\ n * PerBought(fill) = Denom * fill.price * n + (Denom * fill.fees * n) \div fill.lots
                           /\ n * PerLot(fill) = Denom * fill.price * n - (Denom * fill.fees * n) \div fill.lots
<1> DEFINE l == fill.lots
           fees == fill.fees
           price == fill.price
           share == Denom \div l
<1>1. l \in Nat \ {0} /\ fees \in Nat /\ price \in Nat /\ Denom \in Nat /\ Denom % l = 0
  BY DenomAssumption DEF FillsOf
<1>2. share \in Nat /\ Denom = share * l
  BY <1>1, DivWhole
<1>3. PerBought(fill) = Denom * price + share * fees /\ PerLot(fill) = Denom * price - share * fees
  BY DEF PerBought, PerLot, share, l, fees, price
<1> DEFINE paid == Denom * price
           part == share * fees
<1> HIDE DEF l, fees, price, share
<1>4. paid \in Int /\ part \in Int
  BY <1>1, <1>2, MulType
<1>5. Denom * fees = part * l
  BY <1>1, <1>2
<1>6. Denom * (price * l + fees) = l * (paid + part)
  <2>1. Denom * (price * l + fees) = Denom * (price * l) + Denom * fees
    <3>1. price * l \in Int
      BY <1>1, MulType
    <3>2. \A x, y \in Int : Denom * (x + y) = Denom * x + Denom * y
      BY <1>1
    <3>3. QED
      BY <1>1, <3>1, <3>2
  <2>2. Denom * (price * l) = l * paid
    BY <1>1
  <2> HIDE DEF paid, part
  <2>3. l * (paid + part) = l * paid + part * l
    BY <1>1, <1>4
  <2>4. QED
    BY <1>5, <2>1, <2>2, <2>3
<1> HIDE DEF paid, part
<1>7. ASSUME NEW n \in Nat
      PROVE  /\ (Denom * fees * n) \div l = n * part /\ n * part \in Int
             /\ n * (paid + part) = paid * n + n * part
             /\ n * (paid - part) = paid * n - n * part
  <2>1. Denom * fees * n = (n * part) * l
    BY <1>1, <1>4, <1>5
  <2>2. n * part \in Int
    BY <1>4, MulType
  <2>3. (Denom * fees * n) \div l = n * part
    BY <1>1, <2>1, <2>2, DivExact
  <2>4. n * (paid + part) = paid * n + n * part /\ n * (paid - part) = paid * n - n * part
    BY <1>4
  <2>5. QED
    BY <2>2, <2>3, <2>4
<1>8. PerBought(fill) = paid + part /\ PerLot(fill) = paid - part
  BY <1>3 DEF paid, part
<1>9. QED
  BY <1>4, <1>6, <1>7, <1>8 DEF l, fees, price, paid

(* One turn of the inner loop, to the last field: per is what one of the    *)
(* lots cost.                                                               *)
LotTurned(a, lot, fill, per, n, b) ==
  /\ n \in Nat /\ n <= lot.lots /\ b.left = a.left - n
  /\ n = 0 => b.lots = Append(a.lots, lot) /\ b.trades = a.trades
  /\ n > 0 =>
       /\ b.trades = Append(a.trades,
            [symbol |-> fill.symbol, lots |-> n, openedAt |-> lot.at, closedAt |-> fill.ts,
             entry |-> lot.price, exit |-> fill.price, pnl |-> n * PerLot(fill) - n * per])
       /\ b.lots = IF lot.lots - n = 0 THEN a.lots
                   ELSE Append(a.lots,
                     [symbol |-> lot.symbol, lots |-> lot.lots - n, at |-> lot.at,
                      price |-> lot.price, cost |-> (lot.lots - n) * per])

LEMMA CloseLotExact ==
  ASSUME NEW S, NEW a \in Accounts(S), NEW lot \in LotsOpen(S), NEW fill \in FillsOf(S),
         NEW per \in Int, lot.cost = lot.lots * per
  PROVE  LotTurned(a, lot, fill, per, Taken(a, lot, fill), CloseLot(a, lot, fill))
<1> USE DEF LotTurned
<1> DEFINE n == Taken(a, lot, fill)
           b == CloseLot(a, lot, fill)
           cost == (lot.cost * n) \div lot.lots
           rest == [lot EXCEPT !.lots = @ - n, !.cost = @ - cost]
           t == TradeOf(lot, fill, n, cost)
<1>0. n = Taken(a, lot, fill) /\ b = CloseLot(a, lot, fill)
  OBVIOUS
<1> HIDE DEF n, b
<1>1. /\ a.left \in Nat /\ a.lots \in Seq(LotsOpen(S)) /\ a.trades \in Seq(TradesOf(S))
      /\ a = [left |-> a.left, lots |-> a.lots, trades |-> a.trades]
  BY DEF Accounts
<1>2. /\ lot.lots \in Nat \ {0} /\ lot.cost \in Int /\ lot.symbol \in S /\ lot.at \in Nat
      /\ lot.price \in Nat
  BY DEF LotsOpen
<1>3. n \in Nat /\ n <= a.left /\ n <= lot.lots
  BY <1>0, <1>1, <1>2 DEF Taken, LessOf
<1>4. CASE n = 0
  <2>1. b = [a EXCEPT !.lots = Append(@, lot)]
    <3>1. lot.symbol # fill.symbol \/ LessOf(a.left, lot.lots) = 0
      BY <1>0, <1>4 DEF Taken
    <3>2. QED
      BY <1>0, <3>1 DEF CloseLot
  <2>2. b.left = a.left /\ b.lots = Append(a.lots, lot) /\ b.trades = a.trades
    BY <1>1, <2>1
  <2>3. QED
    BY <1>0, <1>1, <1>3, <1>4, <2>2
<1>5. CASE n # 0
  <2>1. lot.symbol = fill.symbol /\ n = LessOf(a.left, lot.lots) /\ n \in Nat \ {0}
    BY <1>0, <1>3, <1>5 DEF Taken
  <2>2. b = [left |-> a.left - n, lots |-> IF rest.lots = 0 THEN a.lots ELSE Append(a.lots, rest),
             trades |-> Append(a.trades, t)]
    BY <1>0, <2>1 DEF CloseLot
  <2>3. cost = n * per /\ n * per \in Int
    <3>1. n * per \in Int
      BY <1>3, MulType
    <3>2. lot.cost * n = (n * per) * lot.lots
      <4> DEFINE x == lot.lots
      <4>1. x \in Int /\ n \in Int
        BY <1>2, <1>3
      <4> HIDE DEF x
      <4>2. (x * per) * n = (n * per) * x
        BY <4>1
      <4>3. QED
        BY <4>2 DEF x
    <3>3. ((n * per) * lot.lots) \div lot.lots = n * per
      BY <1>2, <3>1, DivExact
    <3>4. QED
      BY <3>1, <3>2, <3>3
  <2>4. t.pnl = n * PerLot(fill) - cost
    <3>1. cost \in Int
      BY <2>3
    <3> HIDE DEF cost
    <3>2. QED
      BY <2>1, <3>1, TradePnl
  <2>5. t = [symbol |-> fill.symbol, lots |-> n, openedAt |-> lot.at, closedAt |-> fill.ts,
             entry |-> lot.price, exit |-> fill.price, pnl |-> n * PerLot(fill) - n * per]
    <3>1. t.pnl = n * PerLot(fill) - n * per
      BY <2>3, <2>4
    <3> HIDE DEF cost
    <3>2. QED
      BY <3>1 DEF TradeOf
  <2>6. lot.cost - n * per = (lot.lots - n) * per
    <3> DEFINE x == lot.lots
    <3>1. x \in Int /\ n \in Int
      BY <1>2, <1>3
    <3> HIDE DEF x
    <3>2. x * per - n * per = (x - n) * per
      BY <3>1
    <3>3. QED
      BY <3>2 DEF x
  <2>7. rest = [symbol |-> lot.symbol, lots |-> lot.lots - n, at |-> lot.at,
                price |-> lot.price, cost |-> (lot.lots - n) * per]
    <3>1. rest = [lot EXCEPT !.lots = @ - n, !.cost = @ - n * per]
      BY <2>3
    <3>2. lot = [symbol |-> lot.symbol, lots |-> lot.lots, at |-> lot.at, price |-> lot.price, cost |-> lot.cost]
      BY DEF LotsOpen
    <3> HIDE DEF rest
    <3>3. rest = [symbol |-> lot.symbol, lots |-> lot.lots - n, at |-> lot.at,
                  price |-> lot.price, cost |-> lot.cost - n * per]
      BY <3>1, <3>2
    <3>4. QED
      BY <2>6, <3>3
  <2>8. rest.lots = lot.lots - n
    BY <2>7
  <2> HIDE DEF rest, t, cost
  <2>9. b.left = a.left - n /\ b.trades = Append(a.trades, t)
        /\ b.lots = IF lot.lots - n = 0 THEN a.lots ELSE Append(a.lots, rest)
    BY <2>2, <2>8
  <2>10. n > 0
    BY <2>1
  <2>11. QED
    BY <1>0, <1>3, <1>5, <2>5, <2>7, <2>9
<1>6. QED
  BY <1>4, <1>5 DEF n, b

LEMMA PieceType ==
  ASSUME NEW S, NEW tape \in Seq(FillsOf(S)), NEW buy \in 1..Len(tape), NEW k \in 0..Len(tape)
  PROVE  /\ LeftOf(tape, buy, k) \in Int
         /\ LeftOf(tape, buy, k) > 0 => LotAfter(tape, buy, k) \in LotsOpen(S)
         /\ StillOpen(tape, k)[buy] \in Seq(LotsOpen(S))
         /\ StillOpen(tape, k)[buy] = IF tape[buy].side = "Buy" /\ LeftOf(tape, buy, k) > 0
                                      THEN <<LotAfter(tape, buy, k)>> ELSE <<>>
<1> DEFINE N == Len(tape)
           s == tape[buy].symbol
           left == LeftOf(tape, buy, k)
           per == PerBought(tape[buy])
<1>1. N \in Nat /\ buy - 1 \in 0..N /\ buy \in 0..N /\ tape[buy] \in FillsOf(S)
  BY ElementOfSeq, LenProperties
<1>2. left \in Int
  <2>1. \A j \in 0..N : Upto(tape, s, "Buy", j) \in Nat
    BY UptoIs
  <2>2. \A j \in 0..N : Upto(tape, s, "Sell", j) \in Nat
    BY UptoIs
  <2>3. /\ Upto(tape, s, "Buy", buy) \in Nat /\ Upto(tape, s, "Buy", buy - 1) \in Nat
        /\ Upto(tape, s, "Sell", k) \in Nat
    BY <1>1, <2>1, <2>2
  <2>4. QED
    BY <2>3 DEF LeftOf, MoreOf
<1>3. per \in Int
  BY <1>1, PerBoughtType
<1> HIDE DEF left, per
<1>4. left * per \in Int
  BY <1>2, <1>3, MulType
<1>5. ASSUME left > 0 PROVE LotAfter(tape, buy, k) \in LotsOpen(S)
  <2>1. /\ tape[buy].symbol \in S /\ tape[buy].ts \in Nat /\ tape[buy].price \in Nat
    BY <1>1 DEF FillsOf
  <2>2. LotAfter(tape, buy, k) =
          [symbol |-> tape[buy].symbol, lots |-> left, at |-> tape[buy].ts,
           price |-> tape[buy].price, cost |-> left * per]
    BY DEF LotAfter, left, per
  <2>3. left \in Nat \ {0}
    BY <1>2, <1>5
  <2>4. QED
    BY <1>4, <2>1, <2>2, <2>3 DEF LotsOpen
<1>6. StillOpen(tape, k)[buy] = IF tape[buy].side = "Buy" /\ left > 0
                                THEN <<LotAfter(tape, buy, k)>> ELSE <<>>
  BY DEF StillOpen, left
<1>7. StillOpen(tape, k)[buy] \in Seq(LotsOpen(S))
  <2> DEFINE lot == LotAfter(tape, buy, k)
             all == LotsOpen(S)
  <2>1. left > 0 => lot \in all
    BY <1>5
  <2> HIDE DEF lot, all
  <2>2. \A x \in all : <<x>> \in Seq(all)
    OBVIOUS
  <2>3. <<>> \in Seq(all)
    OBVIOUS
  <2>4. (StillOpen(tape, k)[buy] = <<lot>> /\ left > 0) \/ StillOpen(tape, k)[buy] = <<>>
    BY <1>6 DEF lot
  <2>5. StillOpen(tape, k)[buy] \in Seq(all)
    BY <2>1, <2>2, <2>3, <2>4
  <2>6. QED
    BY <2>5 DEF all
<1>8. QED
  BY <1>2, <1>5, <1>6, <1>7 DEF left

LEMMA TradeType ==
  ASSUME NEW S, NEW tape \in Seq(FillsOf(S)), NEW buy \in 1..Len(tape), NEW sale \in 1..Len(tape)
  PROVE  /\ Overlap(tape, buy, sale) \in Int
         /\ ClosedBy(tape, sale)[buy] \in Seq(TradesOf(S))
         /\ ClosedBy(tape, sale)[buy] =
              IF tape[sale].side = "Sell" /\ tape[buy].symbol = tape[sale].symbol
                 /\ tape[buy].side = "Buy" /\ Overlap(tape, buy, sale) > 0
              THEN <<FifoTrade(tape, buy, sale)>> ELSE <<>>
<1> DEFINE N == Len(tape)
           s == tape[sale].symbol
           over == Overlap(tape, buy, sale)
           x == PerBought(tape[buy])
           y == PerLot(tape[sale])
           all == TradesOf(S)
           t == FifoTrade(tape, buy, sale)
<1>1. /\ N \in Nat /\ buy - 1 \in 0..N /\ buy \in 0..N /\ sale - 1 \in 0..N /\ sale \in 0..N
      /\ tape[buy] \in FillsOf(S) /\ tape[sale] \in FillsOf(S)
  BY ElementOfSeq, LenProperties
<1>2. over \in Int
  <2>1. \A j \in 0..N : Upto(tape, s, "Buy", j) \in Nat
    BY UptoIs
  <2>2. \A j \in 0..N : Upto(tape, s, "Sell", j) \in Nat
    BY UptoIs
  <2>3. /\ Upto(tape, s, "Buy", buy) \in Nat /\ Upto(tape, s, "Buy", buy - 1) \in Nat
        /\ Upto(tape, s, "Sell", sale) \in Nat /\ Upto(tape, s, "Sell", sale - 1) \in Nat
    BY <1>1, <2>1, <2>2
  <2>4. QED
    BY <2>3 DEF Overlap, LessOf, MoreOf
<1>3. x \in Int /\ y \in Int
  BY <1>1, PerBoughtType, PerLotType
<1>4. t = [symbol |-> tape[sale].symbol, lots |-> over, openedAt |-> tape[buy].ts,
           closedAt |-> tape[sale].ts, entry |-> tape[buy].price, exit |-> tape[sale].price,
           pnl |-> over * y - over * x]
  BY DEF FifoTrade
<1>5. ClosedBy(tape, sale)[buy] =
        IF tape[sale].side = "Sell" /\ tape[buy].symbol = tape[sale].symbol
           /\ tape[buy].side = "Buy" /\ over > 0
        THEN <<t>> ELSE <<>>
  BY DEF ClosedBy
<1> HIDE DEF over, x, y, t
<1>6. over > 0 => t \in all
  <2>1. over * x \in Int /\ over * y \in Int
    BY <1>2, <1>3, MulType
  <2>2. /\ tape[sale].symbol \in S /\ tape[buy].ts \in Nat /\ tape[buy].price \in Nat
        /\ tape[sale].ts \in Nat /\ tape[sale].price \in Nat
    BY <1>1 DEF FillsOf
  <2>3. QED
    BY <1>2, <1>4, <2>1, <2>2 DEF TradesOf
<1> HIDE DEF all
<1>7. ClosedBy(tape, sale)[buy] \in Seq(all)
  <2>1. \A z \in all : <<z>> \in Seq(all)
    OBVIOUS
  <2>2. <<>> \in Seq(all)
    OBVIOUS
  <2>3. (ClosedBy(tape, sale)[buy] = <<t>> /\ over > 0) \/ ClosedBy(tape, sale)[buy] = <<>>
    BY <1>5
  <2>4. QED
    BY <1>6, <2>1, <2>2, <2>3
<1>8. QED
  BY <1>2, <1>5, <1>7 DEF over, t, all

(* What the inner loop makes of a buy: nothing that is not open is looked   *)
(* at, and an open lot gives its part to the sale.                          *)
(* One turn of the inner loop: what was open of one buy. *)
PieceTurned(tape, sale, buy, a, S) ==
  /\ StillOpen(tape, sale - 1)[buy] = <<>> =>
       /\ StillOpen(tape, sale)[buy] = <<>> /\ ClosedBy(tape, sale)[buy] = <<>>
       /\ LeftAt(tape, sale, buy) = a.left
  /\ StillOpen(tape, sale - 1)[buy] # <<>> =>
       \E lot \in LotsOpen(S) :
         /\ StillOpen(tape, sale - 1)[buy] = <<lot>>
         /\ CloseLot(a, lot, tape[sale]).left = LeftAt(tape, sale, buy)
         /\ CloseLot(a, lot, tape[sale]).lots = a.lots \o StillOpen(tape, sale)[buy]
         /\ CloseLot(a, lot, tape[sale]).trades = a.trades \o ClosedBy(tape, sale)[buy]

LEMMA PieceStep ==
  ASSUME NEW S, NEW tape \in Seq(FillsOf(S)), NEW sale \in 1..Len(tape), tape[sale].side = "Sell",
         NEW buy \in 1..Len(tape), NEW a \in Accounts(S), a.left = LeftAt(tape, sale, buy - 1)
  PROVE  PieceTurned(tape, sale, buy, a, S)
<1> USE DEF PieceTurned
<1> DEFINE N == Len(tape)
           s == tape[sale].symbol
           z == tape[buy].symbol
           fill == tape[sale]
           U(symbol, side, k) == Upto(tape, symbol, side, k)
           k0 == sale - 1
           j0 == buy - 1
           held == LeftOf(tape, buy, k0)
           rest == LeftOf(tape, buy, sale)
           over == Overlap(tape, buy, sale)
           left == LeftAt(tape, sale, j0)
           later == LeftAt(tape, sale, buy)
           per == PerBought(tape[buy])
           lot == LotAfter(tape, buy, k0)
           b == CloseLot(a, lot, fill)
<1>1. /\ N \in Nat /\ j0 \in 0..N /\ buy \in 0..N /\ k0 \in 0..N /\ sale \in 0..N
      /\ tape[buy] \in FillsOf(S) /\ fill \in FillsOf(S) /\ j0 <= buy /\ k0 <= sale
  BY ElementOfSeq, LenProperties
<1>2. \A symbol, side :
        /\ \A k \in 0..N : U(symbol, side, k) \in Nat
        /\ \A k \in 1..N : U(symbol, side, k) = U(symbol, side, k - 1) + Traded(tape[k], symbol, side)
        /\ \A i, j \in 0..N : i <= j => U(symbol, side, i) <= U(symbol, side, j)
  BY UptoIs
<1>3. /\ a.lots \in Seq(LotsOpen(S)) /\ a.trades \in Seq(TradesOf(S))
      /\ a.lots \o <<>> = a.lots /\ a.trades \o <<>> = a.trades
  <2>1. a.lots \in Seq(LotsOpen(S)) /\ a.trades \in Seq(TradesOf(S))
    BY DEF Accounts
  <2>2. QED
    BY <2>1, ConcatEmptySeq
<1>4. /\ held \in Int
      /\ held > 0 => lot \in LotsOpen(S)
      /\ StillOpen(tape, k0)[buy] = IF tape[buy].side = "Buy" /\ held > 0 THEN <<lot>> ELSE <<>>
  BY <1>1, PieceType
<1>5. /\ rest \in Int
      /\ StillOpen(tape, sale)[buy] = IF tape[buy].side = "Buy" /\ rest > 0
                                      THEN <<LotAfter(tape, buy, sale)>> ELSE <<>>
  BY <1>1, PieceType
<1>6. ClosedBy(tape, sale)[buy] =
        IF tape[buy].symbol = tape[sale].symbol /\ tape[buy].side = "Buy" /\ over > 0
        THEN <<FifoTrade(tape, buy, sale)>> ELSE <<>>
  BY TradeType
<1>7. per \in Int
  BY <1>1, PerBoughtType
<1>8. /\ held = U(z, "Buy", buy) - MoreOf(U(z, "Buy", j0), U(z, "Sell", k0))
      /\ rest = U(z, "Buy", buy) - MoreOf(U(z, "Buy", j0), U(z, "Sell", sale))
      /\ over = LessOf(U(s, "Buy", buy), U(s, "Sell", sale)) - MoreOf(U(s, "Buy", j0), U(s, "Sell", k0))
      /\ left = MoreOf(0, U(s, "Sell", sale) - MoreOf(U(s, "Sell", k0), U(s, "Buy", j0)))
      /\ later = MoreOf(0, U(s, "Sell", sale) - MoreOf(U(s, "Sell", k0), U(s, "Buy", buy)))
  BY DEF LeftOf, Overlap, LeftAt
<1>9. \A symbol : U(symbol, "Sell", sale) = U(symbol, "Sell", k0) \/ symbol = s
  <2> TAKE symbol
  <2>1. U(symbol, "Sell", sale) = U(symbol, "Sell", k0) + Traded(fill, symbol, "Sell")
    BY <1>2
  <2>2. U(symbol, "Sell", k0) \in Nat
    BY <1>1, <1>2
  <2>3. Traded(fill, symbol, "Sell") = 0 \/ symbol = s
    BY DEF Traded
  <2>4. QED
    BY <2>1, <2>2, <2>3
<1>10. U(s, "Buy", buy) = U(s, "Buy", j0) \/ (z = s /\ tape[buy].side = "Buy")
  <2>1. U(s, "Buy", buy) = U(s, "Buy", j0) + Traded(tape[buy], s, "Buy")
    BY <1>2
  <2>2. U(s, "Buy", j0) \in Nat
    BY <1>1, <1>2
  <2>3. Traded(tape[buy], s, "Buy") = 0 \/ (z = s /\ tape[buy].side = "Buy")
    BY DEF Traded
  <2>4. QED
    BY <2>1, <2>2, <2>3
<1>11. lot = [symbol |-> z, lots |-> held, at |-> tape[buy].ts, price |-> tape[buy].price, cost |-> held * per]
  BY DEF LotAfter
<1>12. LotAfter(tape, buy, sale)
         = [symbol |-> z, lots |-> rest, at |-> tape[buy].ts, price |-> tape[buy].price, cost |-> rest * per]
  BY DEF LotAfter
<1>13. FifoTrade(tape, buy, sale)
         = [symbol |-> fill.symbol, lots |-> over, openedAt |-> tape[buy].ts, closedAt |-> fill.ts,
            entry |-> tape[buy].price, exit |-> fill.price, pnl |-> over * PerLot(fill) - over * per]
  BY DEF FifoTrade
<1>14. z = s =>
         /\ over \in Int /\ left \in Nat /\ later \in Nat
         /\ held > 0 => /\ LessOf(left, held) = IF over > 0 THEN over ELSE 0
                        /\ later = left - LessOf(left, held)
                        /\ IF rest > 0 THEN rest = held - LessOf(left, held)
                           ELSE held = LessOf(left, held)
         /\ ~(held > 0) => ~(over > 0) /\ ~(rest > 0) /\ later = left
  <2>1. HAVE z = s
  <2> DEFINE b0 == U(s, "Buy", j0)
             b1 == U(s, "Buy", buy)
             c0 == U(s, "Sell", k0)
             c1 == U(s, "Sell", sale)
  <2>2. b0 \in Nat /\ b1 \in Nat /\ c0 \in Nat /\ c1 \in Nat /\ b0 <= b1 /\ c0 <= c1
    BY <1>1, <1>2
  <2>3. /\ held = b1 - MoreOf(b0, c0) /\ rest = b1 - MoreOf(b0, c1)
        /\ over = LessOf(b1, c1) - MoreOf(b0, c0)
        /\ left = MoreOf(0, c1 - MoreOf(c0, b0)) /\ later = MoreOf(0, c1 - MoreOf(c0, b1))
    BY <1>8, <2>1
  <2> HIDE DEF b0, b1, c0, c1, held, rest, over, left, later
  <2>4. Meets(held, rest, over, left, later)
    BY <2>2, <2>3, Intervals
  <2>5. QED
    BY <2>4 DEF Meets
<1>15. a.left = left
  OBVIOUS
<1> HIDE DEF N, s, z, fill, U, k0, j0, held, rest, over, left, later, per, lot, b
<1>16. z # s => held = rest /\ later = left
  BY <1>8, <1>9, <1>10
<1>17. tape[buy].side # "Buy" => later = left
  BY <1>8, <1>10
<1>18. ASSUME StillOpen(tape, k0)[buy] = <<>>
       PROVE  /\ StillOpen(tape, sale)[buy] = <<>> /\ ClosedBy(tape, sale)[buy] = <<>>
              /\ later = left
  <2>1. tape[buy].side # "Buy" \/ ~(held > 0)
    <3>1. <<lot>> # <<>>
      OBVIOUS
    <3>2. QED
      BY <1>4, <1>18, <3>1
  <2>2. CASE tape[buy].side # "Buy"
    BY <1>5, <1>6, <1>17, <2>2
  <2>3. CASE ~(held > 0) /\ z = s
    BY <1>5, <1>6, <1>14, <2>3
  <2>4. CASE ~(held > 0) /\ z # s
    BY <1>5, <1>6, <1>16, <2>4 DEF s, z
  <2>5. QED
    BY <2>1, <2>2, <2>3, <2>4
<1>19. ASSUME StillOpen(tape, k0)[buy] # <<>>
       PROVE  /\ lot \in LotsOpen(S) /\ StillOpen(tape, k0)[buy] = <<lot>>
              /\ b.left = later /\ b.lots = a.lots \o StillOpen(tape, sale)[buy]
              /\ b.trades = a.trades \o ClosedBy(tape, sale)[buy]
  <2> DEFINE n == Taken(a, lot, fill)
  <2>1. tape[buy].side = "Buy" /\ held > 0 /\ lot \in LotsOpen(S) /\ StillOpen(tape, k0)[buy] = <<lot>>
    <3>1. tape[buy].side = "Buy" /\ held > 0
      BY <1>4, <1>19
    <3>2. QED
      BY <1>4, <3>1
  <2>2. lot.symbol = z /\ lot.lots = held /\ lot.cost = lot.lots * per
        /\ lot.at = tape[buy].ts /\ lot.price = tape[buy].price
    BY <1>11
  <2>9. LotTurned(a, lot, fill, per, n, b)
    BY <1>1, <1>7, <2>1, <2>2, CloseLotExact DEF b
  <2> HIDE DEF n
  <2>3. /\ n \in Nat /\ n <= lot.lots /\ b.left = a.left - n
        /\ n = 0 => b.lots = Append(a.lots, lot) /\ b.trades = a.trades
        /\ n > 0 =>
             /\ b.trades = Append(a.trades,
                  [symbol |-> fill.symbol, lots |-> n, openedAt |-> lot.at, closedAt |-> fill.ts,
                   entry |-> lot.price, exit |-> fill.price, pnl |-> n * PerLot(fill) - n * per])
             /\ b.lots = IF lot.lots - n = 0 THEN a.lots
                         ELSE Append(a.lots,
                           [symbol |-> lot.symbol, lots |-> lot.lots - n, at |-> lot.at,
                            price |-> lot.price, cost |-> (lot.lots - n) * per])
    BY <2>9 DEF LotTurned
  <2>10. n \in Nat
    BY <2>9 DEF LotTurned
  <2>4. n = IF z = s THEN LessOf(left, held) ELSE 0
    BY <1>15, <2>2 DEF Taken, s, fill, n
  <2>5. Append(a.lots, lot) = a.lots \o <<lot>>
    BY <1>3, <2>1, AppendIsConcat
  <2>6. CASE n = 0
    <3>1. b.lots = a.lots \o <<lot>> /\ b.trades = a.trades /\ b.left = a.left
      <4>1. a.left \in Nat
        BY DEF Accounts
      <4>2. QED
        BY <2>3, <2>5, <2>6, <4>1, SMTT(30)
    <3>2. rest = held /\ later = left /\ ~(z = s /\ over > 0)
      <4>1. CASE z = s
        <5>1. LessOf(left, held) = 0
          BY <2>4, <2>6, <4>1
        <5>2. /\ over \in Int /\ left \in Nat /\ held \in Int /\ rest \in Int
              /\ 0 = IF over > 0 THEN over ELSE 0
              /\ later = left - 0 /\ IF rest > 0 THEN rest = held - 0 ELSE held = 0
          <6>1. /\ over \in Int /\ left \in Nat
                /\ LessOf(left, held) = IF over > 0 THEN over ELSE 0
                /\ later = left - LessOf(left, held)
                /\ IF rest > 0 THEN rest = held - LessOf(left, held)
                   ELSE held = LessOf(left, held)
            BY <1>14, <2>1, <4>1
          <6>2. held \in Int /\ rest \in Int
            BY <1>4, <1>5
          <6>3. QED
            BY <5>1, <6>1, <6>2
        <5>3. ~(over > 0) /\ later = left /\ rest = held
          BY <2>1, <5>2
        <5>4. QED
          BY <5>3
      <4>2. CASE z # s
        BY <1>16, <4>2
      <4>3. QED
        BY <4>1, <4>2
    <3>3. StillOpen(tape, sale)[buy] = <<lot>>
      BY <1>5, <1>11, <1>12, <2>1, <3>2
    <3>4. ClosedBy(tape, sale)[buy] = <<>>
      BY <1>6, <3>2 DEF s, z
    <3>5. QED
      BY <1>3, <1>15, <2>1, <3>1, <3>2, <3>3, <3>4
  <2>7. CASE n > 0
    <3>1. z = s /\ n = LessOf(left, held)
      BY <2>4, <2>7
    <3>2. n = over /\ over > 0 /\ later = left - n
          /\ IF rest > 0 THEN rest = held - n ELSE held = n
      BY <1>14, <2>1, <2>7, <3>1
    <3>3. ClosedBy(tape, sale)[buy] = <<FifoTrade(tape, buy, sale)>>
      BY <1>6, <2>1, <3>1, <3>2 DEF s, z
    <3>4. b.trades = Append(a.trades, FifoTrade(tape, buy, sale))
      BY <1>13, <2>2, <2>3, <2>7, <3>2
    <3>5. FifoTrade(tape, buy, sale) \in TradesOf(S)
      <4>1. ClosedBy(tape, sale)[buy] \in Seq(TradesOf(S))
        BY TradeType
      <4> DEFINE t == FifoTrade(tape, buy, sale)
                 all == TradesOf(S)
      <4> HIDE DEF t, all
      <4>2. <<t>> \in Seq(all) => t \in all
        <5>1. HAVE <<t>> \in Seq(all)
        <5>2. Len(<<t>>) = 1 /\ <<t>>[1] = t
          OBVIOUS
        <5>3. \A i \in 1..Len(<<t>>) : <<t>>[i] \in all
          BY <5>1, ElementOfSeq
        <5>4. 1 \in 1..Len(<<t>>)
          BY <5>2
        <5>5. QED
          BY <5>2, <5>3, <5>4
      <4>3. QED
        BY <3>3, <4>1, <4>2 DEF t, all
    <3>6. b.trades = a.trades \o ClosedBy(tape, sale)[buy]
      <4> DEFINE t == FifoTrade(tape, buy, sale)
      <4> HIDE DEF t
      <4>1. Append(a.trades, t) = a.trades \o <<t>>
        BY <1>3, <3>5, AppendIsConcat DEF t
      <4>2. QED
        BY <3>3, <3>4, <4>1 DEF t
    <3>7. b.lots = a.lots \o StillOpen(tape, sale)[buy]
      <4>1. CASE rest > 0
        <5> DEFINE next == LotAfter(tape, buy, sale)
        <5>1. StillOpen(tape, sale)[buy] = <<next>> /\ next \in LotsOpen(S)
          BY <1>1, <1>5, <2>1, <4>1, PieceType DEF rest
        <5>2. lot.lots - n # 0 /\ lot.lots - n = rest
          BY <1>4, <1>5, <2>2, <2>3, <3>2, <4>1
        <5>3. b.lots = Append(a.lots, next)
          BY <1>12, <2>2, <2>3, <2>7, <5>2
        <5> HIDE DEF next
        <5>4. Append(a.lots, next) = a.lots \o <<next>>
          BY <1>3, <5>1, AppendIsConcat
        <5>5. QED
          BY <5>1, <5>3, <5>4
      <4>2. CASE ~(rest > 0)
        <5>1. lot.lots - n = 0
          <6>1. held = n
            BY <3>2, <4>2
          <6>2. QED
            <7>1. lot.lots - n = n - n /\ n \in Int
              BY <2>2, <2>10, <6>1
            <7>2. QED
              BY <7>1
        <5>2. b.lots = a.lots
          BY <2>3, <2>7, <5>1
        <5>3. QED
          BY <1>3, <1>5, <4>2, <5>2
      <4>3. QED
        BY <4>1, <4>2
    <3>8. b.left = later
      BY <1>15, <2>3, <3>2
    <3>9. QED
      BY <2>1, <3>6, <3>7, <3>8
  <2>8. QED
    <3>1. n = 0 \/ n > 0
      BY <2>10
    <3>2. QED
      BY <2>6, <2>7, <3>1, Zenon
<1>20. QED
  BY <1>15, <1>18, <1>19 DEF k0, b, later, fill

Regroups(f, g, h) == (f \o g) \o h = f \o (g \o h)

LEMMA JoinThree ==
  ASSUME NEW A, NEW f \in Seq(A), NEW g \in Seq(A), NEW h \in Seq(A)
  PROVE  Regroups(f, g, h)
BY ConcatAssociative DEF Regroups

LoopsOverLots(turn, acc, fill) ==
  /\ turn[0] = [left |-> fill.lots, lots |-> <<>>, trades |-> acc.trades]
  /\ \A n \in 1..Len(acc.lots) : turn[n] = CloseLot(turn[n - 1], acc.lots[n], fill)
  /\ CloseLots(acc, fill) = turn[Len(acc.lots)]

LEMMA LotsLoop ==
  ASSUME NEW S, NEW acc \in Accounts(S), NEW fill \in FillsOf(S)
  PROVE  \E turn \in [0..Len(acc.lots) -> Accounts(S)] : LoopsOverLots(turn, acc, fill)
BY CloseLotsLoop DEF LoopsOverLots

(* A sale: the inner loop over the open lots, buy by buy. *)
LEMMA SaleStep ==
  ASSUME NEW S, NEW tape \in Seq(FillsOf(S)), NEW sale \in 1..Len(tape), tape[sale].side = "Sell",
         NEW acc \in Accounts(S), acc.lots = JoinedTo(StillOpen(tape, sale - 1), sale - 1)
  PROVE  /\ TakeFill(acc, tape[sale]).lots = JoinedTo(StillOpen(tape, sale), sale)
         /\ TakeFill(acc, tape[sale]).trades = acc.trades \o JoinedTo(ClosedBy(tape, sale), sale - 1)
<1> DEFINE N == Len(tape)
           m == sale - 1
           fill == tape[sale]
           L == StillOpen(tape, m)
           M == StillOpen(tape, sale)
           P == ClosedBy(tape, sale)
           lotsOf == LotsOpen(S)
           tradesOf == TradesOf(S)
           p(b) == Len(JoinedTo(L, b))
<1>1. /\ N \in Nat /\ m \in 0..N /\ m \in Nat /\ sale \in 0..N /\ sale \in Nat /\ m + 1 = sale
      /\ fill \in FillsOf(S) /\ \A b \in 1..m : b \in 1..N /\ b \in 1..sale
  BY ElementOfSeq, LenProperties
<1>2. \A b \in 1..N : L[b] \in Seq(lotsOf) /\ M[b] \in Seq(lotsOf) /\ P[b] \in Seq(tradesOf)
  BY <1>1, PieceType, TradeType
<1>3. acc.lots \in Seq(lotsOf) /\ acc.trades \in Seq(tradesOf) /\ acc.lots = JoinedTo(L, m)
  BY DEF Accounts
<1>4. PICK turn \in [0..Len(acc.lots) -> Accounts(S)] :
        /\ turn[0] = [left |-> fill.lots, lots |-> <<>>, trades |-> acc.trades]
        /\ \A n \in 1..Len(acc.lots) : turn[n] = CloseLot(turn[n - 1], acc.lots[n], fill)
        /\ CloseLots(acc, fill) = turn[Len(acc.lots)]
  <2> HIDE DEF fill
  <2>1. PICK turn \in [0..Len(acc.lots) -> Accounts(S)] : LoopsOverLots(turn, acc, fill)
    BY <1>1, LotsLoop
  <2>2. QED
    BY <2>1 DEF LoopsOverLots
<1>5. LeftAt(tape, sale, 0) = fill.lots
  <2> DEFINE s == fill.symbol
             c(k) == Upto(tape, s, "Sell", k)
  <2>1. Upto(tape, s, "Buy", 0) = 0
    BY UptoIs
  <2>2. c(m) \in Nat /\ c(sale) \in Nat /\ c(sale) = c(m) + Traded(fill, s, "Sell")
    <3>1. /\ \A k \in 0..N : c(k) \in Nat
          /\ \A k \in 1..N : c(k) = c(k - 1) + Traded(tape[k], s, "Sell")
      BY UptoIs
    <3>2. QED
      BY <1>1, <3>1
  <2>3. Traded(fill, s, "Sell") = fill.lots /\ fill.lots \in Nat
    BY <1>1 DEF Traded, FillsOf
  <2>4. LeftAt(tape, sale, 0) = MoreOf(0, c(sale) - MoreOf(c(m), 0))
    BY <2>1 DEF LeftAt
  <2> HIDE DEF c, fill, m
  <2>5. QED
    BY <2>2, <2>3, <2>4 DEF MoreOf
<1>6. /\ JoinedTo(L, 0) = <<>> /\ \A b \in 0..m : JoinedTo(L, b) \in Seq(lotsOf)
      /\ \A b \in 1..m : JoinedTo(L, b) = JoinedTo(L, b - 1) \o L[b]
  <2>1. \A b \in 1..m : L[b] \in Seq(lotsOf)
    BY <1>1, <1>2
  <2> HIDE DEF L, lotsOf, m
  <2>2. JoinsTo(L, m, lotsOf)
    BY <1>1, <2>1, JoinedSteps
  <2>3. QED
    BY <2>2 DEF JoinsTo
<1>7. /\ JoinedTo(M, 0) = <<>> /\ \A b \in 0..sale : JoinedTo(M, b) \in Seq(lotsOf)
      /\ \A b \in 1..sale : JoinedTo(M, b) = JoinedTo(M, b - 1) \o M[b]
  <2>1. \A b \in 1..sale : M[b] \in Seq(lotsOf)
    BY <1>1, <1>2
  <2> HIDE DEF M, lotsOf
  <2>2. JoinsTo(M, sale, lotsOf)
    BY <1>1, <2>1, JoinedSteps
  <2>3. QED
    BY <2>2 DEF JoinsTo
<1>8. /\ JoinedTo(P, 0) = <<>> /\ \A b \in 0..m : JoinedTo(P, b) \in Seq(tradesOf)
      /\ \A b \in 1..m : JoinedTo(P, b) = JoinedTo(P, b - 1) \o P[b]
  <2>1. \A b \in 1..m : P[b] \in Seq(tradesOf)
    BY <1>1, <1>2
  <2> HIDE DEF P, tradesOf, m
  <2>2. JoinsTo(P, m, tradesOf)
    BY <1>1, <2>1, JoinedSteps
  <2>3. QED
    BY <2>2 DEF JoinsTo
<1>9. \A b \in 0..m : /\ p(b) \in 0..Len(acc.lots)
                      /\ \A i \in 1..p(b) : acc.lots[i] = JoinedTo(L, b)[i]
  <2> TAKE b \in 0..m
  <2>1. \A i \in 1..m : L[i] \in Seq(lotsOf)
    BY <1>1, <1>2
  <2> HIDE DEF L, lotsOf, m
  <2>2. \A n \in b..m :
          /\ Len(JoinedTo(L, b)) <= Len(JoinedTo(L, n))
          /\ \A i \in 1..Len(JoinedTo(L, b)) : JoinedTo(L, n)[i] = JoinedTo(L, b)[i]
    <3>1. StartsIn(L, b, m)
      BY <1>1, <2>1, JoinedStarts
    <3>2. QED
      BY <3>1 DEF StartsIn
  <2>3. m \in b..m
    BY <1>1
  <2>4. p(b) \in Nat /\ Len(acc.lots) \in Nat
    BY <1>3, <1>6, LenProperties
  <2>5. p(b) <= Len(acc.lots) /\ \A i \in 1..p(b) : acc.lots[i] = JoinedTo(L, b)[i]
    BY <1>3, <2>2, <2>3
  <2>6. QED
    BY <2>4, <2>5
<1> DEFINE Holds(b) ==
             /\ turn[p(b)].left = LeftAt(tape, sale, b)
             /\ turn[p(b)].lots = JoinedTo(M, b)
             /\ turn[p(b)].trades = acc.trades \o JoinedTo(P, b)
           good == {b \in 0..m : Holds(b)}
<1> HIDE DEF N, m, fill, L, M, P, lotsOf, tradesOf
<1>10. Holds(0)
  <2>1. p(0) = 0
    BY <1>6
  <2>2. acc.trades \o <<>> = acc.trades
    BY <1>3, ConcatEmptySeq
  <2>3. turn[0].left = fill.lots /\ turn[0].lots = <<>> /\ turn[0].trades = acc.trades
    BY <1>4
  <2>4. QED
    BY <1>5, <1>7, <1>8, <2>1, <2>2, <2>3
<1>11. ASSUME NEW b \in 1..m, Holds(b - 1) PROVE Holds(b)
  <2> DEFINE b0 == b - 1
             a == turn[p(b0)]
             open0 == JoinedTo(L, b0)
             left0 == JoinedTo(M, b0)
             done0 == JoinedTo(P, b0)
  <2>1. b0 \in 0..m /\ b \in 0..m /\ b \in 1..N /\ b \in 1..sale /\ b \in 1..Len(tape)
    BY <1>1 DEF N
  <2>2. a \in Accounts(S) /\ p(b0) \in 0..Len(acc.lots) /\ p(b) \in 0..Len(acc.lots)
    BY <1>4, <1>9, <2>1
  <2>3. a.left = LeftAt(tape, sale, b0) /\ a.lots = left0 /\ a.trades = acc.trades \o done0
    BY <1>11
  <2>4. /\ JoinedTo(L, b) = open0 \o L[b] /\ open0 \in Seq(lotsOf) /\ p(b0) = Len(open0)
        /\ JoinedTo(M, b) = left0 \o M[b] /\ left0 \in Seq(lotsOf)
        /\ JoinedTo(P, b) = done0 \o P[b] /\ done0 \in Seq(tradesOf)
    <3>1. b0 \in 0..sale
      BY <1>1, <2>1
    <3>2. JoinedTo(M, b0) \in Seq(lotsOf) /\ JoinedTo(L, b0) \in Seq(lotsOf) /\ JoinedTo(P, b0) \in Seq(tradesOf)
      BY <1>6, <1>7, <1>8, <2>1, <3>1
    <3>3. /\ JoinedTo(L, b) = JoinedTo(L, b - 1) \o L[b] /\ JoinedTo(M, b) = JoinedTo(M, b - 1) \o M[b]
          /\ JoinedTo(P, b) = JoinedTo(P, b - 1) \o P[b]
      BY <1>6, <1>7, <1>8, <2>1
    <3>4. QED
      BY <3>2, <3>3
  <2>5. M[b] \in Seq(lotsOf) /\ P[b] \in Seq(tradesOf)
    BY <1>2, <2>1
  <2> HIDE DEF a, open0, left0, done0, p
  <2>6. /\ L[b] = <<>> =>
             M[b] = <<>> /\ P[b] = <<>> /\ LeftAt(tape, sale, b) = a.left
        /\ L[b] # <<>> =>
             \E lot \in lotsOf :
               /\ L[b] = <<lot>>
               /\ CloseLot(a, lot, fill).left = LeftAt(tape, sale, b)
               /\ CloseLot(a, lot, fill).lots = a.lots \o M[b]
               /\ CloseLot(a, lot, fill).trades = a.trades \o P[b]
    <3>1. a.left = LeftAt(tape, sale, b - 1)
      BY <2>3
    <3>2. PieceTurned(tape, sale, b, a, S)
      BY <2>1, <2>2, <3>1, PieceStep
    <3>3. QED
      BY <3>2 DEF PieceTurned, L, M, P, fill, m, lotsOf
  <2>7. CASE L[b] = <<>>
    <3>1. p(b) = p(b0)
      BY <2>4, <2>7, ConcatEmptySeq DEF p
    <3>2. JoinedTo(M, b) = left0 /\ JoinedTo(P, b) = done0
      <4>1. left0 \o <<>> = left0 /\ done0 \o <<>> = done0
        BY <2>4, ConcatEmptySeq
      <4>2. QED
        BY <2>4, <2>6, <2>7, <4>1
    <3>3. turn[p(b)] = a
      BY <3>1 DEF a
    <3>4. QED
      BY <2>3, <2>6, <2>7, <3>2, <3>3
  <2>8. CASE L[b] # <<>>
    <3>1. PICK lot \in lotsOf :
            /\ L[b] = <<lot>>
            /\ CloseLot(a, lot, fill).left = LeftAt(tape, sale, b)
            /\ CloseLot(a, lot, fill).lots = a.lots \o M[b]
            /\ CloseLot(a, lot, fill).trades = a.trades \o P[b]
      BY <2>6, <2>8
    <3>2. JoinedTo(L, b) = Append(open0, lot)
      BY <2>4, <3>1, AppendIsConcat
    <3>3. Len(JoinedTo(L, b)) = Len(open0) + 1 /\ JoinedTo(L, b)[Len(open0) + 1] = lot
      BY <2>4, <3>1, <3>2, AppendProperties
    <3>4. p(b) = p(b0) + 1 /\ JoinedTo(L, b)[p(b)] = lot
      BY <2>4, <3>3 DEF p
    <3>5. p(b) \in 1..Len(acc.lots) /\ p(b) \in 1..p(b) /\ p(b) - 1 = p(b0)
      <4>1. \A x \in Nat : \A y, z : y \in 0..x /\ z \in 0..x /\ z = y + 1 => z \in 1..x /\ z \in 1..z /\ z - 1 = y
        OBVIOUS
      <4>2. Len(acc.lots) \in Nat
        BY <1>3, LenProperties
      <4>3. QED
        BY <2>2, <3>4, <4>1, <4>2
    <3>6. acc.lots[p(b)] = lot
      BY <1>9, <2>1, <3>4, <3>5 DEF p
    <3>7. turn[p(b)] = CloseLot(a, lot, fill)
      <4>1. turn[p(b)] = CloseLot(turn[p(b) - 1], acc.lots[p(b)], fill)
        BY <1>4, <3>5
      <4>2. QED
        BY <3>5, <3>6, <4>1 DEF a
    <3>8. (acc.trades \o done0) \o P[b] = acc.trades \o (done0 \o P[b])
      <4> DEFINE x == acc.trades
                 y == P[b]
      <4>1. x \in Seq(tradesOf) /\ y \in Seq(tradesOf) /\ done0 \in Seq(tradesOf)
        BY <1>3, <2>4, <2>5
      <4> HIDE DEF x, y
      <4>2. Regroups(x, done0, y)
        BY <4>1, JoinThree
      <4>3. QED
        BY <4>2 DEF Regroups, x, y
    <3>9. QED
      BY <2>3, <2>4, <3>1, <3>7, <3>8
  <2>9. QED
    BY <2>7, <2>8
<1> HIDE DEF Holds
<1>12. \A b \in 0..m : b \in good
  <2>1. 0 \in good
    BY <1>1, <1>10
  <2>2. \A b \in 1..m : b - 1 \in good => b \in good
    BY <1>11
  <2> HIDE DEF good
  <2>3. QED
    BY <1>1, <2>1, <2>2, Climb
<1>13. Holds(m) /\ p(m) = Len(acc.lots)
  <2>1. m \in 0..m
    BY <1>1
  <2>2. QED
    BY <1>3, <1>12, <2>1
<1>14. TakeFill(acc, fill) = turn[p(m)]
  <2>1. TakeFill(acc, fill) = CloseLots(acc, fill)
    BY DEF TakeFill, fill
  <2>2. QED
    BY <1>4, <1>13, <2>1
<1>15. JoinedTo(M, sale) = JoinedTo(M, m)
  <2>1. M[sale] = <<>>
    <3>1. sale \in 1..Len(tape) /\ sale \in 0..Len(tape)
      BY <1>1 DEF N
    <3>2. StillOpen(tape, sale)[sale] = IF tape[sale].side = "Buy" /\ LeftOf(tape, sale, sale) > 0
                                        THEN <<LotAfter(tape, sale, sale)>> ELSE <<>>
      BY <3>1, PieceType
    <3>3. tape[sale].side # "Buy"
      OBVIOUS
    <3>4. QED
      BY <3>2, <3>3 DEF M
  <2>2. sale \in 1..sale /\ m \in 0..sale /\ sale - 1 = m
    BY <1>1
  <2>3. JoinedTo(M, sale) = JoinedTo(M, m) \o <<>> /\ JoinedTo(M, m) \in Seq(lotsOf)
    BY <1>7, <2>1, <2>2
  <2>4. QED
    BY <2>3, ConcatEmptySeq
<1>16. QED
  BY <1>13, <1>14, <1>15 DEF Holds, fill, M, P, m

(* A buy: its lots come after those that were open. *)
LEMMA BuyStep ==
  ASSUME NEW S, NEW tape \in Seq(FillsOf(S)), NeverShort(tape), NEW k \in 1..Len(tape),
         tape[k].side = "Buy", NEW acc \in Accounts(S),
         acc.lots = JoinedTo(StillOpen(tape, k - 1), k - 1)
  PROVE  /\ TakeFill(acc, tape[k]).lots = JoinedTo(StillOpen(tape, k), k)
         /\ TakeFill(acc, tape[k]).trades = acc.trades
<1> DEFINE N == Len(tape)
           m == k - 1
           fill == tape[k]
           L == StillOpen(tape, m)
           M == StillOpen(tape, k)
           lotsOf == LotsOpen(S)
           lot == OpenLot(fill)
<1>1. /\ N \in Nat /\ m \in Nat /\ m \in 0..N /\ k \in 0..N /\ k \in Nat /\ m + 1 = k /\ fill \in FillsOf(S)
      /\ \A b \in 1..k : b \in 1..N
  BY ElementOfSeq, LenProperties
<1>2. \A b \in 1..N : M[b] \in Seq(lotsOf)
  BY <1>1, PieceType
<1>3. ASSUME NEW s PROVE Upto(tape, s, "Sell", k) = Upto(tape, s, "Sell", m)
  <2>1. /\ \A j \in 0..N : Upto(tape, s, "Sell", j) \in Nat
        /\ \A j \in 1..N : Upto(tape, s, "Sell", j) = Upto(tape, s, "Sell", j - 1) + Traded(tape[j], s, "Sell")
    BY UptoIs
  <2>2. Traded(tape[k], s, "Sell") = 0
    BY DEF Traded
  <2> DEFINE c(j) == Upto(tape, s, "Sell", j)
  <2>3. c(k) = c(k - 1) + 0 /\ c(k - 1) \in Nat
    BY <1>1, <2>1, <2>2
  <2> HIDE DEF c
  <2>4. c(k) = c(k - 1)
    BY <2>3
  <2>5. QED
    BY <2>4 DEF c
<1>4. ASSUME NEW b \in 1..m PROVE M[b] = L[b]
  <2>1. LeftOf(tape, b, k) = LeftOf(tape, b, m)
    BY <1>3 DEF LeftOf
  <2>2. LotAfter(tape, b, k) = LotAfter(tape, b, m)
    BY <2>1 DEF LotAfter
  <2>3. b \in 1..Len(tape)
    BY <1>1
  <2>4. QED
    BY <2>1, <2>2, <2>3 DEF StillOpen
<1>5. JoinedTo(M, m) = acc.lots
  <2> HIDE DEF L, M, m
  <2>1. [j \in 1..m |-> M[j]] = [j \in 1..m |-> L[j]]
    BY <1>4
  <2>2. acc.lots = JoinedTo(L, m)
    BY DEF L, m
  <2>3. QED
    BY <2>1, <2>2 DEF JoinedTo
<1>6. M[k] = <<lot>>
  <2> DEFINE s == fill.symbol
             n == fill.lots
             U(side, j) == Upto(tape, s, side, j)
  <2>1. U("Buy", k) \in Nat /\ U("Buy", m) \in Nat /\ U("Sell", k) \in Nat /\ U("Sell", m) \in Nat
    <3>1. \A j \in 0..N : Upto(tape, s, "Buy", j) \in Nat
      BY UptoIs
    <3>2. \A j \in 0..N : Upto(tape, s, "Sell", j) \in Nat
      BY UptoIs
    <3>3. QED
      BY <1>1, <3>1, <3>2
  <2>2. U("Buy", k) = U("Buy", m) + n
    <3>1. \A j \in 1..N : Upto(tape, s, "Buy", j) = Upto(tape, s, "Buy", j - 1) + Traded(tape[j], s, "Buy")
      BY UptoIs
    <3>2. Traded(tape[k], s, "Buy") = n
      BY DEF Traded
    <3>3. QED
      BY <1>1, <3>1, <3>2
  <2>3. U("Sell", k) <= U("Buy", m)
    <3>1. \A j \in 0..Len(tape) : Upto(tape, s, "Sell", j) <= Upto(tape, s, "Buy", j)
      BY NotShort
    <3>2. U("Sell", m) <= U("Buy", m)
      BY <1>1, <3>1
    <3>3. U("Sell", k) = U("Sell", m)
      BY <1>3
    <3>4. QED
      BY <3>2, <3>3
  <2>4. n \in Nat \ {0}
    BY <1>1 DEF FillsOf
  <2>5. LeftOf(tape, k, k) = U("Buy", k) - MoreOf(U("Buy", m), U("Sell", k))
    BY DEF LeftOf
  <2>6. n * PerBought(fill) = Denom * (fill.price * fill.lots + fill.fees)
    BY <1>1, PerBoughtType
  <2>7. M[k] = IF fill.side = "Buy" /\ LeftOf(tape, k, k) > 0 THEN <<LotAfter(tape, k, k)>> ELSE <<>>
    BY DEF StillOpen
  <2>8. LeftOf(tape, k, k) = n
    <3> HIDE DEF U, n
    <3>1. QED
      BY <2>1, <2>2, <2>3, <2>4, <2>5 DEF MoreOf
  <2>9. LotAfter(tape, k, k) = lot
    BY <2>6, <2>8 DEF LotAfter, OpenLot
  <2>10. QED
    <3>1. fill.side = "Buy" /\ n > 0
      BY <2>4
    <3> HIDE DEF fill, n, M, lot
    <3>2. QED
      BY <2>7, <2>8, <2>9, <3>1
<1>7. lot \in lotsOf
  <2>1. LotAfter(tape, k, k) \in LotsOpen(S) \/ ~(LeftOf(tape, k, k) > 0)
    BY <1>1, PieceType
  <2>2. M[k] = IF fill.side = "Buy" /\ LeftOf(tape, k, k) > 0 THEN <<LotAfter(tape, k, k)>> ELSE <<>>
    BY DEF StillOpen
  <2> DEFINE after == LotAfter(tape, k, k)
             left == LeftOf(tape, k, k)
  <2> HIDE DEF after, lot, lotsOf, M, fill, left
  <2>3. after \in lotsOf \/ ~(left > 0)
    BY <2>1 DEF after, lotsOf, left
  <2>4. (M[k] = <<after>> /\ left > 0) \/ M[k] = <<>>
    BY <2>2 DEF after, left
  <2>5. M[k] # <<>>
    BY <1>6
  <2>6. <<after>> = <<lot>>
    BY <1>6, <2>4, <2>5
  <2>7. after = lot
    BY <2>6
  <2>8. QED
    BY <2>3, <2>4, <2>5, <2>7
<1>8. JoinedTo(M, k) = JoinedTo(M, m) \o M[k] /\ JoinedTo(M, m) \in Seq(lotsOf)
  <2>1. \A b \in 1..k : M[b] \in Seq(lotsOf)
    BY <1>1, <1>2
  <2> HIDE DEF M, lotsOf, m
  <2>2. JoinsTo(M, k, lotsOf)
    BY <1>1, <2>1, JoinedSteps
  <2>3. k \in 1..k /\ m \in 0..k /\ k - 1 = m
    BY <1>1
  <2>4. QED
    BY <2>2, <2>3 DEF JoinsTo
<1>9. TakeFill(acc, fill) = [acc EXCEPT !.lots = Append(@, lot)]
  BY DEF TakeFill
<1>10. TakeFill(acc, fill).lots = Append(acc.lots, lot) /\ TakeFill(acc, fill).trades = acc.trades
  <2> HIDE DEF lot, fill
  <2>1. QED
    BY <1>9 DEF Accounts
<1>11. Append(acc.lots, lot) = acc.lots \o <<lot>>
  <2> HIDE DEF lot, lotsOf
  <2>1. acc.lots \in Seq(lotsOf)
    BY DEF Accounts, lotsOf
  <2>2. QED
    BY <1>7, <2>1, AppendIsConcat
<1> HIDE DEF lot, fill, M, m
<1>12. QED
  BY <1>5, <1>6, <1>8, <1>10, <1>11 DEF fill, M

(* A sale closes no buy that comes after it, and a buy closes none. *)
LEMMA NoTradeLater ==
  ASSUME NEW S, NEW tape \in Seq(FillsOf(S)), NeverShort(tape), NEW k \in 1..Len(tape)
  PROVE  /\ \A b \in k..Len(tape) : ClosedBy(tape, k)[b] = <<>>
         /\ tape[k].side # "Sell" => \A b \in 1..Len(tape) : ClosedBy(tape, k)[b] = <<>>
<1> DEFINE N == Len(tape)
           s == tape[k].symbol
<1>1. N \in Nat /\ \A b \in k..N : b \in 1..N
  BY LenProperties
<1>2. tape[k].side # "Sell" => \A b \in 1..N : ClosedBy(tape, k)[b] = <<>>
  BY DEF ClosedBy
<1>3. ASSUME NEW b \in k..N, tape[k].side = "Sell" PROVE ClosedBy(tape, k)[b] = <<>>
  <2>1. CASE b = k
    BY <1>1, <1>3, <2>1 DEF ClosedBy
  <2>2. CASE b # k
    <3> DEFINE U(side, j) == Upto(tape, s, side, j)
    <3>1. k \in 0..N /\ k - 1 \in 0..N /\ b \in 0..N /\ b - 1 \in 0..N /\ k <= b - 1 /\ b \in 1..N
      BY <1>1, <2>2
    <3>2. \A i, j \in 0..N : i <= j => U("Buy", i) <= U("Buy", j)
      BY UptoIs
    <3>3. \A j \in 0..N : U("Buy", j) \in Nat
      BY UptoIs
    <3>4. \A j \in 0..N : U("Sell", j) \in Nat
      BY UptoIs
    <3>5. \A j \in 0..N : U("Sell", j) <= U("Buy", j)
      BY NotShort
    <3>6. Overlap(tape, b, k) = LessOf(U("Buy", b), U("Sell", k)) - MoreOf(U("Buy", b - 1), U("Sell", k - 1))
      BY DEF Overlap
    <3> DEFINE b0 == U("Buy", b - 1)
               b1 == U("Buy", b)
               c0 == U("Sell", k - 1)
               c1 == U("Sell", k)
    <3>7. b0 \in Nat /\ b1 \in Nat /\ c0 \in Nat /\ c1 \in Nat /\ c1 <= U("Buy", k) /\ U("Buy", k) <= b0 /\ U("Buy", k) \in Nat
      BY <3>1, <3>2, <3>3, <3>4, <3>5
    <3> HIDE DEF b0, b1, c0, c1, U
    <3>8. ~(LessOf(b1, c1) - MoreOf(b0, c0) > 0)
      BY <3>7 DEF LessOf, MoreOf
    <3>9. ~(Overlap(tape, b, k) > 0)
      BY <3>6, <3>8 DEF b0, b1, c0, c1
    <3>10. QED
      BY <3>1, <3>9 DEF ClosedBy
  <2>3. QED
    BY <2>1, <2>2
<1>4. QED
  BY <1>1, <1>2, <1>3

(* What every fill does to the open lots and to the trades. *)
LEMMA FillStep ==
  ASSUME NEW S, NEW tape \in Seq(FillsOf(S)), NeverShort(tape), NEW k \in 1..Len(tape),
         NEW acc \in Accounts(S), acc.lots = JoinedTo(StillOpen(tape, k - 1), k - 1)
  PROVE  /\ TakeFill(acc, tape[k]).lots = JoinedTo(StillOpen(tape, k), k)
         /\ TakeFill(acc, tape[k]).trades = acc.trades \o JoinedTo(ClosedBy(tape, k), Len(tape))
         /\ JoinedTo(ClosedBy(tape, k), Len(tape)) \in Seq(TradesOf(S))
<1> DEFINE N == Len(tape)
           P == ClosedBy(tape, k)
           tradesOf == TradesOf(S)
<1>1. /\ N \in Nat /\ k - 1 \in 0..N /\ 0 \in 0..N /\ (k - 1) + 1 = k /\ k - 1 \in Nat
      /\ tape[k] \in FillsOf(S)
  BY ElementOfSeq, LenProperties
<1>2. \A b \in 1..N : P[b] \in Seq(tradesOf)
  BY TradeType
<1>3. acc.trades \in Seq(tradesOf)
  BY DEF Accounts
<1> DEFINE m == k - 1
<1>4. m \in 0..N /\ m + 1 = k /\ N \in Nat /\ 0 \in 0..N
  BY <1>1
<1>5. /\ \A b \in k..N : P[b] = <<>>
      /\ tape[k].side # "Sell" => \A b \in 1..N : P[b] = <<>>
  BY NoTradeLater
<1> HIDE DEF N, P, tradesOf, m
<1>6. StartsIn(P, m, N) /\ StartsIn(P, 0, N) /\ JoinsTo(P, N, tradesOf)
  BY <1>2, <1>4, JoinedStarts, JoinedSteps
<1>7. JoinedTo(P, N) \in Seq(tradesOf)
  <2>1. N \in 0..N
    BY <1>4
  <2>2. QED
    BY <1>6, <2>1 DEF JoinsTo
<1>8. CASE tape[k].side = "Sell"
  <2>1. JoinedTo(P, N) = JoinedTo(P, m)
    BY <1>4, <1>5, <1>6 DEF StartsIn
  <2>2. /\ TakeFill(acc, tape[k]).lots = JoinedTo(StillOpen(tape, k), k)
        /\ TakeFill(acc, tape[k]).trades = acc.trades \o JoinedTo(ClosedBy(tape, k), k - 1)
    BY <1>8, SaleStep
  <2>3. QED
    BY <1>7, <2>1, <2>2 DEF P, m, N, tradesOf
<1>9. CASE tape[k].side # "Sell"
  <2>1. tape[k].side = "Buy"
    BY <1>1, <1>9 DEF FillsOf
  <2>2. /\ TakeFill(acc, tape[k]).lots = JoinedTo(StillOpen(tape, k), k)
        /\ TakeFill(acc, tape[k]).trades = acc.trades
    BY <2>1, BuyStep
  <2>3. \A b \in (0 + 1)..N : P[b] = <<>>
    BY <1>5, <1>9
  <2>4. JoinedTo(P, N) = JoinedTo(P, 0) /\ JoinedTo(P, 0) = <<>>
    BY <1>6, <2>3 DEF StartsIn, JoinsTo
  <2>5. acc.trades \o <<>> = acc.trades
    BY <1>3, ConcatEmptySeq
  <2>6. QED
    BY <1>7, <2>2, <2>4, <2>5 DEF P, N, tradesOf
<1>10. QED
  BY <1>8, <1>9

(* All trades, sale by sale. *)
FifoTrades(tape) == [sale \in 1..Len(tape) |-> JoinedTo(ClosedBy(tape, sale), Len(tape))]

LEMMA TradesJoined ==
  ASSUME NEW S, NEW tape \in Seq(FillsOf(S)), NeverShort(tape)
  PROVE  Closed(tape).trades = JoinedTo(FifoTrades(tape), Len(tape))
<1> DEFINE N == Len(tape)
           T == FifoTrades(tape)
           tradesOf == TradesOf(S)
           Open(n) == JoinedTo(StillOpen(tape, n), n)
<1>1. N \in Nat
  BY LenProperties
<1>2. PICK turn \in [0..N -> Accounts(S)] :
        /\ turn[0] = [left |-> 0, lots |-> <<>>, trades |-> <<>>]
        /\ \A n \in 1..N : turn[n] = TakeFill(turn[n - 1], tape[n])
        /\ Closed(tape) = turn[N]
  BY ClosedLoop
<1> DEFINE good == {n \in 0..N : turn[n].lots = Open(n) /\ turn[n].trades = JoinedTo(T, n)}
           solid == {n \in 0..N : turn[n].lots = Open(n)}
<1>3. turn[0].lots = Open(0) /\ turn[0].trades = JoinedTo(T, 0)
  BY <1>2, JoinedToNone
<1>4. ASSUME NEW n \in 1..N, turn[n - 1].lots = Open(n - 1)
      PROVE  /\ turn[n].lots = Open(n)
             /\ turn[n].trades = turn[n - 1].trades \o T[n]
             /\ T[n] \in Seq(tradesOf)
  <2> DEFINE acc == turn[n - 1]
             m == n - 1
  <2>1. acc \in Accounts(S) /\ m \in 0..N /\ m = n - 1
    BY <1>1, <1>2
  <2>2. acc.lots = JoinedTo(StillOpen(tape, n - 1), n - 1)
    BY <1>4
  <2>3. turn[n] = TakeFill(acc, tape[n])
    BY <1>2
  <2> HIDE DEF acc, m
  <2>4. /\ TakeFill(acc, tape[n]).lots = JoinedTo(StillOpen(tape, n), n)
        /\ TakeFill(acc, tape[n]).trades = acc.trades \o JoinedTo(ClosedBy(tape, n), Len(tape))
        /\ JoinedTo(ClosedBy(tape, n), Len(tape)) \in Seq(TradesOf(S))
    BY <2>1, <2>2, FillStep
  <2>5. T[n] = JoinedTo(ClosedBy(tape, n), Len(tape))
    BY DEF FifoTrades
  <2>6. QED
    BY <2>3, <2>4, <2>5 DEF acc
<1>5. \A n \in 0..N : n \in solid
  <2>1. 0 \in solid
    BY <1>1, <1>3
  <2>2. \A n \in 1..N : n - 1 \in solid => n \in solid
    BY <1>4
  <2> HIDE DEF solid, N
  <2>3. QED
    BY <1>1, <2>1, <2>2, Climb
<1>6. \A n \in 1..N : T[n] \in Seq(tradesOf) /\ turn[n].trades = turn[n - 1].trades \o T[n]
  <2> TAKE n \in 1..N
  <2>1. n - 1 \in solid
    BY <1>1, <1>5
  <2>2. QED
    BY <1>4, <2>1
<1> HIDE DEF N, T, tradesOf
<1>7. JoinsTo(T, N, tradesOf)
  BY <1>1, <1>6, JoinedSteps
<1>8. \A n \in 0..N : n \in good
  <2>1. 0 \in good
    BY <1>1, <1>3
  <2>2. ASSUME NEW n \in 1..N, n - 1 \in good PROVE n \in good
    <3>1. turn[n - 1].trades = JoinedTo(T, n - 1) /\ n \in 0..N
      BY <2>2
    <3>2. turn[n].trades = turn[n - 1].trades \o T[n]
      BY <1>6
    <3>3. JoinedTo(T, n) = JoinedTo(T, n - 1) \o T[n]
      BY <1>7 DEF JoinsTo
    <3>4. turn[n].lots = Open(n)
      BY <1>5, <3>1
    <3>5. QED
      BY <3>1, <3>2, <3>3, <3>4
  <2> HIDE DEF good
  <2>3. QED
    BY <1>1, <2>1, <2>2, Climb
<1>9. N \in 0..N
  BY <1>1
<1>10. turn[N].trades = JoinedTo(T, N)
  BY <1>8, <1>9
<1>11. QED
  BY <1>2, <1>10 DEF N, T

(* Every tape of fills whose fees can be shared out and that never sells    *)
(* short: the trades are those of the lots matched one by one, first bought *)
(* first sold, with their part of the fees of both fills                    *)
(* (closed_trades_from_fills).                                              *)
THEOREM TradesMatchFifo ==
  ASSUME NEW S, NEW tape \in Seq(FillsOf(S)), NeverShort(tape)
  PROVE  TradesAreFifo(tape)
<1> DEFINE N == Len(tape)
           Met(buy, sale) ==
             LET bought == LotsTraded(tape, tape[sale].symbol, "Buy")
                 sold   == LotsTraded(tape, tape[sale].symbol, "Sell")
             IN  Cardinality({n \in DOMAIN sold : <<bought[n], sold[n]>> = <<buy, sale>>})
           Expected(buy, sale) ==
             LET b == tape[buy]
                 s == tape[sale]
                 n == Met(buy, sale)
             IN  [symbol |-> s.symbol, lots |-> n, openedAt |-> b.ts, closedAt |-> s.ts,
                  entry |-> b.price, exit |-> s.price,
                  pnl |-> Denom * (s.price - b.price) * n - (Denom * s.fees * n) \div s.lots
                          - (Denom * b.fees * n) \div b.lots]
           Piece(buy, sale) ==
             IF tape[sale].side = "Sell" /\ tape[buy].symbol = tape[sale].symbol
                /\ tape[buy].side = "Buy" /\ Met(buy, sale) > 0
             THEN <<Expected(buy, sale)>> ELSE <<>>
<1>1. N \in Nat /\ \A n \in 1..N : tape[n] \in FillsOf(S)
  BY ElementOfSeq, LenProperties
<1>2. ASSUME NEW sale \in 1..N, NEW buy \in 1..N
      PROVE  Met(buy, sale) = (IF Overlap(tape, buy, sale) > 0 THEN Overlap(tape, buy, sale) ELSE 0)
             /\ Overlap(tape, buy, sale) \in Int
  <2> DEFINE s == tape[sale].symbol
  <2>1. \A k \in 0..Len(tape) : Upto(tape, s, "Sell", k) <= Upto(tape, s, "Buy", k)
    BY NotShort
  <2>2. Upto(tape, s, "Sell", Len(tape)) <= Upto(tape, s, "Buy", Len(tape))
    BY <1>1, <2>1
  <2>3. QED
    BY <2>2, MetIs
<1>3. ASSUME NEW sale \in 1..N, NEW buy \in 1..N
      PROVE  Piece(buy, sale) = ClosedBy(tape, sale)[buy]
  <2> DEFINE n == Met(buy, sale)
             over == Overlap(tape, buy, sale)
             b == tape[buy]
             s == tape[sale]
  <2>1. over \in Int /\ n = IF over > 0 THEN over ELSE 0
    BY <1>2
  <2>2. b \in FillsOf(S) /\ s \in FillsOf(S)
    BY <1>1
  <2>3. ASSUME over > 0 PROVE Expected(buy, sale) = FifoTrade(tape, buy, sale)
    <3>1. n = over /\ n \in Nat
      BY <2>1, <2>3
    <3> DEFINE shareS == (Denom * s.fees * n) \div s.lots
               shareB == (Denom * b.fees * n) \div b.lots
    <3>2. /\ shareS \in Int /\ shareB \in Int
          /\ n * PerBought(b) = Denom * b.price * n + shareB
          /\ n * PerLot(s) = Denom * s.price * n - shareS
      <4> HIDE DEF n, b, s
      <4>1. QED
        BY <2>2, <3>1, PerBoughtType
    <3>3. Denom * (s.price - b.price) * n = Denom * s.price * n - Denom * b.price * n
          /\ Denom * s.price * n \in Int /\ Denom * b.price * n \in Int
      <4>1. Denom \in Int /\ s.price \in Int /\ b.price \in Int
        <5>1. \A f \in FillsOf(S) : f.price \in Int
          BY DEF FillsOf
        <5> HIDE DEF b, s
        <5>2. QED
          BY <2>2, <5>1, DenomAssumption
      <4> DEFINE x == s.price
                 y == b.price
      <4> HIDE DEF x, y, n
      <4>2. Denom * (x - y) * n = Denom * x * n - Denom * y * n
        BY <3>1, <4>1 DEF x, y
      <4>3. Denom * x * n \in Int /\ Denom * y * n \in Int
        BY <3>1, <4>1, MulType DEF x, y
      <4>4. QED
        BY <4>2, <4>3 DEF x, y
    <3>4. Denom * (s.price - b.price) * n - shareS - shareB = n * PerLot(s) - n * PerBought(b)
      <4> DEFINE i == Denom * s.price * n
                 j == Denom * b.price * n
                 u == n * PerLot(s)
                 v == n * PerBought(b)
                 w == Denom * (s.price - b.price) * n
      <4>1. /\ i \in Int /\ j \in Int /\ shareS \in Int /\ shareB \in Int
            /\ v = j + shareB /\ u = i - shareS /\ w = i - j
        BY <3>2, <3>3
      <4> HIDE DEF i, j, u, v, w, shareS, shareB
      <4>2. w - shareS - shareB = u - v
        BY <4>1
      <4>3. QED
        BY <4>2 DEF w, u, v
    <3>5. QED
      BY <3>1, <3>4 DEF FifoTrade
  <2>4. n > 0 <=> over > 0
    <3> HIDE DEF n, over
    <3>1. QED
      BY <2>1
  <2>5. ClosedBy(tape, sale)[buy] =
          IF tape[sale].side = "Sell" /\ tape[buy].symbol = tape[sale].symbol /\ tape[buy].side = "Buy"
             /\ over > 0
          THEN <<FifoTrade(tape, buy, sale)>> ELSE <<>>
    BY DEF ClosedBy
  <2> HIDE DEF n, Expected, over
  <2>6. QED
    BY <2>3, <2>4, <2>5 DEF n
<1> HIDE DEF Piece
<1>4. ASSUME NEW sale \in 1..N
      PROVE  Joined([buy \in 1..N |-> Piece(buy, sale)]) = FifoTrades(tape)[sale]
  <2>1. [buy \in 1..N |-> Piece(buy, sale)] = [buy \in 1..N |-> ClosedBy(tape, sale)[buy]]
    BY <1>3
  <2>2. FifoTrades(tape)[sale] = JoinedTo(ClosedBy(tape, sale), N)
    BY DEF FifoTrades
  <2>3. QED
    BY <2>1, <2>2 DEF JoinedTo
<1>5. [sale \in 1..N |-> Joined([buy \in 1..N |-> Piece(buy, sale)])]
        = [sale \in 1..N |-> FifoTrades(tape)[sale]]
  BY <1>4
<1>6. Closed(tape).trades = Joined([sale \in 1..N |-> Joined([buy \in 1..N |-> Piece(buy, sale)])])
  BY <1>5, TradesJoined DEF JoinedTo
<1>7. DOMAIN tape = 1..N
  BY LenProperties
<1>8. TradesAreFifo(tape) <=>
        Closed(tape).trades =
          Joined([sale \in DOMAIN tape |-> Joined([buy \in DOMAIN tape |-> Piece(buy, sale)])])
  BY DEF TradesAreFifo, Piece
<1> HIDE DEF N
<1>9. QED
  BY <1>6, <1>7, <1>8

LEMMA HeldNow ==
  ASSUME NEW S, NEW tape \in Seq(FillsOf(S)), NEW s
  PROVE  HeldAfter(tape, s, Len(tape))
<1>1. \A k \in 0..Len(tape) : HeldAfter(tape, s, k)
  BY HeldIs
<1>2. Len(tape) \in 0..Len(tape)
  BY LenProperties
<1>3. QED
  BY <1>1, <1>2

(* A fill that sells no more than is held. *)
LEMMA StillFair ==
  ASSUME NEW S, NEW tape \in Seq(FillsOf(S)), NeverShort(tape), NEW f \in FillsOf(S),
         f.side = "Sell" =>
           f.lots <= Len(LotsTraded(tape, f.symbol, "Buy")) - Len(LotsTraded(tape, f.symbol, "Sell"))
  PROVE  Append(tape, f) \in Seq(FillsOf(S)) /\ NeverShort(Append(tape, f))
<1> DEFINE N == Len(tape)
           all == FillsOf(S)
           more == Append(tape, f)
<1>1. /\ N \in Nat /\ more \in Seq(all) /\ Len(more) = N + 1 /\ more[N + 1] = f
      /\ \A j \in 1..N : more[j] = tape[j]
  <2> HIDE DEF all
  <2>1. tape \in Seq(all) /\ f \in all
    BY DEF all
  <2>2. QED
    BY <2>1, AppendProperties, LenProperties
<1>2. SUFFICES ASSUME NEW i \in 1..(N + 1), more[i].side = "Sell"
               PROVE  SumOf([j \in 1..(i - 1) |-> Moved(more[j], more[i].symbol)]) >= more[i].lots
  BY <1>1 DEF NeverShort, more
<1>3. [j \in 1..(i - 1) |-> Moved(more[j], more[i].symbol)]
        = [j \in 1..(i - 1) |-> Moved(tape[j], more[i].symbol)]
  <2> HIDE DEF more
  <2>1. \A j \in 1..(i - 1) : j \in 1..N
    BY <1>1
  <2>2. QED
    BY <1>1, <2>1
<1>4. CASE i \in 1..N
  <2>1. more[i] = tape[i]
    BY <1>1, <1>4
  <2> HIDE DEF more
  <2>2. SumOf([j \in 1..(i - 1) |-> Moved(tape[j], tape[i].symbol)]) >= tape[i].lots
    BY <1>2, <1>4, <2>1 DEF NeverShort
  <2>3. QED
    BY <1>3, <2>1, <2>2
<1>5. CASE i = N + 1
  <2> DEFINE s == f.symbol
             sum == SumOf([j \in 1..N |-> Moved(tape[j], s)])
             b == Upto(tape, s, "Buy", N)
             c == Upto(tape, s, "Sell", N)
  <2>1. more[i] = f /\ i - 1 = N
    BY <1>1, <1>5
  <2>2. b \in Nat /\ c \in Nat /\ sum = b - c
    <3>1. HeldAfter(tape, s, Len(tape))
      BY HeldNow
    <3>2. QED
      BY <3>1 DEF HeldAfter
  <2>3. Len(LotsTraded(tape, s, "Buy")) = b
    BY PlacesOf
  <2>4. Len(LotsTraded(tape, s, "Sell")) = c
    BY PlacesOf
  <2>5. f.lots \in Nat
    BY DEF FillsOf
  <2>6. f.lots <= b - c
    BY <1>2, <2>1, <2>3, <2>4
  <2>7. sum >= f.lots
    <3> HIDE DEF sum, b, c
    <3>1. QED
      BY <2>2, <2>5, <2>6
  <2> HIDE DEF more
  <2>8. QED
    BY <1>3, <2>1, <2>7
<1>6. i \in 1..N \/ i = N + 1
  BY <1>1
<1>7. QED
  BY <1>4, <1>5, <1>6

(* The invariant of the tapes. *)
TapeFair ==
  /\ deals \in Seq(FillsOf(Nat)) /\ NeverShort(deals)
  /\ worth \in Seq(Nat)

(* Whatever deals a backtest makes that sells only what it holds, and       *)
(* however many: its closed trades are those of its lots matched one by     *)
(* one, and the drawdown of every curve is its worst fall (perf.rs).        *)
THEOREM TapesSound == TapeSpec => []TapesAddUp
<1>1. TapeInit => TapeFair
  <2> SUFFICES ASSUME TapeInit PROVE TapeFair
    OBVIOUS
  <2>1. deals \in Seq(FillsOf(Nat)) /\ worth \in Seq(Nat) /\ Len(deals) = 0
    BY DEF TapeInit
  <2>2. NeverShort(deals)
    BY <2>1 DEF NeverShort
  <2>3. QED
    BY <2>1, <2>2 DEF TapeFair
<1>2. TapeFair /\ [TapeNext]_<<deals, worth>> => TapeFair'
  <2> SUFFICES ASSUME TapeFair, [TapeNext]_<<deals, worth>> PROVE TapeFair'
    OBVIOUS
  <2> USE DEF TapeFair
  <2>1. ASSUME NEW f \in Deals, AddFill(f) PROVE TapeFair'
    <3> DEFINE n == Len(deals) + 1
               fill == [symbol |-> f.symbol, side |-> f.side, price |-> f.price,
                        lots |-> f.lots, ts |-> n, fees |-> f.fees]
    <3>1. Len(deals) \in Nat
      BY LenProperties
    <3>2. fill \in FillsOf(Nat)
      <4>1. /\ f \in [symbol : Nat, side : {"Buy", "Sell"}, price : Nat, lots : Nat \ {0}, fees : Nat]
            /\ Denom % f.lots = 0
        BY TapeAssumption
      <4>2. n \in Nat
        BY <3>1
      <4> HIDE DEF n
      <4>3. QED
        BY <4>1, <4>2 DEF FillsOf
    <3>3. fill.side = "Sell" =>
            fill.lots <= Len(LotsTraded(deals, fill.symbol, "Buy")) - Len(LotsTraded(deals, fill.symbol, "Sell"))
      BY <2>1 DEF AddFill, Held
    <3>4. deals' = Append(deals, fill) /\ UNCHANGED worth
      BY <2>1 DEF AddFill
    <3> HIDE DEF fill
    <3>5. Append(deals, fill) \in Seq(FillsOf(Nat)) /\ NeverShort(Append(deals, fill))
      BY <3>2, <3>3, StillFair
    <3>6. QED
      BY <3>4, <3>5
  <2>2. ASSUME NEW value \in Worths, AddPoint(value) PROVE TapeFair'
    <3>1. value \in Nat
      BY TapeAssumption
    <3>2. worth' \in Seq(Nat) /\ UNCHANGED deals
      BY <2>2, <3>1, AppendProperties DEF AddPoint
    <3>3. QED
      BY <3>2
  <2>3. CASE UNCHANGED <<deals, worth>>
    BY <2>3
  <2>4. QED
    BY <2>1, <2>2, <2>3 DEF TapeNext
<1>3. TapeFair => TapesAddUp
  <2> SUFFICES ASSUME TapeFair PROVE TapesAddUp
    OBVIOUS
  <2>1. TradesAreFifo(deals)
    BY TradesMatchFifo DEF TapeFair
  <2>2. DrawdownIsWorst(worth)
    BY DrawdownWorst DEF TapeFair
  <2>3. QED
    BY <2>1, <2>2 DEF TapesAddUp
<1>4. QED
  BY <1>1, <1>2, <1>3, PTL DEF TapeSpec

=============================================================================
