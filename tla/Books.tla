------------------------------- MODULE Books -------------------------------
(***************************************************************************)
(* Three books the system keeps of the same fills: the lots of the mock    *)
(* order engine's account (account.rs), the engine's in-memory portfolio   *)
(* with one average cost for a symbol (portfolio.rs), and the closed       *)
(* trades of a backtest (Performance).  The T0 strategy reads a position   *)
(* of one of the first two.                                                *)
(*                                                                         *)
(* Each fill is on a day of its own.  An average cost is a ratio.          *)
(***************************************************************************)
EXTENDS Performance, Numbers, SequencesExt, FiniteSetsExt

LOCAL Traded(seq, symbol) == {i \in DOMAIN seq : seq[i].symbol = symbol}

LOCAL SymbolsOf(seq) == {seq[i].symbol : i \in DOMAIN seq}

LOCAL Notional(fill) == fill.price * fill.lots

(* consume_lots_fifo of an account, and its cash, in apply_fill *)
LOCAL Consume(lots, fill) ==
  FoldLeft(LAMBDA acc, lot :
             LET n == IF lot.symbol = fill.symbol THEN Min({acc.left, lot.lots}) ELSE 0
             IN  [left |-> acc.left - n,
                  lots |-> IF n = lot.lots THEN acc.lots
                           ELSE Append(acc.lots, [lot EXCEPT !.lots = @ - n])],
           [left |-> fill.lots, lots |-> <<>>], lots).lots

AccountTakes(book, fill) ==
  LET last == (fill.symbol :> fill.price) @@ book.last
  IN  IF fill.side = "Buy"
      THEN [cash |-> book.cash - Notional(fill) - fill.fees, last |-> last,
            lots |-> Append(book.lots,
                       [symbol |-> fill.symbol, day |-> fill.ts, lots |-> fill.lots,
                        avg |-> Ratio(Notional(fill) + fill.fees, fill.lots)])]
      ELSE [cash |-> book.cash + Notional(fill) - fill.fees, last |-> last,
            lots |-> Consume(book.lots, fill)]

AccountBook(fills, cash) ==
  FoldLeft(AccountTakes, [cash |-> cash, last |-> <<>>, lots |-> <<>>], fills)

LOCAL Worth(value, n) == Times(value, Whole(n))

LOCAL RatioSum(S, Value(_)) == FoldLeft(LAMBDA n, x : Plus(n, Value(x)), Zero, SetToSeq(S))

(* aggregate: the position of a symbol on a day *)
AccountPosition(book, symbol, today) ==
  LET own   == Traded(book.lots, symbol)
      total == SumOf([i \in DOMAIN book.lots |-> IF i \in own THEN book.lots[i].lots ELSE 0])
      lock  == SumOf([i \in DOMAIN book.lots |->
                        IF i \in own /\ book.lots[i].day = today THEN book.lots[i].lots ELSE 0])
      basis == RatioSum(own, LAMBDA i : Worth(book.lots[i].avg, book.lots[i].lots))
  IN  [total |-> total, locked |-> lock, available |-> total - lock,
       avg |-> Over(basis, Whole(total)), last |-> book.last[symbol]]

AccountPositions(book, today) ==
  [s \in SymbolsOf(book.lots) |-> AccountPosition(book, s, today)]

(* apply_fill of InMemoryPortfolio.  Nothing of it raises what is available *)
(* or unlocks what is locked.                                               *)
PortfolioTakes(book, fill) ==
  LET s   == fill.symbol
      old == IF s \in DOMAIN book.positions THEN book.positions[s]
             ELSE [total |-> 0, locked |-> 0, available |-> 0, avg |-> Zero, last |-> fill.price]
      total == old.total + fill.lots
      basis == Plus(Worth(old.avg, old.total), Whole(Notional(fill) + fill.fees))
      left  == old.total - fill.lots
      sold  == [old EXCEPT !.total = left, !.locked = Min({@, left}), !.last = fill.price,
                           !.available = IF @ > fill.lots THEN @ - fill.lots ELSE 0]
  IN  IF fill.side = "Buy"
      THEN [cash |-> book.cash - Notional(fill) - fill.fees,
            positions |-> (s :> [old EXCEPT !.total = total, !.locked = @ + fill.lots,
                                            !.avg = Over(basis, Whole(total)),
                                            !.last = fill.price]) @@ book.positions]
      ELSE [cash |-> book.cash + Notional(fill) - fill.fees,
            positions |-> IF left > 0 THEN (s :> sold) @@ book.positions
                          ELSE [t \in DOMAIN book.positions \ {s} |-> book.positions[t]]]

PortfolioBook(fills, cash) ==
  FoldLeft(PortfolioTakes, [cash |-> cash, positions |-> <<>>], fills)

(* account and the end of apply_fill: the total value of cash and positions *)
TotalValue(cash, positions) ==
  cash + FoldLeft(LAMBDA n, s : n + positions[s].last * positions[s].total, 0,
                  SetToSeq(DOMAIN positions))

(* unrealized_pnl *)
Unrealized(position) ==
  Times(Minus(Whole(position.last), position.avg), Whole(position.total))

(* maybe_emit of the T0 strategy: at most one signal, for a position that   *)
(* has available shares, when the price is percent off its cost             *)
T0Signals(position, price, percent, lot) ==
  LET Level(sign) == Times(position.avg, Ratio(100 + sign * percent, 100))
      Emit(direction) == {[direction |-> direction, lots |-> Min({position.available, lot})]}
  IN  IF position.available <= 0 \/ ~Below(Zero, position.avg) THEN {}
      ELSE IF ~Below(Whole(price), Level(1)) THEN Emit("CloseLong")
      ELSE IF ~Below(Level(-1), Whole(price)) THEN Emit("Long")
      ELSE {}

-----------------------------------------------------------------------------
(***************************************************************************)
(* Account and portfolio have the same cash, shares and total value after  *)
(* every fill, whatever their costs; the account's cost is that of the     *)
(* lots the closed trades leave open, so that what was earned is what the  *)
(* trades and the open positions say (apply_fill twice, aggregate,         *)
(* closed_trades_from_fills).  T0 sells no share the account has locked,   *)
(* and stays silent on the portfolio, which has none available.            *)
(***************************************************************************)
BooksAgree(fills, cash) ==
  LET account   == AccountBook(fills, cash)
      portfolio == PortfolioBook(fills, cash)
      closed    == Closed(fills)
      held      == AccountPositions(account, Len(fills))
      total     == TotalValue(account.cash, held)
      OpenCost(s) == SumOf([i \in DOMAIN closed.lots |->
                              IF closed.lots[i].symbol = s THEN closed.lots[i].cost ELSE 0])
      Pnl == SumOf([i \in DOMAIN closed.trades |-> closed.trades[i].pnl])
  IN  /\ account.cash = portfolio.cash
      /\ DOMAIN held = DOMAIN portfolio.positions
      /\ \A s \in DOMAIN held :
           /\ held[s].total = portfolio.positions[s].total
           /\ Worth(held[s].avg, Denom * held[s].total) = Whole(OpenCost(s))
      /\ total = TotalValue(portfolio.cash, portfolio.positions)
      /\ Whole(Denom * (total - cash))
           = Plus(Whole(Pnl), Worth(RatioSum(DOMAIN held, LAMBDA s : Unrealized(held[s])), Denom))
      /\ \A s \in DOMAIN held, price \in 0..4, day \in {0, 1} :
           LET at == AccountPosition(account, s, Len(fills) + day)
           IN  /\ \A signal \in T0Signals(at, price, 10, 2) :
                    /\ signal.lots \in 1..(at.total - at.locked)
                    /\ (signal.direction = "CloseLong") = Below(at.avg, Whole(price))
               /\ T0Signals(portfolio.positions[s], price, 10, 2) = {}

=============================================================================
