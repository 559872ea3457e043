-------------------------- MODULE MCMockExecution --------------------------
(***************************************************************************)
(* Instances of MockExecution for TLC: what clients ask for and what the   *)
(* market does in each run.  ClientIds is a symmetric set in the runs      *)
(* without liveness properties.                                            *)
(***************************************************************************)
EXTENDS MockExecution, TLC

CONSTANTS A, B   \* two symbols

IdSymmetry == Permutations(ClientIds)

Ask(side, sym, lotCount, price, t0) ==
  [sym |-> sym, side |-> side, price |-> price, qty |-> lotCount * LotSize,
   t0 |-> t0, hard |-> FALSE]

Quote(sym, date, price, buyable, sellable, exit) ==
  [sym |-> sym, date |-> date, ask |-> price, bid |-> price,
   buyable |-> buyable, sellable |-> sellable, exit |-> exit]

-----------------------------------------------------------------------------
(* exec_shares: two symbols whose dates advance on their own, odd fills,    *)
(* T+0 and ordinary lots of the same day.                                   *)
SharesRequests ==
  {Ask(side, sym, 1, Market, FALSE) : side \in Sides, sym \in {A, B}}
    \cup {Ask("Buy", A, 1, Market, TRUE)}

SharesFeed ==
  {Quote(sym, date, 1, n, n, FALSE) : sym \in {A, B}, date \in Days, n \in 1..2}

-----------------------------------------------------------------------------
(* exec_cash: one day, limit and market buys, quotes below the limit, fees. *)
CashRequests ==
  {Ask("Buy", A, 1, p, FALSE) : p \in {Market, 4}} \cup {Ask("Sell", A, 1, 3, FALSE)}

CashFeed ==
  {[Quote(A, 0, 3, n, n, FALSE) EXCEPT !.ask = a] : a \in {0, 3, 4}, n \in 1..2}

(* For FrozenIsUnfilledNotional: buys at a limit that is always the ask, fills *)
(* of one share.                                                               *)
EvenRequests == {Ask("Buy", A, 1, 4, FALSE)}

EvenFeed == {Quote(A, 0, 4, 1, 1, FALSE)}

-----------------------------------------------------------------------------
(* exec_exit: the stop price is crossed again and again, saving may fail. *)
ExitRequests == {Ask(side, A, 1, Market, FALSE) : side \in Sides}

ExitFeed ==
  {Quote(A, date, 1, n, n, exit) : date \in Days, n \in 1..2, exit \in BOOLEAN}

=============================================================================
