---------------------------- MODULE PriceSeries ----------------------------
(***************************************************************************)
(* Prices across splits and dividends: raw bars are stored, query_bars     *)
(* adjusts them with the factors of a symbol (repo.rs, adjust.rs of        *)
(* tg-persistence), and cleaning.rs of tg-market-data looks for missing    *)
(* days and for gaps that adjustment explains.                             *)
(*                                                                         *)
(* A day of a history is [value, factor, traded]: what a holder's share    *)
(* of the first day is worth, how many of today's shares it has become,    *)
(* and whether the symbol traded.  A bar opens at what the last close was  *)
(* worth.                                                                  *)
(***************************************************************************)
EXTENDS Numbers, Listings, Decimals

CONSTANTS
  HistoryDays,    \* bound: days of a history
  DayKinds        \* what a day may be

(* Prices and factors of a symbol that is listed are positive. *)
ASSUME HistoryAssumption ==
  /\ HistoryDays \in Nat
  /\ DayKinds \subseteq [value : Nat \ {0}, factor : Nat \ {0}, traded : BOOLEAN]

VARIABLE daily    \* the days of a symbol, across splits

TradedDays(history) == {d \in DOMAIN history : history[d].traded}

ValueBefore(history, d) ==
  LET earlier == {c \in TradedDays(history) : c < d}
      latest  == CHOOSE c \in earlier : \A b \in earlier : b <= c
  IN  history[IF earlier = {} THEN d ELSE latest].value

(* The raw bar of a day, as it is stored. *)
RawBar(history, d) ==
  [day |-> d, open |-> Ratio(ValueBefore(history, d), history[d].factor),
   close |-> Ratio(history[d].value, history[d].factor), volume |-> 3]

(* query_bars of the Parquet store: without the day the range ends on *)
RawBars(history, first, end) ==
  Filtered([d \in DOMAIN history |-> RawBar(history, d)],
           {d \in TradedDays(history) : first <= d /\ d < end})

(* adjustment_factors: a row for the first day and one for every change *)
ExDates(history) ==
  {d \in DOMAIN history : d = 1 \/ history[d].factor # history[d - 1].factor}

FactorRows(history) ==
  Filtered([d \in DOMAIN history |-> [exDate |-> d, factor |-> history[d].factor]],
           ExDates(history))

RowsUntil(rows, d) == Filtered(rows, {i \in DOMAIN rows : rows[i].exDate <= d})

(* query_adjustment_factors_until: with the day the range ends on *)
FactorsUntil(history, end) == RowsUntil(FactorRows(history), end)

-----------------------------------------------------------------------------
LastFactor(rows) == IF rows = <<>> THEN {} ELSE {rows[Len(rows)].factor}

(* Mutant of FactorForBar: a factor holds from the day after its ex-date. *)
FactorForBarLate(bar, rows) == LastFactor(RowsUntil(rows, bar.day - 1))

(* factor_for_bar: at most one *)
FactorForBar(bar, rows) == LastFactor(RowsUntil(rows, bar.day))

(* round of a decimal *)
RoundHalfEven(x) == RoundDp(x[1], x[2])

(* scale_bar *)
ScaleBar(bar, ratio) ==
  [day |-> bar.day, open |-> Times(bar.open, ratio), close |-> Times(bar.close, ratio),
   volume |-> RoundHalfEven(Over(Whole(bar.volume), ratio))]

(* adjust_bars; the factors of a symbol are positive *)
AdjustBars(bars, rows, adjustment) ==
  LET anchor == rows[IF adjustment = "PreAdjust" THEN Len(rows) ELSE 1].factor
  IN  IF adjustment = "None" \/ bars = <<>> \/ rows = <<>> THEN bars
      ELSE [i \in DOMAIN bars |->
              LET found == FactorForBar(bars[i], rows)
              IN  IF found = {} THEN bars[i]
                  ELSE ScaleBar(bars[i], Ratio(CHOOSE f \in found : TRUE, anchor))]

(* query_bars *)
QueryBars(history, first, end, adjustment) ==
  AdjustBars(RawBars(history, first, end), FactorsUntil(history, end), adjustment)

(* missing_trading_days; every day of a history is a trading day *)
MissingTradingDays(history, bars, first, last) ==
  {d \in DOMAIN history : d \in first..last /\ \A i \in DOMAIN bars : bars[i].day # d}

(* The size of a raw gap of a bar to the previous one. *)
Gap(bars, i) ==
  Over(Distance(bars[i].open, bars[i - 1].close), bars[i - 1].close)

(* flag_adjustment_gaps *)
FlagAdjustmentGaps(bars, rows, percent) ==
  {bars[i].day : i \in {k \in DOMAIN bars \ {1} :
     /\ Below(Zero, bars[k - 1].close)
     /\ Below(Ratio(percent, 100), Gap(bars, k))
     /\ \E r \in DOMAIN rows : rows[r].exDate = bars[k].day}}

-----------------------------------------------------------------------------
(***************************************************************************)
(* Whatever range is asked for, each adjusted bar opens where the previous *)
(* one closed, across every ex-date and every day without trading; the     *)
(* turnover of a bar is kept up to half a share; and what was adjusted     *)
(* backward from the first day is the same in every range that has the     *)
(* bar (adjust_bars with the factors query_adjustment_factors_until has).  *)
(* A raw gap that is not flagged has its ex-date on one of the days        *)
(* missing_trading_days lists (flag_adjustment_gaps).                      *)
(***************************************************************************)
NoGapLeft(history, percent) ==
  \A first \in DOMAIN history, end \in 2..(Len(history) + 1) :
    LET raw     == RawBars(history, first, end)
        rows    == FactorsUntil(history, end)
        post    == QueryBars(history, first, end, "PostAdjust")
        all     == QueryBars(history, 1, Len(history) + 1, "PostAdjust")
        missing == MissingTradingDays(history, raw, first, end - 1)
    IN  /\ \A adjustment \in {"PreAdjust", "PostAdjust"} :
             LET bars == QueryBars(history, first, end, adjustment)
             IN  \A i \in DOMAIN bars :
                   /\ i > 1 => bars[i].open = bars[i - 1].close
                   /\ LET now == Times(bars[i].close, Whole(bars[i].volume))
                          was == Times(raw[i].close, Whole(raw[i].volume))
                      IN  ~Below(Over(bars[i].close, Whole(2)), Distance(now, was))
        /\ \A i \in DOMAIN post : \E j \in DOMAIN all : post[i] = all[j]
        /\ \A i \in DOMAIN raw \ {1} :
             \/ ~Below(Ratio(percent, 100), Gap(raw, i))
             \/ raw[i].day \in FlagAdjustmentGaps(raw, rows, percent)
             \/ \E r \in DOMAIN rows :
                  rows[r].exDate \in missing \cap (raw[i - 1].day + 1)..(raw[i].day - 1)

-----------------------------------------------------------------------------
HistoryInit == daily = <<>>

AddDay(day) ==
  /\ Len(daily) < HistoryDays
  /\ daily' = Append(daily, day)

HistoryNext == \E day \in DayKinds : AddDay(day)

HistorySpec == HistoryInit /\ [][HistoryNext]_daily

(* Every query of every history, with gaps of more than a fifth. *)
SplitsLeaveNoGap == NoGapLeft(daily, 20)

=============================================================================
