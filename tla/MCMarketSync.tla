---------------------------- MODULE MCMarketSync ----------------------------
(***************************************************************************)
(* MarketSync for TLC: two symbols, one in the configured watchlist, one   *)
(* period and two days, on the first of which s2 has no bar.  A partition *)
(* has both days of a year, so that the bar of a day that was still open   *)
(* meets the closed one.                                                   *)
(***************************************************************************)
EXTENDS MarketSync

CONSTANTS s1, s2

SymbolsDef    == <<s1, s2>>
PeriodsDef    == <<"daily">>
ConfiguredDef == <<s1>>
RequestsDef   == {<<s1, s2>>}
SuspendedDef  == {<<s2, 1>>}
OneYear(d)    == 1

=============================================================================
