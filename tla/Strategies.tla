------------------------------ MODULE Strategies ------------------------------
(***************************************************************************)
(* The swing strategy of the signal engine (swing.rs) and the sources it   *)
(* asks (sources.rs): the indicator service, that refuses a history which  *)
(* is too short, or a source in memory, that a caller fills.               *)
(*                                                                         *)
(* A bar's place in the sequence is its timestamp.  cfg holds the periods  *)
(* of MACD and RSI, which the code writes out (12, 26, 9 and 14), the      *)
(* thresholds, the length of the history and the days of factor values     *)
(* that are asked for.                                                     *)
(***************************************************************************)
EXTENDS Indicators, Rules

NoSignal == "no signal"
Failed   == "error"

(* fetch_factor_values, of one symbol *)
FactorsFetched(values, symbol, from, to) ==
  SelectSeq(values, LAMBDA v : v.symbol = symbol /\ v.ts >= from /\ v.ts <= to)

(* max_by_key: of values with the same timestamp the last *)
LatestFactor(fetched) ==
  fetched[CHOOSE i \in DOMAIN fetched : \A j \in DOMAIN fetched :
            fetched[j].ts < fetched[i].ts \/ (fetched[j].ts = fetched[i].ts /\ j <= i)]

(* GrpcIndicatorSource *)
AskService(bars, cfg) ==
  LET closes == [i \in DOMAIN bars |-> Whole(bars[i].close)]
  IN  [macd |-> Macd(closes, cfg.fast, cfg.slow, cfg.signal),
       rsi  |-> Rsi(closes, cfg.rsi),
       fails |-> Refused \in {Macd(closes, cfg.fast, cfg.slow, cfg.signal),
                              Rsi(closes, cfg.rsi)}]

(* InMemoryIndicatorSource, kept up to date by its caller: no values where *)
(* there are none yet                                                      *)
AskMemory(bars, cfg) == [AskService(bars, cfg) EXCEPT !.fails = FALSE]

(* macd_cross of evaluate_bar *)
GoldenCross(macd) ==
  LET spread(i) == Minus(macd[i].dif, macd[i].dea)
      n == Len(macd)
  IN  IF Compare("Le", spread(n - 1), Zero) /\ Compare("Gt", spread(n), Zero)
      THEN Whole(1) ELSE Zero

SwingRule(cfg) ==
  AllOf(<<Leaf(IndicatorThreshold("MACD_GOLDEN_CROSS", "Gt", Ratio(1, 2), "MACD golden cross")),
          Leaf(IndicatorThreshold("RSI14", "Lt", cfg.threshold, "RSI(14)")),
          Leaf(FactorRankThreshold("momentum_20d", cfg.percent, cfg.universe, "momentum_20d"))>>)

(* evaluate_bar, at the timestamp of the bar, of what the sources answer *)
EvaluateBar(answer, fetched, cfg) ==
  IF answer.fails THEN Failed
  ELSE IF Len(answer.macd) < 2 \/ answer.rsi = <<>> \/ fetched = <<>> THEN NoSignal
  ELSE LET ctx == Context([MACD_GOLDEN_CROSS |-> GoldenCross(answer.macd),
                           RSI14 |-> Last(answer.rsi)],
                          [momentum_20d |-> LatestFactor(fetched).rank], <<>>)
           result == Judged(SwingRule(cfg), ctx)
       IN  IF result.fired THEN "Long" ELSE NoSignal

(* on_bar: the history with one bar more *)
Pushing(bars, bar, cfg) ==
  LET longer == Append(bars, bar)
  IN  IF Len(longer) > cfg.history THEN Tail(longer) ELSE longer

(* The verdicts of on_bar on the bars of a symbol: an error ends the run. *)
SwingRun(series, values, Ask(_, _), cfg) ==
  LET Turn(run, ts) ==
        IF Failed \in Range(run.verdicts) THEN run
        ELSE LET bars == Pushing(run.bars, series[ts], cfg)
             IN  [bars |-> bars,
                  verdicts |-> Append(run.verdicts,
                    EvaluateBar(Ask(bars, cfg),
                                FactorsFetched(values, "A", ts - cfg.days, ts), cfg))]
  IN  FoldLeft(Turn, [bars |-> <<>>, verdicts |-> <<>>], [i \in DOMAIN series |-> i]).verdicts

-----------------------------------------------------------------------------
(* Ranks that are told bar by bar, and those of another symbol. *)
LOCAL RankAt(series, i) == series[i].volume % 3

LOCAL Told(series) ==
  FlattenSeq([i \in DOMAIN series |->
    <<[symbol |-> "A", ts |-> i, rank |-> RankAt(series, i)],
      [symbol |-> "B", ts |-> i, rank |-> 0]>>])

(***************************************************************************)
(* With the indicator service as its source the strategy does not live to  *)
(* see a second bar, as the service refuses a first bar's history and      *)
(* evaluate_bar passes the error on.  With a source that has no values     *)
(* for a short history, and as long as the history is not cut, a signal is *)
(* given just where the spread of the MACD of the whole series, known only *)
(* later, crosses zero, with an RSI and a rank that are low enough: a      *)
(* signal neither knows the future nor is repainted by it, and no two of   *)
(* them follow one another (evaluate_bar, on_bar, fetch_factor_values).    *)
(***************************************************************************)
SwingSound(series, cfg) ==
  LET n       == Len(series)
      whole   == AskMemory(series, cfg)
      service == SwingRun(series, Told(series), AskService, cfg)
      memory  == SwingRun(series, Told(series), AskMemory, [cfg EXCEPT !.history = n])
      Spread(i) == Minus(whole.macd[i].dif, whole.macd[i].dea)
      Crosses(i) == /\ i > 1 /\ whole.macd # Refused /\ whole.rsi # Refused
                    /\ Spread(i - 1) # NaN /\ ~Below(Zero, Spread(i - 1))
                    /\ Below(Zero, Spread(i)) /\ Below(whole.rsi[i], cfg.threshold)
                    /\ 100 * RankAt(series, i) <= cfg.percent * cfg.universe
  IN  /\ n > 0 => service = <<Failed>>
      /\ memory = [i \in 1..n |-> IF Crosses(i) THEN "Long" ELSE NoSignal]
      /\ \A i \in 1..(n - 1) : memory[i] = "Long" => memory[i + 1] = NoSignal

=============================================================================
