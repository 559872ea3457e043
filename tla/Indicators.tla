----------------------------- MODULE Indicators -----------------------------
(***************************************************************************)
(* The technical indicators, which the repository has twice: in            *)
(* cpp/tg-indicators, whose series have a value for every bar, NaN while   *)
(* the indicator warms up, and in quantization-mcp, which pushes values    *)
(* with the timestamps they belong to.  The factor engine has an RSI and   *)
(* an OBV of its own.                                                      *)
(*                                                                         *)
(* A bar is [high, low, close, volume]; its place in the sequence is its   *)
(* timestamp.  A square root is left out: bands are given by the variance. *)
(***************************************************************************)
EXTENDS Numbers, SequencesExt, FiniteSetsExt

LOCAL Closes(bars) == [i \in DOMAIN bars |-> Whole(bars[i].close)]

WindowSum(v, first, last) ==
  FoldLeft(LAMBDA sum, x : Plus(sum, x), Zero, SubSeq(v, first, last))

Mean(v, first, last) == Over(WindowSum(v, first, last), Whole(last - first + 1))

Highest(bars, first, last) == Max({bars[i].high : i \in first..last})
Lowest(bars, first, last)  == Min({bars[i].low : i \in first..last})

(* What throws or returns InsufficientData. *)
Refused == <<>>

(* A series that starts at a bar with a seed. *)
Aligned(n, first, seed, Step(_, _)) ==
  LET out[i \in 1..n] ==
        IF i < first THEN NaN ELSE IF i = first THEN seed ELSE Step(out[i - 1], i)
  IN  out

(* The same as values that are pushed with their timestamps. *)
Pushed(n, first, seed, Step(_, _)) ==
  FoldLeft(LAMBDA out, k : Append(out, <<first + k, Step(Last(out)[2], first + k)>>),
           <<<<first, seed>>>>, [k \in 1..(n - first) |-> k])

PushedEach(n, first, Value(_)) ==
  [k \in 1..(n - first + 1) |-> <<first + k - 1, Value(first + k - 1)>>]

-----------------------------------------------------------------------------
(* Mutant of Sma: the sum keeps what has left the window. *)
SmaForever(v, p) ==
  IF Len(v) < p THEN Refused
  ELSE [i \in DOMAIN v |-> IF i < p THEN NaN ELSE Over(WindowSum(v, 1, i), Whole(p))]

(* compute_sma: a running sum *)
Sma(v, p) ==
  LET Turn(acc, i) ==
        LET sum == Minus(Plus(acc.sum, v[i]), IF i > p THEN v[i - p] ELSE Zero)
        IN  [sum |-> sum,
             out |-> Append(acc.out, IF i >= p THEN Over(sum, Whole(p)) ELSE NaN)]
  IN  IF Len(v) < p THEN Refused
      ELSE FoldLeft(Turn, [sum |-> Zero, out |-> <<>>], [i \in DOMAIN v |-> i]).out

McpSma(v, p) ==
  IF Len(v) < p THEN Refused
  ELSE PushedEach(Len(v), p, LAMBDA i : Mean(v, i - p + 1, i))

Alpha(p) == Ratio(2, p + 1)

(* compute_ema, with the default smoothing *)
Ema(v, p) ==
  IF Len(v) < p THEN Refused
  ELSE Aligned(Len(v), p, Mean(v, 1, p),
         LAMBDA ema, i : Plus(Times(Alpha(p), v[i]), Times(Minus(Whole(1), Alpha(p)), ema)))

McpEma(v, p) ==
  IF Len(v) < p THEN Refused
  ELSE Pushed(Len(v), p, Mean(v, 1, p),
         LAMBDA ema, i : Plus(Times(Minus(v[i], ema), Alpha(p)), ema))

(* MacdIndicator: dif, dea and their histogram *)
LOCAL Dif(v, fast, slow) == [i \in DOMAIN v |-> Minus(Ema(v, fast)[i], Ema(v, slow)[i])]

LOCAL Dea(dif, start, slow, signal) ==
  Aligned(Len(dif), start, Mean(dif, slow, start),
    LAMBDA d, i : Plus(Times(Alpha(signal), dif[i]), Times(Minus(Whole(1), Alpha(signal)), d)))

LOCAL MacdOf(dif, dea) ==
  [i \in DOMAIN dif |->
     [dif |-> dif[i], dea |-> dea[i], hist |-> Times(Whole(2), Minus(dif[i], dea[i]))]]

LOCAL MacdFrom(dif, start, slow, signal) == MacdOf(dif, Dea(dif, start, slow, signal))

Macd(v, fast, slow, signal) ==
  IF Len(v) < slow + signal - 1 THEN Refused
  ELSE MacdFrom(Dif(v, fast, slow), slow + signal - 1, slow, signal)

(* MACD::calculate_full: the fast values are shifted to meet the slow ones, *)
(* and the front of line and timestamps is cut off                          *)
LOCAL Line(f, s, shift) ==
  [k \in 1..(Len(f) - shift) |-> <<f[k + shift][1], Minus(f[k + shift][2], s[k][2])>>]

LOCAL SignalLine(line, signal) ==
  Pushed(Len(line), signal, Mean([k \in DOMAIN line |-> line[k][2]], 1, signal),
    LAMBDA d, k : Plus(Times(Minus(line[k][2], d), Alpha(signal)), d))

LOCAL McpMacdOf(line, dea, signal) ==
  [k \in DOMAIN dea |->
     LET at == line[k + signal - 1]
     IN  <<at[1], [dif |-> at[2], dea |-> dea[k][2], hist |-> Minus(at[2], dea[k][2])]>>]

LOCAL McpMacdFrom(line, signal) == McpMacdOf(line, SignalLine(line, signal), signal)

McpMacd(v, fast, slow, signal) ==
  IF Len(v) < slow + signal THEN Refused
  ELSE McpMacdFrom(Line(McpEma(v, fast), McpEma(v, slow), slow - fast), signal)

-----------------------------------------------------------------------------
LOCAL Rise(v, i) == IF Below(v[i - 1], v[i]) THEN Minus(v[i], v[i - 1]) ELSE Zero
LOCAL Drop(v, i) == IF Below(v[i], v[i - 1]) THEN Minus(v[i - 1], v[i]) ELSE Zero

(* Wilder's averages of rises and falls, from the bar after p changes *)
Averages(v, p) ==
  LET Seed(Change(_, _)) == Mean([i \in 1..p |-> Change(v, i + 1)], 1, p)
      Next(avg, x) == Over(Plus(Times(avg, Whole(p - 1)), x), Whole(p))
  IN  Aligned(Len(v), p + 1, [rise |-> Seed(Rise), fall |-> Seed(Drop)],
        LAMBDA avg, i : [rise |-> Next(avg.rise, Rise(v, i)), fall |-> Next(avg.fall, Drop(v, i))])

LOCAL OfStrength(rs) == Minus(Whole(100), Over(Whole(100), Plus(Whole(1), rs)))

(* to_rsi of RsiIndicator *)
ToRsi(avg) == IF avg.fall = Zero THEN Whole(100) ELSE OfStrength(Over(avg.rise, avg.fall))

(* RSI::calculate: without falls the relative strength is 100 *)
McpToRsi(avg) ==
  OfStrength(IF avg.fall = Zero THEN Whole(100) ELSE Over(avg.rise, avg.fall))

(* rsi_from_average of the factor engine *)
RsiFromAverage(avg) ==
  IF avg.fall # Zero THEN OfStrength(Over(avg.rise, avg.fall))
  ELSE IF avg.rise = Zero THEN Whole(50) ELSE Whole(100)

LOCAL Mapped(avg, Value(_)) == [i \in DOMAIN avg |-> IF avg[i] = NaN THEN NaN ELSE Value(avg[i])]

Rsi(v, p) == IF Len(v) <= p THEN Refused ELSE Mapped(Averages(v, p), ToRsi)

McpRsi(v, p) ==
  IF Len(v) <= p THEN Refused
  ELSE PushedEach(Len(v), p + 1, LAMBDA i : McpToRsi(Averages(v, p)[i]))

(* RsiFactor: 50 - RSI, NaN of a short history *)
RsiFactor(v, p) ==
  IF Len(v) <= p THEN [i \in DOMAIN v |-> NaN]
  ELSE Mapped(Averages(v, p), LAMBDA avg : Minus(Whole(50), RsiFromAverage(avg)))

-----------------------------------------------------------------------------
LOCAL LargestOf(S) == CHOOSE x \in S : \A y \in S : ~Below(x, y)

(* true_ranges of the service: the first bar has no previous close *)
TrueRanges(bars) ==
  [i \in DOMAIN bars |->
     LET b == bars[i]
     IN  IF i = 1 THEN Whole(b.high - b.low)
         ELSE LET close == Whole(bars[i - 1].close)
              IN  LargestOf({Whole(b.high - b.low), Distance(Whole(b.high), close),
                             Distance(Whole(b.low), close)})]

LOCAL Wilder(p, avg, x) == Over(Plus(Times(avg, Whole(p - 1)), x), Whole(p))

(* AtrIndicator: the seed has the first bar's range *)
Atr(bars, p) ==
  LET tr == TrueRanges(bars)
  IN  IF Len(bars) < p THEN Refused
      ELSE Aligned(Len(bars), p, Mean(tr, 1, p), LAMBDA atr, i : Wilder(p, atr, tr[i]))

(* ATR::calculate: it has only ranges with a previous close *)
McpAtr(bars, p) ==
  LET tr == TrueRanges(bars)
  IN  IF Len(bars) <= p THEN Refused
      ELSE Pushed(Len(bars), p + 1, Mean(tr, 2, p + 1), LAMBDA atr, i : Wilder(p, atr, tr[i]))

(* Directional movement, up and down *)
LOCAL UpMoves(bars) ==
  [i \in DOMAIN bars |->
     IF i = 1 THEN Zero
     ELSE LET up   == bars[i].high - bars[i - 1].high
              down == bars[i - 1].low - bars[i].low
          IN  IF up > down /\ up > 0 THEN Whole(up) ELSE Zero]

LOCAL DownMoves(bars) ==
  [i \in DOMAIN bars |->
     IF i = 1 THEN Zero
     ELSE LET up   == bars[i].high - bars[i - 1].high
              down == bars[i - 1].low - bars[i].low
          IN  IF down > up /\ down > 0 THEN Whole(down) ELSE Zero]

(* The smoothed sums of ranges and moves: sum - sum / p + x *)
Smoothed(v, p) ==
  Aligned(Len(v), p + 1, WindowSum(v, 2, p + 1),
    LAMBDA sum, i : Plus(Minus(sum, Over(sum, Whole(p))), v[i]))

(* DI and DX of a bar with their value when nothing has moved *)
LOCAL Dx(plus, minus) ==
  IF Plus(plus, minus) = Zero THEN Zero
  ELSE Over(Times(Whole(100), Distance(plus, minus)), Plus(plus, minus))

LOCAL WithDx(plus, minus) == [plus |-> plus, minus |-> minus, dx |-> Dx(plus, minus)]

LOCAL Percent(x, y) == Over(Times(Whole(100), x), y)

Directional(tr, up, down, still) ==
  IF tr = NaN THEN [plus |-> NaN, minus |-> NaN, dx |-> NaN]
  ELSE IF tr = Zero THEN [plus |-> still, minus |-> still, dx |-> still]
  ELSE WithDx(Percent(up, tr), Percent(down, tr))

LOCAL EachDirectional(tr, up, down, still) ==
  [i \in DOMAIN tr |-> Directional(tr[i], up[i], down[i], still)]

LOCAL DirectionalOf(bars, p, still) ==
  EachDirectional(Smoothed(TrueRanges(bars), p), Smoothed(UpMoves(bars), p),
                  Smoothed(DownMoves(bars), p), still)

LOCAL AdxSeed(di, p) == Mean([i \in DOMAIN di |-> di[i].dx], p + 1, 2 * p)

LOCAL AdxOf(di, adx) ==
  [i \in DOMAIN di |-> [adx |-> adx[i], plus |-> di[i].plus, minus |-> di[i].minus]]

LOCAL AdxFrom(di, p) ==
  AdxOf(di, Aligned(Len(di), 2 * p, AdxSeed(di, p), LAMBDA x, i : Wilder(p, x, di[i].dx)))

(* AdxIndicator: a DX of nothing that moved stays NaN *)
Adx(bars, p) ==
  IF Len(bars) < 2 * p THEN Refused ELSE AdxFrom(DirectionalOf(bars, p, NaN), p)

LOCAL McpAdxOf(di, adx) ==
  [k \in DOMAIN adx |->
     LET at == adx[k][1]
     IN  <<at, [adx |-> adx[k][2], plus |-> di[at].plus, minus |-> di[at].minus]>>]

LOCAL McpAdxFrom(di, p) ==
  McpAdxOf(di, Pushed(Len(di), 2 * p, AdxSeed(di, p), LAMBDA x, i : Wilder(p, x, di[i].dx)))

(* ADX::calculate_full *)
McpAdx(bars, p) ==
  IF Len(bars) < 2 * p THEN Refused ELSE McpAdxFrom(DirectionalOf(bars, p, Zero), p)

-----------------------------------------------------------------------------
LOCAL Typical(bars) == [i \in DOMAIN bars |-> Ratio(bars[i].high + bars[i].low + bars[i].close, 3)]

LOCAL CciAt(tp, p, i) ==
  LET mean == Mean(tp, i - p + 1, i)
      mad  == Mean([k \in DOMAIN tp |-> Distance(tp[k], mean)], i - p + 1, i)
  IN  IF mad = Zero THEN Zero ELSE Over(Minus(tp[i], mean), Times(Ratio(15, 1000), mad))

(* CciIndicator *)
Cci(bars, p) ==
  IF Len(bars) < p THEN Refused
  ELSE [i \in DOMAIN bars |-> IF i < p THEN NaN ELSE CciAt(Typical(bars), p, i)]

(* CCI::calculate: its own window of typical prices *)
McpCci(bars, p) ==
  IF Len(bars) < p THEN Refused
  ELSE PushedEach(Len(bars), p, LAMBDA i : CciAt(SubSeq(Typical(bars), i - p + 1, i), p, p))

LOCAL Variance(v, mean, first, last) ==
  Mean([k \in DOMAIN v |-> Times(Minus(v[k], mean), Minus(v[k], mean))], first, last)

(* BollingerBandsIndicator: middle and variance, about the running mean *)
Bollinger(v, p) ==
  IF Len(v) < p THEN Refused
  ELSE [i \in DOMAIN v |-> IF i < p THEN NaN
                           ELSE <<Sma(v, p)[i], Variance(v, Sma(v, p)[i], i - p + 1, i)>>]

McpBollinger(v, p) ==
  IF Len(v) < p THEN Refused
  ELSE PushedEach(Len(v), p, LAMBDA i :
         LET mean == Mean(v, i - p + 1, i) IN <<mean, Variance(v, mean, i - p + 1, i)>>)

(* Where the close is between two prices of the window, of 100 *)
LOCAL Share(bars, p, i, from, flat) ==
  LET h == Highest(bars, i - p + 1, i)
      l == Lowest(bars, i - p + 1, i)
  IN  IF h = l THEN flat
      ELSE Ratio(100 * (IF from = "high" THEN bars[i].close - h ELSE bars[i].close - l), h - l)

(* WilliamsRIndicator *)
WilliamsR(bars, p) ==
  IF Len(bars) < p THEN Refused
  ELSE [i \in DOMAIN bars |-> IF i < p THEN NaN ELSE Share(bars, p, i, "high", Zero)]

McpWilliamsR(bars, p) ==
  IF Len(bars) < p THEN Refused
  ELSE PushedEach(Len(bars), p, LAMBDA i : Share(bars, p, i, "high", Zero))

(* StochasticIndicator: K and D start from 50 and follow the RSV *)
Kdj(bars, kp, dp) ==
  LET Mix(old, new) == Plus(Times(Ratio(dp - 1, dp), old), Times(Ratio(1, dp), new))
      Turn(kd, i) == LET k == Mix(kd.k, Share(bars, kp, i, "low", Whole(50)))
                     IN  [k |-> k, d |-> Mix(kd.d, k)]
      fifty == [k |-> Whole(50), d |-> Whole(50)]
  IN  IF Len(bars) < kp THEN Refused
      ELSE Aligned(Len(bars), kp, Turn(fifty, kp), Turn)

(* StochasticOscillator::calculate_full: D is a mean of K *)
McpStochastic(bars, kp, dp) ==
  LET n == Len(bars)
      k == [i \in 1..n |-> IF i < kp THEN NaN ELSE Share(bars, kp, i, "low", Zero)]
  IN  IF n < kp + dp THEN Refused
      ELSE PushedEach(n, kp + dp - 1, LAMBDA i : [k |-> k[i], d |-> Mean(k, i - dp + 1, i)])

(* ObvIndicator *)
Obv(bars) ==
  IF bars = <<>> THEN Refused
  ELSE Aligned(Len(bars), 1, 0, LAMBDA obv, i :
         IF bars[i].close > bars[i - 1].close THEN obv + bars[i].volume
         ELSE IF bars[i].close < bars[i - 1].close THEN obv - bars[i].volume
         ELSE obv)

(* OBV::calculate *)
McpObv(bars) ==
  IF Len(bars) < 2 THEN Refused
  ELSE LET Signed(i) == CASE bars[i].close > bars[i - 1].close -> bars[i].volume
                          [] bars[i].close < bars[i - 1].close -> -bars[i].volume
                          [] OTHER -> 0
       IN  Pushed(Len(bars), 1, 0, LAMBDA obv, i : obv + Signed(i))

(* ObvMoneyFlow of the factor engine *)
ObvMoneyFlow(bars) ==
  LET Signed(i) == CASE bars[i].close > bars[i - 1].close -> bars[i].volume
                     [] bars[i].close < bars[i - 1].close -> -bars[i].volume
                     [] OTHER -> 0
  IN  [i \in DOMAIN bars |-> FoldLeft(LAMBDA n, k : n + Signed(k + 1), 0, [k \in 1..(i - 1) |-> k])]

-----------------------------------------------------------------------------
LOCAL Stamps(pushed) == {pushed[k][1] : k \in DOMAIN pushed}

(* Both series have the same values at the same timestamps. *)
LOCAL Same(aligned, pushed) ==
  pushed # Refused =>
    /\ {i \in DOMAIN aligned : aligned[i] # NaN} = Stamps(pushed)
    /\ \A k \in DOMAIN pushed : aligned[pushed[k][1]] = pushed[k][2]

LOCAL MacdsMeet(macd, mcp) ==
  mcp # Refused =>
    /\ {i \in DOMAIN macd : macd[i].dea # NaN} = Stamps(mcp)
    /\ \A k \in DOMAIN mcp :
         LET here == macd[mcp[k][1]]
         IN  /\ here.dif = mcp[k][2].dif /\ here.dea = mcp[k][2].dea
             /\ here.hist = Times(Whole(2), mcp[k][2].hist)

LOCAL SameMacd(v) == MacdsMeet(Macd(v, 1, 2, 2), McpMacd(v, 1, 2, 2))

(* Once a close has fallen all three are the same.  Before, the service     *)
(* says 100, the factor engine 50 if no close has risen either, and         *)
(* quantization-mcp takes a relative strength of 100 for an infinite one.   *)
LOCAL SameRsi(v, p) ==
  LET rsi == Rsi(v, p)
      mcp == McpRsi(v, p)
  IN  \A k \in DOMAIN mcp :
        LET i      == mcp[k][1]
            fell   == \E j \in 2..i : Below(v[j], v[j - 1])
            factor == Minus(Whole(50), RsiFactor(v, p)[i])
        IN  /\ Between(rsi[i], Zero, Whole(100))
            /\ IF fell THEN rsi[i] = mcp[k][2] /\ rsi[i] = factor
               ELSE rsi[i] = Whole(100) /\ factor \in {Whole(50), Whole(100)}
                    /\ mcp[k][2] = Minus(Whole(100), Ratio(100, 101))

(* Only the first range tells the two apart, less so with every bar. *)
LOCAL AtrsMeet(bars, p) ==
  LET atr == Atr(bars, p)
      mcp == McpAtr(bars, p)
      Gap(k) == Distance(atr[mcp[k][1]], mcp[k][2])
  IN  \A k \in DOMAIN mcp \ {1} : Gap(k) = Times(Ratio(p - 1, p), Gap(k - 1))

(* After a start in which nothing moves the service has no ADX at all, and  *)
(* quantization-mcp has a number.                                           *)
LOCAL AdxsMeet(adx, mcp, still) ==
  \A k \in DOMAIN mcp :
    LET here == adx[mcp[k][1]]
    IN  /\ Between(mcp[k][2].adx, Zero, Whole(100))
        /\ IF still THEN here.adx = NaN ELSE here = mcp[k][2]
        /\ here.plus # NaN => here.plus = mcp[k][2].plus /\ here.minus = mcp[k][2].minus

LOCAL SameAdx(bars, p) ==
  AdxsMeet(Adx(bars, p), McpAdx(bars, p), \A i \in 2..(p + 1) : TrueRanges(bars)[i] = Zero)

(* KDJ and the stochastic oscillator are two indicators; both stay within   *)
(* 0 and 100.                                                               *)
LOCAL OscillatorsBounded(bars, kp, dp) ==
  LET kdj == Kdj(bars, kp, dp)
      mcp == McpStochastic(bars, kp, dp)
      In(kd) == Between(kd.k, Zero, Whole(100)) /\ Between(kd.d, Zero, Whole(100))
  IN  /\ \A i \in DOMAIN kdj : kdj[i] # NaN => In(kdj[i])
      /\ \A k \in DOMAIN mcp : In(mcp[k][2]) /\ kdj[mcp[k][1]] # NaN

(***************************************************************************)
(* What the indicator service says of a series of bars and what            *)
(* quantization-mcp and the factor engine say of it is the same, at the    *)
(* same timestamps, up to the differences named above: they are written    *)
(* apart, with running sums here and windows there, and with series of     *)
(* two shapes, so that a shift or a seed of one of them goes unnoticed.    *)
(***************************************************************************)
SameIndicators(bars, p) ==
  LET v == Closes(bars)
  IN  /\ Same(Sma(v, p), McpSma(v, p)) /\ Same(Ema(v, p), McpEma(v, p))
      /\ Same(Bollinger(v, p), McpBollinger(v, p)) /\ Same(Cci(bars, p), McpCci(bars, p))
      /\ Same(WilliamsR(bars, p), McpWilliamsR(bars, p))
      /\ Same(Obv(bars), McpObv(bars))
      /\ \A i \in DOMAIN bars : Obv(bars)[i] = ObvMoneyFlow(bars)[i]
      /\ SameMacd(v) /\ SameRsi(v, p)
      /\ AtrsMeet(bars, p) /\ SameAdx(bars, p)
      /\ OscillatorsBounded(bars, p, p)

=============================================================================
