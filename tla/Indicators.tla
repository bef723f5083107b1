----------------------------- MODULE Indicators -----------------------------
(***************************************************************************)
(* The technical indicators of analysis/indicators.py: columns computed    *)
(* from a series of candles, the latest value of each, and the sliding     *)
(* window of RollingIndicatorEngine.                                       *)
(*                                                                         *)
(* A column is a sequence with Missing where pandas has NaN: before enough *)
(* rows are seen, and where a divisor is 0.  Prices are integers, ratios   *)
(* and percentages in hundredths; quotients are rounded down.              *)
(***************************************************************************)
EXTENDS Integers, Sequences, SequencesExt, FiniteSets, FiniteSetsExt

CONSTANTS
  Missing,
  Candles,      \* the candles a feed may bring: high, low, close, volume
  Periods,      \* INDICATOR_CONFIG: the period of each indicator
  MaxCandles    \* the candles the window keeps

VARIABLES
  window,       \* the candles, oldest first
  dropped       \* whether the last candle pushed the oldest out

vars == <<window, dropped>>

Abs(x) == IF x < 0 THEN -x ELSE x

-----------------------------------------------------------------------------
(* What pandas does.                                                       *)

\* op(x), with x worked out only once by TLC.
With(x, op(_)) == CHOOSE y \in {op(z) : z \in {x}} : TRUE

\* A series over the rows of the window; SubSeq makes it a tuple for TLC.
Rows == DOMAIN window
Series(op(_)) == SubSeq([i \in Rows |-> op(i)], 1, Len(window))

Column(op(_)) == Series(LAMBDA i : op(window[i]))

Combine(a, b, op(_, _)) ==
  With(<<a, b>>, LAMBDA ab :
    Series(LAMBDA i : IF ab[1][i] = Missing \/ ab[2][i] = Missing THEN Missing
                      ELSE op(ab[1][i], ab[2][i])))

Map(series, op(_)) == Combine(series, series, LAMBDA x, y : op(x))

Shift(series, n) ==
  Series(LAMBDA i : IF i <= n THEN Missing ELSE series[i - n])

Minus(a, b) == Combine(a, b, LAMBDA x, y : x - y)
Diff(series) == Minus(series, Shift(series, 1))

\* _safe_divide, times a scale
Ratio(a, b, scale) ==
  Combine(a, b, LAMBDA x, y : IF y = 0 THEN Missing ELSE (x * scale) \div y)

\* Mutant: a period reaches one row ahead.
LastRow_Ahead(i, n) == Min({i + 1, n})

\* The last row of the period that row i of n is about.
LastRow(i, n) == i

Rolling(series, period, op(_)) ==
  With(series, LAMBDA s : Series(LAMBDA i :
    LET rows == (i - period + 1)..LastRow(i, Len(s))
    IN  IF i < period \/ \E j \in rows : s[j] = Missing
        THEN Missing ELSE op(SubSeq(s, Min(rows), Max(rows)))))

Total(seq)  == FoldSeq(LAMBDA x, sum : x + sum, 0, seq)
Mean(seq)   == Total(seq) \div Len(seq)
Lowest(seq)  == Min(Range(seq))
Highest(seq) == Max(Range(seq))

\* ewm with adjust=False and alpha = num/den: a gap does not change the mean
\* but makes the next value weigh more; weights are in thousandths.
Ewm(series, num, den, period) ==
  LET step(state, x) ==
        LET old  == (state.weight * (den - num)) \div den
            new  == (1000 * num) \div den
            seen == state.seen + (IF x = Missing THEN 0 ELSE 1)
            mean == IF x = Missing THEN state.mean
                    ELSE IF state.mean = Missing THEN x
                    ELSE (old * state.mean + new * x) \div (old + new)
        IN  [mean |-> mean, seen |-> seen,
             weight |-> IF x = Missing THEN old ELSE 1000,
             out |-> Append(state.out,
                            IF seen >= period THEN mean ELSE Missing)]
      start == [mean |-> Missing, weight |-> 1000, seen |-> 0, out |-> <<>>]
  IN  With(series, LAMBDA s : FoldLeft(step, start, s).out)

Ema(series, span)   == Ewm(series, 2, span + 1, span)
Wilder(series, period) == Ewm(series, 1, period, period)

CumSum(series) ==
  With(series, LAMBDA s : Series(LAMBDA i : Total(SubSeq(s, 1, i))))

\* _last_valid
LastValid(series) ==
  LET defined == {i \in DOMAIN series : series[i] # Missing}
  IN  IF defined = {} THEN Missing ELSE series[Max(defined)]

-----------------------------------------------------------------------------
(* The columns.                                                            *)

Close  == Column(LAMBDA k : k.close)
High   == Column(LAMBDA k : k.high)
Low    == Column(LAMBDA k : k.low)
Volume == Column(LAMBDA k : k.volume)
Typical == Column(LAMBDA k : (k.high + k.low + k.close) \div 3)

StrengthIndex(gain, loss) == (10000 * gain) \div (gain + loss)

\* Without any loss so far there is no relative strength, and no index.
RSI ==
  LET move == Diff(Close)
      gain == Wilder(Map(move, LAMBDA d : Max({d, 0}) * 1000), Periods.rsi)
      loss == Wilder(Map(move, LAMBDA d : Max({-d, 0}) * 1000), Periods.rsi)
  IN  Combine(gain, Map(loss, LAMBDA l : IF l = 0 THEN Missing ELSE l),
              StrengthIndex)

MACD == Minus(Ema(Close, Periods.macdFast), Ema(Close, Periods.macdSlow))
MACDSignal == Ema(MACD, Periods.macdSignal)

\* Twice the standard deviation, rounded down.
TwoDeviations(seq) ==
  LET square(x) == x * x
      spread == Mean([i \in DOMAIN seq |-> square(seq[i] - Mean(seq))])
  IN  CHOOSE d \in 0..(2 * Highest(seq)) :
        square(d) <= 4 * spread /\ 4 * spread < square(d + 1)

BBMiddle == Rolling(Close, Periods.bb, Mean)
BBSpread == Rolling(Close, Periods.bb, TwoDeviations)
BBUpper  == Combine(BBMiddle, BBSpread, LAMBDA m, d : m + d)
BBLower  == Minus(BBMiddle, BBSpread)

\* _true_range: the first candle has no close before it.
TrueRange ==
  Series(LAMBDA i :
    Max({High[i] - Low[i]}
        \cup (IF i = 1 THEN {}
              ELSE {Abs(High[i] - Close[i - 1]), Abs(Low[i] - Close[i - 1])})))

ATR    == Wilder(Map(TrueRange, LAMBDA r : r * 100), Periods.atr)
ATRPct == Ratio(ATR, Close, 100)

StochasticK ==
  LET floor == Rolling(Low, Periods.stochK, Lowest)
      roof  == Rolling(High, Periods.stochK, Highest)
  IN  Ratio(Minus(Close, floor), Minus(roof, floor), 10000)
StochasticD == Rolling(StochasticK, Periods.stochD, Mean)

WilliamsR ==
  LET floor == Rolling(Low, Periods.willr, Lowest)
      roof  == Rolling(High, Periods.willr, Highest)
  IN  Map(Ratio(Minus(roof, Close), Minus(roof, floor), 10000), LAMBDA r : -r)

EMA50  == Ema(Close, Periods.emaFast)
EMA200 == Ema(Close, Periods.emaSlow)

\* _ema_cross_signal: 0 while one of them is missing.
EMACross ==
  LET ahead == Minus(EMA50, EMA200)
  IN  Series(LAMBDA i : IF ahead[i] = Missing \/ ahead[i] = 0 THEN 0
                        ELSE IF ahead[i] > 0 THEN 1 ELSE -1)

\* _directional_movement: the larger of the two moves, if it is one.
Moves(up, down) ==
  Series(LAMBDA i : IF i = 1 THEN 0
                    ELSE IF up[i] > down[i] /\ up[i] > 0 THEN up[i] * 100
                    ELSE 0)

DirectionalIndex(moves) ==
  Ratio(Wilder(moves, Periods.adx),
        Wilder(Map(TrueRange, LAMBDA r : r * 100), Periods.adx), 10000)

Upward   == Diff(High)
Downward == Map(Diff(Low), LAMBDA d : -d)
PlusDI   == DirectionalIndex(Moves(Upward, Downward))
MinusDI  == DirectionalIndex(Moves(Downward, Upward))

ADX == Wilder(Ratio(Combine(PlusDI, MinusDI, LAMBDA p, m : Abs(p - m)),
                    Combine(PlusDI, MinusDI, LAMBDA p, m : p + m), 10000),
              Periods.adx)

MeanDeviation(seq) == Mean([i \in DOMAIN seq |-> Abs(seq[i] - Mean(seq))])

\* In hundredths, the constant 0.015 included.
CCI == Ratio(Minus(Typical, Rolling(Typical, Periods.cci, Mean)),
             Map(Rolling(Typical, Periods.cci, MeanDeviation),
                 LAMBDA d : d * 15),
             100000)

Momentum ==
  LET before == Shift(Close, Periods.mom)
  IN  Ratio(Minus(Close, before), before, 10000)

VolumeMA == Rolling(Volume, Periods.volumeMA, Mean)
RelativeVolume == Ratio(Volume, VolumeMA, 100)

OBV ==
  LET move == Diff(Close)
  IN  CumSum(Series(LAMBDA i : IF i = 1 \/ move[i] = 0 THEN 0
                               ELSE IF move[i] > 0 THEN Volume[i]
                               ELSE -Volume[i]))

VWAP == Ratio(CumSum(Combine(Typical, Volume, LAMBDA p, v : p * v)),
              CumSum(Volume), 1)

Midpoint(period) ==
  Combine(Rolling(High, period, Highest), Rolling(Low, period, Lowest),
      LAMBDA h, l : (h + l) \div 2)

Tenkan  == Midpoint(Periods.tenkan)
Kijun   == Midpoint(Periods.kijun)
SenkouA == Shift(Combine(Tenkan, Kijun, LAMBDA t, k : (t + k) \div 2),
                 Periods.kijun)
SenkouB == Shift(Midpoint(Periods.senkou), Periods.kijun)

\* The one column that a row takes from the future: shift(-kijun).
Chikou ==
  Series(LAMBDA i : IF i + Periods.kijun > Len(window) THEN Missing
                    ELSE Close[i + Periods.kijun])

\* calculate_indicators_df, without the columns that repeat another one a row
\* later.
Frame ==
  [rsi |-> RSI, macd |-> MACD, macdSignal |-> MACDSignal, middle |-> BBMiddle,
   upper |-> BBUpper, lower |-> BBLower, atr |-> ATRPct, stochK |-> StochasticK,
   stochD |-> StochasticD, willr |-> WilliamsR, ema50 |-> EMA50,
   ema200 |-> EMA200, cross |-> EMACross, plusDI |-> PlusDI,
   minusDI |-> MinusDI, adx |-> ADX, cci |-> CCI, momentum |-> Momentum,
   rv |-> RelativeVolume, obv |-> OBV, vwap |-> VWAP, tenkan |-> Tenkan,
   kijun |-> Kijun, senkouA |-> SenkouA, senkouB |-> SenkouB,
   chikou |-> Chikou]

\* The candles that calculate_all_indicators wants before it gives a value.
Needed ==
  [rsi |-> Periods.rsi + 1, macd |-> Periods.macdSlow + Periods.macdSignal,
   macdSignal |-> Periods.macdSlow + Periods.macdSignal, middle |-> Periods.bb,
   upper |-> Periods.bb, lower |-> Periods.bb, atr |-> Periods.atr,
   stochK |-> Periods.stochK, stochD |-> Periods.stochK,
   adx |-> 2 * Periods.adx, plusDI |-> 2 * Periods.adx,
   minusDI |-> 2 * Periods.adx, ema50 |-> Periods.emaFast, ema200 |-> Periods.emaSlow, cci |-> Periods.cci,
   willr |-> Periods.willr, momentum |-> Periods.mom + 1, rv |-> 2, obv |-> 2,
   vwap |-> 2]

\* calculate_all_indicators: of each indicator the last value it has, which is
\* not the last candle's when that has none.
Latest ==
  With(Frame, LAMBDA frame :
    [key \in DOMAIN Needed |->
       IF Len(window) < Max({2, Needed[key]}) THEN Missing
       ELSE LastValid(frame[key])])

-----------------------------------------------------------------------------
(* What else is read from the candles.                                     *)

Before(seq, i, n) == {seq[j] : j \in (i - n)..(i - 1)}
After(seq, i, n)  == {seq[j] : j \in (i + 1)..(i + n)}

\* find_support_resistance: the lows of the window with no lower one beside
\* them, below the last close, and the highs likewise above it.
Supports(pivot) ==
  {Low[i] : i \in {j \in (pivot + 1)..(Len(window) - pivot) :
     /\ \A x \in Before(Low, j, pivot) \cup After(Low, j, pivot) : Low[j] <= x
     /\ Low[j] < Last(Close)}}

Resistances(pivot) ==
  {High[i] : i \in {j \in (pivot + 1)..(Len(window) - pivot) :
     /\ \A x \in Before(High, j, pivot) \cup After(High, j, pivot) :
          High[j] >= x
     /\ High[j] > Last(Close)}}

\* The last two places where a series turns, from the last.
Turns(series, beyond(_, _)) ==
  {i \in 2..(Len(series) - 1) :
     beyond(series[i], series[i - 1]) /\ beyond(series[i], series[i + 1])}

Newest(turns) == Max(turns)
Previous(turns) == Max(turns \ {Max(turns)})

\* detect_divergence: the prices make a new extreme and the indicator does not.
Divergence(prices, indicator) ==
  LET above(x, y) == x > y
      below(x, y) == x < y
      diverge(beyond(_, _)) ==
        LET p == Turns(prices, beyond)
            d == Turns(indicator, beyond)
        IN  /\ Cardinality(p) >= 2 /\ Cardinality(d) >= 2
            /\ beyond(prices[Newest(p)], prices[Previous(p)])
            /\ beyond(indicator[Previous(d)], indicator[Newest(d)])
  IN  IF Len(prices) < 5 THEN "none"
      ELSE IF diverge(above) THEN "bearish"
      ELSE IF diverge(below) THEN "bullish" ELSE "none"

\* compute_trend_indicators: the score of the trend from two averages.
TrendScore(short, long) ==
  LET ma20  == LastValid(Rolling(Close, short, Mean))
      ma50  == LastValid(Rolling(Close, long, Mean))
      price == Last(Close)
  IN  IF Len(window) < long THEN Missing
      ELSE IF ma20 > ma50 THEN (IF price > ma20 THEN 80 ELSE 60)
      ELSE IF ma20 < ma50 THEN (IF price < ma20 THEN 20 ELSE 40)
      ELSE 50

\* The change of the last close over that of n candles before it.
ChangeOver(n) ==
  LET before == Close[Len(window) - n]
  IN  IF Len(window) <= n \/ before <= 0 THEN 0
      ELSE ((Last(Close) - before) * 10000) \div before

\* compute_indicators_from_binance on hourly candles: the change of a day is
\* that over 23 of them.
Exported(day) ==
  With(Latest, LAMBDA latest :
    [price |-> Last(Close), ch1 |-> ChangeOver(1),
     ch24 |-> ChangeOver(day - 1), rsi |-> latest.rsi,
     macd |-> latest.macd, macdSignal |-> latest.macdSignal,
     upper |-> latest.upper, lower |-> latest.lower,
     ema50 |-> latest.ema50, ema200 |-> latest.ema200,
     stoch |-> latest.stochK, rv |-> latest.rv,
     atr |-> IF latest.atr = Missing THEN 400 ELSE latest.atr,
     support |-> IF Supports(2) = {} THEN Missing ELSE Max(Supports(2)),
     resistance |->
       IF Resistances(2) = {} THEN Missing ELSE Min(Resistances(2))])

-----------------------------------------------------------------------------
(* RollingIndicatorEngine.                                                 *)

Init == window = <<>> /\ dropped = FALSE

Push(candle) ==
  LET longer == Append(window, candle)
  IN  /\ dropped' = (Len(longer) > MaxCandles)
      /\ window' = IF dropped' THEN Tail(longer) ELSE longer

Reset == window # <<>> /\ window' = <<>> /\ dropped' = FALSE

Next == (\E candle \in Candles : Push(candle)) \/ Reset

Spec == Init /\ [][Next]_vars

-----------------------------------------------------------------------------
(* Properties.                                                             *)

\* The window holds candles of the feed, no more than it may.
IndicatorTypeOK == window \in UNION {[1..n -> Candles] : n \in 0..MaxCandles}

\* No indicator looks ahead: a new candle changes no value that a row already
\* had, except for the lagging span, which is the close of a later row.
RowsAreKept ==
  ~dropped' /\ Len(window') > Len(window) =>
    LET n == Len(window)
    IN  With(Frame, LAMBDA before : With(Frame', LAMBDA after :
          \A key \in DOMAIN before \ {"chikou"} :
            SubSeq(after[key], 1, n) = before[key]))

ColumnsAreCausal == [][RowsAreKept]_vars

Within(value, lo, hi) == value # Missing => lo <= value /\ value <= hi

\* The oscillators stay on their scales and the bands around their middle,
\* whatever the candles, gaps of the directional index included.
ValuesInRange ==
  With(Frame, LAMBDA frame : \A i \in Rows :
    /\ \A key \in {"rsi", "stochK", "stochD", "plusDI", "minusDI", "adx"} :
         Within(frame[key][i], 0, 10000)
    /\ Within(frame.willr[i], -10000, 0)
    /\ frame.middle[i] # Missing =>
         Within(frame.middle[i], frame.lower[i], frame.upper[i]))
=============================================================================
