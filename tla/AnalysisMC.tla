----------------------------- MODULE AnalysisMC -----------------------------
(***************************************************************************)
(* The analysis of the market: the indicators of a window of candles, the  *)
(* preparation of a table, the risk and the strategies on single rows, the *)
(* parallel assessment of many rows, and the decisions taken from both.    *)
(* The components are called one after another by their user and share no  *)
(* state, so a behaviour of this module moves one of them, chosen at its   *)
(* start; the others stay as they began or have their variables parked.    *)
(***************************************************************************)
EXTENDS Enrichment, RiskBatch, Decision, Component

VARIABLES window, dropped      \* Indicators
VARIABLE row                   \* Risk and Signals

indicatorVariables == <<window, dropped>>

-----------------------------------------------------------------------------
(* Candles that rise, fall through the floor and stand still, and periods   *)
(* short enough for every indicator to have a value within four of them.    *)

Candle(h, l, c, v) == [high |-> h, low |-> l, close |-> c, volume |-> v]
Periods ==
    [rsi |-> 2, macdFast |-> 1, macdSlow |-> 2, macdSignal |-> 2, bb |-> 2, atr |-> 2,
     stochK |-> 2, stochD |-> 2, willr |-> 2, emaFast |-> 2, emaSlow |-> 3, adx |-> 2,
     cci |-> 2, mom |-> 2, volumeMA |-> 2, tenkan |-> 1, kijun |-> 2, senkou |-> 3]

I == INSTANCE Indicators WITH
        Candles <- {Candle(100, 100, 100, 10), Candle(130, 90, 120, 30), Candle(110, 70, 80, 5)},
        MaxCandles <- 4

-----------------------------------------------------------------------------
(* A configuration whose slow average may change, or be no number at all.   *)

SomeFactory ==
    [rsi |-> 14, macdSlow |-> 26, macdSignal |-> 9, bb |-> 20, stochK |-> 14, stochD |-> 3,
     adx |-> 14, atr |-> 14, emaSlow |-> 200, volumeMA |-> 20, cci |-> 20, willr |-> 14,
     senkou |-> 52]
SomeSettings ==
    [k \in DOMAIN SomeFactory |-> IF k = "emaSlow" THEN {200, 60, Invalid} ELSE {}]

\* Batches with a row twice and with one that fails.
SomeBatches == {<<"a", "b", "a">>, <<"c", "b">>}

-----------------------------------------------------------------------------
(* Rows of the market: a dozen from a bare ticker to a complete one, and    *)
(* every combination of what the strategies and of what the engines of the  *)
(* risk tell apart.                                                         *)

Empty ==
    [k \in {"mcap", "volume", "quoteVolume", "dollarVolume", "turnover", "spread", "depth",
            "atr", "atrAbs", "hv", "price", "ch1", "ch24", "ch7", "stretch", "imbalance",
            "bidVolume", "askVolume", "ma20", "ma50", "maDev", "maCross", "rsi", "stoch",
            "volChange", "funding", "longShort", "flow", "corr", "netflow", "nvt", "mvrv",
            "fearGreed", "macd", "macdSignal", "ema50", "ema200", "rv", "lower",
            "upper"} |-> Missing]
Ticker == [Empty EXCEPT !.price = 1000, !.ch1 = 150, !.ch24 = 600, !.volume = 5000]
Listed == [Ticker EXCEPT !.mcap = 100000, !.rsi = 60, !.ema50 = 950, !.ema200 = 900, !.rv = 160,
                         !.atr = 300, !.lower = 900, !.upper = 1050]
Calm == [Listed EXCEPT !.ch1 = 20, !.ch24 = 100, !.mcap = 900000, !.volume = 800000,
                       !.spread = 2, !.hv = 20, !.rsi = 52, !.stoch = 50]
Frail == [Listed EXCEPT !.ch1 = 900, !.ch24 = 4000, !.mcap = 800, !.volume = 20, !.spread = 300,
                        !.hv = 300, !.atr = 2500, !.rsi = 92, !.funding = 90, !.fearGreed = 10]
Overheated == [Listed EXCEPT !.rsi = 82, !.price = 1100, !.ch1 = 500, !.ma20 = 900, !.ma50 = 850]
NoAtr == [Calm EXCEPT !.atr = Missing, !.hv = Missing, !.spread = Missing, !.mcap = Missing]
AbsAtr == [Frail EXCEPT !.atr = Missing, !.atrAbs = 60, !.bidVolume = 80, !.askVolume = 20,
                        !.volume = Missing, !.quoteVolume = 20]
Squeezed == [Listed EXCEPT !.price = 880, !.ch1 = -100, !.rsi = 33, !.macd = 2, !.macdSignal = -1]

\* Each combination of the changes within the hour and the day, the strength, the
\* price beside its averages and bands, and the relative volume.
SignalRows ==
    {[Listed EXCEPT !.ch1 = h1, !.ch24 = h24, !.rsi = rsi, !.price = price, !.rv = rv] :
       h1 \in {-600, -100, 200, 500}, h24 \in {Missing, -1500, 600},
       rsi \in {Missing, 30, 60, 78}, price \in {880, 920, 1100}, rv \in {60, 300}}

\* Each combination of volume, size, spread, volatility and mood.
RiskRows ==
    {[Listed EXCEPT !.volume = volume, !.quoteVolume = 2000, !.mcap = cap, !.spread = spread,
                    !.atr = atr, !.hv = hv, !.funding = 20, !.longShort = 90, !.fearGreed = mood,
                    !.imbalance = 30, !.ch7 = -900] :
       volume \in {Missing, 20, 800000}, cap \in {Missing, 800, 900000},
       spread \in {Missing, 150}, atr \in {Missing, 10, 300, 2500}, hv \in {Missing, 150},
       mood \in {Missing, 10}}

SampleRows ==
    {Ticker, Listed, Calm, Frail, Overheated, NoAtr, AbsAtr, Squeezed} \cup SignalRows \cup RiskRows

\* Further rises within the hour, in hundredths of a percent.
Rises == {1, 500}

(* What the analysis makes of such rows: a signal that is strong, plain or  *)
(* one to sell, at every level of risk a decision distinguishes.            *)
Reading(signal, long, level, score) ==
    [outcome |-> [signal |-> signal, score |-> 0, confidence |-> 70000, quality |-> 900,
                  tradable |-> long, longScore |-> 0],
     risk |-> [score |-> score, level |-> level]]
SampleReadings ==
    {Reading("Strong Buy", TRUE, "High", 700), Reading("Buy Signal", TRUE, "High", 690),
     Reading("Buy Signal", TRUE, "Low", 0), Reading("Strong Buy", TRUE, "Extreme", 950),
     Reading("Strong Sell", FALSE, "Medium", 400)}

SomeOrder == <<"BTC", "ETH">>

-----------------------------------------------------------------------------
IndicatorsParked == window = 0 /\ dropped = 0

AnalysisInit ==
    /\ component \in Components
    /\ IF component = "indicators" THEN I!Init ELSE IndicatorsParked
    /\ IF component = "rows" THEN row \in SampleRows ELSE row = Ticker
    /\ component # "decision" =>
          data = [s \in Tracked |-> Reading("Strong Sell", FALSE, "Medium", 400)]
    /\ TableInit /\ BatchInit /\ DecisionInit

AnalysisNext ==
    /\ UNCHANGED <<component, row>>
    /\ \/ /\ component = "indicators" /\ I!Next
          /\ UNCHANGED <<tableVars, batchVars, decisionVars>>
       \/ /\ component = "table" /\ TableNext
          /\ UNCHANGED <<indicatorVariables, batchVars, decisionVars>>
       \/ /\ component = "batch" /\ BatchNext
          /\ UNCHANGED <<indicatorVariables, tableVars, decisionVars>>
       \/ /\ component = "decision" /\ DecisionNext
          /\ UNCHANGED <<indicatorVariables, tableVars, batchVars>>

AnalysisSpec ==
    AnalysisInit /\ [][AnalysisNext]_<<component, indicatorVariables, tableVars, row,
                                       batchVars, decisionVars>>

-----------------------------------------------------------------------------
(* The properties of Enrichment, RiskBatch and Decision are in these.      *)

(* Indicators: a new candle does not change the past of a column, and       *)
(* oscillators and bands stay within what they are read as.                 *)
ColumnsAreCausal ==
    [][component = "indicators" => I!ValuesInRange' /\ I!RowsAreKept]_indicatorVariables

(* Signals and Risk, on each row of the table above: the decision, the risk *)
(* and its stress move in one direction with one of the things they weigh,  *)
(* everything else being equal (DecideAction, composite, StressTest).       *)
JudgementIsMonotone ==
    component = "rows" =>
      /\ \A rise \in Rises : RiseNeverWeakens(row, rise)
      /\ RiskNeverStrengthens(row)
      /\ WorseNeverCalms(row)
      /\ StressNeverCalms(row)
=============================================================================
