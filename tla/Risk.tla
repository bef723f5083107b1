-------------------------------- MODULE Risk --------------------------------
(***************************************************************************)
(* The risk assessment of analysis/risk.py: engines that turn the features *)
(* of a market row into a score, their fusion, the expected drawdown, and  *)
(* the same under a stress scenario.                                       *)
(*                                                                         *)
(* A row is a record with one field per feature, under the first of the    *)
(* names the engines know it by, and Missing for a feature that is not     *)
(* there or not a finite number.  Only the volume has two fields, as its   *)
(* second name is not read everywhere (DollarVolume).                      *)
(*                                                                         *)
(* Scores and deviations are in thousandths, capitalisation and volume in  *)
(* thousands of dollars, other features in hundredths or in the unit that  *)
(* the table below gives; quotients are rounded down and a logarithm to a  *)
(* tenth of a decade.                                                      *)
(***************************************************************************)
EXTENDS Integers, Sequences, SequencesExt, FiniteSets, FiniteSetsExt

CONSTANTS Missing

Magnitude(x) == IF x < 0 THEN -x ELSE x
Clip(x, lo, hi) == Max({lo, Min({hi, x})})

Has(row, key) == row[key] # Missing

-----------------------------------------------------------------------------
(* Features that are computed from others.                                 *)

Derived(row, key, possible, value) ==
  IF possible THEN [row EXCEPT ![key] = value] ELSE row

\* Hundredths of a percent of the price, from an absolute ATR.
AtrOfPrice(row) == (row.atrAbs * 10000) \div row.price

WithAtr(row) ==
  Derived(row, "atr",
          /\ ~Has(row, "atr") /\ Has(row, "atrAbs") /\ Has(row, "price")
          /\ row.price # Missing /\ row.price > 0,
          AtrOfPrice(row))

\* What turnover and liquidity are computed from.  The quality of the data and
\* a stress scenario know only the first of the two.
DollarVolume(row) == IF Has(row, "volume") THEN row.volume ELSE row.quoteVolume

\* _derive_features and _merge_derived.  Momentum_Stretch and MA20_Dev are
\* thousandths of an ATR; without one, MA20_Dev takes an ATR of 3 percent.
Completed(row) ==
  LET atr   == WithAtr(row).atr
      ample == atr # Missing /\ atr > 5
      dev   == (Magnitude(row.price - row.ma20) * 10000) \div row.ma20
      r0 == [row EXCEPT !.dollarVolume = DollarVolume(row)]
      r1 == Derived(r0, "turnover",
                    /\ ~Has(row, "turnover") /\ Has(r0, "dollarVolume")
                    /\ Has(row, "mcap") /\ row.mcap > 0,
                    (r0.dollarVolume * 1000) \div row.mcap)
      r2 == Derived(r1, "stretch",
                    ~Has(row, "stretch") /\ Has(row, "ch24") /\ ample,
                    (row.ch24 * 1000) \div atr)
      r3 == Derived(r2, "imbalance",
                    /\ ~Has(row, "imbalance") /\ Has(row, "bidVolume")
                    /\ Has(row, "askVolume")
                    /\ row.bidVolume + row.askVolume > 0,
                    (Magnitude(row.bidVolume - row.askVolume) * 100)
                      \div (row.bidVolume + row.askVolume))
      r4 == WithAtr(r3)
      r5 == Derived(r4, "maDev",
                    Has(row, "ma20") /\ Has(row, "price") /\ row.ma20 > 0,
                    IF ample THEN (dev * 1000) \div atr
                    ELSE (dev * 1000) \div 300)
  IN  Derived(r5, "maCross",
              Has(row, "ma20") /\ Has(row, "ma50") /\ row.ma50 > 0,
              (Magnitude(row.ma20 - row.ma50) * 10000) \div row.ma50)

\* Thousandths.
DataQuality(row) ==
  LET count(keys) == Cardinality({k \in keys : Has(row, k)})
  IN  Clip(count({"mcap", "volume", "rsi", "price", "ch24"}) * 140
           + count({"spread", "funding", "longShort", "hv", "fearGreed"}) * 60,
           50, 1000)

-----------------------------------------------------------------------------
(* From a feature to a deviation.                                          *)

Normalised(x, lo, hi) == Clip(((x - lo) * 1000) \div (hi - lo), -1500, 2500)

OneSided(x, hi)    == Clip(Normalised(x, 0, hi) * 3, 0, 3000)
Centred(x, lo, hi) == Clip((Normalised(x, lo, hi) - 500) * 6, -3000, 3000)

\* The logarithm of n thousand dollars, in tenths.
DecadeTenths == <<100, 126, 159, 200, 252, 317, 399, 502, 631, 795>>

LogTenths(n) ==
  LET decade  == Max({0} \cup {d \in 0..9 : 10^d <= n})
      leading == IF decade >= 2 THEN n \div 10^(decade - 2)
                 ELSE n * 10^(2 - decade)
  IN  IF n < 1 THEN 0
      ELSE 30 + 10 * decade
           + Cardinality({t \in 2..10 : leading >= DecadeTenths[t]})

\* abs(v - 50) / 50 in hundredths
FromMiddle(x) == Magnitude(x - 50) * 2

\* _apply_transform and _normalize_feature for each factor.
Deviation(key, x) ==
  CASE key = "mcap"     -> Centred(LogTenths(x), 60, 120)
    [] key = "dollarVolume" -> Centred(LogTenths(x), 40, 110)
    [] key = "turnover" -> Centred(x, 0, 2000)
    [] key = "spread"   -> Centred(x, 0, 200)
    [] key = "depth"    -> Centred(x, 0, 1000)
    [] key = "atr"      -> Centred(x, 50, 2000)
    [] key = "hv"       -> Centred(x, 10, 200)
    [] key = "netflow"  -> Centred(x, -1000, 1000)
    [] key = "nvt"      -> Centred(x, 10, 200)
    [] key = "mvrv"     -> Centred(x, 50, 500)
    [] key = "fearGreed"            -> Centred(FromMiddle(x), 0, 10000)
    [] key \in {"rsi", "stoch"}     -> OneSided(FromMiddle(x), 100)
    [] key \in {"ch7", "stretch"}   -> OneSided(Magnitude(x), 4000)
    [] key = "maDev"                -> OneSided(Magnitude(x), 3000)
    [] key = "maCross"              -> OneSided(Magnitude(x), 200)
    [] key = "volChange"            -> OneSided(Magnitude(x), 250)
    [] key = "funding"              -> OneSided(Magnitude(x), 80)
    [] key = "longShort"            -> OneSided(Magnitude(x - 100), 100)
    [] key \in {"flow", "imbalance", "corr"} -> OneSided(Magnitude(x), 100)

Factor(key, weight, direction) ==
  [key |-> key, weight |-> weight, direction |-> direction]

\* _build_engine_specs: weights in tenths.
EngineSpecs ==
  [market      |-> <<Factor("mcap", 10, -1)>>,
   liquidity   |-> <<Factor("turnover", 12, -1), Factor("spread", 9, 1),
                     Factor("dollarVolume", 11, -1), Factor("depth", 6, -1)>>,
   volatility  |-> <<Factor("atr", 12, 1), Factor("hv", 10, 1)>>,
   trend       |-> <<Factor("ch7", 10, 1), Factor("stretch", 11, 1),
                     Factor("maDev", 8, 1), Factor("maCross", 6, 1)>>,
   technical   |-> <<Factor("rsi", 10, 1), Factor("stoch", 7, 1)>>,
   volume      |-> <<Factor("volChange", 10, 1)>>,
   derivatives |-> <<Factor("funding", 10, 1), Factor("longShort", 9, 1)>>,
   orderbook   |-> <<Factor("flow", 9, 1), Factor("imbalance", 8, 1)>>,
   correlation |-> <<Factor("corr", 10, 1)>>,
   onchain     |-> <<Factor("netflow", 10, 1), Factor("nvt", 10, 1),
                     Factor("mvrv", 10, 1)>>,
   macro       |-> <<Factor("fearGreed", 10, 1)>>]

Engines == DOMAIN EngineSpecs

\* engine_weights_base and engine_regime_sensitivity, in hundredths.
EngineWeight ==
  [liquidity |-> 130, market |-> 110, volatility |-> 130, trend |-> 100,
   technical |-> 90, volume |-> 90, correlation |-> 60, orderbook |-> 90,
   derivatives |-> 40, onchain |-> 70, macro |-> 40]

EngineSensitivity ==
  [liquidity |-> 35, market |-> 15, volatility |-> 25, trend |-> 20,
   technical |-> 10, volume |-> 15, correlation |-> 30, orderbook |-> 30,
   derivatives |-> 20, onchain |-> 20, macro |-> 10]

-----------------------------------------------------------------------------
(* The engines and their fusion.                                           *)

RiskOfZ(z) == Clip(5000 + (Clip(z, -3000, 3000) * 5) \div 3, 0, 10000)

\* avail_tiers
AvailMultiplier(found, total) ==
  IF 100 * found >= 70 * total THEN 1000
  ELSE IF 100 * found >= 35 * total THEN 950
  ELSE IF 100 * found >= 15 * total THEN 700 ELSE 300

SumOver(seq, op(_)) == FoldSeq(LAMBDA x, sum : op(x) + sum, 0, seq)

NoEngine == [score |-> 5000, confidence |-> 0]

\* _compute_engine on a completed row
EngineOf(engine, row) ==
  LET specs   == EngineSpecs[engine]
      found   == SelectSeq(specs, LAMBDA s : Has(row, s.key))
      z(s)    == Clip(s.direction * Deviation(s.key, row[s.key]), -3000, 3000)
      meanZ   == SumOver(found, LAMBDA s : s.weight * z(s))
                 \div SumOver(found, LAMBDA s : s.weight)
      avail   == AvailMultiplier(Len(found), Len(specs))
  IN  IF found = <<>> THEN NoEngine
      ELSE [score |-> Clip(5000 + ((RiskOfZ(meanZ) - 5000) * avail) \div 1000,
                           0, 10000),
            confidence |-> (DataQuality(row) * avail) \div 1000]

Usable(engine) == engine.confidence > 0

\* The power 1.5 of a confidence.
Reliability ==
  [c \in 0..1000 |->
     CHOOSE r \in 0..1000 : 1000 * r * r <= c * c * c
                            /\ c * c * c < 1000 * (r + 1) * (r + 1)]

BearFactor(row) ==
  1000 - 10 * Clip(IF Has(row, "fearGreed") THEN row.fearGreed ELSE 50, 0, 100)

FusionWeight(name, engine, row) ==
  LET weight == EngineWeight[name]
                * (1000 + (EngineSensitivity[name] * BearFactor(row)) \div 100)
  IN  (weight * Reliability[engine.confidence]) \div 10000

\* _fusion_bayesian: the mean of the usable engines, by weight.
Fused(engines, row) ==
  LET weight  == [e \in Engines |->
                    IF Usable(engines[e])
                    THEN FusionWeight(e, engines[e], row) ELSE 0]
      total(f(_)) == FoldSet(LAMBDA e, sum : f(e) + sum, 0, Engines)
      weights == total(LAMBDA e : weight[e])
  IN  IF weights = 0 THEN 5000
      ELSE total(LAMBDA e : engines[e].score * weight[e]) \div weights

\* The power 1.6 of a score in tenths, times 14, for the scores 0 to 10.
VolatilityAtr == <<0, 35, 107, 204, 323, 462, 618, 791, 980, 1183, 1400>>

\* _atr_pct_for_dd
DrawdownAtr(row, volatility) ==
  IF Has(row, "atr") THEN Clip(row.atr, 10, 5000)
  ELSE IF Usable(volatility)
       THEN Clip(100 + VolatilityAtr[1 + volatility.score \div 1000], 50, 3000)
       ELSE 400

LevelOf(score) ==
  IF score >= 8000 THEN "Extreme"
  ELSE IF score >= 6500 THEN "High"
  ELSE IF score >= 4500 THEN "Medium" ELSE "Low"

\* _compute_risk_core: the score, its level, the drawdown in hundredths of
\* a percent, and what the other functions read of the engines.
Risk(data) ==
  LET row     == Completed(data)
      engines == [e \in Engines |-> EngineOf(e, row)]
      score   == Fused(engines, row)
      atr     == DrawdownAtr(row, engines["volatility"])
  IN  [score |-> score, level |-> LevelOf(score),
       drawdown |-> Min({6000, (atr * 15 * (10000 + score)) \div 100000}),
       engine |-> [e \in Engines |-> engines[e].score],
       quality |-> DataQuality(row), bear |-> BearFactor(row)]

\* _ENGINE_MESSAGES: above which score an engine is a reason of the risk.
ReasonAbove ==
  [volatility |-> 7000, liquidity |-> 6500, market |-> 6000, trend |-> 7000,
   technical |-> 7000, volume |-> 7000, derivatives |-> 7500,
   orderbook |-> 7000, onchain |-> 7000]

\* RiskExplainer._get_reasons
Reasons(risk) ==
  {e \in DOMAIN ReasonAbove : risk.engine[e] > ReasonAbove[e]}
    \cup (IF risk.bear > 700 THEN {"risk_off"} ELSE {})
    \cup (IF risk.quality < 400 THEN {"low_quality"} ELSE {})

-----------------------------------------------------------------------------
(* Stress.                                                                 *)

\* The factors of a scenario in tenths.
Factors(volatility, liquidity, spread, mcap) ==
  [volatility |-> volatility, liquidity |-> liquidity, spread |-> spread,
   mcap |-> mcap]

Scenarios ==
  [mild_bear        |-> Factors(15, 13, 10, 8),
   severe_crash     |-> Factors(30, 25, 10, 5),
   liquidity_crisis |-> Factors(10, 40, 30, 9)]

Scaled(row, key, num, den) ==
  Derived(row, key, Has(row, key), (row[key] * num) \div den)

\* run_scenario: the absolute ATR and the volume under its second name are not
\* stressed.
Stressed(row, s) ==
  LET r1 == Scaled(row, "atr", s.volatility, 10)
      r2 == Scaled(r1, "hv", s.volatility, 10)
      r3 == Scaled(r2, "volume", 10, s.liquidity)
      r4 == Scaled(r3, "spread", s.spread, 10)
  IN  Scaled(r4, "mcap", s.mcap, 10)

WorstDrawdown(row) ==
  Max({Risk(Stressed(row, Scenarios[name])).drawdown :
         name \in DOMAIN Scenarios})

\* DynamicThresholds.risk_level_with_regime
LevelInRegime(score, bear) ==
  LET lean   == Clip(bear, 0, 1000) - 500
      factor == Clip(1000 - (30 * lean) \div 100, 800, 1100)
      at(x)  == (x * factor) \div 1000
  IN  IF score >= at(8000) THEN "Extreme"
      ELSE IF score >= at(6500) THEN "High"
      ELSE IF score >= at(4500) THEN "Medium" ELSE "Low"
=============================================================================
