------------------------------ MODULE Signals ------------------------------
(***************************************************************************)
(* The strategies of analysis/signals.py: each turns the indicators of a   *)
(* market row into a score from -100 to 100, and the score into a signal.  *)
(*                                                                         *)
(* A score is in thousandths of a point, a percentage and the relative     *)
(* volume in hundredths, a quality in thousandths; quotients are rounded   *)
(* down.  A row holds Missing for an indicator it does not have, as for    *)
(* one that is not a finite number.                                        *)
(***************************************************************************)
EXTENDS Risk

Full(x) == Clip(x, -100000, 100000)

\* _num: 0 for an indicator that is missing, or the default given.
NumOr(row, key, default) == IF row[key] = Missing THEN default ELSE row[key]
Num(row, key) == NumOr(row, key, 0)

\* The thresholds of CONFIG.
SignalOf(score) ==
  IF score >= 65000 THEN "Strong Buy"
  ELSE IF score >= 20000 THEN "Buy Signal"
  ELSE IF score <= -65000 THEN "Strong Sell"
  ELSE IF score <= -20000 THEN "Sell Signal"
  ELSE "Neutral"

LongSignals   == {"Strong Buy", "Buy Signal"}
ExitSignals   == {"Strong Sell", "Sell Signal"}
StrongSignals == {"Strong Buy", "Strong Sell"}

\* What every strategy returns; the risk comes from _risk().
Outcome(score, confidence, quality) ==
  [signal |-> SignalOf(score), score |-> score, confidence |-> confidence,
   quality |-> quality, tradable |-> SignalOf(score) \in LongSignals,
   longScore |-> Max({0, score})]

\* points when above, -points when below, 0 without the two prices.
Beside(price, level, points) ==
  IF price = 0 \/ level = 0 THEN 0
  ELSE IF price > level THEN points ELSE -points

Present(row, keys) ==
  (Cardinality({k \in keys : Has(row, k)}) * 1000) \div Cardinality(keys)

-----------------------------------------------------------------------------
(* The strategies.                                                         *)

\* Mutant: the one-hour change counts against the coin.
Hourly_Inverted(row) == -(Num(row, "ch1") * 80)

\* The contribution of the one-hour change to the basic strategy.
Hourly(row) == Num(row, "ch1") * 80

BasicScore(row) ==
  LET rsi   == NumOr(row, "rsi", 50)
      trend == Num(row, "macd") - Num(row, "macdSignal")
      price == Num(row, "price")
  IN  Full(Clip(Hourly(row), -25000, 25000)
           + Clip(Num(row, "ch24") * 30, -20000, 20000)
           + Clip(trend, -1, 1) * 12000
           + Beside(price, Num(row, "ema50"), 10000)
           + Beside(price, Num(row, "ema200"), 12000)
           + (IF rsi \in 50..70 THEN 8000 ELSE IF rsi > 80 THEN -12000
              ELSE IF rsi < 25 THEN 5000 ELSE 0))

Basic(row) ==
  LET complete == Present(row, {"price", "rsi", "ch24", "ch1",
                                "ema50", "ema200"})
  IN  Outcome(BasicScore(row),
              (Magnitude(BasicScore(row)) * Max({complete, 250})) \div 1000,
              complete)

Momentum(row) ==
  LET rv    == NumOr(row, "rv", 100)
      score == Full(Num(row, "ch1") * 100 + Num(row, "ch24") * 25
                    + (rv - 100) * 120)
  IN  Outcome(score, Min({100000, Magnitude(score) + 20000}),
              IF rv >= 100 THEN 800 ELSE 600)

Reversion(row) ==
  LET price == Num(row, "price")
      lower == Num(row, "lower")
      upper == Num(row, "upper")
      rsi   == NumOr(row, "rsi", 50)
      score == (IF rsi < 35 THEN 45000 ELSE IF rsi > 70 THEN -45000 ELSE 0)
               + (IF price # 0 /\ lower # 0 /\ price < lower THEN 35000 ELSE 0)
               - (IF price # 0 /\ upper # 0 /\ price > upper THEN 35000 ELSE 0)
  IN  Outcome(score, Min({100000, Magnitude(score) + 25000}), 700)

VolumeProfile(row) ==
  LET rv    == NumOr(row, "rv", 100)
      score == Full(Num(row, "ch24") * 50 + (rv - 100) * 250)
  IN  Outcome(score, Min({100000, Magnitude(score) + 20000}),
              Min({1000, 500 + Max({0, rv - 100}) * 3}))

Pullback(row) ==
  LET rsi   == NumOr(row, "rsi", 50)
      price == Num(row, "price")
      score == Full(Beside(price, Num(row, "ema50"), 30000)
                    + Beside(price, Num(row, "ema200"), 30000)
                    + (IF rsi \in 45..65 THEN 25000
                       ELSE IF rsi > 75 THEN -20000 ELSE 0))
  IN  Outcome(score, Min({100000, Magnitude(score) + 25000}), 750)

Breakout(row) ==
  LET price == Num(row, "price")
      band  == IF price # 0 /\ Num(row, "upper") # 0
                  /\ price >= Num(row, "upper") THEN 40000
               ELSE IF price # 0 /\ Num(row, "lower") # 0
                       /\ price <= Num(row, "lower") THEN -40000
               ELSE 0
      score == Full(band + Clip(Num(row, "ch1") * 80, -35000, 35000))
  IN  Outcome(score, Min({100000, Magnitude(score) + 20000}), 700)

Advanced(row) ==
  LET score   == Full((35 * Basic(row).score + 25 * Momentum(row).score
                       + 25 * Pullback(row).score + 15 * Breakout(row).score)
                      \div 100)
      quality == (Basic(row).quality + Momentum(row).quality
                  + Pullback(row).quality + Breakout(row).quality) \div 4
  IN  Outcome(score,
              Min({100000, (Magnitude(score) * 8) \div 10 + quality * 20}),
              quality)

\* With fewer than two of its five indicators the ensemble stays neutral.
Composite(row) ==
  LET complete == Present(row, {"rsi", "ch1", "ch24", "ema50", "ema200"})
      score    == Full((60 * Advanced(row).score + 25 * Momentum(row).score
                        + 15 * Reversion(row).score) \div 100)
      quality  == Clip((65 * Advanced(row).quality + 35 * complete) \div 100,
                       0, 1000)
  IN  IF complete < 400 THEN Outcome(0, 0, complete)
      ELSE Outcome(score,
                   Min({100000,
                        (Magnitude(score) * 85) \div 100 + quality * 15}),
                   quality)

\* The registry.
Strategies ==
  {"basic", "momentum", "mean_reversion", "volume_profile", "trend_pullback",
   "breakout", "advanced", "composite"}

Apply(strategy, row) ==
  CASE strategy = "basic"          -> Basic(row)
    [] strategy = "momentum"       -> Momentum(row)
    [] strategy = "mean_reversion" -> Reversion(row)
    [] strategy = "volume_profile" -> VolumeProfile(row)
    [] strategy = "trend_pullback" -> Pullback(row)
    [] strategy = "breakout"       -> Breakout(row)
    [] strategy = "advanced"       -> Advanced(row)
    [] strategy = "composite"      -> Composite(row)

-----------------------------------------------------------------------------
(* What is built on the signals of several rows.                           *)

\* combine_timeframe_signals: the mean of the timeframes.
Combined(outcomes) ==
  LET mean(f(_)) == FoldSeq(LAMBDA o, sum : f(o) + sum, 0, outcomes)
                    \div Len(outcomes)
  IN  Outcome(mean(LAMBDA o : o.score), mean(LAMBDA o : o.confidence),
              mean(LAMBDA o : o.quality))

\* PositionSizer.calculate: the part of the portfolio, in thousandths of a
\* percent, at most limit and at least one percent of a smaller limit.
PositionPct(score, limit) ==
  LET points == Clip(score, 0, 100000)
  IN  Min({limit, IF points = 0 THEN 1000
                  ELSE Max({1000, (limit * (points \div 100)) \div 1000})})

\* MarketRegimeFilter.detect
MarketLabel(outcomes) ==
  IF outcomes = <<>> THEN "Unknown"
  ELSE LET mean == FoldSeq(LAMBDA o, sum : o.score + sum, 0, outcomes)
                   \div Len(outcomes)
       IN  IF mean >= 15000 THEN "Bull"
           ELSE IF mean <= -15000 THEN "Bear" ELSE "Neutral"
=============================================================================
