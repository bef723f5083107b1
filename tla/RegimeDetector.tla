--------------------------- MODULE RegimeDetector ---------------------------
(***************************************************************************)
(* RegimeDetector of trading/regime_detector.py: every scan of the market  *)
(* is recorded, scored from 0 to 100, turned into a raw label, and the     *)
(* label moves the regime through the hysteresis and the confirmation      *)
(* queue of decide().                                                      *)
(*                                                                         *)
(* A percentage is counted in hundredths of a percent, a fraction and a    *)
(* component score in thousandths, the score in thousandths of a point.    *)
(* A scan's rows are a function of the symbols it lists.                   *)
(***************************************************************************)
EXTENDS Integers, SequencesExt, FiniteSetsExt, Totals

CONSTANTS BTC,       \* the symbol of Bitcoin
          Stables,   \* the symbols no strong mover may have
          Scans,     \* what a scan may find: its rows and the trade tracker
          NoTracker, Unquoted,
          Detector,  \* the arguments of the constructor
          Quiet,     \* the rows of a scan that changes nothing
          WarmUps,   \* how many quiet scans may precede the run
          MaxScans   \* bound: the scans of a run

MarketRow ==
  [price : Int, change : {Unquoted} \cup Int, volume : Int, bid : Int, ask : Int]

Rows(rows) == IsFiniteSet(DOMAIN rows) /\ rows \in [DOMAIN rows -> MarketRow]

\* The constructor converts its arguments to numbers, safe_float what a row
\* holds; the run may begin after scans that listed Bitcoin, at a price each.
ASSUME DetectorAssumption ==
  /\ {Detector.confirmScans, Detector.historyLen, Detector.shortLookback} \subseteq Int
  /\ {Detector.aggressive, Detector.conservative, Detector.hysteresis} \subseteq Int
  /\ \A scan \in Scans :
       /\ Rows(scan.rows)
       /\ scan.tracker \in {NoTracker} \cup [pnls : Seq(Int), peak : Int, cash : Int]
  /\ Rows(Quiet) /\ BTC \in DOMAIN Quiet /\ \A s \in DOMAIN Quiet : Quiet[s].price > 0
  /\ WarmUps \subseteq Nat

Symbols == {BTC} \cup UNION {DOMAIN scan.rows : scan \in Scans}

Regimes == {"AGGRESSIVE", "BALANCED", "CONSERVATIVE", "CRISIS"}
Rank == [CRISIS |-> 0, CONSERVATIVE |-> 1, BALANCED |-> 2, AGGRESSIVE |-> 3]

VARIABLES regime,         \* current_regime
          pending,        \* _pending_regime, "none" for None
          pendingCount,   \* _pending_count
          priceHistory,   \* the recorded prices of every symbol
          btcHistory, volumeHistory,
          log             \* ghost: label, score and outcome of every scan

regimeVars == <<regime, pending, pendingCount, priceHistory, btcHistory,
                volumeHistory, log>>

\* __init__: the arguments, with the floors it puts under three of them.
ConfirmScans == Max({1, Detector.confirmScans})
HistoryLen   == Max({10, Detector.historyLen})
Lookback     == Max({2, Detector.shortLookback})

-----------------------------------------------------------------------------
(* Recording: deques of HistoryLen entries.                                *)

Push(history, x) ==
  LET longer == Append(history, x)
  IN  IF Len(longer) > HistoryLen THEN Tail(longer) ELSE longer

RecordPrices(rows) ==
  [s \in Symbols |->
     IF s \in DOMAIN rows /\ rows[s].price > 0
     THEN Push(priceHistory[s], rows[s].price) ELSE priceHistory[s]]

\* Bitcoin's last known price is appended on every scan, listed or not.
RecordBtc(prices, rows) ==
  IF prices[BTC] # <<>> THEN Push(btcHistory, Last(prices[BTC]))
  ELSE btcHistory

\* The n-th largest of the values of a function.
Nth(values, n) ==
  Max({v \in Range(values) : Cardinality({s \in DOMAIN values : values[s] >= v}) >= n})

\* Its values, the largest first.
Sorted(values) == [n \in 1..Cardinality(DOMAIN values) |-> Nth(values, n)]

TotalVolume(rows) == Total(Sorted([s \in DOMAIN rows |-> rows[s].volume]))

RecordVolume(rows) ==
  IF TotalVolume(rows) > 0 THEN Push(volumeHistory, TotalVolume(rows))
  ELSE volumeHistory

-----------------------------------------------------------------------------
(* Signals.  Each takes the histories as they are after the recording.     *)

PctChange(new, old) == ((new - old) * 10000) \div old

Back(history, n) == history[Len(history) - n + 1]

\* The symbols of the scan whose history reaches back Lookback entries.
Measured(rows, prices) == {s \in DOMAIN rows : Len(prices[s]) >= Lookback}

Move(s, prices) == PctChange(Last(prices[s]), Back(prices[s], Lookback))

Fraction(part, whole) ==
  IF whole = {} THEN 0
  ELSE (Cardinality(part) * 1000) \div Cardinality(whole)

Quoted(rows) == {s \in DOMAIN rows : rows[s].change # Unquoted}

Breadth24h(rows) ==
  Fraction({s \in Quoted(rows) : rows[s].change > 0}, Quoted(rows))

BreadthShort(rows, prices) ==
  Fraction({s \in Measured(rows, prices) : Move(s, prices) > 0},
           Measured(rows, prices))

Btc24h(rows) ==
  IF BTC \in Quoted(rows) THEN rows[BTC].change ELSE 0

BtcShort(btc) ==
  IF Len(btc) < Lookback THEN 0 ELSE PctChange(Last(btc), Back(btc, Lookback))

Mean(values) == Total(values) \div Len(values)

BtcAboveMean(btc) ==
  IF Len(btc) < 10 THEN 0 ELSE PctChange(Last(btc), Mean(btc))

\* The mean of the n largest values of a function.
TopMean(values, n) ==
  IF DOMAIN values = {} THEN 0
  ELSE Mean(SubSeq(Sorted(values), 1, Min({n, Cardinality(DOMAIN values)})))

AvgMomentum(rows, prices) ==
  TopMean([s \in Measured(rows, prices) |-> Move(s, prices)], 20)

Volatility(rows, prices) ==
  TopMean([s \in Measured(rows, prices) |-> Max({Move(s, prices), -Move(s, prices)})],
          Cardinality(DOMAIN rows))

VolumeTrend(rows, volumes) ==
  LET n == Len(volumes)
      early == Mean(SubSeq(volumes, n - 5, n - 3))
      late  == Mean(SubSeq(volumes, n - 2, n))
  IN  IF TotalVolume(rows) <= 0 \/ n < 6 \/ early <= 0 THEN 0
      ELSE PctChange(late, early)

TwoSided(rows) == {s \in DOMAIN rows : rows[s].bid > 0
                                       /\ rows[s].ask >= rows[s].bid}
SpreadOf(rows, s) == PctChange(rows[s].ask, rows[s].bid)

\* The median of the spreads.
SpreadHealth(rows) ==
  LET sorted == Sorted([s \in TwoSided(rows) |-> SpreadOf(rows, s)])
      n == Len(sorted)
  IN  IF n = 0 THEN 0
      ELSE IF n % 2 = 1 THEN sorted[n \div 2 + 1]
      ELSE (sorted[n \div 2] + sorted[n \div 2 + 1]) \div 2

Skew(rows) ==
  Fraction({s \in Quoted(rows) : rows[s].change > 200}, Quoted(rows))

TopStrength(rows) == TopMean([s \in Quoted(rows) |-> rows[s].change], 10)

\* _strong_movers: liquid coins whose short move stands out.
StrongMovers(rows, prices) ==
  {s \in (Measured(rows, prices) \cap TwoSided(rows)) \ Stables :
     /\ Move(s, prices) >= Detector.strongMove
     /\ rows[s].volume >= Detector.strongVolume
     /\ SpreadOf(rows, s) <= Detector.strongSpread}

\* _trade_stats: the last 20 trades, and cash against the peak of equity.
Latest(pnls) == SubSeq(pnls, Max({1, Len(pnls) - 19}), Len(pnls))

WinRate(pnls) == Fraction({k \in DOMAIN pnls : pnls[k] > 0}, DOMAIN pnls)

TradeStats(tracker) ==
  IF tracker = NoTracker \/ tracker.pnls = <<>>
  THEN [count |-> 0, winRate |-> 500, drawdown |-> 0]
  ELSE [count    |-> Len(Latest(tracker.pnls)),
        winRate  |-> WinRate(Latest(tracker.pnls)),
        drawdown |-> IF tracker.peak > tracker.cash
                     THEN -PctChange(tracker.cash, tracker.peak) ELSE 0]

-----------------------------------------------------------------------------
(* The score.                                                              *)

Clamp(x, lo, hi) == Max({lo, Min({hi, x})})

Scale(x, lo, hi) == Clamp(((x - lo) * 1000) \div (hi - lo), 0, 1000)

\* What one scan measures.
Signals(rows, prices, btc, tracker) ==
  [breadth    |-> Breadth24h(rows),
   btc24h     |-> Btc24h(rows),
   btcShort   |-> BtcShort(btc),
   spread     |-> SpreadHealth(rows),
   volatility |-> Volatility(rows, prices),
   drawdown   |-> TradeStats(tracker).drawdown,
   strong     |-> Cardinality(StrongMovers(rows, prices))]

\* The eleven weighted components, weights adding up to 100.
Weighted(rows, prices, btc, volumes, tracker) ==
  LET stats == TradeStats(tracker) IN
  Scale(Breadth24h(rows), 200, 650) * 18
  + Scale(BreadthShort(rows, prices), 250, 700) * 12
  + Scale(Btc24h(rows), -300, 300) * 14
  + Scale(BtcShort(btc), -150, 150) * 8
  + Scale(BtcAboveMean(btc), -150, 150) * 6
  + Scale(AvgMomentum(rows, prices), -50, 150) * 10
  + Scale(VolumeTrend(rows, volumes), -3000, 3000) * 6
  + (1000 - Scale(SpreadHealth(rows), 10, 200)) * 6
  + Scale(Skew(rows), 20, 200) * 8
  + Scale(TopStrength(rows), 50, 600) * 6
  + (IF stats.count >= Detector.minTradeSamples
     THEN Scale(stats.winRate, 300, 700) ELSE 500) * 6

\* The hard overrides, in the order the code applies them.
Override(score, sig) ==
  LET dump   == IF sig.btc24h <= -400 \/ sig.btcShort <= -250
                THEN Min({score, 25000}) ELSE score
      wide   == IF sig.spread >= 300 THEN Min({dump, 30000}) ELSE dump
      shaken == IF sig.volatility >= 350 THEN Min({wide, 35000}) ELSE wide
  IN  IF sig.btc24h >= 400 /\ sig.breadth >= 650 THEN Max({shaken, 80000})
      ELSE shaken

\* The escape hatch of the strong movers.
Lift(score, sig) ==
  LET three == IF sig.strong >= 3 /\ score < Detector.conservative
               THEN Min({score + 10000, Detector.conservative + 4000})
               ELSE score
  IN  IF sig.strong >= 6 /\ three < Detector.aggressive
      THEN Min({three + 5000, Detector.aggressive - 2000}) ELSE three

Score(weighted, sig) == Clamp(Lift(Override(weighted, sig), sig), 0, 100000)

-----------------------------------------------------------------------------
(* The decision.                                                           *)

\* _raw_regime: the label the scan votes for.
RawRegime(score, sig) ==
  IF \/ sig.drawdown >= 1200 \/ sig.spread >= 350
     \/ sig.btcShort <= -300 /\ sig.strong < 2
     \/ score <= Detector.crisis /\ sig.strong < 2
  THEN "CRISIS"
  ELSE IF /\ score >= Detector.aggressive
          /\ sig.breadth >= Detector.breadthAggressive
          /\ sig.btcShort >= 0
  THEN "AGGRESSIVE"
  ELSE IF /\ \/ score <= Detector.conservative
             \/ sig.breadth <= Detector.breadthConservative
             \/ sig.btcShort <= -150
          /\ sig.strong < 3
  THEN "CONSERVATIVE" ELSE "BALANCED"

\* Mutant: the way back up from CONSERVATIVE is not held back.
Blocked_NotUp(raw, score) ==
  \/ regime = "BALANCED" /\ raw = "AGGRESSIVE"
     /\ score < Detector.aggressive + Detector.hysteresis
  \/ regime = "AGGRESSIVE" /\ raw = "BALANCED"
     /\ score > Detector.aggressive - Detector.hysteresis
  \/ regime = "BALANCED" /\ raw = "CONSERVATIVE"
     /\ score > Detector.conservative - Detector.hysteresis

\* The score hysteresis for neighbouring regimes.
Blocked(raw, score) ==
  \/ regime = "BALANCED" /\ raw = "AGGRESSIVE"
     /\ score < Detector.aggressive + Detector.hysteresis
  \/ regime = "AGGRESSIVE" /\ raw = "BALANCED"
     /\ score > Detector.aggressive - Detector.hysteresis
  \/ regime = "BALANCED" /\ raw = "CONSERVATIVE"
     /\ score > Detector.conservative - Detector.hysteresis
  \/ regime = "CONSERVATIVE" /\ raw = "BALANCED"
     /\ score < Detector.conservative + Detector.hysteresis

Hold(raw) ==
  /\ raw = regime
  /\ pending' = "none" /\ pendingCount' = 0 /\ UNCHANGED regime

Block(raw, score) ==
  /\ raw # regime /\ Blocked(raw, score)
  /\ UNCHANGED <<regime, pending, pendingCount>>

\* Into a crisis and out of one without confirmation.
Direct(raw, score) ==
  /\ raw # regime /\ ~Blocked(raw, score)
  /\ "CRISIS" \in {raw, regime}
  /\ regime' = raw /\ pending' = "none" /\ pendingCount' = 0

\* Mutant: a vote for another label does not start a new count.
Votes_Shared(raw) == pendingCount + 1

Votes(raw) == IF pending = raw THEN pendingCount + 1 ELSE 1

Enough(raw) == Votes(raw) >= ConfirmScans

Confirm(raw, score) ==
  /\ raw # regime /\ ~Blocked(raw, score)
  /\ "CRISIS" \notin {raw, regime}
  /\ \/ /\ Enough(raw)
        /\ regime' = raw /\ pending' = "none" /\ pendingCount' = 0
     \/ /\ ~Enough(raw)
        /\ pending' = raw /\ pendingCount' = Votes(raw) /\ UNCHANGED regime

\* score() and then decide().
Scan(scan) ==
  LET prices  == RecordPrices(scan.rows)
      btc     == RecordBtc(prices, scan.rows)
      volumes == RecordVolume(scan.rows)
      sig     == Signals(scan.rows, prices, btc, scan.tracker)
      score   == Score(Weighted(scan.rows, prices, btc, volumes, scan.tracker),
                       sig)
      raw     == RawRegime(score, sig)
  IN  /\ Len(log) < MaxScans
      /\ priceHistory' = prices
      /\ btcHistory' = btc
      /\ volumeHistory' = volumes
      /\ \/ Hold(raw) \/ Block(raw, score)
         \/ Direct(raw, score) \/ Confirm(raw, score)
      /\ log' = Append(log, [raw |-> raw, score |-> score,
                             blocked |-> raw # regime /\ Blocked(raw, score),
                             strong |-> sig.strong,
                             from |-> regime, to |-> regime'])

Times(n, x) == [i \in 1..n |-> x]

RegimeInit ==
  /\ regime = "BALANCED" /\ pending = "none" /\ pendingCount = 0
  /\ \E n \in WarmUps :
       /\ priceHistory = [s \in Symbols |->
                            IF s \in DOMAIN Quiet THEN Times(n, Quiet[s].price)
                            ELSE <<>>]
       /\ btcHistory = Times(n, Quiet[BTC].price)
       /\ volumeHistory = Times(n, TotalVolume(Quiet))
  /\ log = <<>>

RegimeNext == \E scan \in Scans : Scan(scan)

RegimeSpec == RegimeInit /\ [][RegimeNext]_regimeVars

-----------------------------------------------------------------------------
(* Properties.                                                             *)

\* The regime and the queue stay in range: a count only while a
\* label other than the regime waits, and always short of a flip.
RegimeTypeOK ==
  /\ regime \in Regimes
  /\ pending \in (Regimes \ {"CRISIS"}) \cup {"none"}
  /\ pendingCount \in 0..(ConfirmScans - 1)
  /\ pending = "none" <=> pendingCount = 0
  /\ pending # regime

Flipped(entry) == entry.from # entry.to

\* The scans from i to n that cast a counted vote for r.
VotesFor(r, i, n) == {k \in i..n : log[k].raw = r /\ ~log[k].blocked}

\* A change of regime outside a crisis was voted for by ConfirmScans scans,
\* and between the first of these votes and the last no scan voted for the
\* old regime and none cast a counted vote for a third: decide().
FlipIsConfirmed ==
  \A n \in {Len(log)} \cap DOMAIN log :
    Flipped(log[n]) /\ "CRISIS" \notin {log[n].from, log[n].to} =>
      \E i \in 1..n :
        /\ \A k \in i..n : log[k].raw = log[n].to \/ log[k].blocked
        /\ Cardinality(VotesFor(log[n].to, i, n)) >= ConfirmScans

\* The confirming scans are consecutive, as the docstring of decide() has it.
FlipIsConsecutive ==
  \A n \in {Len(log)} \cap DOMAIN log :
    Flipped(log[n]) /\ "CRISIS" \notin {log[n].from, log[n].to} =>
      \A k \in (n - ConfirmScans + 1)..n :
        k \in DOMAIN log /\ log[k].raw = log[n].to

\* ConfirmScans scans in a row that agree on a label the hysteresis lets
\* through always bring it about.
AgreementFlips ==
  Len(log) >= ConfirmScans =>
    \A r \in Regimes :
      (\A k \in (Len(log) - ConfirmScans + 1)..Len(log) :
         log[k].raw = r /\ ~log[k].blocked) => regime = r

\* Two changes in a row that undo each other, between neighbouring regimes
\* and outside a crisis, are twice the hysteresis apart in score: a market
\* on a threshold does not toggle the regime.
NoToggle ==
  LET flips == {k \in DOMAIN log : Flipped(log[k])} IN
  \A j \in {Len(log)} \cap flips :
    \A i \in flips :
      /\ i < j /\ ~\E k \in flips : i < k /\ k < j
      /\ log[i].from = log[j].to
      /\ "CRISIS" \notin {log[j].from, log[j].to}
      /\ Rank[log[j].from] - Rank[log[j].to] \in {-1, 1}
      => Max({log[i].score, log[j].score}) - Min({log[i].score, log[j].score})
         >= 2 * Detector.hysteresis

\* A change of regime that needs confirmation is preceded by the votes that
\* confirm it, scans that agree often enough change the regime, and a market on
\* a threshold does not change it back and forth: decide().
ConfirmationDecides == FlipIsConfirmed /\ AgreementFlips /\ NoToggle
=============================================================================
