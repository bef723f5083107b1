------------------------------ MODULE Decision ------------------------------
(***************************************************************************)
(* The trading decisions of analysis/indicators_integration.py: a strategy *)
(* gives a signal for the data of a symbol, the risk assessment a level,   *)
(* and the decision matrix turns both into buy, exit or hold.              *)
(*                                                                         *)
(* The data of a symbol is a dictionary that its owner replaces or updates *)
(* in place.  The first strategy that runs on it leaves the level of risk  *)
(* in it under a private key, which an update in place does not remove.    *)
(*                                                                         *)
(* Signals, confidences and qualities here are in thousandths of one.      *)
(***************************************************************************)
EXTENDS Signals

CONSTANTS
  Order,       \* the symbols, in the order of the dictionary of a batch
  Readings     \* what the analysis makes of the data a symbol may have:
               \* the outcome of the strategy, the level of risk and its score

VARIABLES
  data,        \* the reading of each symbol's data
  memo,        \* its level of risk as a strategy left it, or Missing
  decisions    \* what the last call returned

decisionVars == <<data, memo, decisions>>

Tracked == Range(Order)

ASSUME DecisionAssumption ==
  /\ Order \in Seq(Tracked)
  /\ \A i, j \in DOMAIN Order : Order[i] = Order[j] => i = j

-----------------------------------------------------------------------------
(* The decision matrix.                                                    *)

EntryConfidence(strong, confidence, quality, level) ==
  LET base    == IF strong THEN 850 ELSE 650
      blended == (base * 60 + confidence * 25 + quality * 15) \div 100
      blocked == \/ level = "Extreme"
                 \/ level = "High" /\ ~(strong /\ confidence >= 700)
  IN  IF blocked THEN 0
      ELSE Clip(IF level = "High" THEN (blended * 75) \div 100 ELSE blended,
                0, 1000)

ExitConfidence(strong, confidence) ==
  Clip((IF strong THEN 920 ELSE 800) + (confidence * 15) \div 100, 0, 1000)

Verdict(action, confidence) == [action |-> action, confidence |-> confidence]

HoldOn == Verdict("hold", 0)

DecideAction(outcome, level, holding) ==
  LET strong     == outcome.signal \in StrongSignals
      confidence == Clip(outcome.confidence \div 100, 0, 1000)
      entry      == EntryConfidence(strong, confidence,
                                    Clip(outcome.quality, 0, 1000), level)
  IN  IF outcome.signal \in ExitSignals
      THEN IF holding THEN Verdict("exit", ExitConfidence(strong, confidence))
           ELSE HoldOn
      ELSE IF outcome.signal \in LongSignals /\ outcome.tradable /\ entry > 0
           THEN Verdict("buy", entry)
           ELSE HoldOn

\* The last reason of a decision that holds.
BlockedBy(verdict, outcome, level, holding) ==
  IF verdict.action # "hold" THEN "none"
  ELSE IF level = "Extreme" THEN "extreme_risk"
  ELSE IF outcome.signal \in ExitSignals /\ ~holding THEN "no_position"
  ELSE "none"

\* Out of 100, in tenths; a score of 0 reads as no score at all.
RiskScore(risk) == IF risk.score = 0 THEN 500 ELSE risk.score \div 10

\* Mutant: the decision takes the level that a strategy left in the data.
RiskLevel_Memo(symbol) ==
  IF memo[symbol] = Missing THEN data[symbol].risk.level ELSE memo[symbol]

\* get_risk_info assesses the data again.
RiskLevel(symbol) == data[symbol].risk.level

\* get_trading_decision
DecisionFor(symbol, holding) ==
  LET outcome == data[symbol].outcome
      level   == RiskLevel(symbol)
      verdict == DecideAction(outcome, level, holding)
  IN  [symbol |-> symbol, action |-> verdict.action,
       confidence |-> verdict.confidence, signal |-> outcome.signal,
       risk |-> level, riskScore |-> RiskScore(data[symbol].risk),
       blocked |-> BlockedBy(verdict, outcome, level, holding)]

\* _risk: what the strategy itself says of the risk.
LeaveRisk(symbol) ==
  IF memo[symbol] = Missing THEN data[symbol].risk.level ELSE memo[symbol]

-----------------------------------------------------------------------------
DecisionInit ==
  /\ data \in [Tracked -> Readings]
  /\ memo = [s \in Tracked |-> Missing]
  /\ decisions = <<>>

\* A new dictionary for the symbol.
Replace(symbol, reading) ==
  /\ reading # data[symbol]
  /\ data' = [data EXCEPT ![symbol] = reading]
  /\ memo' = [memo EXCEPT ![symbol] = Missing]
  /\ UNCHANGED decisions

\* The same dictionary with new values.
Refresh(symbol, reading) ==
  /\ reading # data[symbol]
  /\ data' = [data EXCEPT ![symbol] = reading]
  /\ UNCHANGED <<memo, decisions>>

Decide(symbol, holding) ==
  /\ decisions' = <<DecisionFor(symbol, holding)>>
  /\ memo' = [memo EXCEPT ![symbol] = LeaveRisk(symbol)]
  /\ UNCHANGED data

\* The most confident decision first; equal ones keep their order.
Ranks(ranking, all) ==
  \A i, j \in DOMAIN all : i < j =>
    \/ all[ranking[i]].confidence > all[ranking[j]].confidence
    \/ /\ all[ranking[i]].confidence = all[ranking[j]].confidence
       /\ ranking[i] < ranking[j]

\* get_trading_decision_batch
DecideBatch(held, top) ==
  LET all == [i \in DOMAIN Order |->
                DecisionFor(Order[i], Order[i] \in held)]
  IN  \E ranking \in [DOMAIN Order -> DOMAIN Order] :
        /\ Ranks(ranking, all)
        /\ decisions' = [i \in 1..Min({top, Len(Order)}) |-> all[ranking[i]]]
        /\ memo' = [s \in Tracked |-> LeaveRisk(s)]
        /\ UNCHANGED data

DecisionNext ==
  \/ \E s \in Tracked, reading \in Readings :
       Replace(s, reading) \/ Refresh(s, reading)
  \/ \E s \in Tracked, holding \in BOOLEAN : Decide(s, holding)
  \/ \E held \in SUBSET Tracked, top \in DOMAIN Order : DecideBatch(held, top)

DecisionSpec == DecisionInit /\ [][DecisionNext]_decisionVars

-----------------------------------------------------------------------------
(* Properties.                                                             *)

\* A decision to buy is never taken against the risk of the data it is about,
\* however often the same dictionary was updated and assessed before: not at
\* all when it is extreme, and on a strong signal only when it is high.
BuysMatchRisk ==
  decisions' # decisions =>
    \A i \in DOMAIN decisions' :
      LET d == decisions'[i]
          present == data[d.symbol].risk.level
      IN  d.action = "buy" =>
            /\ present # "Extreme"
            /\ present = "High" => d.signal = "Strong Buy"

BuyMatchesRisk == [][BuysMatchRisk]_decisionVars

-----------------------------------------------------------------------------
(* Properties of the analysis of a row, on which the readings rest.        *)

\* exit, hold and buy, from the least to the most confident in the coin.
Standing(verdict) ==
  IF verdict.action = "buy" THEN 1
  ELSE IF verdict.action = "exit" THEN -1 ELSE 0

Levels == <<"Low", "Medium", "High", "Extreme">>

\* The more a coin rises within the hour, the rest of the row and the level of
\* risk being equal, the better it stands, whatever the strategy and however
\* it weighs the others.
RiseNeverWeakens(row, rise) ==
  Has(row, "ch1") =>
    LET higher == [row EXCEPT !.ch1 = @ + rise]
    IN  \A strategy \in Strategies, level \in Range(Levels), holding \in BOOLEAN :
          Standing(DecideAction(Apply(strategy, higher), level, holding))
            >= Standing(DecideAction(Apply(strategy, row), level, holding))

\* The higher the level of risk, the signal being equal, the worse it stands.
RiskNeverStrengthens(row) ==
  \A strategy \in Strategies, holding \in BOOLEAN :
    LET at(level) == Standing(DecideAction(Apply(strategy, row), level, holding))
    IN  \A n \in 2..Len(Levels) : at(Levels[n]) <= at(Levels[n - 1])

\* The features that enter the risk alone, and what is usual for those of which
\* only the distance from it counts.
MoreIsWorse == {"spread", "hv", "netflow", "nvt", "mvrv"}
LessIsWorse == {"volume", "depth", "turnover"}
Usual == [funding |-> 0, volChange |-> 0, ch7 |-> 0, stretch |-> 0, corr |-> 0,
          flow |-> 0, imbalance |-> 0, maCross |-> 0, longShort |-> 100,
          rsi |-> 50, stoch |-> 50]

\* The row with one feature changed for the worse.
Worsened(row) ==
  {[row EXCEPT ![k] = @ + 50] : k \in {k \in MoreIsWorse : Has(row, k)}}
    \cup {[row EXCEPT ![k] = @ \div 2] : k \in {k \in LessIsWorse : Has(row, k)}}
    \cup {[row EXCEPT ![k] = 2 * @ - Usual[k]] :
             k \in {k \in DOMAIN Usual : Has(row, k)}}

\* A worse feature, the others being equal, never lowers the score of the risk,
\* through the deviations, the engines and their weights.
WorseNeverCalms(row) ==
  \A worse \in Worsened(row) : Risk(worse).score >= Risk(row).score

\* A row that tells its ATR in percent, not below the least of 0.1 percent, has
\* no smaller drawdown in the worst stress scenario than without stress, although
\* the larger ATR makes other features smaller.  (Without that ATR it may.)
StressNeverCalms(row) ==
  Has(row, "atr") /\ row.atr >= 10 => WorstDrawdown(row) >= Risk(row).drawdown
=============================================================================
