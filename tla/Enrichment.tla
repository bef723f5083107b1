----------------------------- MODULE Enrichment -----------------------------
(***************************************************************************)
(* enrich_market_data of analysis/indicators_integration.py: the stages    *)
(* that turn a table of candles into one with indicators, signals and      *)
(* risk, the memoised warmup that decides how many rows are dropped, and   *)
(* the metrics of the calls.                                               *)
(*                                                                         *)
(* A table is its number of rows; modules Indicators, Signals and Risk     *)
(* have what is in the columns.                                            *)
(***************************************************************************)
EXTENDS Integers, FiniteSets, FiniteSetsExt, Sequences, Functions

CONSTANTS
  Settings,     \* the values that the keys of INDICATOR_CONFIG may get
  Factory,      \* the value each key has at first
  Invalid,      \* a value int() refuses
  Tables,       \* the numbers of rows a caller may have
  MinCandles,   \* DEFAULT_MIN_CANDLES
  MemoLimit,    \* the entries after which the memo is cleared
  MaxCalls      \* bound of the calls recorded

VARIABLES
  indicatorConfig,  \* INDICATOR_CONFIG
  warmups,          \* _WARMUP_MEMO: the warmup of each configuration seen
  result,           \* the EnrichmentResult of the last call
  metrics           \* EnrichmentMetrics

tableVars == <<indicatorConfig, warmups, result, metrics>>

\* _WARMUP_KEYS
WarmupKeys == DOMAIN Factory

\* safe_int, with the default at hand
SafeInt(settings, key) ==
  IF settings[key] = Invalid THEN Factory[key] ELSE Max({1, settings[key]})

\* The rows that the indicators need before they have a value; the average of
\* 50 is always there.
WarmupOf(settings) ==
  LET n == [key \in WarmupKeys |-> SafeInt(settings, key)]
  IN  Max({n.rsi + 1, n.macdSlow + n.macdSignal, n.bb, n.stochK + n.stochD,
           2 * n.adx, n.atr, n.emaSlow, n.volumeMA, n.cci, n.willr,
           n.senkou, 50})

Warmup == WarmupOf(indicatorConfig)

\* Mutant: the key of the memo does not depend on the configuration.
WarmupKey_Fixed == "warmup"

\* _warmup_cache_key: the hash of the settings that count.
WarmupKey == indicatorConfig

\* required_warmup
Remembered == WarmupKey \in DOMAIN warmups
RequiredWarmup == IF Remembered THEN warmups[WarmupKey] ELSE Warmup

Memoised ==
  IF Remembered THEN warmups
  ELSE LET kept == IF Cardinality(DOMAIN warmups) > MemoLimit THEN {}
                   ELSE DOMAIN warmups
       IN  [k \in kept \cup {WarmupKey} |->
              IF k = WarmupKey THEN Warmup ELSE warmups[k]]

-----------------------------------------------------------------------------
(* The stages.                                                             *)

Nothing == "nothing"

\* add_momentum_columns: the changes there are enough rows for, with so many
\* rows in a day.
MomentumColumns(rows, perDay) ==
  {change \in {"1h", "24h", "7d"} :
     CASE change = "1h"  -> perDay >= 24
       [] change = "24h" -> rows > perDay
       [] change = "7d"  -> rows > 7 * perDay}

EnrichmentResult(rows, final, dropped, signals, risk, momentum, warnings) ==
  [initial |-> rows, final |-> final, dropped |-> dropped,
   signals |-> signals, risk |-> risk, momentum |-> momentum,
   warnings |-> warnings]

NoReport == EnrichmentResult(0, 0, 0, Nothing, Nothing, {}, 0)

\* apply_signals: a strategy that fails or returns nothing leaves Neutral.
SignalStage(outcome) ==
  [off |-> Nothing, fine |-> "strategy", fails |-> "Neutral"][outcome]

\* apply_risk: a failure leaves Unknown.
RiskStage(outcome) ==
  [off |-> Nothing, fine |-> "assessed", fails |-> "Unknown"][outcome]

IsValid(report) ==
  report.final > 0 /\ report.signals # Nothing /\ report.risk # Nothing

-----------------------------------------------------------------------------
TableInit ==
  /\ indicatorConfig = Factory
  /\ warmups = [k \in {} |-> 0]
  /\ result = NoReport
  /\ metrics = [calls |-> 0, rows |-> 0, errors |-> 0]

Configure(key, value) ==
  /\ value # indicatorConfig[key]
  /\ indicatorConfig' = [indicatorConfig EXCEPT ![key] = value]
  /\ UNCHANGED <<warmups, result, metrics>>

\* validate_dataframe refuses an empty table.
Refuse ==
  /\ result' = EnrichmentResult(0, 0, 0, Nothing, Nothing, {}, 1)
  /\ UNCHANGED <<indicatorConfig, warmups, metrics>>

\* calculate_indicators_df raises: neither warmup nor signals nor risk.
FailIndicators(rows, perDay) ==
  /\ rows >= MinCandles
  /\ result' = EnrichmentResult(rows, rows, 0, Nothing, Nothing,
                      MomentumColumns(rows, perDay), 1)
  /\ UNCHANGED <<indicatorConfig, warmups, metrics>>

\* The first rows are dropped when more than the warmup are there; otherwise
\* all are kept with a warning.
Enrich(rows, perDay, trim, strategy, risk) ==
  LET short   == trim /\ rows <= RequiredWarmup
      dropped == IF trim /\ ~short THEN RequiredWarmup ELSE 0
  IN  /\ result' = EnrichmentResult(rows, rows - dropped, dropped,
                          SignalStage(strategy), RiskStage(risk),
                          MomentumColumns(rows, perDay),
                          IF short THEN 1 ELSE 0)
      /\ warmups' = IF trim THEN Memoised ELSE warmups
      /\ UNCHANGED <<indicatorConfig, metrics>>

\* EnrichmentMetrics.record
Record ==
  /\ metrics.calls < MaxCalls
  /\ metrics' = [calls |-> metrics.calls + 1,
                 rows |-> metrics.rows + result.final,
                 errors |-> metrics.errors + result.warnings]
  /\ UNCHANGED <<indicatorConfig, warmups, result>>

ResetMetrics ==
  /\ metrics.calls > 0
  /\ metrics' = [calls |-> 0, rows |-> 0, errors |-> 0]
  /\ UNCHANGED <<indicatorConfig, warmups, result>>

\* A stage is not asked for, or it works, or it fails.
Stages == {"off", "fine", "fails"}

TableNext ==
  \/ \E key \in WarmupKeys : \E value \in Settings[key] : Configure(key, value)
  \/ Refuse
  \/ \E rows \in Tables, perDay \in {6, 24} :
       \/ FailIndicators(rows, perDay)
       \/ \E trim \in BOOLEAN, strategy, risk \in Stages :
            Enrich(rows, perDay, trim, strategy, risk)
  \/ Record
  \/ ResetMetrics

TableSpec == TableInit /\ [][TableNext]_tableVars

-----------------------------------------------------------------------------
(* Properties.                                                             *)

\* The rows that a call drops are those the present configuration asks for,
\* whatever was configured, memoised and forgotten before it: none when there
\* are not more of them, with a warning, otherwise exactly its warmup.
DropsAreCurrent ==
  result' # result =>
    /\ result'.dropped \in {0, Warmup}
    /\ (result'.signals # Nothing /\ result'.warnings > 0)
         => result'.initial <= Warmup

WarmupIsCurrent == [][DropsAreCurrent]_tableVars
=============================================================================
