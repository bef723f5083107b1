----------------------------- MODULE GlobalLead -----------------------------
(***************************************************************************)
(* GlobalLeadEngine of trading/global_lead_engine.py: evaluate() filters   *)
(* the coins of one scan by their global and local movement, keeps per     *)
(* coin the count of the scans that confirmed its trend, and returns the   *)
(* candidates for a purchase.                                              *)
(*                                                                         *)
(* A percentage is counted in hundredths of a percent; time is the number  *)
(* of the scan.  The local rows of a scan are a function of the coins they *)
(* list; the global payload is a sequence of coins, a symbol possibly      *)
(* twice.                                                                  *)
(***************************************************************************)
EXTENDS Integers, Sequences, FiniteSetsExt

CONSTANTS Coins,      \* the symbols local rows may list, stables included
          Stablecoins, Proxies,   \* STABLES and _BTC_PROXIES
          Bitcoin,
          Markets,    \* what a scan may find: local rows, global payload
          Settings,   \* the engine's filters after the constructor
          Changes,    \* what configure() may be given
          LeadHistory, \* history_len: what a price history holds at most
          NoMove,     \* None, of a move that cannot be told
          MaxEvaluations    \* bound: the scans of a run

\* configure() may set history_len to anything from one, as long as no coin
\* was seen; the lookback is a number in the settings and wherever it is given.
ASSUME LeadAssumption ==
  /\ LeadHistory \in Nat \ {0} /\ MaxEvaluations \in Nat
  /\ \A c \in Settings : "lookback" \in DOMAIN c /\ c.lookback \in Nat \ {0}
  /\ \A c \in Changes : "lookback" \in DOMAIN c => c["lookback"] \in Int
  /\ \A market \in Markets : DOMAIN market.local \subseteq Coins

Disabled == -10000           \* _DISABLED
Recent   == 2                \* _RECENT_SCANS
Fade     == 25               \* _FADE_PCT
WideExtra == 35              \* _WIDE_SPREAD_EXTRA_PCT

VARIABLES conf,          \* the engine's filters
          usdHistory, irtHistory,
          hits,          \* _trend_hits, of the coins it holds
          firstSeen,     \* _trend_first_seen
          lastMove,      \* _last_move
          candidates,    \* what the last evaluate returned
          verdicts       \* ghost: what became of every coin in every scan

leadVars == <<conf, usdHistory, irtHistory, hits, firstSeen, lastMove,
              candidates, verdicts>>

now == Len(verdicts) + 1

-----------------------------------------------------------------------------
(* The filters' inputs.                                                    *)

PctMove(new, old) == ((new - old) * 10000) \div old

\* build_global_map: of the coins with one symbol the first of the largest
\* market capitalisation; no stables, no coin without a price.
GlobalMap(payload) ==
  LET usable == {i \in DOMAIN payload : payload[i].symbol \notin Stablecoins
                                        /\ payload[i].price > 0}
      best(s) == CHOOSE i \in usable :
                   /\ payload[i].symbol = s
                   /\ \A j \in usable : payload[j].symbol = s =>
                        \/ payload[i].cap > payload[j].cap
                        \/ payload[i].cap = payload[j].cap /\ i <= j
  IN  [s \in {payload[i].symbol : i \in usable} |-> payload[best(s)]]

\* Mutant: a move is measured from whatever the history holds.
LookbackMove_Any(history, current, want) ==
  IF current <= 0 \/ history = <<>> THEN NoMove
  ELSE PctMove(current, history[Max({1, Len(history) - want + 1})])

\* _lookback_move: against the entry want scans back, or the oldest one when
\* three are there.
LookbackMove(history, current, want) ==
  LET have == Len(history) IN
  IF \/ current <= 0 \/ history = <<>>
     \/ have < Min({want, 3})
  THEN NoMove
  ELSE PctMove(current, history[Max({1, have - want + 1})])

\* observed_lead_threshold
ObservedNeed ==
  IF conf.minObserved > 0 THEN Max({50, conf.minObserved})
  ELSE Max({60, conf.pump \div 2})

\* _btc_is_dumping: the worse of the quoted and the observed move; without
\* Bitcoin in the payload the guard is off.
BtcDumping(global) ==
  /\ conf.btcMaxDump > 0 /\ Bitcoin \in DOMAIN global
  /\ LET move == LookbackMove(usdHistory[Bitcoin], global[Bitcoin].price, conf.lookback)
     IN  \/ global[Bitcoin].h1 <= -conf.btcMaxDump
         \/ move # NoMove /\ move <= -conf.btcMaxDump

\* ask or last
LocalPrice(row) == IF row.ask > 0 THEN row.ask ELSE row.last

Chase(row) ==
  IF row.ask > 0 /\ row.last > 0 /\ row.ask > row.last
  THEN PctMove(row.ask, row.last) ELSE 0

Spread(row) == IF row.ask >= row.bid THEN PctMove(row.ask, row.bid) ELSE 9900

\* What one scan measures of coin s before it is recorded.
Measure(s, local, global) ==
  [observed |-> LookbackMove(usdHistory[s], global[s].price, conf.lookback),
   recent   |-> LookbackMove(usdHistory[s], global[s].price, Recent),
   local    |-> LookbackMove(irtHistory[s], LocalPrice(local[s]), conf.lookback)]

\* _is_eagle_exception
Eagle(row, coin, observed) ==
  /\ conf.eagleEnabled /\ observed # NoMove
  /\ observed >= conf.eagleObserved
  /\ coin.h1 >= conf.eagle1h
  /\ row.volume >= conf.eagleVolume
  /\ Spread(row) <= conf.eagleSpread
  /\ Chase(row) <= conf.maxChase
  /\ ~(conf.maxLocal24h > 0 /\ row.change > conf.maxLocal24h)

-----------------------------------------------------------------------------
(* evaluate() for one coin that both sources list: the filters in the      *)
(* order of the code, each with the count of last_stats it adds to.        *)

Guarded(s, dumping) == dumping /\ s \notin Proxies

Filters(s, row, coin, m, dumping) ==
  LET need == ObservedNeed
      spread == IF row.bid > 0 THEN Spread(row) ELSE 0
      wideOk == /\ m.local # NoMove /\ m.local >= 35
                /\ m.observed # NoMove /\ m.observed >= Max({need + 50, 140})
  IN <<
  <<row.ask <= 0,                                            "no_ask">>,
  <<row.bid <= 0 \/ row.volume < conf.minLocalVolume,        "volume">>,
  <<spread > conf.maxSpread + WideExtra,                     "spread">>,
  <<coin.volume < conf.minGlobalVolume,                      "volume">>,
  <<coin.age > conf.maxAge,                                  "stale">>,
  <<conf.minGlobal24h > Disabled \div 2 /\ coin.h24 < conf.minGlobal24h,
                                                             "global_24h">>,
  <<conf.minVolChange > Disabled \div 2 /\ coin.volChange < conf.minVolChange,
                                                             "vol_chg">>,
  <<conf.min1h > Disabled \div 2 /\ coin.h1 < conf.min1h,    "cmc1h">>,
  <<conf.maxLocal24h > 0 /\ row.change > conf.maxLocal24h,   "local_24h">>,
  <<Guarded(s, dumping) /\ (row.bid > 0 => ~Eagle(row, coin, m.observed)),
                                                             "btc_dump">>,
  <<m.observed = NoMove \/ m.observed < need,                  "no_trend">>,
  <<spread > conf.maxSpread /\ ~wideOk,                      "spread">>,
  <<m.observed # NoMove /\ m.observed < -Fade,                 "falling">>,
  <<m.recent # NoMove /\ m.recent < -Fade,                     "fading">>,
  <<\/ row.tick < -conf.maxLocalFall
    \/ m.local # NoMove /\ m.local < -40,                     "local_fall">>,
  <<Chase(row) > conf.maxChase,                              "chase">>,
  <<TRUE,                                                    "passed">> >>

\* The first filter that applies.
Verdict(s, row, coin, m, dumping) ==
  LET filters == Filters(s, row, coin, m, dumping)
  IN  filters[Min({i \in DOMAIN filters : filters[i][1]})][2]

\* The rejections that call _reset_hit; the others keep the count.
Resets == {"cmc1h", "no_trend", "falling", "fading", "local_fall"}

StrongNow(s, coin, m, dumping) ==
  \/ m.observed >= Max({ObservedNeed, 150})
  \/ coin.h1 >= Max({conf.pump, 200})
  \/ Guarded(s, dumping)

Between(x, lo, hi) == Max({lo, Min({hi, x})})

\* _score, in hundredths of a point.
LeadScore(row, coin, m, n) ==
  Between(m.observed, 0, 1500) * 14 + Between(coin.h1, 0, 1500) * 5
  + Min({(coin.volume * 100) \div Max({conf.minGlobalVolume, 1}), 2000})
  + (Between(coin.volChange, 0, 4000) * 15) \div 100
  + Between(row.tick, 0, 200) * 6 + Between(n, 1, 6) * 150
  - Spread(row) * 6

-----------------------------------------------------------------------------
(* The operations.                                                         *)

\* append() to a deque of _new_history, which drops the oldest price of a full
\* one.
Record(history, price) ==
  Append(IF Len(history) < LeadHistory THEN history ELSE Tail(history), price)

\* _record: both prices for a matched coin, the local one for the others.
RecordUsd(global, live) ==
  [s \in Coins |-> IF s \in live /\ s \in DOMAIN global
                   THEN Record(usdHistory[s], global[s].price)
                   ELSE usdHistory[s]]

RecordIrt(local, live) ==
  [s \in Coins |-> IF s \in live /\ LocalPrice(local[s]) > 0
                   THEN Record(irtHistory[s], LocalPrice(local[s]))
                   ELSE irtHistory[s]]

\* The coins whose trend survives the scan: listed by it (_prune_trends) and
\* not reset.
Kept(live, outcome) ==
  {s \in DOMAIN firstSeen \cap live : outcome[s] \notin Resets}

\* The orders candidates.sort() may leave: coins of one score stay in the order
\* of the rows, which the model does not keep.
Orders(chosen) ==
  {order \in [1..Cardinality(chosen) -> chosen] :
     \A i, j \in DOMAIN order : i # j => order[i] # order[j]}

Evaluate(local, payload) ==
  LET global  == GlobalMap(payload)
      live    == DOMAIN local \ Stablecoins
      matched == live \cap DOMAIN global
      dumping == BtcDumping(global)
      m       == [s \in matched |-> Measure(s, local, global)]
      outcome == [s \in live |->
                    IF s \notin matched THEN "no_cmc"
                    ELSE Verdict(s, local[s], global[s], m[s], dumping)]
      passed  == {s \in live : outcome[s] = "passed"}
      kept    == {s \in DOMAIN hits \cap live : outcome[s] \notin Resets}
      count   == [s \in kept \cup passed |->
                    (IF s \in DOMAIN hits THEN hits[s] ELSE 0)
                    + (IF s \in passed THEN 1 ELSE 0)]
      need(s) == IF StrongNow(s, global[s], m[s], dumping) THEN 1
                 ELSE conf.confirm
      chosen  == {s \in passed : count[s] >= need(s)}
      score(s) == LeadScore(local[s], global[s], m[s], count[s])
  IN  /\ Len(verdicts) < MaxEvaluations
      /\ usdHistory' = RecordUsd(global, live)
      /\ irtHistory' = RecordIrt(local, live)
      /\ hits' = count
      /\ firstSeen' = [s \in Kept(live, outcome) \cup passed |->
                         IF s \in DOMAIN firstSeen THEN firstSeen[s] ELSE now]
      /\ lastMove' = [s \in (DOMAIN lastMove \cap live) \cup passed |->
                        IF s \in passed THEN m[s].observed ELSE lastMove[s]]
      /\ \E order \in Orders(chosen) :
           /\ \A i, j \in DOMAIN order : i < j => score(order[i]) >= score(order[j])
           /\ candidates' =
                [i \in DOMAIN order |->
                   [coin |-> order[i], hits |-> count[order[i]],
                    hold |-> now - firstSeen'[order[i]],
                    move |-> m[order[i]].observed, score |-> score(order[i]),
                    eagle |-> Guarded(order[i], dumping)]]
      /\ verdicts' = Append(verdicts, outcome)
      /\ UNCHANGED conf

\* configure(): what the engine has no attribute for is ignored, and three
\* settings are at least one.
Configure(change) ==
  /\ conf' = [k \in DOMAIN conf |->
                IF k \notin DOMAIN change THEN conf[k]
                ELSE IF k \in {"lookback", "confirm"} THEN Max({1, change[k]})
                ELSE change[k]]
  /\ UNCHANGED <<usdHistory, irtHistory, hits, firstSeen, lastMove,
                 candidates, verdicts>>

LeadInit ==
  /\ conf \in Settings
  /\ usdHistory = [s \in Coins |-> <<>>] /\ irtHistory = [s \in Coins |-> <<>>]
  /\ hits = <<>> /\ firstSeen = <<>> /\ lastMove = <<>>
  /\ candidates = <<>> /\ verdicts = <<>>

LeadNext ==
  \/ \E market \in Markets : Evaluate(market.local, market.payload)
  \/ \E change \in Changes : Configure(change)

LeadSpec == LeadInit /\ [][LeadNext]_leadVars

-----------------------------------------------------------------------------
(* Properties.                                                             *)

\* The scans that confirm the trend of coin s: those it passed since it was
\* last reset or missing.
Confirming(s) ==
  {n \in DOMAIN verdicts :
     /\ \A k \in n..Len(verdicts) :
          s \in DOMAIN verdicts[k] /\ verdicts[k][s] \notin Resets
     /\ verdicts[n][s] = "passed"}

\* The three stores evaluate() keeps per coin tell of the same scans: the
\* count is the number of confirming scans, the trend began with the first of
\* them, and a move is remembered for every coin that has a count.
TrendsAreScans ==
  /\ DOMAIN hits = {s \in Coins : Confirming(s) # {}}
  /\ DOMAIN firstSeen = DOMAIN hits
  /\ DOMAIN hits \subseteq DOMAIN lastMove
  /\ \A s \in DOMAIN hits : /\ hits[s] = Cardinality(Confirming(s))
                            /\ firstSeen[s] = Min(Confirming(s))

\* The scans before the last one of a log that recorded a global price of s.
Observed(s, log) ==
  {n \in 1..(Len(log) - 1) : s \in DOMAIN log[n] /\ log[n][s] # "no_cmc"}

\* A candidate was watched before it is bought: its move is measured over a
\* price the engine recorded itself, the lookback back or three scans old,
\* never from its first appearance.
CandidatesWereWatched ==
  candidates' # candidates =>
    \A i \in DOMAIN candidates' :
      Cardinality(Observed(candidates'[i].coin, verdicts')) >= Min({conf.lookback, 3})

CandidateWasWatched == [][TrendsAreScans' /\ CandidatesWereWatched]_leadVars
=============================================================================
