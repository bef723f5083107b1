----------------------------- MODULE MarketProofs -----------------------------
(***************************************************************************)
(* Theorems about what judges the market: the regime detector, the         *)
(* preparation of a table, the assessment of many rows, the decisions, and *)
(* the backtest.  Each is a theorem of its own module's specification;     *)
(* they share lemmas.                                                      *)
(***************************************************************************)
EXTENDS RegimeDetector, Enrichment, RiskBatch, Decision, Backtest,
        FiniteSetTheorems, WellFoundedInduction, TLAPS

(* Every set of numbers has a least one: the order of the numbers is well   *)
(* founded.                                                                 *)
LEMMA LeastNumber ==
  ASSUME NEW T \in SUBSET Nat, T # {}
  PROVE  \E x \in T : \A y \in T : x <= y
  <1> DEFINE R == {p \in Nat \X Nat : p[1] < p[2]}
  <1>1. IsWellFoundedOn(R, Nat)
    BY NatLessThanWellFounded DEF OpToRel
  <1>2. \A x, y \in Nat : x < y => <<x, y>> \in R
    OBVIOUS
  <1> HIDE DEF R
  <1>3. PICK x \in T : \A y \in T : <<y, x>> \notin R
    BY <1>1, WFMin
  <1>4. ASSUME NEW y \in T PROVE x <= y
    <2>1. x \in Nat /\ y \in Nat
      OBVIOUS
    <2>2. ~(y < x)
      BY <1>2, <1>3, <2>1
    <2>3. QED
      BY <2>1, <2>2
  <1>5. QED
    BY <1>4

\* So the minimum that the models choose is an element, and the least.
LEMMA MinIsLeast ==
  ASSUME NEW T \in SUBSET Nat, T # {}
  PROVE  Min(T) \in T /\ \A y \in T : Min(T) <= y
  <1>1. \E x \in T : \A y \in T : x <= y
    BY LeastNumber
  <1>2. QED
    BY <1>1 DEF Min

\* The minimum and the maximum of two numbers.
LEMMA MinOfTwo ==
  ASSUME NEW a \in Int, NEW b \in Int
  PROVE  Min({a, b}) = IF a <= b THEN a ELSE b
  <1>1. \E x \in {a, b} : \A y \in {a, b} : x <= y
    BY SMT
  <1>2. Min({a, b}) \in {a, b} /\ \A y \in {a, b} : Min({a, b}) <= y
    BY <1>1 DEF Min
  <1>3. QED
    BY <1>2, SMT

LEMMA MaxOfTwo ==
  ASSUME NEW a \in Int, NEW b \in Int
  PROVE  Max({a, b}) = IF a >= b THEN a ELSE b
  <1>1. \E x \in {a, b} : \A y \in {a, b} : x >= y
    BY SMT
  <1>2. Max({a, b}) \in {a, b} /\ \A y \in {a, b} : Max({a, b}) >= y
    BY <1>1 DEF Max
  <1>3. QED
    BY <1>2, SMT

-----------------------------------------------------------------------------
(* The preparation of a table.                                             *)

\* What is memoised is the warmup of the configuration it is memoised for.
MemoIsRight == \A k \in DOMAIN warmups : warmups[k] = WarmupOf(k)

LEMMA RequiredIsCurrent == MemoIsRight => RequiredWarmup = Warmup
  BY DEF MemoIsRight, RequiredWarmup, Remembered, WarmupKey, Warmup

LEMMA MemoStep == MemoIsRight /\ [TableNext]_tableVars => MemoIsRight'
  <1> SUFFICES ASSUME MemoIsRight, [TableNext]_tableVars PROVE MemoIsRight'
    OBVIOUS
  <1>1. CASE UNCHANGED warmups
    BY <1>1 DEF MemoIsRight
  <1>2. CASE warmups' = Memoised
    <2>1. ASSUME NEW k \in DOMAIN Memoised PROVE Memoised[k] = WarmupOf(k)
      <3>1. CASE Remembered
        BY <2>1, <3>1 DEF Memoised, MemoIsRight
      <3>2. CASE ~Remembered
        BY <2>1, <3>2 DEF Memoised, MemoIsRight, WarmupKey, Warmup
      <3>3. QED
        BY <3>1, <3>2
    <2>2. QED
      BY <1>2, <2>1 DEF MemoIsRight
  <1>3. QED
    BY <1>1, <1>2
       DEF TableNext, tableVars, Configure, Refuse, FailIndicators, Enrich,
           Record, ResetMetrics

LEMMA DropsStep == MemoIsRight /\ [TableNext]_tableVars => [DropsAreCurrent]_tableVars
  <1> SUFFICES ASSUME MemoIsRight, TableNext PROVE DropsAreCurrent
    OBVIOUS
  <1>1. CASE UNCHANGED result
    BY <1>1 DEF DropsAreCurrent
  <1>2. CASE Refuse
    BY <1>2 DEF Refuse, DropsAreCurrent, EnrichmentResult
  <1>3. ASSUME NEW table \in Tables, NEW perDay \in {6, 24},
               FailIndicators(table, perDay)
        PROVE  DropsAreCurrent
    BY <1>3 DEF FailIndicators, DropsAreCurrent, EnrichmentResult
  <1>4. ASSUME NEW table \in Tables, NEW perDay \in {6, 24},
               NEW trim \in BOOLEAN, NEW strategy \in Stages, NEW risk \in Stages,
               Enrich(table, perDay, trim, strategy, risk)
        PROVE  DropsAreCurrent
    <2>1. RequiredWarmup = Warmup
      BY RequiredIsCurrent
    <2>2. CASE trim /\ table <= Warmup
      BY <1>4, <2>1, <2>2 DEF Enrich, DropsAreCurrent, EnrichmentResult
    <2>3. CASE ~(trim /\ table <= Warmup)
      BY <1>4, <2>1, <2>3 DEF Enrich, DropsAreCurrent, EnrichmentResult
    <2>4. QED
      BY <2>2, <2>3
  <1>5. QED
    BY <1>1, <1>2, <1>3, <1>4
       DEF TableNext, Configure, Record, ResetMetrics

(* The rows a call drops are those the present configuration asks for, for  *)
(* any settings, tables and limit of the memo (required_warmup,             *)
(* enrich_market_data).                                                     *)
THEOREM Warmups == TableSpec => WarmupIsCurrent
  <1>1. TableInit => MemoIsRight
    BY DEF TableInit, MemoIsRight
  <1>2. QED
    BY <1>1, MemoStep, DropsStep, PTL DEF TableSpec, WarmupIsCurrent

-----------------------------------------------------------------------------
(* Decisions.                                                              *)

\* The matrix buys at no extreme risk, and at a high one on a strong signal.
LEMMA BuysAreAdmitted ==
  ASSUME NEW outcome, NEW level, NEW holding \in BOOLEAN,
         DecideAction(outcome, level, holding).action = "buy"
  PROVE  level # "Extreme" /\ (level = "High" => outcome.signal = "Strong Buy")
  <1> DEFINE strong     == outcome.signal \in StrongSignals
             confidence == Clip(outcome.confidence \div 100, 0, 1000)
             entry      == EntryConfidence(strong, confidence,
                                           Clip(outcome.quality, 0, 1000), level)
  <1>1. outcome.signal \in LongSignals /\ entry > 0
    BY DEF DecideAction, Verdict, HoldOn
  <1>2. entry # 0
    BY <1>1
  <1>3. level = "Extreme" => entry = 0
    BY DEF EntryConfidence
  <1>4. level = "High" /\ ~strong => entry = 0
    BY DEF EntryConfidence
  <1>5. outcome.signal \in LongSignals \cap StrongSignals => outcome.signal = "Strong Buy"
    BY DEF LongSignals, StrongSignals
  <1>6. QED
    BY <1>1, <1>2, <1>3, <1>4, <1>5, Zenon

LEMMA DecisionMatches ==
  ASSUME NEW symbol, NEW holding \in BOOLEAN,
         DecisionFor(symbol, holding).action = "buy"
  PROVE  /\ data[symbol].risk.level # "Extreme"
         /\ data[symbol].risk.level = "High"
              => DecisionFor(symbol, holding).signal = "Strong Buy"
  BY BuysAreAdmitted DEF DecisionFor, RiskLevel

LEMMA DecisionStep == [DecisionNext]_decisionVars => [BuysMatchRisk]_decisionVars
  <1> SUFFICES ASSUME DecisionNext PROVE BuysMatchRisk
    OBVIOUS
  <1>1. CASE UNCHANGED decisions
    BY <1>1 DEF BuysMatchRisk
  <1>2. ASSUME NEW s \in Tracked, NEW holding \in BOOLEAN, Decide(s, holding)
        PROVE  BuysMatchRisk
    <2>1. decisions' = <<DecisionFor(s, holding)>>
      BY <1>2 DEF Decide
    <2>2. DOMAIN decisions' = {1} /\ decisions'[1] = DecisionFor(s, holding)
      BY <2>1
    <2>3. DecisionFor(s, holding).symbol = s
      BY DEF DecisionFor
    <2>4. ASSUME NEW i \in DOMAIN decisions', decisions'[i].action = "buy"
          PROVE  /\ data[decisions'[i].symbol].risk.level # "Extreme"
                 /\ data[decisions'[i].symbol].risk.level = "High"
                      => decisions'[i].signal = "Strong Buy"
      <3>1. decisions'[i] = DecisionFor(s, holding)
        BY <2>2
      <3>2. QED
        BY <2>3, <2>4, <3>1, DecisionMatches, Zenon
    <2>5. QED
      BY <2>4, Zenon DEF BuysMatchRisk
  <1>3. ASSUME NEW held \in SUBSET Tracked, NEW top \in DOMAIN Order,
               DecideBatch(held, top)
        PROVE  BuysMatchRisk
    <2> DEFINE all == [i \in DOMAIN Order |-> DecisionFor(Order[i], Order[i] \in held)]
    <2>1. PICK ranking \in [DOMAIN Order -> DOMAIN Order] :
             decisions' = [i \in 1..Min({top, Len(Order)}) |-> all[ranking[i]]]
      BY <1>3 DEF DecideBatch
    <2>2. Len(Order) \in Nat /\ DOMAIN Order = 1..Len(Order)
      BY DecisionAssumption
    <2>3. Min({top, Len(Order)}) \in DOMAIN Order
      BY <2>2, MinOfTwo
    <2>4. ASSUME NEW i \in DOMAIN decisions', decisions'[i].action = "buy"
          PROVE  /\ data[decisions'[i].symbol].risk.level # "Extreme"
                 /\ data[decisions'[i].symbol].risk.level = "High"
                      => decisions'[i].signal = "Strong Buy"
      <3>1. i \in DOMAIN Order /\ decisions'[i] = all[ranking[i]]
        BY <2>1, <2>2, <2>3
      <3>2. PICK j \in DOMAIN Order :
               decisions'[i] = DecisionFor(Order[j], Order[j] \in held)
        BY <2>1, <3>1
      <3>3. decisions'[i].symbol = Order[j]
        BY <3>2 DEF DecisionFor
      <3>4. (Order[j] \in held) \in BOOLEAN
        OBVIOUS
      <3>5. QED
        BY <2>4, <3>2, <3>3, <3>4, DecisionMatches, Zenon
    <2>5. QED
      BY <2>4, Zenon DEF BuysMatchRisk
  <1>4. QED
    BY <1>1, <1>2, <1>3 DEF DecisionNext, Replace, Refresh

(* No decision buys against the risk of the data as they are when it is     *)
(* taken, alone or in a batch, for any data and any order of symbols        *)
(* (get_trading_decision, get_trading_decision_batch).                      *)
THEOREM Buys == DecisionSpec => BuyMatchesRisk
  <1>1. QED
    BY DecisionStep, PTL DEF DecisionSpec, BuyMatchesRisk

-----------------------------------------------------------------------------
(* The assessment of many rows: the cache.                                 *)

\* An entry holds what was worked out for its key, at its time or later.
Entry ==
  {e \in [key : Keys, at : Nat, result : Assessment] :
     e.result.key = e.key /\ e.at <= e.result.began}

Unique(s) == \A i, j \in DOMAIN s : s[i].key = s[j].key => i = j

SoundCache(s) == s \in Seq(Entry) /\ Len(s) <= MaxSize /\ Unique(s)

LEMMA Removal ==
  ASSUME NEW s, SoundCache(s), NEW i \in DOMAIN s
  PROVE  /\ SoundCache(RemoveAt(s, i))
         /\ Len(RemoveAt(s, i)) < MaxSize
         /\ \A j \in DOMAIN RemoveAt(s, i) : RemoveAt(s, i)[j].key # s[i].key
  <1> DEFINE before == SubSeq(s, 1, i - 1)
             after  == SubSeq(s, i + 1, Len(s))
             rest   == RemoveAt(s, i)
             from(j) == IF j < i THEN j ELSE j + 1
  <1>1. s \in Seq(Entry) /\ Len(s) \in Nat /\ i \in 1..Len(s) /\ MaxSize \in Nat
    BY BatchAssumption DEF SoundCache
  <1>2. before \in Seq(Entry) /\ Len(before) = i - 1 /\ \A j \in 1..(i - 1) : before[j] = s[j]
    BY <1>1
  <1>3. /\ after \in Seq(Entry) /\ Len(after) = Len(s) - i
        /\ \A j \in 1..(Len(s) - i) : after[j] = s[i + j]
    BY <1>1
  <1> HIDE DEF before, after
  <1>4. rest = before \o after
    BY DEF RemoveAt, before, after
  <1>5. rest \in Seq(Entry) /\ Len(rest) = Len(s) - 1
    BY <1>1, <1>2, <1>3, <1>4
  <1>6. ASSUME NEW j \in DOMAIN rest
        PROVE  from(j) \in DOMAIN s /\ from(j) # i /\ rest[j] = s[from(j)]
    <2>1. j \in 1..(Len(s) - 1)
      BY <1>5
    <2>2. CASE j < i
      BY <1>1, <1>2, <1>3, <1>4, <2>1, <2>2
    <2>3. CASE ~(j < i)
      <3>1. rest[j] = after[j - (i - 1)]
        BY <1>1, <1>2, <1>3, <1>4, <2>1, <2>3
      <3>2. QED
        BY <1>1, <1>3, <2>1, <2>3, <3>1
    <2>4. QED
      BY <2>2, <2>3
  <1>7. \A j, k \in DOMAIN rest : from(j) = from(k) => j = k
    BY <1>1, <1>5
  <1> HIDE DEF rest, from
  <1>8. Unique(rest)
    BY <1>6, <1>7 DEF SoundCache, Unique
  <1>9. \A j \in DOMAIN rest : rest[j].key # s[i].key
    BY <1>6 DEF SoundCache, Unique
  <1>10. Len(rest) < MaxSize
    BY <1>1, <1>5 DEF SoundCache
  <1>11. QED
    BY <1>1, <1>5, <1>8, <1>9, <1>10 DEF SoundCache, rest

LEMMA Addition ==
  ASSUME NEW s, SoundCache(s), Len(s) < MaxSize, NEW e \in Entry,
         \A j \in DOMAIN s : s[j].key # e.key
  PROVE  SoundCache(Append(s, e))
  <1>1. s \in Seq(Entry) /\ Len(s) \in Nat /\ MaxSize \in Nat
    BY BatchAssumption DEF SoundCache
  <1>2. Append(s, e) \in Seq(Entry) /\ Len(Append(s, e)) = Len(s) + 1
    BY <1>1
  <1>3. ASSUME NEW j \in DOMAIN Append(s, e)
        PROVE  \/ j \in DOMAIN s /\ Append(s, e)[j] = s[j]
               \/ j = Len(s) + 1 /\ Append(s, e)[j] = e
    BY <1>1, <1>2
  <1>4. Unique(Append(s, e))
    BY <1>3 DEF SoundCache, Unique
  <1>5. QED
    BY <1>1, <1>2, <1>4 DEF SoundCache

LEMMA Replacement ==
  ASSUME NEW s, SoundCache(s), NEW e \in Entry,
         NEW i \in DOMAIN s, s[i].key = e.key
  PROVE  SoundCache([s EXCEPT ![i] = e])
  <1>1. s \in Seq(Entry) /\ Len(s) \in Nat
    BY DEF SoundCache
  <1>2. [s EXCEPT ![i] = e] \in Seq(Entry) /\ Len([s EXCEPT ![i] = e]) = Len(s)
    BY <1>1
  <1>3. \A j \in DOMAIN s : [s EXCEPT ![i] = e][j].key = s[j].key
    BY <1>1
  <1>4. QED
    BY <1>1, <1>2, <1>3 DEF SoundCache, Unique

LEMMA RoomIsMade == SoundCache(store) => SoundCache(Room) /\ Len(Room) < MaxSize
  <1> SUFFICES ASSUME SoundCache(store) PROVE SoundCache(Room) /\ Len(Room) < MaxSize
    OBVIOUS
  <1>1. store \in Seq(Entry) /\ Len(store) \in Nat /\ MaxSize \in Nat \ {0}
    BY BatchAssumption DEF SoundCache
  <1>2. CASE Len(store) >= MaxSize
    <2>1. Room = Tail(store) /\ Len(store) = MaxSize /\ store # <<>>
      BY <1>1, <1>2 DEF Room, SoundCache
    <2>2. /\ Room \in Seq(Entry) /\ Len(Room) = Len(store) - 1
          /\ \A j \in 1..(Len(store) - 1) : Room[j] = store[j + 1]
      BY <1>1, <2>1
    <2>3. Unique(Room)
      <3>1. SUFFICES ASSUME NEW j \in DOMAIN Room, NEW k \in DOMAIN Room,
                            Room[j].key = Room[k].key
                     PROVE  j = k
        BY DEF Unique
      <3>2. j \in 1..(Len(store) - 1) /\ k \in 1..(Len(store) - 1)
        BY <2>2
      <3>3. j + 1 \in DOMAIN store /\ k + 1 \in DOMAIN store
        BY <1>1, <3>2
      <3>4. store[j + 1].key = store[k + 1].key
        BY <2>2, <3>1, <3>2
      <3>5. j + 1 = k + 1
        BY <3>3, <3>4 DEF SoundCache, Unique
      <3>6. QED
        BY <3>2, <3>5
    <2>4. QED
      BY <1>1, <2>1, <2>2, <2>3 DEF SoundCache
  <1>3. CASE ~(Len(store) >= MaxSize)
    BY <1>1, <1>3 DEF Room, SoundCache
  <1>4. QED
    BY <1>2, <1>3

-----------------------------------------------------------------------------
(* The assessment of many rows: the threads and what they hand over.       *)

Outcomes == Assessment \cup {Default}
Future   == [row : Nat, asked : Nat, result : Outcomes]
Worker   == [at : {"idle", "look", "compute", "store"}, row : Nat, now : Nat,
             result : Outcomes]

BatchTypes ==
  /\ clock \in Nat
  /\ batch \in [phase : {"running", "closing", "done"}, cached : BOOLEAN,
                rows : Seq(Keys), queued : SUBSET Nat, finished : SUBSET Future,
                results : Seq(Outcomes), late : BOOLEAN]
  /\ threads \in [Threads -> Worker]
  /\ batch.queued \subseteq RowIndices
  /\ DOMAIN batch.results = RowIndices

\* A future is of a row of the batch, and has the row's own result, in time.
Sound(future) ==
  /\ future.row \in RowIndices
  /\ future.result = Default => batch.rows[future.row] \in Failing
  /\ future.result # Default =>
       /\ future.result.key = batch.rows[future.row]
       /\ future.asked - future.result.began < TTL

FuturesSound == \A future \in batch.finished : Sound(future)

\* A thread at work has a row of the batch, asked before it computed, and
\* stores what it computed for its row.
ThreadSound(t) ==
  threads[t].at # "idle" =>
    /\ threads[t].row \in RowIndices /\ threads[t].now <= clock
    /\ threads[t].at = "store" =>
         /\ threads[t].result \in Assessment
         /\ threads[t].result.key = KeyOf(t)
         /\ threads[t].now <= threads[t].result.began

ThreadsSound == \A t \in Threads : ThreadSound(t)

ResultsSound ==
  \A i \in RowIndices :
    batch.results[i] # Default => batch.results[i].key = batch.rows[i]

\* A batch that is over has nothing left anywhere.
DoneIsDone ==
  batch.phase = "done" =>
    /\ batch.queued = {} /\ batch.finished = {}
    /\ \A t \in Threads : threads[t].at = "idle"

Under(t, i) == threads[t].at # "idle" /\ threads[t].row = i

\* As long as the time is not over, every row is somewhere.
Accounted ==
  ~batch.late => \A i \in RowIndices :
    \/ batch.results[i] # Default \/ batch.rows[i] \in Failing
    \/ i \in batch.queued
    \/ \E future \in batch.finished : future.row = i
    \/ \E t \in Threads : Under(t, i)

LateCloses == batch.phase = "closing" => batch.late /\ batch.queued = {}

BatchInv ==
  /\ BatchTypes /\ SoundCache(store) /\ FuturesSound /\ ThreadsSound
  /\ ResultsSound /\ DoneIsDone /\ Accounted /\ LateCloses

LEMMA InitBatch == BatchInit => BatchInv
  <1> SUFFICES ASSUME BatchInit PROVE BatchInv
    OBVIOUS
  <1>1. SoundCache(store)
    BY BatchAssumption DEF BatchInit, SoundCache, Unique
  <1>2. batch = NoBatch /\ DOMAIN batch.rows = {} /\ threads = [t \in Threads |-> Idle]
    BY DEF BatchInit, NoBatch
  <1>3. BatchTypes
    <2>1. <<>> \in Seq(Keys) /\ <<>> \in Seq(Outcomes) /\ DOMAIN <<>> = {}
      OBVIOUS
    <2>2. Idle \in Worker
      BY DEF Idle, Worker, Outcomes
    <2>3. QED
      BY <1>2, <2>1, <2>2 DEF BatchTypes, NoBatch, RowIndices, BatchInit
  <1>4. QED
    BY <1>1, <1>2, <1>3
       DEF BatchInv, FuturesSound, ThreadsSound, ThreadSound, ResultsSound, DoneIsDone,
           Accounted, LateCloses, NoBatch, Idle, RowIndices

(* A thread that hands over its row's own result, computed in time, leaves  *)
(* everything in order; the cache is a matter of its own.                   *)
LEMMA Delivered ==
  ASSUME BatchInv, NEW t \in Threads, NEW value \in Outcomes,
         threads[t].at # "idle",
         Deliver(t, value), UNCHANGED clock, SoundCache(store'),
         value = Default => KeyOf(t) \in Failing,
         value # Default => value.key = KeyOf(t)
                             /\ threads[t].now - value.began < TTL
  PROVE  BatchInv'
  <1> DEFINE future == [row |-> threads[t].row, asked |-> threads[t].now, result |-> value]
  <1>1. BatchTypes /\ threads[t] \in Worker /\ threads[t].row \in RowIndices
    BY DEF BatchInv, BatchTypes, ThreadsSound, ThreadSound
  <1>2. future \in Future
    BY <1>1 DEF Worker, Future
  <1>3. Idle \in Worker
    BY DEF Idle, Worker, Outcomes
  <1>4. /\ batch' = [batch EXCEPT !.finished = @ \cup {future}]
        /\ threads' = [threads EXCEPT ![t] = Idle]
    BY DEF Deliver
  <1> HIDE DEF future
  <1>5. /\ batch'.rows = batch.rows /\ batch'.results = batch.results
        /\ batch'.queued = batch.queued /\ batch'.late = batch.late
        /\ batch'.phase = batch.phase
        /\ batch'.finished = batch.finished \cup {future}
    BY <1>1, <1>4 DEF BatchTypes
  <1>6. threads'[t].at = "idle" /\ \A u \in Threads : u # t => threads'[u] = threads[u]
    BY <1>1, <1>4 DEF BatchTypes, Idle
  <1>7. BatchTypes'
    BY <1>1, <1>2, <1>3, <1>4, <1>5 DEF BatchTypes, RowIndices
  <1>8. FuturesSound'
    <2>1. ASSUME NEW f \in batch'.finished PROVE Sound(f)'
      <3>1. CASE f \in batch.finished
        BY <1>5, <3>1 DEF BatchInv, FuturesSound, Sound, RowIndices
      <3>2. CASE f = future
        BY <1>1, <1>5, <3>2 DEF future, Sound, RowIndices, KeyOf
      <3>3. QED
        BY <1>5, <2>1, <3>1, <3>2
    <2>2. QED
      BY <2>1 DEF FuturesSound
  <1>9. ThreadsSound'
    <2>1. ASSUME NEW u \in Threads PROVE ThreadSound(u)'
      <3>1. CASE u = t
        BY <1>6, <3>1 DEF ThreadSound
      <3>2. CASE u # t
        BY <1>5, <1>6, <3>2 DEF BatchInv, ThreadsSound, ThreadSound, KeyOf, RowIndices
      <3>3. QED
        BY <3>1, <3>2
    <2>2. QED
      BY <2>1 DEF ThreadsSound
  <1>10. ResultsSound' /\ LateCloses'
    BY <1>5 DEF BatchInv, ResultsSound, LateCloses, RowIndices
  <1>11. DoneIsDone'
    <2>1. batch.phase # "done"
      BY DEF BatchInv, DoneIsDone
    <2>2. QED
      BY <1>5, <2>1 DEF DoneIsDone
  <1>12. Accounted'
    <2>1. SUFFICES ASSUME ~batch.late, NEW i \in RowIndices
                   PROVE  \/ batch.results[i] # Default \/ batch.rows[i] \in Failing
                          \/ i \in batch.queued
                          \/ \E f \in batch'.finished : f.row = i
                          \/ \E u \in Threads : Under(u, i)'
      BY <1>5 DEF Accounted, RowIndices
    <2>2. CASE \E u \in Threads : Under(u, i)
      <3>1. PICK u \in Threads : Under(u, i)
        BY <2>2
      <3>2. CASE u = t
        <4>1. future \in batch'.finished /\ future.row = i
          BY <1>5, <3>1, <3>2 DEF Under, future
        <4>2. QED
          BY <4>1
      <3>3. CASE u # t
        BY <1>6, <3>1, <3>3 DEF Under
      <3>4. QED
        BY <3>2, <3>3
    <2>3. CASE ~\E u \in Threads : Under(u, i)
      BY <1>5, <2>1, <2>3 DEF BatchInv, Accounted
    <2>4. QED
      BY <2>2, <2>3
  <1>13. QED
    BY <1>7, <1>8, <1>9, <1>10, <1>11, <1>12 DEF BatchInv

\* What a step leaves alone when only a thread goes on with its row.
LEMMA ThreadGoesOn ==
  ASSUME BatchInv, NEW t \in Threads, NEW w \in Worker,
         threads[t].at # "idle", w.at # "idle", w.row = threads[t].row,
         threads' = [threads EXCEPT ![t] = w],
         UNCHANGED <<clock, batch>>, SoundCache(store'), ThreadSound(t)'
  PROVE  BatchInv'
  <1>1. BatchTypes
    BY DEF BatchInv
  <1>2. threads'[t] = w /\ \A u \in Threads : u # t => threads'[u] = threads[u]
    BY <1>1 DEF BatchTypes
  <1>3. BatchTypes'
    BY <1>1 DEF BatchTypes, RowIndices
  <1>4. ThreadsSound'
    <2>1. ASSUME NEW u \in Threads, u # t PROVE ThreadSound(u)'
      BY <1>2, <2>1 DEF BatchInv, ThreadsSound, ThreadSound, KeyOf, RowIndices
    <2>2. QED
      BY <2>1 DEF ThreadsSound
  <1>5. FuturesSound' /\ ResultsSound' /\ LateCloses'
    BY DEF BatchInv, FuturesSound, Sound, ResultsSound, LateCloses, RowIndices
  <1>6. DoneIsDone'
    BY DEF BatchInv, DoneIsDone
  <1>7. ASSUME NEW i, NEW u \in Threads, Under(u, i) PROVE Under(u, i)'
    BY <1>2, <1>7 DEF Under
  <1>8. Accounted'
    BY <1>7 DEF BatchInv, Accounted, RowIndices
  <1>9. QED
    BY <1>3, <1>4, <1>5, <1>6, <1>8 DEF BatchInv

LEMMA LookStep ==
  ASSUME BatchInv, NEW t \in Threads, Look(t)
  PROVE  BatchInv'
  <1>1. /\ BatchTypes /\ threads[t] \in Worker /\ threads[t].at = "look"
        /\ SoundCache(store) /\ store \in Seq(Entry)
    BY DEF BatchInv, BatchTypes, SoundCache, Look
  <1>2. CASE Entries(KeyOf(t)) = {} /\ GoOn(t) /\ UNCHANGED store /\ UNCHANGED clock
    <2> DEFINE w == [threads[t] EXCEPT !.at = "compute"]
    <2>1. w \in Worker /\ w.at = "compute" /\ w.row = threads[t].row /\ w.now = threads[t].now
      BY <1>1 DEF Worker
    <2>2. threads' = [threads EXCEPT ![t] = w] /\ threads'[t] = w
      BY <1>1, <1>2 DEF GoOn, BatchTypes
    <2>3. ThreadSound(t)'
      BY <1>1, <1>2, <2>1, <2>2
         DEF GoOn, BatchInv, ThreadsSound, ThreadSound, RowIndices
    <2> HIDE DEF w
    <2>4. QED
      BY <1>1, <1>2, <2>1, <2>2, <2>3, ThreadGoesOn DEF GoOn
  <1>3. ASSUME NEW i \in Entries(KeyOf(t)), Live(t, store[i]), UNCHANGED clock,
               store' = Append(RemoveAt(store, i), store[i]), Deliver(t, store[i].result)
        PROVE  BatchInv'
    <2>1. i \in DOMAIN store /\ store[i].key = KeyOf(t) /\ store[i] \in Entry
      BY <1>1, <1>3 DEF Entries
    <2>2. SoundCache(store')
      BY <1>1, <1>3, <2>1, Removal, Addition
    <2>3. /\ store[i].result \in Assessment /\ store[i].result.key = KeyOf(t)
          /\ store[i].at <= store[i].result.began
          /\ store[i].at \in Nat /\ store[i].result.began \in Nat
      BY <2>1 DEF Entry, Assessment
    <2>4. store[i].result # Default /\ store[i].result \in Outcomes
      BY <2>3, BatchAssumption DEF Outcomes
    <2>5. threads[t].now - store[i].result.began < TTL
      BY <1>1, <1>3, <2>3, BatchAssumption DEF Live, Worker
    <2>6. QED
      BY <1>1, <1>3, <2>2, <2>3, <2>4, <2>5, Delivered
  <1>4. ASSUME NEW i \in Entries(KeyOf(t)), store' = RemoveAt(store, i), GoOn(t),
               UNCHANGED clock
        PROVE  BatchInv'
    <2> DEFINE w == [threads[t] EXCEPT !.at = "compute"]
    <2>1. w \in Worker /\ w.at = "compute" /\ w.row = threads[t].row /\ w.now = threads[t].now
      BY <1>1 DEF Worker
    <2>2. threads' = [threads EXCEPT ![t] = w] /\ threads'[t] = w
      BY <1>1, <1>4 DEF GoOn, BatchTypes
    <2>3. ThreadSound(t)'
      BY <1>1, <1>4, <2>1, <2>2
         DEF GoOn, BatchInv, ThreadsSound, ThreadSound, RowIndices
    <2>4. SoundCache(store')
      BY <1>1, <1>4, Removal DEF Entries
    <2> HIDE DEF w
    <2>5. QED
      BY <1>1, <1>4, <2>1, <2>2, <2>3, <2>4, ThreadGoesOn DEF GoOn
  <1>5. QED
    BY <1>2, <1>3, <1>4 DEF Look

LEMMA ComputeStep ==
  ASSUME BatchInv, NEW t \in Threads, Compute(t)
  PROVE  BatchInv'
  <1> DEFINE made == [key |-> KeyOf(t), began |-> clock]
  <1>1. /\ BatchTypes /\ threads[t] \in Worker /\ threads[t].at = "compute"
        /\ SoundCache(store)
    BY DEF BatchInv, BatchTypes, Compute
  <1>2. threads[t].row \in RowIndices /\ threads[t].now <= clock
    BY <1>1 DEF BatchInv, ThreadsSound, ThreadSound
  <1>3. KeyOf(t) \in Keys
    BY <1>1, <1>2 DEF BatchTypes, KeyOf, RowIndices
  <1>4. made \in Assessment /\ made # Default /\ made \in Outcomes
    BY <1>1, <1>3, BatchAssumption DEF Assessment, BatchTypes, Outcomes
  <1>5. threads[t].now - made.began < TTL
    BY <1>1, <1>2, BatchAssumption DEF BatchTypes, Worker
  <1>6. CASE KeyOf(t) \in Failing /\ Deliver(t, Default) /\ UNCHANGED <<clock, store>>
    BY <1>1, <1>6, Delivered DEF Outcomes
  <1>7. CASE Deliver(t, made) /\ UNCHANGED <<clock, store>>
    <2>1. made.key = KeyOf(t)
      OBVIOUS
    <2> HIDE DEF made
    <2>2. QED
      BY <1>1, <1>4, <1>5, <1>7, <2>1, Delivered
  <1>8. CASE threads' = [threads EXCEPT ![t].at = "store", ![t].result = made]
             /\ UNCHANGED <<clock, store, batch>>
    <2> DEFINE w == [threads[t] EXCEPT !.at = "store", !.result = made]
    <2>1. /\ w \in Worker /\ w.at = "store" /\ w.row = threads[t].row
          /\ w.now = threads[t].now /\ w.result = made
      BY <1>1, <1>4 DEF Worker
    <2>2. threads' = [threads EXCEPT ![t] = w] /\ threads'[t] = w
      BY <1>1, <1>8 DEF BatchTypes
    <2>3. made.key = KeyOf(t) /\ made.began = clock
      OBVIOUS
    <2>4. KeyOf(t)' = KeyOf(t)
      BY <1>8, <2>1, <2>2 DEF KeyOf
    <2> HIDE DEF w, made
    <2>5. ThreadSound(t)'
      BY <1>1, <1>2, <1>4, <1>8, <2>1, <2>2, <2>3, <2>4 DEF ThreadSound, RowIndices
    <2>6. QED
      BY <1>1, <1>8, <2>1, <2>2, <2>5, ThreadGoesOn
  <1>9. QED
    BY <1>6, <1>7, <1>8 DEF Compute

LEMMA StoreStep ==
  ASSUME BatchInv, NEW t \in Threads, Store(t)
  PROVE  BatchInv'
  <1> DEFINE value  == threads[t].result
             entry  == [key |-> KeyOf(t), at |-> threads[t].now, result |-> value]
             there  == {i \in DOMAIN Room : Room[i].key = entry.key}
  <1>1. /\ BatchTypes /\ threads[t] \in Worker /\ threads[t].at = "store"
        /\ SoundCache(store)
    BY DEF BatchInv, BatchTypes, Store
  <1>2. /\ threads[t].row \in RowIndices /\ value \in Assessment
        /\ value.key = KeyOf(t) /\ threads[t].now <= value.began
    BY <1>1 DEF BatchInv, ThreadsSound, ThreadSound
  <1>3. KeyOf(t) \in Keys /\ threads[t].now \in Nat
    BY <1>1, <1>2 DEF BatchTypes, KeyOf, RowIndices, Worker
  <1>4. entry \in Entry /\ entry.key = KeyOf(t)
    BY <1>2, <1>3 DEF Entry
  <1>5. SoundCache(Room) /\ Len(Room) < MaxSize
    BY <1>1, RoomIsMade
  <1>6. /\ store' = IF there = {} THEN Append(Room, entry)
                    ELSE [Room EXCEPT ![Min(there)] = entry]
        /\ Deliver(t, value) /\ UNCHANGED clock
    BY DEF Store, DatedAt
  <1>7. SoundCache(store')
    <2> HIDE DEF entry
    <2>1. CASE there = {}
      BY <1>4, <1>5, <1>6, <2>1, Addition
    <2>2. CASE there # {}
      <3>1. there \in SUBSET Nat
        BY <1>5 DEF SoundCache
      <3>2. Min(there) \in there
        BY <2>2, <3>1, MinIsLeast
      <3>3. QED
        BY <1>4, <1>5, <1>6, <2>2, <3>2, Replacement
    <2>3. QED
      BY <2>1, <2>2
  <1>8. value # Default /\ value \in Outcomes
    BY <1>2, BatchAssumption DEF Outcomes
  <1>9. threads[t].now - value.began < TTL
    BY <1>2, <1>3, BatchAssumption DEF Assessment
  <1>10. QED
    BY <1>1, <1>2, <1>6, <1>7, <1>8, <1>9, Delivered

LEMMA SubmitStep ==
  ASSUME BatchInv, NEW some \in Batches, NEW cached \in BOOLEAN, Submit(some, cached)
  PROVE  BatchInv'
  <1>1. BatchTypes /\ DoneIsDone /\ batch.phase = "done"
    BY DEF BatchInv, Submit
  <1>2. \A t \in Threads : threads[t].at = "idle"
    BY <1>1 DEF DoneIsDone
  <1>3. some \in Seq(Keys) /\ DOMAIN some \in SUBSET Nat
    BY BatchAssumption
  <1>4. [k \in DOMAIN some |-> Default] \in Seq(Outcomes)
    BY <1>3 DEF Outcomes
  <1>5. /\ batch' = [phase |-> "running", cached |-> cached, rows |-> some,
                     queued |-> DOMAIN some, finished |-> {},
                     results |-> [k \in DOMAIN some |-> Default], late |-> FALSE]
        /\ UNCHANGED <<clock, store, threads>>
    BY DEF Submit
  <1>6. BatchTypes'
    BY <1>1, <1>3, <1>4, <1>5 DEF BatchTypes, RowIndices
  <1>7. SoundCache(store)'
    BY <1>5 DEF BatchInv, SoundCache, Unique
  <1>8. FuturesSound' /\ ThreadsSound' /\ ResultsSound' /\ DoneIsDone' /\ Accounted' /\ LateCloses'
    BY <1>2, <1>5
       DEF FuturesSound, ThreadsSound, ThreadSound, ResultsSound, DoneIsDone, Accounted,
           LateCloses, RowIndices
  <1>9. QED
    BY <1>6, <1>7, <1>8 DEF BatchInv

LEMMA TakeStep ==
  ASSUME BatchInv, NEW t \in Threads, Take(t)
  PROVE  BatchInv'
  <1> DEFINE first == Min(batch.queued)
             w == [at |-> IF batch.cached THEN "look" ELSE "compute",
                   row |-> first, now |-> clock, result |-> Default]
  <1>1. BatchTypes /\ batch.queued # {} /\ threads[t].at = "idle"
    BY DEF BatchInv, Take
  <1>2. first \in batch.queued /\ first \in RowIndices /\ first \in Nat
    BY <1>1, MinIsLeast DEF BatchTypes
  <1>3. batch' = [batch EXCEPT !.queued = @ \ {first}]
        /\ threads' = [threads EXCEPT ![t] = w] /\ UNCHANGED <<clock, store>>
    BY DEF Take
  <1>4. w \in Worker /\ w.at \in {"look", "compute"} /\ w.row = first /\ w.now = clock
    BY <1>1, <1>2 DEF Worker, Outcomes, BatchTypes
  <1> HIDE DEF w, first
  <1>5. /\ batch'.rows = batch.rows /\ batch'.results = batch.results
        /\ batch'.finished = batch.finished /\ batch'.late = batch.late
        /\ batch'.phase = batch.phase /\ batch'.queued = batch.queued \ {first}
    BY <1>1, <1>3 DEF BatchTypes
  <1>6. threads'[t] = w /\ \A u \in Threads : u # t => threads'[u] = threads[u]
    BY <1>1, <1>3 DEF BatchTypes
  <1>7. BatchTypes'
    BY <1>1, <1>3, <1>4, <1>5 DEF BatchTypes, RowIndices
  <1>8. FuturesSound' /\ ResultsSound' /\ LateCloses'
    BY <1>5 DEF BatchInv, FuturesSound, Sound, ResultsSound, LateCloses, RowIndices
  <1>9. ThreadsSound'
    <2>1. ThreadSound(t)'
      BY <1>1, <1>2, <1>3, <1>4, <1>5, <1>6 DEF ThreadSound, RowIndices, BatchTypes
    <2>2. ASSUME NEW u \in Threads, u # t PROVE ThreadSound(u)'
      BY <1>3, <1>5, <1>6, <2>2 DEF BatchInv, ThreadsSound, ThreadSound, KeyOf, RowIndices
    <2>3. QED
      BY <2>1, <2>2 DEF ThreadsSound
  <1>10. DoneIsDone'
    BY <1>1, <1>5 DEF BatchInv, DoneIsDone
  <1>11. Accounted'
    <2>1. ASSUME NEW k, NEW u \in Threads, Under(u, k) PROVE Under(u, k)'
      BY <1>1, <1>6, <2>1 DEF Under
    <2>2. threads'[t].at \in {"look", "compute"} /\ threads'[t].row = first
      BY <1>4, <1>6
    <2>3. ASSUME NEW k, k = first PROVE Under(t, k)'
      BY <2>2, <2>3 DEF Under
    <2>4. ASSUME ~batch.late, NEW k \in RowIndices
          PROVE  \/ batch'.results[k] # Default \/ batch'.rows[k] \in Failing
                 \/ k \in batch'.queued
                 \/ \E future \in batch'.finished : future.row = k
                 \/ \E u \in Threads : Under(u, k)'
      <3>1. CASE k \in batch.queued
        BY <1>5, <2>3, <3>1
      <3>2. CASE \E u \in Threads : Under(u, k)
        BY <2>1, <3>2
      <3>3. QED
        BY <1>5, <2>4, <3>1, <3>2 DEF BatchInv, Accounted
    <2>5. QED
      BY <1>5, <2>4 DEF Accounted, RowIndices
  <1>12. SoundCache(store)'
    BY <1>3 DEF BatchInv, SoundCache, Unique
  <1>13. QED
    BY <1>7, <1>8, <1>9, <1>10, <1>11, <1>12 DEF BatchInv

LEMMA CollectStep == ASSUME BatchInv, Collect PROVE BatchInv'
  <1>1. BatchTypes /\ batch.phase = "running"
    BY DEF BatchInv, Collect
  <1>2. PICK future \in batch.finished :
           batch' = [batch EXCEPT !.results[future.row] = future.result,
                                  !.finished = @ \ {future}]
    BY DEF Collect, PlaceOf
  <1>3. UNCHANGED <<clock, store, threads>>
    BY DEF Collect
  <1>4. future \in Future /\ Sound(future) /\ future.row \in RowIndices
    BY <1>1, <1>2 DEF BatchTypes, BatchInv, FuturesSound, Sound
  <1>5. /\ batch'.rows = batch.rows /\ batch'.late = batch.late
        /\ batch'.results = [batch.results EXCEPT ![future.row] = future.result]
        /\ batch'.finished = batch.finished \ {future}
        /\ batch'.phase = batch.phase /\ batch'.queued = batch.queued
    BY <1>1, <1>2 DEF BatchTypes
  <1>6. batch'.results \in Seq(Outcomes) /\ DOMAIN batch'.results = DOMAIN batch.results
    BY <1>1, <1>4, <1>5 DEF BatchTypes, Future
  <1>7. BatchTypes'
    <2>1. batch' \in [phase : {"running", "closing", "done"}, cached : BOOLEAN,
                      rows : Seq(Keys), queued : SUBSET Nat, finished : SUBSET Future,
                      results : Seq(Outcomes), late : BOOLEAN]
      BY <1>1, <1>2, <1>5, <1>6 DEF BatchTypes
    <2>2. QED
      BY <1>1, <1>3, <1>5, <1>6, <2>1 DEF BatchTypes, RowIndices
  <1>8. FuturesSound' /\ LateCloses'
    BY <1>5 DEF BatchInv, FuturesSound, Sound, LateCloses, RowIndices
  <1>9. ThreadsSound' /\ SoundCache(store)'
    BY <1>3, <1>5
       DEF BatchInv, ThreadsSound, ThreadSound, KeyOf, RowIndices, SoundCache, Unique
  <1>10. DoneIsDone'
    BY <1>1, <1>5 DEF DoneIsDone
  <1>11. \A k \in RowIndices :
           batch'.results[k] = IF k = future.row THEN future.result ELSE batch.results[k]
    BY <1>1, <1>5 DEF BatchTypes
  <1>12. ResultsSound'
    BY <1>4, <1>5, <1>11 DEF BatchInv, ResultsSound, Sound, RowIndices
  <1>13. Accounted'
    <2>1. SUFFICES ASSUME ~batch.late, NEW k \in RowIndices
                   PROVE  \/ batch'.results[k] # Default \/ batch.rows[k] \in Failing
                          \/ k \in batch.queued
                          \/ \E f \in batch'.finished : f.row = k
                          \/ \E u \in Threads : Under(u, k)'
      BY <1>5 DEF Accounted, RowIndices
    <2>2. CASE k = future.row
      BY <1>4, <1>11, <2>1, <2>2 DEF Sound
    <2>3. CASE k # future.row
      <3>1. ASSUME NEW f \in batch.finished, f.row = k PROVE f \in batch'.finished
        BY <1>5, <2>3, <3>1
      <3>2. ASSUME NEW u \in Threads, Under(u, k) PROVE Under(u, k)'
        BY <1>3, <3>2 DEF Under
      <3>3. batch'.results[k] = batch.results[k]
        BY <1>11, <2>3
      <3>4. QED
        BY <2>1, <3>1, <3>2, <3>3 DEF BatchInv, Accounted
    <2>4. QED
      BY <2>2, <2>3
  <1>14. QED
    BY <1>7, <1>8, <1>9, <1>10, <1>12, <1>13 DEF BatchInv

LEMMA TimeOutStep == ASSUME BatchInv, TimeOut PROVE BatchInv'
  <1>1. BatchTypes /\ batch' = [batch EXCEPT !.phase = "closing", !.queued = {}, !.late = TRUE]
        /\ UNCHANGED <<clock, store, threads>>
    BY DEF BatchInv, TimeOut
  <1>2. /\ batch'.rows = batch.rows /\ batch'.results = batch.results
        /\ batch'.finished = batch.finished /\ batch'.late
        /\ batch'.phase = "closing" /\ batch'.queued = {}
    BY <1>1 DEF BatchTypes
  <1>3. BatchTypes'
    BY <1>1, <1>2 DEF BatchTypes, RowIndices
  <1>4. QED
    BY <1>1, <1>2, <1>3
       DEF BatchInv, FuturesSound, Sound, ThreadsSound, ThreadSound, KeyOf, ResultsSound,
           DoneIsDone, Accounted, LateCloses, RowIndices, SoundCache, Unique

LEMMA ReturnStep == ASSUME BatchInv, Return PROVE BatchInv'
  <1>1. BatchTypes /\ batch' = [batch EXCEPT !.phase = "done", !.finished = {}]
        /\ UNCHANGED <<clock, store, threads>>
    BY DEF BatchInv, Return
  <1>2. /\ batch'.rows = batch.rows /\ batch'.results = batch.results
        /\ batch'.finished = {} /\ batch'.late = batch.late
        /\ batch'.phase = "done" /\ batch'.queued = batch.queued
    BY <1>1 DEF BatchTypes
  <1>3. BatchTypes'
    BY <1>1, <1>2 DEF BatchTypes, RowIndices
  <1>4. \A t \in Threads : threads[t].at = "idle"
    BY DEF Return, Uncollected
  <1>5. CASE batch.phase = "running" /\ ~Uncollected
    <2>1. batch.queued = {} /\ batch.finished = {}
      BY <1>5 DEF Uncollected
    <2>2. Accounted' /\ DoneIsDone'
      BY <1>1, <1>2, <1>4, <2>1
         DEF BatchInv, Accounted, DoneIsDone, Under, RowIndices
    <2>3. QED
      BY <1>1, <1>2, <1>3, <2>2
         DEF BatchInv, FuturesSound, ThreadsSound, ThreadSound, KeyOf, ResultsSound,
             LateCloses, RowIndices, SoundCache, Unique
  <1>6. CASE batch.phase = "closing"
    <2>1. batch.late
      BY <1>6 DEF BatchInv, LateCloses
    <2>2. batch.queued = {}
      BY <1>6 DEF BatchInv, LateCloses
    <2>3. QED
      BY <1>1, <1>2, <1>3, <1>4, <2>1, <2>2
         DEF BatchInv, FuturesSound, ThreadsSound, ThreadSound, KeyOf, ResultsSound,
             DoneIsDone, Accounted, LateCloses, RowIndices, SoundCache, Unique
  <1>7. QED
    BY <1>5, <1>6 DEF Return

LEMMA BatchStep == BatchInv /\ [BatchNext]_batchVars => BatchInv'
  <1> SUFFICES ASSUME BatchInv, [BatchNext]_batchVars PROVE BatchInv'
    OBVIOUS
  <1>1. CASE UNCHANGED <<batch, threads>> /\ clock' \in Nat /\ clock' >= clock /\ SoundCache(store')
    <2>1. BatchTypes'
      BY <1>1 DEF BatchInv, BatchTypes, RowIndices
    <2>2. ASSUME NEW t \in Threads PROVE ThreadSound(t)'
      <3>1. BatchTypes /\ ThreadSound(t) /\ threads[t] \in Worker
        BY DEF BatchInv, ThreadsSound, BatchTypes
      <3>2. QED
        BY <1>1, <3>1 DEF ThreadSound, KeyOf, RowIndices, Worker, BatchTypes
    <2>3. QED
      BY <1>1, <2>1, <2>2
         DEF BatchInv, FuturesSound, Sound, ThreadsSound, ResultsSound, DoneIsDone,
             Accounted, Under, LateCloses, RowIndices
  <1>2. CASE Clear
    <2>1. SoundCache(<<>>)
      BY BatchAssumption DEF SoundCache, Unique
    <2>2. QED
      BY <1>1, <1>2, <2>1 DEF Clear, BatchInv, BatchTypes
  <1>3. CASE Tick
    BY <1>1, <1>3 DEF Tick, BatchInv, BatchTypes
  <1>4. CASE UNCHANGED batchVars
    BY <1>1, <1>4 DEF batchVars, BatchInv, BatchTypes
  <1>5. QED
    BY <1>2, <1>3, <1>4, SubmitStep, TakeStep, LookStep, ComputeStep, StoreStep, CollectStep,
       TimeOutStep, ReturnStep DEF BatchNext

LEMMA BatchInvariance == BatchSpec => []BatchInv
  BY InitBatch, BatchStep, PTL DEF BatchSpec

(* No result is served from the cache that is as old as its time to live    *)
(* when it is asked for, and the cache keeps to its size and to one entry   *)
(* for a row, for any rows, batches and number of threads (get_or_compute). *)
THEOREM Served == BatchSpec => []ServedIsFresh
  <1>1. BatchInv => ServedIsFresh
    BY DEF BatchInv, FuturesSound, Sound, ServedIsFresh, ServedInTime, CacheHolds,
           SoundCache, Unique
  <1>2. QED
    BY <1>1, BatchInvariance, PTL

(* Every row of a batch gets its own result, and the defaults only when its *)
(* assessment failed or the time was over, in whatever order the threads    *)
(* finish (assess_risk_batch).                                              *)
THEOREM RowsKept == BatchSpec => []RowsKeepTheirResult
  <1>1. BatchInv => RowsKeepTheirResult
    BY DEF BatchInv, ResultsSound, DoneIsDone, Accounted, Under, RowsKeepTheirResult
  <1>2. QED
    BY <1>1, BatchInvariance, PTL

-----------------------------------------------------------------------------
(* The regime.  What a scan measures does not matter here: it votes for    *)
(* some label, with some score.                                            *)

\* The entry of the log that a scan leaves.
Vote(raw, score, strong) ==
  [raw |-> raw, score |-> score, blocked |-> raw # regime /\ Blocked(raw, score),
   strong |-> strong, from |-> regime, to |-> regime']

Decides(raw, score) == \/ Hold(raw) \/ Block(raw, score)
                       \/ Direct(raw, score) \/ Confirm(raw, score)

LEMMA ScanVotes ==
  ASSUME NEW scan, Scan(scan)
  PROVE  \E raw \in Regimes : \E score, strong :
           Decides(raw, score) /\ log' = Append(log, Vote(raw, score, strong))
  <1> DEFINE prices == RecordPrices(scan.rows)
             btc == RecordBtc(prices, scan.rows)
             volumes == RecordVolume(scan.rows)
             sig == Signals(scan.rows, prices, btc, scan.tracker)
             score == Score(Weighted(scan.rows, prices, btc, volumes, scan.tracker), sig)
             raw == RawRegime(score, sig)
  <1>1. Decides(raw, score) /\ log' = Append(log, Vote(raw, score, sig.strong))
    BY DEF Scan, Decides, Vote
  <1> HIDE DEF sig, score
  <1>2. raw \in Regimes
    BY DEF RawRegime, Regimes
  <1>3. QED
    BY <1>1, <1>2

\* What Append makes of a sequence, place by place.
LEMMA Longer ==
  ASSUME NEW S, NEW seq \in Seq(S), NEW e
  PROVE  /\ Append(seq, e) \in Seq(S \cup {e})
         /\ Len(seq) \in Nat /\ Len(Append(seq, e)) = Len(seq) + 1
         /\ DOMAIN Append(seq, e) = 1..(Len(seq) + 1) /\ DOMAIN seq = 1..Len(seq)
         /\ Append(seq, e)[Len(seq) + 1] = e
         /\ \A k \in 1..Len(seq) : Append(seq, e)[k] = seq[k]
  <1>1. seq \in Seq(S \cup {e}) /\ e \in S \cup {e}
    OBVIOUS
  <1>2. QED
    BY <1>1

LEMMA ConfirmScansIsPositive == ConfirmScans \in Nat /\ ConfirmScans >= 1
  BY DetectorAssumption, MaxOfTwo DEF ConfirmScans

\* From i on, no scan cast a counted vote for another label.
Backs(r, i) == \A k \in i..Len(log) : log[k].raw = r \/ log[k].blocked

RegimeTypes == (\E S : log \in Seq(S)) /\ RegimeTypeOK

\* The votes that are counted were cast.
QueueIsBacked ==
  pending # "none" =>
    \E i \in 1..Len(log) :
      Backs(pending, i) /\ Cardinality(VotesFor(pending, i, Len(log))) >= pendingCount

\* The votes that were cast, with none against them since, are counted.
VotesAreCounted ==
  \A r \in Regimes, m \in 1..Len(log) :
    (\A k \in (Len(log) - m + 1)..Len(log) : log[k].raw = r /\ ~log[k].blocked)
      => regime = r \/ (pending = r /\ pendingCount >= m)

RegimeInv ==
  RegimeTypes /\ QueueIsBacked /\ VotesAreCounted /\ FlipIsConfirmed

LEMMA CountedIsFinite ==
  ASSUME RegimeTypes, NEW r, NEW i \in Nat
  PROVE  IsFiniteSet(VotesFor(r, i, Len(log)))
         /\ Cardinality(VotesFor(r, i, Len(log))) \in Nat
  <1>1. Len(log) \in Nat
    BY DEF RegimeTypes
  <1>2. IsFiniteSet(i..Len(log))
    BY <1>1, FS_Interval
  <1>3. VotesFor(r, i, Len(log)) \subseteq i..Len(log)
    BY DEF VotesFor
  <1>4. IsFiniteSet(VotesFor(r, i, Len(log)))
    BY <1>2, <1>3, FS_Subset
  <1>5. QED
    BY <1>4, FS_CardinalityType


\* What the log is after a scan.
LEMMA Recorded ==
  ASSUME RegimeTypes, NEW raw, NEW score, NEW strong,
         log' = Append(log, Vote(raw, score, strong))
  PROVE  /\ \E S : log' \in Seq(S)
         /\ Len(log) \in Nat /\ Len(log') = Len(log) + 1
         /\ DOMAIN log' = 1..(Len(log) + 1) /\ DOMAIN log = 1..Len(log)
         /\ \A k \in 1..Len(log) : log'[k] = log[k]
         /\ log'[Len(log) + 1].raw = raw
         /\ log'[Len(log) + 1].blocked <=> raw # regime /\ Blocked(raw, score)
         /\ log'[Len(log) + 1].score = score
         /\ log'[Len(log) + 1].from = regime /\ log'[Len(log) + 1].to = regime'
  <1> DEFINE e == Vote(raw, score, strong)
  <1>1. PICK S : log \in Seq(S)
    BY DEF RegimeTypes
  <1>2. /\ log' \in Seq(S \cup {e})
        /\ Len(log) \in Nat /\ Len(log') = Len(log) + 1
        /\ DOMAIN log' = 1..(Len(log) + 1) /\ DOMAIN log = 1..Len(log)
        /\ log'[Len(log) + 1] = e
        /\ \A k \in 1..Len(log) : log'[k] = log[k]
    BY <1>1, Longer
  <1>3. /\ e.raw = raw /\ e.score = score /\ e.from = regime /\ e.to = regime'
        /\ e.blocked <=> raw # regime /\ Blocked(raw, score)
    BY DEF Vote
  <1>4. QED
    BY <1>2, <1>3

LEMMA OneVoteMore ==
  ASSUME RegimeTypes, NEW raw, NEW score, NEW strong,
         log' = Append(log, Vote(raw, score, strong)),
         NEW r, NEW i \in 1..(Len(log) + 1)
  PROVE  LET counts == raw = r /\ ~(raw # regime /\ Blocked(raw, score))
             before == Cardinality(VotesFor(r, i, Len(log)))
         IN  /\ before \in Nat
             /\ Cardinality(VotesFor(r, i, Len(log))')
                = IF counts THEN before + 1 ELSE before
  <1> DEFINE counts == raw = r /\ ~(raw # regime /\ Blocked(raw, score))
             old == VotesFor(r, i, Len(log))
             new == VotesFor(r, i, Len(log))'
             n == Len(log)
  <1>1. /\ n \in Nat /\ Len(log') = n + 1
        /\ \A k \in 1..n : log'[k] = log[k]
        /\ log'[n + 1].raw = r /\ ~log'[n + 1].blocked <=> counts
    BY Recorded
  <1>2. i \in Nat /\ i >= 1
    BY <1>1
  <1>3. IsFiniteSet(old) /\ Cardinality(old) \in Nat
    BY <1>2, CountedIsFinite
  <1> HIDE DEF counts
  <1>4. new = {k \in i..(n + 1) : log'[k].raw = r /\ ~log'[k].blocked}
    BY <1>1 DEF VotesFor
  <1>5. ASSUME NEW k
        PROVE  k \in new <=> k \in old \/ (k = n + 1 /\ counts)
    <2>1. CASE k \in i..n
      BY <1>1, <1>2, <1>4, <2>1 DEF VotesFor
    <2>2. CASE k = n + 1
      BY <1>1, <1>2, <1>4, <2>2 DEF VotesFor
    <2>3. CASE k \notin i..(n + 1)
      BY <1>1, <1>2, <1>4, <2>3 DEF VotesFor
    <2>4. QED
      BY <1>1, <1>2, <2>1, <2>2, <2>3
  <1>6. CASE counts
    <2>1. new = old \cup {n + 1}
      BY <1>5, <1>6
    <2>2. n + 1 \notin old
      BY <1>1, <1>2 DEF VotesFor
    <2>3. QED
      BY <1>3, <1>6, <2>1, <2>2, FS_AddElement DEF counts
  <1>7. CASE ~counts
    <2>1. new = old
      BY <1>5, <1>7
    <2>2. QED
      BY <1>3, <1>7, <2>1 DEF counts
  <1>8. QED
    BY <1>6, <1>7

LEMMA TypesStep ==
  ASSUME RegimeTypes, NEW raw \in Regimes, NEW score, NEW strong, Decides(raw, score),
         log' = Append(log, Vote(raw, score, strong))
  PROVE  RegimeTypes'
  <1> USE DEF RegimeTypes, RegimeTypeOK
  <1>1. \E S : log' \in Seq(S)
    BY Recorded
  <1>2. ConfirmScans \in Nat /\ ConfirmScans >= 1 /\ "none" \notin Regimes
    BY ConfirmScansIsPositive DEF Regimes
  <1>3. CASE Hold(raw)
    BY <1>1, <1>2, <1>3 DEF Hold
  <1>4. CASE Block(raw, score)
    BY <1>1, <1>2, <1>4 DEF Block
  <1>5. CASE Direct(raw, score)
    BY <1>1, <1>2, <1>5 DEF Direct
  <1>6. CASE Confirm(raw, score)
    <2>1. Votes(raw) \in Nat /\ Votes(raw) >= 1
      BY <1>2 DEF Votes
    <2>2. raw # regime /\ raw # "CRISIS"
      BY <1>6 DEF Confirm
    <2>3. QED
      BY <1>1, <1>2, <1>6, <2>1, <2>2 DEF Confirm, Enough
  <1>7. QED
    BY <1>3, <1>4, <1>5, <1>6 DEF Decides

\* The votes of a label that waits or is confirmed were cast, this one included.
LEMMA VotesWereCast ==
  ASSUME RegimeInv, NEW raw \in Regimes, NEW score, NEW strong, Confirm(raw, score),
         log' = Append(log, Vote(raw, score, strong))
  PROVE  \E i \in 1..(Len(log) + 1) :
           /\ \A k \in i..(Len(log) + 1) : log'[k].raw = raw \/ log'[k].blocked
           /\ Cardinality(VotesFor(raw, i, Len(log))') >= Votes(raw)
  <1> USE DEF RegimeInv
  <1>1. ~(raw # regime /\ Blocked(raw, score)) /\ raw # "none"
    BY DEF Confirm, Regimes
  <1>2. /\ Len(log) \in Nat /\ log'[Len(log) + 1].raw = raw
        /\ \A k \in 1..Len(log) : log'[k] = log[k]
    BY Recorded
  <1>3. \A i \in 1..(Len(log) + 1) :
          /\ Cardinality(VotesFor(raw, i, Len(log))) \in Nat
          /\ Cardinality(VotesFor(raw, i, Len(log))')
             = Cardinality(VotesFor(raw, i, Len(log))) + 1
    BY <1>1, OneVoteMore
  <1>4. CASE pending = raw
    <2>1. PICK i \in 1..Len(log) :
             Backs(raw, i) /\ Cardinality(VotesFor(raw, i, Len(log))) >= pendingCount
      BY <1>1, <1>4 DEF QueueIsBacked
    <2>2. \A k \in i..(Len(log) + 1) : log'[k].raw = raw \/ log'[k].blocked
      BY <1>2, <2>1 DEF Backs
    <2>3. pendingCount \in Nat /\ i \in 1..(Len(log) + 1)
      BY <1>2, <2>1, ConfirmScansIsPositive DEF RegimeTypes, RegimeTypeOK
    <2>4. Cardinality(VotesFor(raw, i, Len(log))') >= Votes(raw)
      BY <1>3, <1>4, <2>1, <2>3 DEF Votes
    <2>5. QED
      BY <2>2, <2>3, <2>4
  <1>5. CASE pending # raw
    <2>1. PICK i : i = Len(log) + 1
      OBVIOUS
    <2>2. i \in 1..(Len(log) + 1)
      BY <1>2, <2>1
    <2>3. \A k \in i..(Len(log) + 1) : log'[k].raw = raw
      BY <1>2, <2>1
    <2>4. Cardinality(VotesFor(raw, i, Len(log))') >= Votes(raw)
      BY <1>3, <1>5, <2>2 DEF Votes
    <2>5. QED
      BY <2>2, <2>3, <2>4
  <1>6. QED
    BY <1>4, <1>5

LEMMA QueueStep ==
  ASSUME RegimeInv, NEW raw \in Regimes, NEW score, NEW strong, Decides(raw, score),
         log' = Append(log, Vote(raw, score, strong))
  PROVE  QueueIsBacked'
  <1> USE DEF RegimeInv
  <1>1. /\ Len(log) \in Nat /\ Len(log') = Len(log) + 1
        /\ \A k \in 1..Len(log) : log'[k] = log[k]
        /\ log'[Len(log) + 1].raw = raw
        /\ log'[Len(log) + 1].blocked <=> raw # regime /\ Blocked(raw, score)
    BY Recorded
  <1>2. CASE pending' = "none"
    BY <1>2 DEF QueueIsBacked
  <1>3. CASE Block(raw, score) /\ pending # "none"
    <2>1. PICK i \in 1..Len(log) :
             /\ Backs(pending, i)
             /\ Cardinality(VotesFor(pending, i, Len(log))) >= pendingCount
      BY <1>3 DEF QueueIsBacked
    <2>2. log'[Len(log) + 1].blocked /\ UNCHANGED <<pending, pendingCount>>
      BY <1>1, <1>3 DEF Block
    <2>3. i \in 1..(Len(log) + 1) /\ i \in 1..Len(log')
      BY <1>1, <2>1
    <2>4. \A k \in i..Len(log') : log'[k].raw = pending \/ log'[k].blocked
      BY <1>1, <2>1, <2>2 DEF Backs
    <2>5. Backs(pending, i)'
      BY <2>2, <2>4 DEF Backs
    <2>6. PICK r : r = pending
      OBVIOUS
    <2>7. /\ Cardinality(VotesFor(r, i, Len(log))) \in Nat
          /\ Cardinality(VotesFor(r, i, Len(log))')
             \in {Cardinality(VotesFor(r, i, Len(log))),
                  Cardinality(VotesFor(r, i, Len(log))) + 1}
      BY <2>3, OneVoteMore
    <2>8. pendingCount \in Nat
      BY ConfirmScansIsPositive DEF RegimeTypes, RegimeTypeOK
    <2>9. Cardinality(VotesFor(r, i, Len(log))') >= pendingCount'
      BY <2>1, <2>2, <2>6, <2>7, <2>8
    <2>10. Cardinality(VotesFor(pending, i, Len(log))') >= pendingCount'
      BY <2>2, <2>6, <2>9 DEF VotesFor
    <2>11. QED
      BY <2>3, <2>5, <2>10 DEF QueueIsBacked
  <1>4. CASE Confirm(raw, score) /\ pending' # "none"
    <2>1. pending' = raw /\ pendingCount' = Votes(raw)
      BY <1>4 DEF Confirm
    <2>2. PICK i \in 1..(Len(log) + 1) :
             /\ \A k \in i..(Len(log) + 1) : log'[k].raw = raw \/ log'[k].blocked
             /\ Cardinality(VotesFor(raw, i, Len(log))') >= Votes(raw)
      BY <1>4, VotesWereCast
    <2>3. i \in 1..Len(log') /\ Backs(pending, i)'
      BY <1>1, <2>1, <2>2 DEF Backs
    <2>4. Cardinality(VotesFor(pending, i, Len(log))') >= pendingCount'
      BY <2>1, <2>2 DEF VotesFor
    <2>5. QED
      BY <2>3, <2>4 DEF QueueIsBacked
  <1>5. QED
    BY <1>2, <1>3, <1>4 DEF Decides, Hold, Block, Direct

LEMMA CountingStep ==
  ASSUME RegimeInv, NEW raw \in Regimes, NEW score, NEW strong, Decides(raw, score),
         log' = Append(log, Vote(raw, score, strong))
  PROVE  VotesAreCounted'
  <1> USE DEF RegimeInv
  <1>1. /\ Len(log) \in Nat /\ Len(log') = Len(log) + 1
        /\ \A k \in 1..Len(log) : log'[k] = log[k]
        /\ log'[Len(log) + 1].raw = raw
        /\ log'[Len(log) + 1].blocked <=> raw # regime /\ Blocked(raw, score)
    BY Recorded
  <1> SUFFICES ASSUME NEW r \in Regimes, NEW m \in 1..Len(log'),
                      \A k \in (Len(log') - m + 1)..Len(log') :
                        log'[k].raw = r /\ ~log'[k].blocked
               PROVE  regime' = r \/ (pending' = r /\ pendingCount' >= m)
    BY DEF VotesAreCounted
  <1>2. Len(log) + 1 \in (Len(log') - m + 1)..Len(log')
    BY <1>1
  <1>3. raw = r /\ ~(raw # regime /\ Blocked(raw, score))
    BY <1>1, <1>2
  <1>4. CASE Hold(raw) \/ Direct(raw, score)
    BY <1>3, <1>4 DEF Hold, Direct
  <1>5. CASE Confirm(raw, score) /\ Enough(raw)
    BY <1>3, <1>5 DEF Confirm
  <1>6. CASE Confirm(raw, score) /\ ~Enough(raw)
    <2>1. pending' = r /\ pendingCount' = Votes(r) /\ regime # r
      BY <1>3, <1>6 DEF Confirm
    <2>2. pendingCount \in Nat /\ Votes(r) \in Nat /\ Votes(r) >= 1
      BY ConfirmScansIsPositive DEF RegimeTypes, RegimeTypeOK, Votes
    <2>3. CASE m = 1
      BY <2>1, <2>2, <2>3
    <2>4. CASE m # 1
      <3>1. m - 1 \in 1..Len(log)
        BY <1>1, <2>4
      <3>2. \A k \in (Len(log) - (m - 1) + 1)..Len(log) :
              log[k].raw = r /\ ~log[k].blocked
        BY <1>1, <3>1
      <3>3. pending = r /\ pendingCount >= m - 1
        BY <2>1, <3>1, <3>2 DEF VotesAreCounted
      <3>4. QED
        BY <1>1, <2>1, <2>2, <3>3 DEF Votes
    <2>5. QED
      BY <2>3, <2>4
  <1>7. QED
    BY <1>3, <1>4, <1>5, <1>6 DEF Decides, Block

LEMMA FlipStep ==
  ASSUME RegimeInv, NEW raw \in Regimes, NEW score, NEW strong, Decides(raw, score),
         log' = Append(log, Vote(raw, score, strong))
  PROVE  FlipIsConfirmed'
  <1> USE DEF RegimeInv
  <1>0. PICK n : n = Len(log) + 1
    OBVIOUS
  <1>1. /\ n \in Nat /\ Len(log') = n
        /\ log'[n].from = regime /\ log'[n].to = regime'
    BY <1>0, Recorded
  <1>2. CASE regime' = regime \/ "CRISIS" \in {regime, regime'}
    BY <1>1, <1>2 DEF FlipIsConfirmed, Flipped
  <1>3. CASE regime' # regime /\ "CRISIS" \notin {regime, regime'}
    <2>1. Confirm(raw, score) /\ Enough(raw) /\ regime' = raw
      BY <1>3 DEF Decides, Hold, Block, Direct, Confirm
    <2>2. PICK i \in 1..n :
             /\ \A k \in i..n : log'[k].raw = raw \/ log'[k].blocked
             /\ Cardinality(VotesFor(raw, i, Len(log))') >= Votes(raw)
      BY <1>0, <2>1, VotesWereCast
    <2>3. PICK c : c = Cardinality(VotesFor(raw, i, Len(log))')
      OBVIOUS
    <2>4. c \in Nat /\ Votes(raw) \in Nat
      <3>1. i \in 1..(Len(log) + 1)
        BY <1>0
      <3>2. Cardinality(VotesFor(raw, i, Len(log))) \in Nat
            /\ Cardinality(VotesFor(raw, i, Len(log))')
               \in {Cardinality(VotesFor(raw, i, Len(log))),
                    Cardinality(VotesFor(raw, i, Len(log))) + 1}
        BY <3>1, OneVoteMore
      <3>3. QED
        BY <2>3, <3>2, ConfirmScansIsPositive DEF Votes, RegimeTypes, RegimeTypeOK
    <2>5. c >= ConfirmScans
      BY <2>1, <2>2, <2>3, <2>4, ConfirmScansIsPositive DEF Enough
    <2>6. VotesFor(raw, i, Len(log))' = VotesFor(log[n].to, i, n)'
      BY <1>1, <2>1 DEF VotesFor
    <2>7. \A k \in i..n : log'[k].raw = log'[n].to \/ log'[k].blocked
      BY <1>1, <2>1, <2>2
    <2>8. QED
      BY <1>1, <2>2, <2>3, <2>5, <2>6, <2>7 DEF FlipIsConfirmed
  <1>4. QED
    BY <1>2, <1>3

LEMMA AgreementFollows == RegimeInv => AgreementFlips
  <1> SUFFICES ASSUME RegimeInv, Len(log) >= ConfirmScans, NEW r \in Regimes,
                      \A k \in (Len(log) - ConfirmScans + 1)..Len(log) :
                        log[k].raw = r /\ ~log[k].blocked
               PROVE  regime = r
    BY DEF AgreementFlips
  <1>1. Len(log) \in Nat /\ pendingCount \in 0..(ConfirmScans - 1)
    BY DEF RegimeInv, RegimeTypes, RegimeTypeOK
  <1>2. ConfirmScans \in 1..Len(log)
    BY <1>1, ConfirmScansIsPositive
  <1>3. regime = r \/ pendingCount >= ConfirmScans
    BY <1>2 DEF RegimeInv, VotesAreCounted
  <1>4. QED
    BY <1>1, <1>2, <1>3

LEMMA RegimeBegins == RegimeInit => RegimeInv
  <1> SUFFICES ASSUME RegimeInit PROVE RegimeInv
    OBVIOUS
  <1>1. log \in Seq({}) /\ Len(log) = 0
    BY DEF RegimeInit
  <1>2. RegimeTypes
    BY <1>1, ConfirmScansIsPositive DEF RegimeInit, RegimeTypes, RegimeTypeOK, Regimes
  <1>3. QueueIsBacked /\ VotesAreCounted
    BY <1>1 DEF RegimeInit, QueueIsBacked, VotesAreCounted
  <1>4. FlipIsConfirmed
    BY <1>1 DEF FlipIsConfirmed
  <1>5. QED
    BY <1>2, <1>3, <1>4 DEF RegimeInv

LEMMA RegimeStep == RegimeInv /\ [RegimeNext]_regimeVars => RegimeInv'
  <1> SUFFICES ASSUME RegimeInv, [RegimeNext]_regimeVars PROVE RegimeInv'
    OBVIOUS
  <1>1. CASE UNCHANGED regimeVars
    <2>1. UNCHANGED <<log, regime, pending, pendingCount>>
      BY <1>1 DEF regimeVars
    <2>2. \A r, i, n : VotesFor(r, i, n)' = VotesFor(r, i, n)
      BY <2>1 DEF VotesFor
    <2>3. RegimeTypes' /\ VotesAreCounted'
      BY <2>1 DEF RegimeInv, RegimeTypes, RegimeTypeOK, VotesAreCounted
    <2>4. QueueIsBacked' /\ FlipIsConfirmed'
      BY <2>1, <2>2 DEF RegimeInv, QueueIsBacked, FlipIsConfirmed, Backs
    <2>5. QED
      BY <2>3, <2>4 DEF RegimeInv
  <1>2. ASSUME NEW scan \in Scans, Scan(scan) PROVE RegimeInv'
    <2>1. PICK raw \in Regimes : \E score, strong :
             Decides(raw, score) /\ log' = Append(log, Vote(raw, score, strong))
      BY <1>2, ScanVotes
    <2>2. PICK score, strong :
             Decides(raw, score) /\ log' = Append(log, Vote(raw, score, strong))
      BY <2>1
    <2>3. RegimeTypes'
      BY <2>2, TypesStep DEF RegimeInv
    <2>4. QueueIsBacked'
      BY <2>2, QueueStep
    <2>5. VotesAreCounted'
      BY <2>2, CountingStep
    <2>6. FlipIsConfirmed'
      BY <2>2, FlipStep
    <2>7. QED
      BY <2>3, <2>4, <2>5, <2>6 DEF RegimeInv
  <1>3. QED
    BY <1>1, <1>2 DEF RegimeNext

\* The confirmation queue stays well formed: a label waits exactly while its
\* votes are counted, it is never the regime itself and never a crisis, and
\* its count is always short of the votes that decide: decide().
THEOREM QueueIsWellFormed == RegimeSpec => []RegimeTypeOK
  <1>1. RegimeInv => RegimeTypeOK
    BY DEF RegimeInv, RegimeTypes
  <1>2. QED
    BY <1>1, RegimeBegins, RegimeStep, PTL DEF RegimeSpec

\* decide() changes the regime outside a crisis only after ConfirmScans
\* counted votes for the new one with no counted vote for a third between
\* them, and always after ConfirmScans such votes in a row, for every length
\* of the confirmation and every scoring of the market.
LEMMA VotesDecide == RegimeSpec => []FlipIsConfirmed /\ []AgreementFlips
  <1>1. RegimeInv => FlipIsConfirmed /\ AgreementFlips
    BY AgreementFollows DEF RegimeInv
  <1>2. QED
    BY <1>1, RegimeBegins, RegimeStep, PTL DEF RegimeSpec


\* No change of regime was recorded from i to n.
NoFlip(i, n) == \A k \in i..n : ~Flipped(log[k])

\* The regime is the one the last change brought, and every change starts
\* from the one the change before it brought.
FlipsAreChained ==
  \A i \in DOMAIN log : Flipped(log[i]) =>
    /\ NoFlip(i + 1, Len(log)) => log[i].to = regime
    /\ \A j \in DOMAIN log :
         i < j /\ Flipped(log[j]) /\ NoFlip(i + 1, j - 1) => log[i].to = log[j].from

\* A change between neighbours was not held back by the hysteresis.
Passed(entry) ==
  /\ entry.from = "BALANCED" /\ entry.to = "AGGRESSIVE" =>
       ~(entry.score < Detector.aggressive + Detector.hysteresis)
  /\ entry.from = "AGGRESSIVE" /\ entry.to = "BALANCED" =>
       ~(entry.score > Detector.aggressive - Detector.hysteresis)
  /\ entry.from = "BALANCED" /\ entry.to = "CONSERVATIVE" =>
       ~(entry.score > Detector.conservative - Detector.hysteresis)
  /\ entry.from = "CONSERVATIVE" /\ entry.to = "BALANCED" =>
       ~(entry.score < Detector.conservative + Detector.hysteresis)

FlipsPassed == \A k \in DOMAIN log : Passed(log[k])

ToggleInv ==
  /\ RegimeTypes /\ FlipsAreChained /\ FlipsPassed
  /\ \A k \in DOMAIN log : log[k].from \in Regimes /\ log[k].to \in Regimes

LEMMA ToggleStep ==
  ASSUME ToggleInv, NEW raw \in Regimes, NEW score, NEW strong, Decides(raw, score),
         log' = Append(log, Vote(raw, score, strong))
  PROVE  ToggleInv'
  <1>1. RegimeTypes /\ RegimeTypes'
    BY TypesStep DEF ToggleInv
  <1>2. PICK n : n = Len(log) + 1
    OBVIOUS
  <1>3. /\ n \in Nat /\ n >= 1 /\ Len(log) = n - 1 /\ Len(log') = n
        /\ DOMAIN log = 1..(n - 1) /\ DOMAIN log' = 1..n
        /\ \A k \in 1..(n - 1) : log'[k] = log[k]
        /\ log'[n].from = regime /\ log'[n].to = regime' /\ log'[n].score = score
    BY <1>1, <1>2, Recorded
  <1>4. FlipsAreChained'
    <2>1. ASSUME NEW i \in 1..(n - 1), NEW m \in 0..(n - 1)
          PROVE  NoFlip(i + 1, m)' <=> NoFlip(i + 1, m)
      BY <1>3 DEF NoFlip
    <2>2. ASSUME NEW i \in 1..n, Flipped(log'[i]), NoFlip(i + 1, n)'
          PROVE  log'[i].to = regime'
      <3>1. CASE i = n
        BY <1>3, <3>1
      <3>2. CASE i # n
        <4>1. i \in 1..(n - 1) /\ n \in (i + 1)..n
          BY <1>3, <3>2
        <4>2. ~Flipped(log'[n])
          BY <2>2, <4>1 DEF NoFlip
        <4>3. NoFlip(i + 1, n - 1)
          BY <1>3, <2>2, <4>1 DEF NoFlip
        <4>4. log[i].to = regime
          BY <1>3, <2>2, <4>1, <4>3 DEF ToggleInv, FlipsAreChained
        <4>5. QED
          BY <1>3, <4>1, <4>2, <4>4 DEF Flipped
      <3>3. QED
        BY <3>1, <3>2
    <2>3. ASSUME NEW i \in 1..n, NEW j \in 1..n, i < j, Flipped(log'[i]),
                 Flipped(log'[j]), NoFlip(i + 1, j - 1)'
          PROVE  log'[i].to = log'[j].from
      <3>1. i \in 1..(n - 1) /\ j - 1 \in 0..(n - 1)
        BY <1>3, <2>3
      <3>2. NoFlip(i + 1, j - 1)
        BY <2>1, <2>3, <3>1
      <3>3. CASE j = n
        BY <1>3, <2>3, <3>1, <3>2, <3>3 DEF ToggleInv, FlipsAreChained
      <3>4. CASE j # n
        BY <1>3, <2>3, <3>1, <3>2, <3>4 DEF ToggleInv, FlipsAreChained
      <3>5. QED
        BY <3>3, <3>4
    <2>4. QED
      BY <1>3, <2>2, <2>3 DEF FlipsAreChained
  <1>5. Passed(log'[n])
    <2>1. CASE regime' = regime
      BY <1>3, <2>1 DEF Passed
    <2>2. CASE regime' # regime
      <3>1. regime' = raw /\ ~Blocked(raw, score)
        BY <2>2 DEF Decides, Hold, Block, Direct, Confirm
      <3>2. QED
        BY <1>3, <3>1 DEF Passed, Blocked
    <2>3. QED
      BY <2>1, <2>2
  <1>6. FlipsPassed'
    BY <1>3, <1>5 DEF ToggleInv, FlipsPassed
  <1>7. \A k \in DOMAIN log' : log'[k].from \in Regimes /\ log'[k].to \in Regimes
    BY <1>1, <1>3 DEF ToggleInv, RegimeTypes, RegimeTypeOK
  <1>8. QED
    BY <1>1, <1>4, <1>6, <1>7 DEF ToggleInv

LEMMA ToggleInvariance == RegimeSpec => []ToggleInv
  <1>1. RegimeInit => ToggleInv
    <2>1. ASSUME RegimeInit PROVE log \in Seq({}) /\ DOMAIN log = {}
      BY <2>1 DEF RegimeInit
    <2>2. RegimeInit => RegimeTypes
      BY RegimeBegins DEF RegimeInv
    <2>3. QED
      BY <2>1, <2>2 DEF ToggleInv, FlipsAreChained, FlipsPassed
  <1>2. ToggleInv /\ [RegimeNext]_regimeVars => ToggleInv'
    <2> SUFFICES ASSUME ToggleInv, [RegimeNext]_regimeVars PROVE ToggleInv'
      OBVIOUS
    <2>1. CASE UNCHANGED regimeVars
      BY <2>1 DEF regimeVars, ToggleInv, RegimeTypes, RegimeTypeOK, FlipsAreChained,
                  NoFlip, FlipsPassed
    <2>2. ASSUME NEW scan \in Scans, Scan(scan) PROVE ToggleInv'
      <3>1. PICK raw \in Regimes : \E score, strong :
               Decides(raw, score) /\ log' = Append(log, Vote(raw, score, strong))
        BY <2>2, ScanVotes
      <3>2. QED
        BY <3>1, ToggleStep
    <2>3. QED
      BY <2>1, <2>2 DEF RegimeNext
  <1>3. QED
    BY <1>1, <1>2, PTL DEF RegimeSpec

\* Every score is a number from 0 to 100, in thousandths.
Points == {x \in Int : 0 <= x /\ x <= 100000}

LEMMA PointsAreNumbers == \A x \in Points : x \in Int
  BY SMT DEF Points

ScoresInRange == \A k \in DOMAIN log : log[k].score \in Points

LEMMA TogglesAreApart == ToggleInv /\ ScoresInRange => NoToggle
  <1> SUFFICES ASSUME ToggleInv, ScoresInRange,
                      NEW i \in DOMAIN log, NEW j \in DOMAIN log, j = Len(log),
                      Flipped(log[i]), Flipped(log[j]), i < j,
                      \A k \in DOMAIN log : i < k /\ k < j => ~Flipped(log[k]),
                      log[i].from = log[j].to,
                      "CRISIS" \notin {log[j].from, log[j].to},
                      Rank[log[j].from] - Rank[log[j].to] \in {-1, 1}
               PROVE  Max({log[i].score, log[j].score}) - Min({log[i].score, log[j].score})
                      >= 2 * Detector.hysteresis
    BY DEF NoToggle
  <1>1. DOMAIN log = 1..Len(log) /\ Len(log) \in Nat
    BY DEF ToggleInv, RegimeTypes, RegimeTypeOK
  <1>2. NoFlip(i + 1, j - 1)
    BY <1>1 DEF NoFlip
  <1>3. log[i].to = log[j].from
    BY <1>2 DEF ToggleInv, FlipsAreChained
  <1>4. log[i].score \in Int /\ log[j].score \in Int
    <2>1. log[i].score \in Points /\ log[j].score \in Points
      BY DEF ScoresInRange
    <2>2. QED
      BY <2>1, PointsAreNumbers
  <1>5. PICK d : d = Max({log[i].score, log[j].score}) - Min({log[i].score, log[j].score})
    OBVIOUS
  <1>6. d \in Int /\ d >= log[i].score - log[j].score /\ d >= log[j].score - log[i].score
    BY <1>4, <1>5, MaxOfTwo, MinOfTwo
  <1>7. /\ Passed(log[i]) /\ Passed(log[j])
        /\ log[j].from \in Regimes /\ log[j].to \in Regimes
    BY DEF ToggleInv, FlipsPassed
  <1>8. \/ log[j].from = "BALANCED" /\ log[j].to = "AGGRESSIVE"
        \/ log[j].from = "AGGRESSIVE" /\ log[j].to = "BALANCED"
        \/ log[j].from = "BALANCED" /\ log[j].to = "CONSERVATIVE"
        \/ log[j].from = "CONSERVATIVE" /\ log[j].to = "BALANCED"
    BY <1>7 DEF Regimes, Rank
  <1>9. d >= 2 * Detector.hysteresis
    <2>1. /\ Detector.aggressive \in Int /\ Detector.conservative \in Int
          /\ Detector.hysteresis \in Int
      BY DetectorAssumption
    <2>2. CASE log[j].from = "BALANCED" /\ log[j].to = "AGGRESSIVE"
      BY <1>3, <1>4, <1>6, <1>7, <2>1, <2>2 DEF Passed
    <2>3. CASE log[j].from = "AGGRESSIVE" /\ log[j].to = "BALANCED"
      BY <1>3, <1>4, <1>6, <1>7, <2>1, <2>3 DEF Passed
    <2>4. CASE log[j].from = "BALANCED" /\ log[j].to = "CONSERVATIVE"
      BY <1>3, <1>4, <1>6, <1>7, <2>1, <2>4 DEF Passed
    <2>5. CASE log[j].from = "CONSERVATIVE" /\ log[j].to = "BALANCED"
      BY <1>3, <1>4, <1>6, <1>7, <2>1, <2>5 DEF Passed
    <2>6. QED
      BY <1>8, <2>2, <2>3, <2>4, <2>5
  <1>10. QED
    BY <1>5, <1>9

-----------------------------------------------------------------------------
(* The backtest.                                                           *)

\* A bounded set of numbers has a greatest one, which the maximum chooses.
LEMMA MaxIsGreatest ==
  ASSUME NEW T \in SUBSET Int, T # {}, NEW top \in Int, \A x \in T : x <= top
  PROVE  Max(T) \in T /\ \A y \in T : Max(T) >= y
  <1> DEFINE D == {top - x : x \in T}
  <1>1. D \in SUBSET Nat /\ D # {}
    <2>1. \A x \in T : top - x \in Nat
      BY SMT
    <2>2. QED
      BY <2>1, Zenon
  <1>2. PICK d \in D : \A y \in D : d <= y
    BY <1>1, LeastNumber
  <1>3. PICK m \in T : d = top - m
    BY <1>2
  <1>4. ASSUME NEW y \in T PROVE m >= y
    <2>1. top - y \in D
      OBVIOUS
    <2>2. d <= top - y
      BY <1>2, <2>1
    <2>3. m \in Int /\ y \in Int
      OBVIOUS
    <2>4. QED
      BY <1>3, <2>2, <2>3
  <1>5. QED
    BY <1>4 DEF Max

\* How many elements of a set come before one of them.
Earlier(S, R, p) == Cardinality({q \in S : <<q, p>> \in R})

(* In a finite set with a strict total order, every place is somebody's:    *)
(* the number of smaller elements is one-to-one.                            *)
LEMMA Ranked ==
  ASSUME NEW S, IsFiniteSet(S), NEW R,
         \A p, q \in S : p = q \/ <<p, q>> \in R \/ <<q, p>> \in R,
         \A p \in S : <<p, p>> \notin R,
         \A p, q, r \in S : <<p, q>> \in R /\ <<q, r>> \in R => <<p, r>> \in R,
         NEW n \in 1..Cardinality(S)
  PROVE  \E p \in S : Earlier(S, R, p) = n - 1
  <1> DEFINE Below(p) == {q \in S : <<q, p>> \in R}
             f == [p \in S |-> Cardinality(Below(p)) + 1]
             N == Cardinality(S)
  <1>1. N \in Nat
    BY FS_CardinalityType
  <1>2. ASSUME NEW p \in S
        PROVE  /\ IsFiniteSet(Below(p)) /\ Cardinality(Below(p)) \in Nat
               /\ Cardinality(Below(p)) <= N - 1
    <2>1. IsFiniteSet(S \ {p}) /\ Cardinality(S \ {p}) = N - 1
      BY FS_RemoveElement
    <2>2. Below(p) \in SUBSET (S \ {p})
      OBVIOUS
    <2> HIDE DEF Below
    <2>3. IsFiniteSet(Below(p)) /\ Cardinality(Below(p)) <= Cardinality(S \ {p})
      BY <2>1, <2>2, FS_Subset
    <2>4. QED
      BY <2>1, <2>3, FS_CardinalityType
  <1>3. ASSUME NEW p \in S, NEW q \in S, <<p, q>> \in R
        PROVE  Cardinality(Below(p)) < Cardinality(Below(q))
    <2>1. Below(p) \in SUBSET Below(q) /\ Below(p) # Below(q)
      BY <1>3
    <2>2. IsFiniteSet(Below(q))
      BY <1>2
    <2> HIDE DEF Below
    <2>3. Cardinality(Below(p)) <= Cardinality(Below(q))
          /\ Cardinality(Below(p)) # Cardinality(Below(q))
      BY <2>1, <2>2, FS_Subset
    <2>4. Cardinality(Below(p)) \in Nat /\ Cardinality(Below(q)) \in Nat
      BY <1>2
    <2>5. QED
      BY <2>3, <2>4
  <1> HIDE DEF Below
  <1>4. f \in [S -> 1..N]
    BY <1>1, <1>2
  <1>5. f \in Injection(S, 1..N)
    <2>1. ASSUME NEW p \in S, NEW q \in S, f[p] = f[q] PROVE p = q
      <3>1. Cardinality(Below(p)) + 1 = Cardinality(Below(q)) + 1
        BY <2>1, Zenon
      <3>2. Cardinality(Below(p)) \in Nat /\ Cardinality(Below(q)) \in Nat
        BY <1>2
      <3>3. ~(<<p, q>> \in R) /\ ~(<<q, p>> \in R)
        BY <1>3, <3>1, <3>2
      <3>4. QED
        BY <3>3
    <2>2. QED
      BY <1>4, <2>1 DEF Injection, IsInjective
  <1>6. IsFiniteSet(1..N) /\ Cardinality(1..N) = N
    BY <1>1, FS_Interval
  <1>7. f \in Surjection(S, 1..N)
    BY <1>5, <1>6, FS_Injection
  <1>8. PICK p \in S : f[p] = n
    BY <1>7 DEF Surjection
  <1>9. Cardinality(Below(p)) = n - 1
    BY <1>2, <1>8
  <1>10. QED
    BY <1>9 DEF Below, Earlier

\* The rows of the scans are finitely many, and each is a row.
LEMMA PlacesAreRows ==
  ASSUME history \in Seq(StoredScan)
  PROVE  /\ IsFiniteSet(Places)
         /\ \A p \in Places : /\ p[1] \in Int /\ p[2] \in Int /\ p = <<p[1], p[2]>>
                              /\ Stamped(p) \in StoredRow
  <1> DEFINE M == {m \in DOMAIN history : InSpan(history[m])}
             In(m) == {m} \X DOMAIN history[m].payload
             f == [m \in M |-> In(m)]
             Lots == {In(m) : m \in M}
  <1>1. ASSUME NEW m \in DOMAIN history
        PROVE  /\ m \in Int /\ history[m].at \in Int
               /\ history[m].payload \in Seq(StoredRow)
    <2>1. PICK h \in Seq(StoredScan) : h = history
      OBVIOUS
    <2>2. h[m] \in StoredScan /\ m \in Int
      BY <2>1
    <2>3. QED
      BY <2>1, <2>2 DEF StoredScan
  <1>2. ASSUME NEW m \in DOMAIN history PROVE IsFiniteSet(In(m))
    <2>1. PICK s \in Seq(StoredRow) : s = history[m].payload
      BY <1>1
    <2>2. DOMAIN s = 1..Len(s) /\ Len(s) \in Nat
      BY <2>1
    <2>3. IsFiniteSet(DOMAIN s)
      BY <2>2, FS_Interval
    <2> DEFINE g == [k \in DOMAIN s |-> <<m, k>>]
    <2>4. g \in Surjection(DOMAIN s, {m} \X DOMAIN s)
      <3>1. g \in [DOMAIN s -> {m} \X DOMAIN s]
        OBVIOUS
      <3>2. \A t \in {m} \X DOMAIN s : \E k \in DOMAIN s : g[k] = t
        OBVIOUS
      <3> HIDE DEF g
      <3>3. QED
        BY <3>1, <3>2 DEF Surjection
    <2> HIDE DEF g
    <2>5. QED
      BY <2>1, <2>3, <2>4, FS_Surjection
  <1>3. IsFiniteSet(DOMAIN history)
    <2>1. DOMAIN history = 1..Len(history) /\ Len(history) \in Nat
      OBVIOUS
    <2>2. QED
      BY <2>1, FS_Interval
  <1>4. IsFiniteSet(M)
    BY <1>3, FS_Subset
  <1>5. f \in Surjection(M, Lots)
    BY DEF Surjection
  <1>6. IsFiniteSet(Lots)
    <2> HIDE DEF f, Lots
    <2>1. QED
      BY <1>4, <1>5, FS_Surjection
  <1>7. IsFiniteSet(UNION Lots)
    <2>1. \A T \in Lots : IsFiniteSet(T)
      BY <1>2
    <2> HIDE DEF Lots
    <2>2. QED
      BY <1>6, <2>1, FS_UNION
  <1>8. Places = UNION Lots
    BY DEF Places
  <1>9. ASSUME NEW p \in Places
        PROVE  /\ p[1] \in Int /\ p[2] \in Int /\ p = <<p[1], p[2]>>
               /\ Stamped(p) \in StoredRow
    <2>1. PICK m \in M : p \in In(m)
      BY <1>8
    <2>2. PICK k \in DOMAIN history[m].payload : p = <<m, k>>
      BY <2>1
    <2>3. history[m].payload[k] \in StoredRow /\ k \in Int
      <3>1. PICK s \in Seq(StoredRow) : s = history[m].payload
        BY <1>1
      <3>2. k \in DOMAIN s
        BY <3>1
      <3>3. s[k] \in StoredRow /\ k \in Int
        BY <3>2
      <3>4. QED
        BY <3>1, <3>3
    <2>4. PICK row \in StoredRow : row = history[m].payload[k]
      BY <2>3
    <2>5. [row EXCEPT !.at = history[m].at] \in StoredRow
      BY <1>1 DEF StoredRow
    <2>6. Stamped(p) = IF row.at = 0 THEN [row EXCEPT !.at = history[m].at] ELSE row
      BY <2>2, <2>4 DEF Stamped
    <2>7. QED
      BY <1>1, <2>2, <2>3, <2>4, <2>5, <2>6
  <1>10. QED
    BY <1>7, <1>8, <1>9

\* So the sort gives a row to every place.
LEMMA ByTimeIsRows ==
  ASSUME history \in Seq(StoredScan)
  PROVE  ByTime \in Seq(StoredRow)
  <1> DEFINE N == Cardinality(Places)
             R == {pq \in Places \X Places : Before(pq[1], pq[2])}
  <1>1. N \in Nat
    BY PlacesAreRows, FS_CardinalityType
  <1>2. ASSUME NEW p \in Places PROVE Stamped(p).at \in Int /\ p[1] \in Int /\ p[2] \in Int
    BY PlacesAreRows DEF StoredRow
  <1>3. \A p, q \in Places : <<p, q>> \in R <=> Before(p, q)
    OBVIOUS
  <1>4. \A p, q \in Places : p = q \/ Before(p, q) \/ Before(q, p)
    <2>1. ASSUME NEW p \in Places, NEW q \in Places, ~Before(p, q), ~Before(q, p)
          PROVE  p = q
      <3>1. p[1] = q[1] /\ p[2] = q[2]
        BY <1>2, <2>1 DEF Before
      <3>2. QED
        BY <3>1, PlacesAreRows
    <2>2. QED
      BY <2>1
  <1>5. \A p \in Places : ~Before(p, p)
    BY <1>2 DEF Before
  <1>6. \A p, q, r \in Places : Before(p, q) /\ Before(q, r) => Before(p, r)
    <2>1. ASSUME NEW p \in Places, NEW q \in Places, NEW r \in Places,
                 Before(p, q), Before(q, r)
          PROVE  Before(p, r)
      BY <1>2, <2>1 DEF Before
    <2>2. QED
      BY <2>1
  <1> HIDE DEF R
  <1>7. ASSUME NEW n \in 1..N
        PROVE  Stamped(CHOOSE p \in Places :
                         Cardinality({q \in Places : Before(q, p)}) = n - 1) \in StoredRow
    <2>1. \E p \in Places : Earlier(Places, R, p) = n - 1
      <3>1. \A p, q \in Places : p = q \/ <<p, q>> \in R \/ <<q, p>> \in R
        BY <1>3, <1>4
      <3>2. \A p \in Places : <<p, p>> \notin R
        BY <1>3, <1>5
      <3>3. \A p, q, r \in Places : <<p, q>> \in R /\ <<q, r>> \in R => <<p, r>> \in R
        BY <1>3, <1>6
      <3>4. IsFiniteSet(Places)
        BY PlacesAreRows
      <3>5. QED
        BY <3>1, <3>2, <3>3, <3>4, Ranked
    <2>2. \A p \in Places : {q \in Places : <<q, p>> \in R} = {q \in Places : Before(q, p)}
      BY <1>3
    <2>3. \E p \in Places : Cardinality({q \in Places : Before(q, p)}) = n - 1
      BY <2>1, <2>2 DEF Earlier
    <2>4. QED
      BY <2>3, PlacesAreRows
  <1>8. ByTime \in [1..N -> StoredRow]
    BY <1>7 DEF ByTime
  <1>9. QED
    BY <1>1, <1>8

\* And rebuilding the observed movement leaves them rows.
LEMMA LoadedIsRows ==
  ASSUME history \in Seq(StoredScan)
  PROVE  Loaded \in Seq(StoredRow)
  <1>1. PICK s \in Seq(StoredRow) : s = ByTime
    BY ByTimeIsRows
  <1>2. ASSUME NEW k \in DOMAIN s PROVE Observe(s)[k] \in StoredRow
    <2>1. s[k] \in StoredRow
      OBVIOUS
    <2>2. ASSUME NEW x \in Int PROVE [s[k] EXCEPT !.observed = x] \in StoredRow
      BY <2>1 DEF StoredRow
    <2> DEFINE Rebuilt(x) == [s[k] EXCEPT !.observed = x]
    <2>2a. \A x \in Int : Rebuilt(x) \in StoredRow
      BY <2>2
    <2>3. Observe(s)[k] \in {s[k], Rebuilt(0),
                           Rebuilt(((s[k].usd - s[Max(Priced(s, k))].usd) * 100)
                                  \div s[Max(Priced(s, k))].usd)}
      BY DEF Observe
    <2>4. CASE Priced(s, k) = {}
      <3>1. Observe(s)[k] \in {s[k], Rebuilt(0)}
        BY <2>4 DEF Observe
      <3> HIDE DEF Rebuilt
      <3>2. QED
        BY <2>1, <2>2a, <3>1
    <2>5. CASE Priced(s, k) # {}
      <3>1. /\ k \in Int /\ Priced(s, k) \in SUBSET Int
            /\ \A j \in Priced(s, k) : j <= k
        BY DEF Priced
      <3>2. Max(Priced(s, k)) \in Priced(s, k)
        BY <2>5, <3>1, MaxIsGreatest
      <3>3. PICK j \in Priced(s, k) : j = Max(Priced(s, k))
        BY <3>2
      <3>4. j \in DOMAIN s /\ s[j].usd > 0
        BY <3>3 DEF Priced
      <3>5. s[j] \in StoredRow
        BY <3>4
      <3>6. s[j].usd \in Int /\ s[k].usd \in Int
        BY <2>1, <3>5 DEF StoredRow
      <3>7. ((s[k].usd - s[j].usd) * 100) \div s[j].usd \in Int
        BY <3>4, <3>6
      <3> HIDE DEF Rebuilt
      <3>8. Rebuilt(0) \in StoredRow
        BY <2>2a
      <3>9. QED
        BY <2>1, <2>2a, <2>3, <3>3, <3>7, <3>8
    <2>6. QED
      BY <2>4, <2>5
  <1>3. Observe(s) \in [DOMAIN s -> StoredRow]
    <2>1. Observe(s) = [k \in DOMAIN s |-> Observe(s)[k]]
      BY DEF Observe
    <2> QED
      BY <1>2, <2>1
  <1>4. DOMAIN s = 1..Len(s) /\ Len(s) \in Nat
    OBVIOUS
  <1>5. QED
    BY <1>1, <1>3, <1>4 DEF Loaded

\* A function given step by step, from its first value.
StepMaps(S, a, b) == [a..b -> [S -> S]]

Unrolls(g, S, a, b, base, step) ==
  /\ g \in [a..b -> S] /\ g[a] = base
  /\ \A j \in (a + 1)..b : g[j] = step[j][g[j - 1]]

\* There is one.
LEMMA RunExists ==
  ASSUME NEW S, NEW base \in S, NEW a \in Int, NEW b \in Int, a <= b,
         NEW step \in StepMaps(S, a, b)
  PROVE  \E g : Unrolls(g, S, a, b, base, step)
  <1> USE DEF StepMaps
  <1> DEFINE Runs(g, m) == /\ g \in [a..m -> S] /\ g[a] = base
                           /\ \A j \in (a + 1)..m : g[j] = step[j][g[j - 1]]
             Bad == {n \in 0..(b - a) : ~ \E g : Runs(g, a + n)}
  <1>1. ASSUME Bad # {} PROVE FALSE
    <2>1. Bad \in SUBSET Nat
      OBVIOUS
    <2>2. PICK n \in Bad : \A m \in Bad : n <= m
      BY <1>1, <2>1, LeastNumber
    <2>3. n \in 0..(b - a) /\ ~ \E g : Runs(g, a + n)
      BY <2>2
    <2>4. CASE n = 0
      <3> DEFINE g == [j \in a..a |-> base]
      <3>1. Runs(g, a)
        OBVIOUS
      <3>2. a + n = a
        BY <2>4
      <3> HIDE DEF Runs, g
      <3>3. QED
        BY <2>3, <3>1, <3>2
    <2>5. CASE n # 0
      <3>1. n - 1 \in 0..(b - a) /\ n - 1 \notin Bad
        <4> HIDE DEF Bad
        <4>1. n - 1 \in 0..(b - a) /\ ~(n <= n - 1)
          BY <2>3, <2>5
        <4>2. QED
          BY <2>2, <4>1
      <3>2. PICK g : Runs(g, a + (n - 1))
        BY <3>1
      <3> DEFINE h == [j \in a..(a + n) |->
                         IF j <= a + (n - 1) THEN g[j] ELSE step[j][g[j - 1]]]
      <3>3. \A j \in a..(a + (n - 1)) : h[j] = g[j] /\ g[j] \in S
        BY <2>3, <3>2
      <3>4. /\ a + (n - 1) \in a..(a + (n - 1)) /\ a + n \in a..b
            /\ h[a + n] = step[a + n][g[a + (n - 1)]]
        BY <2>3, <3>1
      <3>5. h[a + n] \in S
        <4> HIDE DEF h
        <4>1. step[a + n] \in [S -> S] /\ g[a + (n - 1)] \in S
          BY <3>3, <3>4
        <4>2. QED
          BY <3>4, <4>1
      <3>6. h \in [a..(a + n) -> S]
        <4>1. \A j \in a..(a + n) : j \in a..(a + (n - 1)) \/ j = a + n
          BY <2>3
        <4>2. \A j \in a..(a + n) : h[j] \in S
          BY <3>3, <3>5, <4>1
        <4> QED
          BY <4>2
      <3>7. h[a] = base
        BY <2>3, <3>1, <3>2, <3>3
      <3>8. ASSUME NEW j \in (a + 1)..(a + n) PROVE h[j] = step[j][h[j - 1]]
        <4>1. j - 1 \in a..(a + (n - 1))
          BY <2>3
        <4>2. h[j - 1] = g[j - 1]
          BY <3>3, <4>1
        <4>3. CASE j = a + n
          BY <2>3, <3>4, <4>2, <4>3
        <4>4. CASE j # a + n
          <5>1. j \in (a + 1)..(a + (n - 1)) /\ j \in a..(a + (n - 1))
            BY <2>3, <4>4
          <5>2. g[j] = step[j][g[j - 1]]
            BY <3>2, <5>1
          <5>3. QED
            BY <3>3, <4>2, <5>1, <5>2
        <4>5. QED
          BY <4>3, <4>4
      <3> HIDE DEF h
      <3>9. Runs(h, a + n)
        BY <3>6, <3>7, <3>8
      <3> HIDE DEF Runs
      <3>10. QED
        BY <2>3, <3>9
    <2>6. QED
      BY <2>4, <2>5
  <1>2. b - a \in 0..(b - a) /\ a + (b - a) = b
    OBVIOUS
  <1>3. \E g : Runs(g, a + (b - a))
    BY <1>1, <1>2
  <1>4. PICK g : Runs(g, b)
    BY <1>2, <1>3
  <1>5. QED
    BY <1>4 DEF Unrolls

-----------------------------------------------------------------------------
(* The search for the exit of a position.                                  *)

Endings == {"take_profit", "trailing_stop", "stop_loss"}
WatchState ==
  [highest : Int, trailing : BOOLEAN, at : Int, reason : {"open"} \cup Endings]

\* What load_rows and the request give the walk.
Given == history \in Seq(StoredScan) /\ config \in Configs /\ rows \in Seq(StoredRow)

LEMMA GivenRow ==
  ASSUME Given, NEW j \in DOMAIN rows
  PROVE  Ask(rows[j]) \in Int /\ Bid(rows[j]) \in Int
  <1>1. PICK r \in StoredRow : r = rows[j]
    BY DEF Given
  <1>2. r.ask \in Int /\ r.price \in Int /\ r.bid \in Int
    BY DEF StoredRow
  <1>3. Ask(r) \in Int /\ Bid(r) \in Int
    BY <1>2 DEF Ask, Bid
  <1>4. QED
    BY <1>1, <1>3

LEMMA GivenConfig ==
  ASSUME Given
  PROVE  /\ config.stopLoss \in Int /\ config.takeProfit \in Int /\ config.distance \in Int
         /\ config.slippage \in Nat /\ config.activation \in Nat
         /\ config.capital \in Int /\ config.usage \in Int /\ config.fee \in Nat
  BY BacktestAssumption DEF Given

LEMMA LaterRows ==
  ASSUME Given, NEW k \in DOMAIN rows
  PROVE  /\ k \in Int /\ k <= Len(rows) /\ k >= 1 /\ Len(rows) \in Nat
         /\ Later(k) \in SUBSET Int /\ Later(k) \subseteq DOMAIN rows
         /\ \A j \in Later(k) : j > k /\ j <= Len(rows) /\ rows[j].symbol = rows[k].symbol
  BY DEF Given, Later

\* A gain of p percent.
Gains(entry, raw, p) == (raw * 100 - entry) * 100 >= p * entry

\* What one bid changes, told without the order of the tests.
LEMMA WatchSays ==
  ASSUME Given, NEW p \in WatchState, NEW entry \in Int, NEW j \in DOMAIN rows,
         NEW raw, raw = Bid(rows[j]),
         NEW w, w = Watch(p, entry, j)
  PROVE  /\ w \in WatchState
         /\ p.at # 0 \/ raw <= 0 => w = p
         /\ p.at = 0 /\ raw > 0 =>
              /\ w.highest = IF p.highest >= raw * 100 THEN p.highest ELSE raw * 100
              /\ w.trailing <=> p.trailing \/ Gains(entry, raw, config.activation)
              /\ w.at = IF \/ Gains(entry, raw, config.takeProfit)
                           \/ raw * 10000 <= entry * (100 - config.stopLoss)
                           \/ /\ w.trailing
                              /\ raw * 10000 <= w.highest * (100 - config.distance)
                        THEN j ELSE 0
              /\ w.at # 0 => w.reason # "end_of_data"
  <1>1. raw \in Int /\ j \in Int
    BY GivenRow DEF Given
  <1> DEFINE high == Highest(p, raw)
             trail == p.trailing \/ Gains(entry, raw, config.activation)
             loss == entry * (100 - config.stopLoss)
             down == high * (100 - config.distance)
             stop == IF trail THEN Max({loss, down}) ELSE loss
             seen == [p EXCEPT !.highest = high, !.trailing = trail]
             profit == Gains(entry, raw, config.takeProfit)
  <1>2. p.highest \in Int /\ p.trailing \in BOOLEAN /\ p.at \in Int
    BY DEF WatchState
  <1>3. high = (IF p.highest >= raw * 100 THEN p.highest ELSE raw * 100) /\ high \in Int
    BY <1>1, <1>2, MaxOfTwo DEF Highest
  <1>4. loss \in Int /\ down \in Int
    BY <1>3, GivenConfig
  <1>5. raw * 10000 <= stop <=> \/ raw * 10000 <= loss
                                \/ trail /\ raw * 10000 <= down
    <2> HIDE DEF loss, down, trail
    <2>1. Max({loss, down}) = IF loss >= down THEN loss ELSE down
      BY <1>4, MaxOfTwo
    <2>2. QED
      BY <1>1, <1>4, <2>1
  <1>6. w = IF p.at # 0 \/ raw <= 0 THEN p
            ELSE IF profit THEN [seen EXCEPT !.at = j, !.reason = "take_profit"]
            ELSE IF raw * 10000 <= stop
            THEN [seen EXCEPT !.at = j, !.reason = IF trail THEN "trailing_stop"
                                                   ELSE "stop_loss"]
            ELSE seen
    BY DEF Watch, Gains
  <1>7. trail \in BOOLEAN
    BY <1>2 DEF Gains
  <1> DEFINE over == p.at # 0 \/ raw <= 0
             hit == raw * 10000 <= stop
  <1>7a. w = IF over THEN p
            ELSE IF profit THEN [seen EXCEPT !.at = j, !.reason = "take_profit"]
            ELSE IF hit
            THEN [seen EXCEPT !.at = j, !.reason = IF trail THEN "trailing_stop"
                                                   ELSE "stop_loss"]
            ELSE seen
    BY <1>6
  <1>7b. profit \in BOOLEAN /\ hit \in BOOLEAN /\ over \in BOOLEAN
    BY DEF Gains
  <1> HIDE DEF high, trail, loss, down, stop, profit, over, hit
  <1>8. /\ seen \in WatchState /\ seen.highest = high /\ seen.at = p.at
        /\ seen.trailing <=> trail
    BY <1>2, <1>3, <1>7 DEF WatchState
  <1> HIDE DEF seen
  <1>9. ASSUME NEW why \in Endings,
               NEW u, u = [seen EXCEPT !.at = j, !.reason = why]
        PROVE  /\ u \in WatchState /\ u.highest = seen.highest
               /\ u.trailing = seen.trailing
               /\ u.at = j /\ u.reason # "end_of_data"
    <2>1. seen \in WatchState /\ j \in Int
      BY <1>1, <1>8
    <2>2. PICK s \in WatchState : s = seen
      BY <2>1
    <2>3. u = [s EXCEPT !.at = j, !.reason = why]
      BY <1>9, <2>2
    <2>4. QED
      BY <2>1, <2>2, <2>3 DEF WatchState, Endings
  <1>10. CASE over
    <2>1. w = p
      BY <1>7a, <1>10, Zenon
    <2>2. ~(p.at = 0 /\ raw > 0)
      BY <1>1, <1>10 DEF over
    <2>3. QED
      BY <2>1, <2>2, Zenon
  <1>11. CASE ~over /\ (profit \/ hit)
    <2>1. \E why \in Endings :
            w = [seen EXCEPT !.at = j, !.reason = why]
      <3>1. w = IF profit THEN [seen EXCEPT !.at = j, !.reason = "take_profit"]
                ELSE [seen EXCEPT !.at = j, !.reason = IF trail THEN "trailing_stop"
                                                       ELSE "stop_loss"]
        <4>1. CASE profit
          BY <1>7a, <1>11, <4>1, Zenon
        <4>2. CASE ~profit
          BY <1>7a, <1>11, <4>2, Zenon
        <4>3. QED
          BY <4>1, <4>2, Zenon
      <3>2. CASE profit
        BY <3>1, <3>2, Zenon DEF Endings
      <3>3. CASE ~profit
        <4> DEFINE why == IF trail THEN "trailing_stop" ELSE "stop_loss"
        <4>1. why \in Endings
          BY Zenon DEF Endings
        <4>2. w = [seen EXCEPT !.at = j, !.reason = why]
          BY <3>1, <3>3, Zenon
        <4> HIDE DEF why
        <4>3. QED
          BY <4>1, <4>2, Zenon
      <3>4. QED
        BY <3>2, <3>3
    <2>2. /\ w \in WatchState /\ w.highest = seen.highest
          /\ w.trailing = seen.trailing
          /\ w.at = j /\ w.reason # "end_of_data"
      BY <1>9, <2>1, Zenon
    <2>3. \/ profit \/ raw * 10000 <= loss
          \/ trail /\ raw * 10000 <= down
      BY <1>5, <1>11 DEF hit
    <2>4. /\ w.highest = high /\ ~(p.at # 0 \/ raw <= 0)
          /\ w.trailing <=> trail
      BY <1>8, <1>11, <2>2 DEF over
    <2>5. \/ profit \/ raw * 10000 <= loss
          \/ w.trailing /\ raw * 10000 <= w.highest * (100 - config.distance)
      BY <2>3, <2>4 DEF down
    <2>6. QED
      BY <1>3, <2>2, <2>4, <2>5 DEF trail, loss, profit
  <1>12. CASE ~over /\ ~(profit \/ hit)
    <2>1. w = seen
      BY <1>7a, <1>12, Zenon
    <2>2. ~(\/ profit \/ raw * 10000 <= loss
            \/ trail /\ raw * 10000 <= down)
      BY <1>5, <1>12 DEF hit
    <2>3. /\ w \in WatchState /\ w.highest = high /\ ~(p.at # 0 \/ raw <= 0)
          /\ w.trailing <=> trail
          /\ w.at = p.at
      BY <1>8, <1>12, <2>1 DEF over
    <2>4. ~(\/ profit \/ raw * 10000 <= loss
            \/ w.trailing /\ raw * 10000 <= w.highest * (100 - config.distance))
      BY <2>2, <2>3 DEF down
    <2>5. QED
      BY <1>2, <1>3, <2>3, <2>4 DEF trail, loss, profit
  <1>13. QED
    BY <1>10, <1>11, <1>12

EntryPrice(e) == Bought(Ask(rows[e]))

LEMMA EntryPriced ==
  ASSUME Given, NEW e \in DOMAIN rows, Ask(rows[e]) > 0
  PROVE  EntryPrice(e) \in Int /\ EntryPrice(e) > 0
  <1>1. PICK s \in Nat : s = config.slippage
    BY GivenConfig
  <1>2. PICK a \in Int : a = Ask(rows[e]) /\ a > 0
    BY GivenRow
  <1>3. a * s >= 0
    BY <1>1, <1>2
  <1>4. a * (100 + s) = a * 100 + a * s
    BY <1>1, <1>2
  <1>5. QED
    BY <1>1, <1>2, <1>3, <1>4 DEF EntryPrice, Bought

\* The bids behind an entry, one row further.
LEMMA BidsGrow ==
  ASSUME Given, NEW e \in DOMAIN rows, NEW j \in Int, j > e
  PROVE  /\ BidsTo(e, j) \in SUBSET Int
         /\ j \in Later(e) /\ Bid(rows[j]) > 0 =>
              BidsTo(e, j) = BidsTo(e, j - 1) \cup {Bid(rows[j])}
         /\ ~(j \in Later(e) /\ Bid(rows[j]) > 0) => BidsTo(e, j) = BidsTo(e, j - 1)
  <1> DEFINE At(m) == {k \in Later(e) : k <= m /\ Bid(rows[k]) > 0}
  <1>1. Later(e) \in SUBSET Int
    BY LaterRows
  <1>2. \A k \in Later(e) : Bid(rows[k]) \in Int
    BY LaterRows, GivenRow
  <1>3. At(j) = At(j - 1) \cup {k \in {j} : j \in Later(e) /\ Bid(rows[j]) > 0}
    BY <1>1
  <1>4. CASE j \in Later(e) /\ Bid(rows[j]) > 0
    <2>1. At(j) = At(j - 1) \cup {j}
      BY <1>3, <1>4
    <2>2. BidsTo(e, j) = BidsTo(e, j - 1) \cup {Bid(rows[j])}
      BY <2>1 DEF BidsTo
    <2>3. QED
      BY <1>2, <1>4, <2>2 DEF BidsTo
  <1>5. CASE ~(j \in Later(e) /\ Bid(rows[j]) > 0)
    <2>1. At(j) = At(j - 1)
      BY <1>3, <1>5
    <2>2. BidsTo(e, j) = BidsTo(e, j - 1)
      BY <2>1 DEF BidsTo
    <2>3. QED
      BY <1>2, <1>5, <2>2 DEF BidsTo
  <1>6. QED
    BY <1>4, <1>5

\* The highest price so far: the one paid, or that of the highest bid.
Crests(e, j, high) ==
  /\ high \in Int /\ high >= EntryPrice(e)
  /\ \A b \in BidsTo(e, j) : b * 100 <= high
  /\ high = EntryPrice(e) \/ \E b \in BidsTo(e, j) : high = b * 100

Armed(e, j) == \E b \in BidsTo(e, j) : Gains(EntryPrice(e), b, config.activation)

\* Once the trailing stop is armed, the highest bid is above the entry.
LEMMA ArmedCrest ==
  ASSUME Given, NEW e \in DOMAIN rows, Ask(rows[e]) > 0, NEW j \in Int, j > e,
         NEW high, Crests(e, j, high), Armed(e, j)
  PROVE  Max(BidsTo(e, j)) \in Int /\ high = Max(BidsTo(e, j)) * 100
  <1> DEFINE B == BidsTo(e, j)
  <1>1. PICK entry \in Int : entry = EntryPrice(e) /\ entry > 0
    BY EntryPriced
  <1>2. PICK p \in Nat : p = config.activation
    BY GivenConfig
  <1>3. B \in SUBSET Int
    BY BidsGrow
  <1>4. PICK b \in B : (b * 100 - entry) * 100 >= p * entry
    BY <1>1, <1>2 DEF Armed, Gains
  <1>5. b \in Int /\ high \in Int
    BY <1>3 DEF Crests
  <1>6. p * entry >= 0
    BY <1>1, <1>2
  <1>7. b * 100 >= entry
    BY <1>1, <1>4, <1>5, <1>6
  <1>8. \A x \in B : x <= high
    <2>1. ASSUME NEW x \in B PROVE x <= high
      <3>1. x \in Int /\ x * 100 <= high
        BY <1>3 DEF Crests
      <3>2. CASE x <= 0
        BY <1>1, <1>5, <3>1, <3>2 DEF Crests
      <3>3. CASE x > 0
        BY <1>5, <3>1, <3>3
      <3>4. QED
        BY <3>1, <3>2, <3>3
    <2>2. QED
      BY <2>1
  <1> HIDE DEF B
  <1>9. Max(B) \in B /\ \A y \in B : Max(B) >= y
    BY <1>3, <1>4, <1>5, <1>8, MaxIsGreatest
  <1>10. PICK m \in Int : m = Max(B) /\ m \in B /\ m >= b
    BY <1>3, <1>9
  <1>11. m * 100 <= high /\ (high = entry \/ \E x \in B : high = x * 100)
    BY <1>1, <1>10 DEF Crests, B
  <1>12. CASE high = entry
    BY <1>1, <1>5, <1>7, <1>10, <1>11, <1>12 DEF B
  <1>13. CASE high # entry
    <2>1. PICK x \in B : high = x * 100
      BY <1>11, <1>13
    <2>2. x \in Int /\ m >= x
      BY <1>3, <1>9, <1>10
    <2>3. QED
      BY <1>5, <1>10, <1>11, <2>1, <2>2 DEF B
  <1>14. QED
    BY <1>12, <1>13

\* So the levels of the walk end a trade where the definition does.
LEMMA EndsSays ==
  ASSUME Given, NEW e \in DOMAIN rows, Ask(rows[e]) > 0, NEW j \in Int, j > e,
         j \in DOMAIN rows, NEW high, Crests(e, j, high), Bid(rows[j]) > 0
  PROVE  Ends(e, j) <=>
           \/ Gains(EntryPrice(e), Bid(rows[j]), config.takeProfit)
           \/ Bid(rows[j]) * 10000 <= EntryPrice(e) * (100 - config.stopLoss)
           \/ /\ Armed(e, j)
              /\ Bid(rows[j]) * 10000 <= high * (100 - config.distance)
  <1>1. PICK raw \in Int : raw = Bid(rows[j]) /\ raw > 0
    BY GivenRow
  <1>2. PICK d \in Int : d = config.distance
    BY GivenConfig
  <1>3. Armed(e, j) =>
          (raw * 10000 <= high * (100 - d) <=> raw * 100 <= Max(BidsTo(e, j)) * (100 - d))
    <2>1. SUFFICES ASSUME Armed(e, j)
                   PROVE  raw * 10000 <= high * (100 - d) <=>
                            raw * 100 <= Max(BidsTo(e, j)) * (100 - d)
      OBVIOUS
    <2>2. PICK m \in Int : m = Max(BidsTo(e, j)) /\ high = m * 100
      BY <2>1, ArmedCrest
    <2>3. (m * 100) * (100 - d) = (m * (100 - d)) * 100
      BY <1>2
    <2>4. PICK x \in Int : x = m * (100 - d)
      BY <1>2
    <2>5. QED
      BY <1>1, <2>2, <2>3, <2>4
  <1>4. Ends(e, j) <=>
          /\ raw > 0
          /\ \/ Gains(EntryPrice(e), raw, config.takeProfit)
             \/ raw * 10000 <= EntryPrice(e) * (100 - config.stopLoss)
             \/ Armed(e, j) /\ raw * 100 <= Max(BidsTo(e, j)) * (100 - d)
    BY <1>1, <1>2 DEF Ends, Gains, Armed, EntryPrice
  <1>5. QED
    BY <1>1, <1>2, <1>3, <1>4

\* No row behind the entry up to row j would have ended the trade.
Calm(e, j) == \A k \in Later(e) : k <= j => ~Ends(e, k)

\* What the search knows after row j.
Open(e, j, p) ==
  /\ p.at = 0 /\ Crests(e, j, p.highest) /\ Calm(e, j)
  /\ p.trailing <=> Armed(e, j)

Ended(e, p) ==
  /\ p.at \in Later(e) /\ p.reason # "end_of_data"
  /\ Ends(e, p.at) /\ Calm(e, p.at - 1)

\* One row further.
LEMMA WatchStep ==
  ASSUME Given, NEW e \in DOMAIN rows, Ask(rows[e]) > 0,
         NEW j \in (e + 1)..Len(rows), NEW p \in WatchState,
         Open(e, j - 1, p) \/ Ended(e, p),
         NEW w, w = IF j \in Later(e) THEN Watch(p, EntryPrice(e), j) ELSE p
  PROVE  w \in WatchState /\ (Open(e, j, w) \/ Ended(e, w))
  <1>1. /\ e \in Int /\ e >= 1 /\ Len(rows) \in Nat /\ j \in Int /\ j > e
        /\ j \in DOMAIN rows /\ Later(e) \in SUBSET Int
        /\ \A k \in Later(e) : k > e
    BY LaterRows DEF Given
  <1>2. PICK entry \in Int : entry = EntryPrice(e) /\ entry > 0
    BY EntryPriced
  <1>3. PICK raw \in Int : raw = Bid(rows[j])
    BY <1>1, GivenRow
  <1>4. j - 1 \in Int
    BY <1>1
  <1>5. CASE ~(j \in Later(e) /\ raw > 0)
    <2>1. w = p
      BY <1>1, <1>2, <1>3, <1>5, WatchSays
    <2>2. BidsTo(e, j) = BidsTo(e, j - 1)
      BY <1>1, <1>3, <1>5, BidsGrow
    <2>3. ASSUME NEW k \in Later(e), k <= j, Ends(e, k) PROVE k <= j - 1
      <3>1. k # j
        BY <1>3, <1>5, <2>3 DEF Ends
      <3>2. QED
        BY <1>1, <2>3, <3>1
    <2>4. Calm(e, j - 1) => Calm(e, j)
      BY <2>3 DEF Calm
    <2>5. Open(e, j - 1, p) => Open(e, j, p)
      BY <2>2, <2>4 DEF Open, Crests, Armed
    <2>6. QED
      BY <2>1, <2>5
  <1>6. CASE j \in Later(e) /\ raw > 0 /\ Ended(e, p)
    <2>1. p.at # 0
      BY <1>1, <1>6 DEF Ended
    <2>2. w = p
      BY <1>1, <1>2, <1>3, <1>6, <2>1, WatchSays
    <2>3. QED
      BY <1>6, <2>2
  <1>7. CASE j \in Later(e) /\ raw > 0 /\ Open(e, j - 1, p)
    <2>1. w = Watch(p, entry, j)
      BY <1>2, <1>7
    <2>2. p.at = 0 /\ p.highest \in Int /\ (p.trailing <=> Armed(e, j - 1))
          /\ Crests(e, j - 1, p.highest) /\ Calm(e, j - 1)
      BY <1>7 DEF Open, Crests
    <2>3. /\ w \in WatchState
          /\ w.highest = IF p.highest >= raw * 100 THEN p.highest ELSE raw * 100
          /\ w.trailing <=> p.trailing \/ Gains(entry, raw, config.activation)
          /\ w.at = IF \/ Gains(entry, raw, config.takeProfit)
                       \/ raw * 10000 <= entry * (100 - config.stopLoss)
                       \/ /\ w.trailing
                          /\ raw * 10000 <= w.highest * (100 - config.distance)
                    THEN j ELSE 0
          /\ w.at # 0 => w.reason # "end_of_data"
      BY <1>1, <1>3, <1>7, <2>1, <2>2, WatchSays
    <2>4. BidsTo(e, j) = BidsTo(e, j - 1) \cup {raw} /\ BidsTo(e, j - 1) \in SUBSET Int
      BY <1>1, <1>3, <1>7, BidsGrow
    <2>5. Crests(e, j, w.highest)
      <3>1. w.highest \in Int /\ w.highest >= entry
        BY <1>2, <2>2, <2>3 DEF Crests
      <3>2. ASSUME NEW b \in BidsTo(e, j) PROVE b * 100 <= w.highest
        <4>1. CASE b = raw
          BY <2>2, <2>3, <4>1
        <4>2. CASE b \in BidsTo(e, j - 1)
          <5>1. b \in Int /\ b * 100 <= p.highest
            BY <2>2, <2>4, <4>2 DEF Crests
          <5>2. QED
            BY <2>2, <2>3, <5>1
        <4>3. QED
          BY <2>4, <4>1, <4>2
      <3>3. w.highest = entry \/ \E b \in BidsTo(e, j) : w.highest = b * 100
        <4>1. raw \in BidsTo(e, j) /\ BidsTo(e, j - 1) \subseteq BidsTo(e, j)
          BY <2>4
        <4>2. CASE w.highest = raw * 100
          BY <4>1, <4>2
        <4>3. CASE w.highest = p.highest
          BY <1>2, <2>2, <4>1, <4>3 DEF Crests
        <4>4. QED
          BY <2>3, <4>2, <4>3
      <3>4. QED
        BY <1>2, <3>1, <3>2, <3>3 DEF Crests
    <2>6. w.trailing <=> Armed(e, j)
      BY <1>2, <2>2, <2>3, <2>4 DEF Armed
    <2>7. w.at = IF Ends(e, j) THEN j ELSE 0
      <3>1. Ends(e, j) <=>
              \/ Gains(entry, raw, config.takeProfit)
              \/ raw * 10000 <= entry * (100 - config.stopLoss)
              \/ Armed(e, j) /\ raw * 10000 <= w.highest * (100 - config.distance)
        BY <1>1, <1>2, <1>3, <1>7, <2>5, EndsSays
      <3>2. QED
        BY <2>3, <2>6, <3>1
    <2>8. CASE Ends(e, j)
      <3>1. w.at = j /\ w.at # 0
        BY <1>1, <2>7, <2>8
      <3>2. QED
        BY <1>7, <2>2, <2>3, <2>8, <3>1 DEF Ended
    <2>9. CASE ~Ends(e, j)
      <3>1. w.at = 0
        BY <2>7, <2>9
      <3>2. ASSUME NEW k \in Later(e), k <= j PROVE ~Ends(e, k)
        <4>1. k = j \/ k <= j - 1
          BY <1>1, <3>2
        <4>2. QED
          BY <2>2, <2>9, <4>1 DEF Calm
      <3>3. Calm(e, j)
        BY <3>2 DEF Calm
      <3>4. QED
        BY <2>3, <2>5, <2>6, <3>1, <3>3 DEF Open
    <2>10. QED
      BY <2>8, <2>9
  <1>8. QED
    BY <1>5, <1>6, <1>7

\* So the whole search finds the first row that ends the trade.
LEMMA FoundSays ==
  ASSUME Given, NEW e \in DOMAIN rows, Ask(rows[e]) > 0
  PROVE  /\ Found(e) \in WatchState
         /\ Open(e, Len(rows), Found(e)) \/ Ended(e, Found(e))
  <1> DEFINE N == Len(rows)
             entry == Bought(Ask(rows[e]))
             base == [Watching EXCEPT !.highest = entry]
             After(p, j) == IF j \in Later(e) THEN Watch(p, entry, j) ELSE p
             step == [j \in e..N |-> [p \in WatchState |-> After(p, j)]]
             Body(g) == [j \in e..N |-> IF j = e THEN base ELSE After(g[j - 1], j)]
  <1>1. e \in Int /\ N \in Nat /\ e <= N /\ e >= 1 /\ e..N \subseteq DOMAIN rows
    BY LaterRows DEF Given
  <1>2. entry \in Int /\ entry > 0
    BY EntryPriced DEF EntryPrice
  <1>3. /\ base \in WatchState /\ base.highest = entry /\ base.at = 0
        /\ base.trailing = FALSE
    <2>1. PICK w : w = Watching
      OBVIOUS
    <2>2. w = [highest |-> 0, trailing |-> FALSE, at |-> 0, reason |-> "open"]
      BY <2>1 DEF Watching
    <2>3. w \in WatchState /\ w.at = 0 /\ w.trailing = FALSE
      BY <2>2 DEF WatchState
    <2>4. base = [w EXCEPT !.highest = entry]
      BY <2>1
    <2> HIDE DEF entry, base
    <2>5. QED
      BY <1>2, <2>3, <2>4 DEF WatchState
  <1>4. \A j \in e..N : \A p \in WatchState : After(p, j) \in WatchState
    <2>1. ASSUME NEW j \in e..N, NEW p \in WatchState PROVE After(p, j) \in WatchState
      <3>1. j \in DOMAIN rows
        BY <1>1
      <3>2. Watch(p, entry, j) \in WatchState
        <4> HIDE DEF entry
        <4>1. QED
          BY <1>2, <3>1, WatchSays
      <3>3. QED
        BY <3>2
    <2>2. QED
      BY <2>1
  <1>5. step \in [e..N -> [WatchState -> WatchState]]
    BY <1>4
  <1>6. \E g \in [e..N -> WatchState] :
          g[e] = base /\ \A j \in (e + 1)..N : g[j] = step[j][g[j - 1]]
    <2>1. PICK b \in WatchState : b = base
      BY <1>3
    <2>2. PICK n \in Int : n = N /\ e <= n
      BY <1>1
    <2> HIDE DEF base, step, N
    <2>3. PICK s \in [e..n -> [WatchState -> WatchState]] : s = step
      BY <1>5, <2>2
    <2>4. e \in Int /\ n \in Int /\ e <= n /\ b \in WatchState
          /\ s \in StepMaps(WatchState, e, n)
      BY <1>1, <2>2 DEF StepMaps
    <2>5. \E g : Unrolls(g, WatchState, e, n, b, s)
      BY <2>4, RunExists
    <2>6. QED
      BY <2>1, <2>2, <2>3, <2>5 DEF Unrolls
  <1>7. \A g \in [e..N -> WatchState] : \A j \in (e + 1)..N :
          step[j][g[j - 1]] = After(g[j - 1], j)
    <2>1. ASSUME NEW g \in [e..N -> WatchState], NEW j \in (e + 1)..N
          PROVE  step[j][g[j - 1]] = After(g[j - 1], j)
      <3>1. j \in e..N /\ j - 1 \in e..N
        BY <1>1
      <3>2. g[j - 1] \in WatchState
        BY <3>1
      <3> HIDE DEF After
      <3>3. QED
        BY <3>1, <3>2
    <2>2. QED
      BY <2>1
  <1> HIDE DEF step
  <1>8. PICK f \in [e..N -> WatchState] : f = Body(f)
    <2>1. PICK f \in [e..N -> WatchState] :
            f[e] = base /\ \A j \in (e + 1)..N : f[j] = step[j][f[j - 1]]
      BY <1>6
    <2>2. ASSUME NEW j \in e..N
          PROVE  f[j] = IF j = e THEN base ELSE After(f[j - 1], j)
      <3>1. CASE j = e
        BY <2>1, <3>1
      <3>2. CASE j # e
        <4>1. j \in (e + 1)..N
          BY <1>1, <3>2
        <4>2. f[j] = After(f[j - 1], j)
          BY <1>7, <2>1, <4>1
        <4>3. QED
          BY <3>2, <4>2
      <3>3. QED
        BY <3>1, <3>2
    <2> HIDE DEF base, After, N
    <2>3. f = Body(f)
      BY <2>2
    <2>4. QED
      BY <2>3
  <1> DEFINE pos == CHOOSE g : g = Body(g)
  <1>9. pos = Body(pos)
    BY <1>8
  <1>10. Found(e) = pos[N]
    BY DEF Found
  <1> HIDE DEF pos, After, base, entry, N
  <1>11. /\ pos[e] = base
         /\ \A j \in (e + 1)..N : pos[j] = After(pos[j - 1], j)
    <2>1. \A j \in e..N : pos[j] = IF j = e THEN base ELSE After(pos[j - 1], j)
      BY <1>9
    <2>2. e \in e..N /\ \A j \in (e + 1)..N : j \in e..N /\ j # e
      BY <1>1
    <2>3. QED
      BY <2>1, <2>2
  <1> DEFINE Good(j) == pos[j] \in WatchState /\ (Open(e, j, pos[j]) \/ Ended(e, pos[j]))
             Bad == {n \in Nat : e + n <= N /\ ~Good(e + n)}
  <1>12. Good(e)
    <2>1. \A k \in Later(e) : k > e /\ k \in Int
      BY LaterRows
    <2>2. BidsTo(e, e) = {}
      BY <1>1, <2>1 DEF BidsTo
    <2>3. Crests(e, e, entry) /\ Calm(e, e) /\ ~Armed(e, e)
      BY <1>1, <1>2, <2>1, <2>2 DEF Crests, Calm, Armed, EntryPrice, entry
    <2>4. QED
      BY <1>3, <1>11, <2>3 DEF Open
  <1>13. Bad = {}
    <2>1. SUFFICES ASSUME Bad # {} PROVE FALSE
      OBVIOUS
    <2>2. PICK n \in Bad : \A m \in Bad : n <= m
      <3>1. Bad \in SUBSET Nat
        OBVIOUS
      <3> HIDE DEF Bad
      <3>2. QED
        BY <2>1, <3>1, LeastNumber
    <2>3. n \in Nat /\ e + n <= N /\ ~Good(e + n)
      BY <2>2
    <2>4. n # 0
      BY <1>1, <1>12, <2>3
    <2>5. n - 1 \in Nat /\ ~(n <= n - 1) /\ e + (n - 1) <= N
      BY <1>1, <2>3, <2>4
    <2>6. Good(e + (n - 1))
      BY <2>2, <2>5
    <2>7. PICK j \in (e + 1)..N : j = e + n /\ j - 1 = e + (n - 1)
      BY <1>1, <2>3, <2>4
    <2>8. pos[j] = After(pos[j - 1], j)
      BY <1>11, <2>7
    <2>9. pos[j - 1] \in WatchState /\ (Open(e, j - 1, pos[j - 1]) \/ Ended(e, pos[j - 1]))
      BY <2>6, <2>7
    <2>10. Good(j)
      BY <2>8, <2>9, WatchStep DEF After, entry, EntryPrice, N
    <2>11. QED
      BY <2>3, <2>7, <2>10
  <1>14. N - e \in Nat /\ e + (N - e) = N
    BY <1>1
  <1>15. Good(N)
    <2>1. N - e \notin Bad
      BY <1>13
    <2> HIDE DEF Good
    <2>2. ~(N - e \in Nat /\ e + (N - e) <= N /\ ~Good(e + (N - e)))
      BY <2>1
    <2>3. Good(e + (N - e))
      BY <1>1, <1>14, <2>2
    <2>4. QED
      BY <1>14, <2>3
  <1>16. QED
    BY <1>10, <1>15 DEF N

-----------------------------------------------------------------------------
(* The trades.                                                             *)

\* The delayed entry is the row it should be.
LEMMA EntryIsDelayed ==
  ASSUME Given, NEW k \in DOMAIN rows, Head(todo) \in Int, ~Starved(k)
  PROVE  /\ EntryRow(k) \in {k} \cup Later(k)
         /\ Cardinality({j \in (k + 1)..EntryRow(k) : rows[j].symbol = rows[k].symbol})
              = Delay
  <1>1. Delay \in Nat
    <2>1. Max({0, Head(todo)}) = IF 0 >= Head(todo) THEN 0 ELSE Head(todo)
      BY MaxOfTwo
    <2>2. QED
      BY <2>1 DEF Delay
  <1>2. /\ k \in Int /\ Len(rows) \in Nat /\ k >= 1
        /\ \A j \in Later(k) : j \in Int /\ j > k /\ j <= Len(rows)
    BY LaterRows
  <1>3. CASE Delay = 0
    <2>1. EntryRow(k) = k
      BY <1>3 DEF EntryRow
    <2>2. {j \in (k + 1)..EntryRow(k) : rows[j].symbol = rows[k].symbol} = {}
      BY <1>2, <2>1
    <2>3. QED
      BY <1>3, <2>1, <2>2, FS_EmptySet
  <1>4. CASE Delay # 0
    <2> DEFINE R == {ab \in Later(k) \X Later(k) : ab[1] < ab[2]}
               To(e) == {j \in Later(k) : j <= e}
    <2>1. IsFiniteSet(Later(k)) /\ Cardinality(Later(k)) \in Nat
      <3>1. IsFiniteSet((k + 1)..Len(rows))
        BY <1>2, FS_Interval
      <3>2. Later(k) \in SUBSET ((k + 1)..Len(rows))
        BY DEF Later
      <3>3. QED
        BY <3>1, <3>2, FS_Subset, FS_CardinalityType
    <2>2. \A p, q \in Later(k) : <<p, q>> \in R <=> p < q
      OBVIOUS
    <2> HIDE DEF R
    <2>3. \A p, q \in Later(k) : p = q \/ <<p, q>> \in R \/ <<q, p>> \in R
      <3>1. \A p, q \in Later(k) : p = q \/ p < q \/ q < p
        BY <1>2
      <3>2. QED
        BY <2>2, <3>1
    <2>4. \A p \in Later(k) : <<p, p>> \notin R
      BY <1>2, <2>2
    <2>5. \A p, q, r \in Later(k) : <<p, q>> \in R /\ <<q, r>> \in R => <<p, r>> \in R
      BY <1>2, <2>2
    <2>6. Delay \in 1..Cardinality(Later(k))
      BY <1>1, <1>4, <2>1 DEF Starved
    <2>7. PICK d \in 1..Cardinality(Later(k)) : d = Delay
      BY <2>6
    <2>8. PICK p \in Later(k) : Earlier(Later(k), R, p) = d - 1
      BY <2>1, <2>3, <2>4, <2>5, Ranked
    <2>9. Cardinality(To(p)) = d
      <3> DEFINE Below == {q \in Later(k) : <<q, p>> \in R}
      <3>1. To(p) = Below \cup {p} /\ p \notin Below
        BY <1>2, <2>2
      <3>2. IsFiniteSet(Below)
        BY <2>1, FS_Subset
      <3>3. Cardinality(Below) = d - 1
        BY <2>8 DEF Earlier
      <3> HIDE DEF Below, To
      <3>4. Cardinality(To(p)) = (d - 1) + 1
        BY <3>1, <3>2, <3>3, FS_AddElement
      <3>5. QED
        BY <2>1, <3>4
    <2>10. EntryRow(k) \in Later(k) /\ Cardinality(To(EntryRow(k))) = Delay
      <3>1. EntryRow(k) = CHOOSE e \in Later(k) : Cardinality(To(e)) = Delay
        BY <1>4 DEF EntryRow
      <3> HIDE DEF To
      <3>2. QED
        BY <2>7, <2>9, <3>1
    <2>11. To(EntryRow(k)) =
             {j \in (k + 1)..EntryRow(k) : rows[j].symbol = rows[k].symbol}
      <3>1. PICK e \in Later(k) : e = EntryRow(k)
        BY <2>10
      <3>2. QED
        BY <1>2, <3>1 DEF Later
    <2>12. QED
      BY <2>10, <2>11
  <1>5. QED
    BY <1>3, <1>4

\* The exit is a later row, the first that ends the trade or the last one.
LEMMA ExitSays ==
  ASSUME Given, NEW e \in DOMAIN rows, Ask(rows[e]) > 0, Exit(e).at # 0
  PROVE  /\ Exit(e).at \in Later(e)
         /\ \A j \in Later(e) : j < Exit(e).at => ~Ends(e, j)
         /\ IF Exit(e).reason = "end_of_data" THEN Exit(e).at = Max(Later(e))
            ELSE Ends(e, Exit(e).at)
  <1>1. PICK p \in WatchState : p = Found(e) /\ (Open(e, Len(rows), p) \/ Ended(e, p))
    BY FoundSays
  <1>2. /\ e \in Int /\ e >= 1 /\ Len(rows) \in Nat
        /\ \A j \in Later(e) : j \in Int /\ j > e /\ j <= Len(rows)
    BY LaterRows
  <1>3. CASE p.at # 0
    <2>1. Exit(e) = p
      BY <1>1, <1>3 DEF Exit
    <2>2. Ended(e, p)
      BY <1>1, <1>3 DEF Open
    <2>3. ASSUME NEW j \in Later(e), j < p.at PROVE ~Ends(e, j)
      <3>1. j <= p.at - 1
        BY <1>2, <2>2, <2>3 DEF Ended
      <3>2. QED
        BY <2>2, <3>1 DEF Ended, Calm
    <2>4. QED
      BY <2>1, <2>2, <2>3 DEF Ended
  <1>4. CASE p.at = 0
    <2> DEFINE last == Max(Later(e) \cup {0})
    <2>1. Exit(e) = [p EXCEPT !.at = last, !.reason = "end_of_data"]
      BY <1>1, <1>4 DEF Exit
    <2> HIDE DEF last
    <2>2. Exit(e).at = last /\ Exit(e).reason = "end_of_data"
      BY <2>1 DEF WatchState
    <2>3. Calm(e, Len(rows))
      BY <1>1, <1>2, <1>4 DEF Open, Ended
    <2>4. \A j \in Later(e) : ~Ends(e, j)
      BY <1>2, <2>3 DEF Calm
    <2>5. /\ Later(e) \cup {0} \in SUBSET Int
          /\ \A j \in Later(e) \cup {0} : j <= Len(rows)
      BY <1>2
    <2>6. last \in Later(e) \cup {0} /\ \A j \in Later(e) \cup {0} : last >= j
      <3>1. PICK T \in SUBSET Int : T = Later(e) \cup {0}
        BY <2>5
      <3>2. PICK top \in Int : top = Len(rows)
        BY <1>2
      <3>3a. \A x \in T : x <= top
        BY <2>5, <3>1, <3>2
      <3>3. T # {}
        BY <3>1
      <3>4. Max(T) \in T /\ \A j \in T : Max(T) >= j
        BY <3>3a, <3>3, MaxIsGreatest
      <3>5. QED
        BY <3>1, <3>4 DEF last
    <2>7. last \in Later(e) /\ \A j \in Later(e) : last >= j
      BY <2>2, <2>6
    <2>8. last = Max(Later(e))
      <3>1. /\ Later(e) \in SUBSET Int /\ Later(e) # {}
            /\ \A j \in Later(e) : j <= Len(rows)
        BY <1>2, <2>7
      <3>2. PICK T \in SUBSET Int : T = Later(e) /\ T # {}
        BY <3>1
      <3>3. PICK top \in Int : top = Len(rows)
        BY <1>2
      <3>3a. \A x \in T : x <= top
        BY <3>1, <3>2, <3>3
      <3>4. Max(T) \in T /\ \A j \in T : Max(T) >= j
        BY <3>2, <3>3a, MaxIsGreatest
      <3>5. QED
        BY <1>2, <2>7, <3>2, <3>4
    <2>9. QED
      BY <2>2, <2>4, <2>7, <2>8
  <1>5. QED
    BY <1>3, <1>4

\* What holds of a trade by itself: its rows, and its end.
Fits(t) ==
  /\ rows[t.signal].symbol = t.symbol /\ rows[t.exit].symbol = t.symbol
  /\ t.entry < t.exit
  /\ Cardinality({j \in (t.signal + 1)..t.entry : rows[j].symbol = t.symbol}) = Delay

StopsFirst(t) ==
  /\ \A j \in Later(t.entry) : j < t.exit => ~Ends(t.entry, j)
  /\ IF t.reason = "end_of_data" THEN t.exit = Max(Later(t.entry))
     ELSE Ends(t.entry, t.exit)

\* What has a type, and when there is a delay and a trade.
TestTyped ==
  /\ Given
  /\ index \in Nat /\ index >= 1
  /\ todo \in Seq(Int)
  /\ phase \in {"walk", "finish"} => todo # <<>>
  /\ trades \in Seq({trades[n] : n \in DOMAIN trades})
  /\ phase = "load" => trades = <<>>

TradesFit ==
  phase # "done" => \A n \in DOMAIN trades :
    /\ trades[n].exit \in Int /\ trades[n].exit < index
    /\ n > 1 => trades[n - 1].exit < trades[n].signal
    /\ Fits(trades[n])

TestInv ==
  /\ TestTyped
  /\ TradesFit
  /\ \A n \in DOMAIN trades : StopsFirst(trades[n])

LEMMA TestInvImplies == TestInv => ExitIsFirst
  <1> SUFFICES ASSUME TestInv PROVE ExitIsFirst
    OBVIOUS
  <1>1. TradesInOrder
    <2>1. SUFFICES ASSUME phase # "done", NEW n \in DOMAIN trades
                   PROVE  LET t == trades[n] IN
                            /\ n > 1 => trades[n - 1].exit < t.signal
                            /\ rows[t.signal].symbol = t.symbol
                            /\ rows[t.exit].symbol = t.symbol
                            /\ t.entry < t.exit /\ t.exit < index
                            /\ Cardinality({j \in (t.signal + 1)..t.entry :
                                              rows[j].symbol = t.symbol}) = Delay
      BY DEF TradesInOrder
    <2>2. QED
      BY <2>1, Zenon DEF TestInv, TradesFit, Fits
  <1>2. ExitsAreFirst
    BY Zenon DEF TestInv, StopsFirst, ExitsAreFirst
  <1>3. QED
    BY <1>1, <1>2 DEF ExitIsFirst

\* A sequence with one more element.
LEMMA OneMore ==
  ASSUME NEW S, NEW s \in Seq(S), NEW x, NEW t, t = Append(s, x)
  PROVE  /\ DOMAIN t = 1..(Len(s) + 1) /\ DOMAIN s = 1..Len(s) /\ Len(s) \in Nat
         /\ \A n \in DOMAIN s : n \in DOMAIN t /\ t[n] = s[n]
         /\ t[Len(s) + 1] = x
         /\ t \in Seq({t[n] : n \in DOMAIN t})
  <1>1. s \in Seq(S \cup {x}) /\ x \in S \cup {x}
    OBVIOUS
  <1>2. /\ DOMAIN t = 1..(Len(s) + 1) /\ DOMAIN s = 1..Len(s) /\ Len(s) \in Nat
        /\ t \in [1..(Len(s) + 1) -> S \cup {x}]
        /\ \A n \in DOMAIN s : n \in DOMAIN t /\ t[n] = s[n]
        /\ t[Len(s) + 1] = x
    <2>1. PICK T : T = S \cup {x} /\ s \in Seq(T) /\ x \in T
      BY <1>1
    <2>2. t \in Seq(T) /\ Len(t) = Len(s) + 1
      BY <2>1
    <2>3. DOMAIN t = 1..(Len(s) + 1) /\ DOMAIN s = 1..Len(s) /\ Len(s) \in Nat
      BY <2>1, <2>2
    <2>4. t \in [1..(Len(s) + 1) -> T]
      <3>1. PICK u \in Seq(T) : u = t
        BY <2>2
      <3>2. u \in [1..Len(u) -> T] /\ DOMAIN u = 1..Len(u)
        OBVIOUS
      <3>3. QED
        BY <2>3, <3>1, <3>2
    <2>5. \A n \in DOMAIN s : n \in DOMAIN t /\ t[n] = s[n]
      BY <2>1, <2>3
    <2>6. t[Len(s) + 1] = x
      BY <2>1
    <2>7. QED
      BY <2>1, <2>3, <2>4, <2>5, <2>6
  <1>3. t \in [1..(Len(s) + 1) -> {t[n] : n \in DOMAIN t}]
    BY <1>2
  <1>4. t \in Seq({t[n] : n \in DOMAIN t})
    BY <1>2, <1>3
  <1>5. QED
    BY <1>2, <1>4

\* What ends a trade depends on the rows and the settings only.
LEMMA StopsKept ==
  ASSUME rows' = rows, config' = config, NEW t
  PROVE  (Fits(t) /\ Delay' = Delay => Fits(t)') /\ (StopsFirst(t) => StopsFirst(t)')
  <1>1. \A k : Later(k)' = Later(k)
    BY DEF Later
  <1>2. \A raw : Bought(raw)' = Bought(raw)
    BY DEF Bought
  <1>3. \A k, j : BidsTo(k, j)' = BidsTo(k, j)
    BY <1>1 DEF BidsTo
  <1>4. \A k, j : Ends(k, j)' <=> Ends(k, j)
    BY <1>2, <1>3 DEF Ends
  <1>5. StopsFirst(t) => StopsFirst(t)'
    BY <1>1, <1>4 DEF StopsFirst
  <1>6. Fits(t) /\ Delay' = Delay => Fits(t)'
    BY DEF Fits
  <1>7. QED
    BY <1>5, <1>6

LEMMA TestStarts == TestInit => TestInv
  <1> SUFFICES ASSUME TestInit PROVE TestInv
    OBVIOUS
  <1>1. history \in Seq(StoredScan) /\ config \in Configs /\ rows \in Seq(StoredRow)
    BY BacktestAssumption DEF TestInit
  <1>2. trades = <<>> /\ todo = <<>> /\ index = 1 /\ phase = "load"
    BY DEF TestInit
  <1>3. QED
    BY <1>1, <1>2 DEF TestInv, TestTyped, TradesFit, Given

\* A step that makes no trade keeps those that were made.
LEMMA TestKept ==
  ASSUME TestInv, UNCHANGED <<request, rows, todo, trades>>,
         index' \in Nat, index' >= index,
         \/ phase = "walk" /\ phase' \in {"walk", "finish"}
         \/ phase' = phase
  PROVE  TestInv'
  <1>1. TestTyped'
    BY DEF TestInv, TestTyped, Given, request
  <1>2. \A t : (Fits(t) => Fits(t)') /\ (StopsFirst(t) => StopsFirst(t)')
    BY StopsKept DEF Delay, request
  <1>3. TradesFit'
    <2>1. phase' # "done" => phase # "done"
      OBVIOUS
    <2>2. SUFFICES ASSUME phase' # "done", NEW n \in DOMAIN trades
                   PROVE  /\ trades[n].exit \in Int /\ trades[n].exit < index'
                          /\ n > 1 => trades[n - 1].exit < trades[n].signal
                          /\ Fits(trades[n])'
      BY DEF TradesFit
    <2>3. /\ trades[n].exit \in Int /\ trades[n].exit < index
          /\ n > 1 => trades[n - 1].exit < trades[n].signal
          /\ Fits(trades[n])
      BY <2>1, <2>2 DEF TestInv, TradesFit
    <2>4. trades[n].exit < index'
      BY <2>3 DEF TestInv, TestTyped
    <2>5. QED
      BY <1>2, <2>3, <2>4
  <1>4. (\A n \in DOMAIN trades : StopsFirst(trades[n]))'
    BY <1>2 DEF TestInv
  <1>5. QED
    BY <1>1, <1>3, <1>4 DEF TestInv

LEMMA TestEmptied ==
  ASSUME Given', index' = 1, trades' = <<>>, todo' \in Seq(Int), todo' # <<>>
  PROVE  TestInv'
  BY DEF TestInv, TestTyped, TradesFit

LEMMA LoadStep ==
  ASSUME TestInv, NEW delay \in Delays, Load(delay)
  PROVE  TestInv'
  <1>1. Given'
    BY LoadedIsRows DEF TestInv, TestTyped, Given, Load, request
  <1>2. delay \in Int
    BY BacktestAssumption
  <1>3. todo' \in Seq(Int) /\ todo' # <<>>
    <2>1. <<delay>> \in Seq(Int) /\ Len(<<delay>>) = 1
      BY <1>2
    <2>2. Compared \in Seq(Int) /\ Len(Compared) = 3
      BY DEF Compared
    <2>3. todo' = <<delay>> \o Compared
      BY DEF Load
    <2>4. todo' \in Seq(Int) /\ Len(todo') = 4
      <3>1. PICK one \in Seq(Int) : one = <<delay>> /\ Len(one) = 1
        BY <2>1
      <3>2. PICK more \in Seq(Int) : more = Compared /\ Len(more) = 3
        BY <2>2
      <3>3. one \o more \in Seq(Int)
        OBVIOUS
      <3>4. Len(one \o more) = Len(one) + Len(more)
        OBVIOUS
      <3>5. QED
        BY <2>3, <3>1, <3>2, <3>3, <3>4
    <2>5. PICK u \in Seq(Int) : u = todo' /\ Len(u) = 4
      BY <2>4
    <2>6. u # <<>>
      <3>1. ASSUME u = <<>> PROVE FALSE
        <4>1. Len(u) = Len(<<>>) /\ Len(<<>>) = 0
          BY <3>1
        <4>2. Len(u) = 4
          BY <2>5
        <4>3. QED
          BY <4>1, <4>2
      <3>2. QED
        BY <3>1
    <2>7. QED
      BY <2>5, <2>6
  <1>4. index' = 1 /\ trades' = <<>>
    BY DEF Load, Fresh
  <1>5. QED
    BY <1>1, <1>3, <1>4, TestEmptied

LEMMA FinishStep ==
  ASSUME TestInv, Finish
  PROVE  TestInv'
  <1>1. todo \in Seq(Int) /\ todo # <<>>
    BY DEF TestInv, TestTyped, Finish
  <1>2. Tail(todo) \in Seq(Int) /\ Len(Tail(todo)) = Len(todo) - 1 /\ Len(todo) \in Nat
        /\ Len(todo) # 0
    BY <1>1
  <1>3. Given'
    BY DEF TestInv, TestTyped, Given, Finish, request
  <1>4. CASE Len(todo) = 1
    <2>1. /\ UNCHANGED <<request, rows, trades, index>> /\ phase' = "done"
          /\ todo' \in Seq(Int)
      BY <1>2, <1>4 DEF Finish, walkVars
    <2>2. TestTyped' /\ TradesFit'
      BY <1>3, <2>1 DEF TestInv, TestTyped, TradesFit
    <2>3. (\A n \in DOMAIN trades : StopsFirst(trades[n]))'
      <3>1. \A t : StopsFirst(t) => StopsFirst(t)'
        BY <2>1, StopsKept DEF request
      <3>2. QED
        BY <2>1, <3>1 DEF TestInv
    <2>4. QED
      BY <2>2, <2>3 DEF TestInv
  <1>5. CASE Len(todo) # 1
    <2>1. index' = 1 /\ trades' = <<>> /\ todo' = Tail(todo)
      BY <1>5 DEF Finish, Fresh
    <2>2. todo' \in Seq(Int) /\ todo' # <<>>
      BY <1>2, <1>5, <2>1
    <2>3. QED
      BY <1>3, <2>1, <2>2, TestEmptied
  <1>6. QED
    BY <1>4, <1>5

LEMMA TradeStep ==
  ASSUME TestInv, Trade
  PROVE  TestInv'
  <1> DEFINE e == EntryRow(index)
             exit == Exit(e)
  <1>1. /\ UNCHANGED <<request, rows, todo, phase>> /\ phase = "walk"
        /\ Signal /\ ~Starved(index) /\ Ask(rows[e]) > 0 /\ exit.at # 0
        /\ index' = exit.at + 1
    BY DEF Trade, Enters, Signal, Resume
  <1>2. /\ Given /\ index \in Nat /\ index >= 1 /\ Head(todo) \in Int
        /\ index \in DOMAIN rows
    <2>1. /\ Given /\ index \in Nat /\ index >= 1 /\ todo \in Seq(Int) /\ todo # <<>>
      BY <1>1 DEF TestInv, TestTyped
    <2>2. index <= Len(rows)
      BY <1>1 DEF Signal
    <2>3. QED
      BY <2>1, <2>2 DEF Given
  <1>3. /\ e \in {index} \cup Later(index)
        /\ Cardinality({j \in (index + 1)..e : rows[j].symbol = rows[index].symbol}) = Delay
    BY <1>1, <1>2, EntryIsDelayed
  <1>4. /\ e \in DOMAIN rows /\ e \in Int /\ e >= index
        /\ rows[e].symbol = rows[index].symbol
    BY <1>2, <1>3, LaterRows
  <1>5. /\ exit.at \in Later(e)
        /\ \A j \in Later(e) : j < exit.at => ~Ends(e, j)
        /\ IF exit.reason = "end_of_data" THEN exit.at = Max(Later(e))
           ELSE Ends(e, exit.at)
    BY <1>1, <1>2, <1>4, ExitSays
  <1>6. exit.at \in Int /\ exit.at > e /\ rows[exit.at].symbol = rows[e].symbol
    BY <1>2, <1>4, <1>5, LaterRows
  <1>7. PICK t : /\ trades' = Append(trades, t)
                 /\ t.symbol = rows[index].symbol /\ t.signal = index /\ t.entry = e
                 /\ t.exit = exit.at /\ t.reason = exit.reason
    <2> DEFINE raw == Bid(rows[exit.at])
               value == (Used * Sold(raw)) \div EntryPrice(e)
               exitFee == (value * config.fee) \div 100
               pnl == (value - Used) - EntryFee - exitFee
               t == [symbol |-> rows[index].symbol, signal |-> index, entry |-> e,
                     exit |-> exit.at, reason |-> exit.reason, pnl |-> pnl,
                     fees |-> EntryFee + exitFee, used |-> Used,
                     duration |-> Cardinality({j \in Later(e) : j <= exit.at})]
    <2>1. trades' = Append(trades, t)
      BY DEF Trade, EntryPrice
    <2>2. /\ t.symbol = rows[index].symbol /\ t.signal = index /\ t.entry = e
          /\ t.exit = exit.at /\ t.reason = exit.reason
      OBVIOUS
    <2> HIDE DEF t
    <2>3. QED
      BY <2>1, <2>2
  <1> HIDE DEF e, exit
  <1>8. Fits(t) /\ StopsFirst(t) /\ t.exit \in Int /\ t.exit < index' /\ index < index'
    <2>1. Fits(t)
      BY <1>3, <1>4, <1>6, <1>7 DEF Fits
    <2>2. StopsFirst(t)
      BY <1>5, <1>7 DEF StopsFirst
    <2>3. t.exit \in Int /\ t.exit < index' /\ index < index'
      BY <1>1, <1>2, <1>4, <1>6, <1>7
    <2>4. QED
      BY <2>1, <2>2, <2>3
  <1>9. PICK N \in Nat :
          /\ N = Len(trades) /\ DOMAIN trades' = 1..(N + 1) /\ DOMAIN trades = 1..N
          /\ \A n \in DOMAIN trades : n \in DOMAIN trades' /\ trades'[n] = trades[n]
          /\ trades'[N + 1] = t
          /\ trades' \in Seq({trades'[n] : n \in DOMAIN trades'})
    <2>1. PICK u : u = trades'
      OBVIOUS
    <2>2. PICK S : trades \in Seq(S)
      BY DEF TestInv, TestTyped
    <2>3. u = Append(trades, t)
      BY <1>7, <2>1
    <2>4. /\ DOMAIN u = 1..(Len(trades) + 1) /\ DOMAIN trades = 1..Len(trades)
          /\ Len(trades) \in Nat
          /\ \A n \in DOMAIN trades : n \in DOMAIN u /\ u[n] = trades[n]
          /\ u[Len(trades) + 1] = t
          /\ u \in Seq({u[n] : n \in DOMAIN u})
      BY <2>2, <2>3, OneMore
    <2>5. QED
      BY <2>1, <2>4
  <1>10. \A n \in DOMAIN trades' : n \in DOMAIN trades \/ (n = N + 1 /\ n \notin DOMAIN trades)
    BY <1>9
  <1>11. TestTyped'
    BY <1>1, <1>2, <1>6, <1>4, <1>9 DEF TestInv, TestTyped, Given, request
  <1>12. \A s : (Fits(s) => Fits(s)') /\ (StopsFirst(s) => StopsFirst(s)')
    BY <1>1, StopsKept DEF Delay, request
  <1>13. \A n \in DOMAIN trades : /\ trades[n].exit \in Int /\ trades[n].exit < index
                                  /\ n > 1 => trades[n - 1].exit < trades[n].signal
                                  /\ Fits(trades[n]) /\ StopsFirst(trades[n])
    BY <1>1 DEF TestInv, TradesFit
  <1>14. ASSUME NEW n \in DOMAIN trades'
         PROVE  /\ trades'[n].exit \in Int /\ trades'[n].exit < index'
                /\ n > 1 => trades'[n - 1].exit < trades'[n].signal
                /\ \A s : s = trades'[n] => Fits(s)' /\ StopsFirst(s)'
    <2>1. CASE n \in DOMAIN trades
      <3>1. trades'[n] = trades[n] /\ (n > 1 => trades'[n - 1] = trades[n - 1])
        BY <1>9, <2>1
      <3>2. trades[n].exit < index'
        BY <1>2, <1>6, <1>1, <1>8, <1>13, <2>1
      <3>3. \A s : s = trades[n] => Fits(s)' /\ StopsFirst(s)'
        BY <1>12, <1>13, <2>1
      <3>4. QED
        BY <1>13, <2>1, <3>1, <3>2, <3>3
    <2>2. CASE n = N + 1
      <3>1. trades'[n] = t
        BY <1>9, <2>2
      <3>2. n > 1 => n - 1 \in DOMAIN trades /\ trades'[n - 1] = trades[n - 1]
        BY <1>9, <2>2
      <3>3. n > 1 => trades'[n - 1].exit < index
        BY <1>13, <3>2
      <3>4. Fits(t)' /\ StopsFirst(t)'
        BY <1>8, <1>12
      <3>5. QED
        BY <1>7, <1>8, <3>1, <3>3, <3>4
    <2>3. QED
      BY <1>10, <2>1, <2>2
  <1>15. TradesFit'
    BY <1>14 DEF TradesFit
  <1>16. (\A n \in DOMAIN trades : StopsFirst(trades[n]))'
    BY <1>14
  <1>17. QED
    BY <1>11, <1>15, <1>16 DEF TestInv

LEMMA TestStep == TestInv /\ [TestNext]_testVars => TestInv'
  <1> SUFFICES ASSUME TestInv, [TestNext]_testVars PROVE TestInv'
    OBVIOUS
  <1>1. index \in Nat /\ index + 1 \in Nat /\ index + 1 >= index /\ index >= index
    BY DEF TestInv, TestTyped
  <1>2. CASE UNCHANGED testVars
    <2>1. UNCHANGED <<request, rows, todo, trades, phase, index>>
      BY <1>2 DEF testVars, walkVars
    <2>2. QED
      BY <1>1, <2>1, TestKept
  <1>3. CASE Reject \/ Unpriced \/ Abandon
    <2>1. UNCHANGED <<request, rows, todo, trades, phase>> /\ index' = index + 1
      BY <1>3 DEF Reject, Unpriced, Abandon
    <2>2. QED
      BY <1>1, <2>1, TestKept
  <1>4. CASE Starve \/ Broke \/ WalkedAll
    <2>1. /\ UNCHANGED <<request, rows, todo, trades, index>>
          /\ phase = "walk" /\ phase' = "finish"
      BY <1>4 DEF Starve, Broke, WalkedAll, Enters, Signal, walkVars
    <2>2. QED
      BY <1>1, <2>1, TestKept
  <1>5. QED
    BY <1>2, <1>3, <1>4, LoadStep, TradeStep, FinishStep DEF TestNext

(* In a backtest the trades follow one another without foresight, and each  *)
(* ends at the first row that ends it, for any history, settings and delay  *)
(* (run_backtest).                                                          *)
THEOREM Exits == TestSpec => []ExitIsFirst
  <1>1. TestInit => TestInv
    BY TestStarts
  <1>2. TestInv /\ [TestNext]_testVars => TestInv'
    BY TestStep
  <1>3. TestInv => ExitIsFirst
    BY TestInvImplies
  <1>4. QED
    BY <1>1, <1>2, <1>3, PTL DEF TestSpec

-----------------------------------------------------------------------------
(* The figures of a report.                                                 *)

\* The partial sums of a sequence of numbers.
Sums(g, v) ==
  /\ g[0] = 0
  /\ \A n \in 0..Len(v) : g[n] \in Int
  /\ \A n \in 1..Len(v) : g[n] = g[n - 1] + v[n]

LEMMA TotalSays ==
  ASSUME NEW v \in Seq(Int)
  PROVE  \E g : Sums(g, v) /\ Total(v) = g[Len(v)]
  <1> DEFINE N == Len(v)
             Body(g) == [n \in 0..N |-> IF n = 0 THEN 0 ELSE g[n - 1] + v[n]]
             step == [n \in 0..N |-> [x \in Int |-> IF n = 0 THEN x ELSE x + v[n]]]
  <1>1. N \in Nat /\ \A n \in 1..N : v[n] \in Int
    OBVIOUS
  <1>2. step \in StepMaps(Int, 0, N)
    <2>1. ASSUME NEW n \in 0..N, NEW x \in Int
          PROVE  (IF n = 0 THEN x ELSE x + v[n]) \in Int
      <3>1. n # 0 => n \in 1..N
        BY <1>1
      <3>2. QED
        BY <1>1, <3>1
    <2>2. QED
      BY <2>1 DEF StepMaps
  <1>3. PICK f : Unrolls(f, Int, 0, N, 0, step)
    <2>1. 0 \in Int /\ N \in Int /\ 0 <= N
      BY <1>1
    <2> HIDE DEF N, step
    <2>2. QED
      BY <1>2, <2>1, RunExists
  <1>4. f = Body(f)
    <2>1. ASSUME NEW n \in 0..N
          PROVE  f[n] = IF n = 0 THEN 0 ELSE f[n - 1] + v[n]
      <3>1. CASE n = 0
        BY <1>3, <3>1 DEF Unrolls
      <3>2. CASE n # 0
        <4>1. n \in (0 + 1)..N /\ n - 1 \in 0..N
          BY <1>1, <3>2
        <4>2. f[n] = step[n][f[n - 1]] /\ f[n - 1] \in Int
          BY <1>3, <4>1 DEF Unrolls
        <4>3. QED
          BY <3>2, <4>2
      <3>3. QED
        BY <3>1, <3>2
    <2>2. f \in [0..N -> Int]
      BY <1>3 DEF Unrolls
    <2> HIDE DEF N
    <2>3. QED
      BY <2>1, <2>2
  <1> DEFINE sum == CHOOSE g : g = Body(g)
  <1>5. sum = Body(sum)
    BY <1>4
  <1>6. Total(v) = sum[N]
    BY DEF Total
  <1> HIDE DEF sum, N
  <1>7. \A n \in 0..N : sum[n] = IF n = 0 THEN 0 ELSE sum[n - 1] + v[n]
    BY <1>5
  <1> DEFINE Bad == {n \in 0..N : sum[n] \notin Int}
  <1>8. Bad = {}
    <2>1. SUFFICES ASSUME Bad # {} PROVE FALSE
      OBVIOUS
    <2>2. Bad \in SUBSET Nat
      BY <1>1
    <2>3. PICK n \in Bad : \A m \in Bad : n <= m
      <3> HIDE DEF Bad
      <3>1. QED
        BY <2>1, <2>2, LeastNumber
    <2>4. n \in 0..N /\ n # 0 /\ sum[n] \notin Int
      BY <1>7, <2>3
    <2>5. n - 1 \in 0..N /\ ~(n <= n - 1) /\ n \in 1..N
      BY <1>1, <2>4
    <2>6. sum[n - 1] \in Int
      BY <2>3, <2>5
    <2>7. sum[n] = sum[n - 1] + v[n] /\ v[n] \in Int
      BY <1>1, <1>7, <2>4, <2>5
    <2>8. QED
      BY <2>4, <2>6, <2>7
  <1>9. \A n \in 0..N : sum[n] \in Int
    BY <1>8
  <1>10. sum[0] = 0 /\ \A n \in 1..N : sum[n] = sum[n - 1] + v[n]
    <2>1. 0 \in 0..N /\ \A n \in 1..N : n \in 0..N /\ n # 0
      BY <1>1
    <2>2. QED
      BY <1>7, <2>1
  <1>11. Sums(sum, v)
    BY <1>9, <1>10 DEF Sums, N
  <1>12. QED
    BY <1>6, <1>11 DEF N

\* A sum over nothing, and over one number more.
LEMMA TotalOfNone == ASSUME NEW v \in Seq(Int), Len(v) = 0 PROVE Total(v) = 0
  <1>1. QED
    BY TotalSays DEF Sums

LEMMA TotalGrows ==
  ASSUME NEW v \in Seq(Int), NEW w \in Seq(Int), Len(w) = Len(v) + 1,
         \A n \in 1..Len(v) : w[n] = v[n]
  PROVE  Total(v) \in Int /\ Total(w) = Total(v) + w[Len(v) + 1]
  <1>1. PICK N \in Nat : N = Len(v) /\ N + 1 = Len(w)
    OBVIOUS
  <1>2. PICK g : Sums(g, v) /\ Total(v) = g[N]
    BY <1>1, TotalSays
  <1>3. PICK h : Sums(h, w) /\ Total(w) = h[N + 1]
    BY <1>1, TotalSays
  <1> DEFINE Bad == {n \in 0..N : h[n] # g[n]}
  <1>4. Bad = {}
    <2>1. SUFFICES ASSUME Bad # {} PROVE FALSE
      OBVIOUS
    <2>2. Bad \in SUBSET Nat
      OBVIOUS
    <2>3. PICK n \in Bad : \A m \in Bad : n <= m
      <3> HIDE DEF Bad
      <3>1. QED
        BY <2>1, <2>2, LeastNumber
    <2>4. n \in 0..N /\ h[n] # g[n] /\ n # 0
      BY <1>2, <1>3, <2>3 DEF Sums
    <2>5. n - 1 \in 0..N /\ ~(n <= n - 1) /\ n \in 1..N /\ n \in 1..(N + 1)
      BY <2>4
    <2>6. h[n - 1] = g[n - 1]
      BY <2>3, <2>5
    <2>7. h[n] = h[n - 1] + w[n] /\ g[n] = g[n - 1] + v[n] /\ w[n] = v[n]
      BY <1>1, <1>2, <1>3, <2>5 DEF Sums
    <2>8. QED
      BY <2>4, <2>6, <2>7
  <1>5. h[N] = g[N] /\ g[N] \in Int
    <2>1. N \in 0..N
      OBVIOUS
    <2>2. QED
      BY <1>1, <1>2, <1>4, <2>1 DEF Sums
  <1>6. h[N + 1] = h[N] + w[N + 1]
    <2>1. N + 1 \in 1..(N + 1) /\ (N + 1) - 1 = N
      OBVIOUS
    <2>2. QED
      BY <1>1, <1>3, <2>1 DEF Sums
  <1>7. QED
    BY <1>1, <1>2, <1>3, <1>5, <1>6

\* The run of losses that a trade ends: its length, and that it is no longer.
LEMMA StreakSays ==
  ASSUME Len(trades) \in Nat, DOMAIN trades = 1..Len(trades), NEW n \in 0..Len(trades)
  PROVE  /\ Streak[n] \in 0..n
         /\ \A k \in (n - Streak[n] + 1)..n : k \in Losses
         /\ Streak[n] < n => n - Streak[n] \notin Losses
  <1> DEFINE N == Len(trades)
             Body(g) == [m \in 0..N |-> IF m \in Losses THEN g[m - 1] + 1 ELSE 0]
             step == [m \in 0..N |-> [x \in Int |-> IF m \in Losses THEN x + 1 ELSE 0]]
  <1>1. N \in Nat /\ Losses \subseteq 1..N /\ n \in 0..N
    BY DEF Losses
  <1>2. step \in StepMaps(Int, 0, N)
    BY DEF StepMaps
  <1>3. PICK f : Unrolls(f, Int, 0, N, 0, step)
    <2>1. 0 \in Int /\ N \in Int /\ 0 <= N
      BY <1>1
    <2> HIDE DEF N, step
    <2>2. QED
      BY <1>2, <2>1, RunExists
  <1>4. f = Body(f)
    <2>1. ASSUME NEW m \in 0..N
          PROVE  f[m] = IF m \in Losses THEN f[m - 1] + 1 ELSE 0
      <3>1. CASE m = 0
        BY <1>1, <1>3, <3>1 DEF Unrolls
      <3>2. CASE m # 0
        <4>1. m \in (0 + 1)..N /\ m - 1 \in 0..N
          BY <1>1, <3>2
        <4>2. f[m] = step[m][f[m - 1]] /\ f[m - 1] \in Int
          BY <1>3, <4>1 DEF Unrolls
        <4>3. QED
          BY <3>2, <4>2
      <3>3. QED
        BY <3>1, <3>2
    <2>2. f \in [0..N -> Int]
      BY <1>3 DEF Unrolls
    <2> HIDE DEF N
    <2>3. QED
      BY <2>1, <2>2
  <1>5. Streak = Body(Streak)
    <2> DEFINE s == CHOOSE g : g = Body(g)
    <2>1. s = Body(s)
      BY <1>4
    <2>2. Streak = s
      BY DEF Streak
    <2>3. QED
      BY <2>1, <2>2
  <1>6. PICK run : run = Streak
    OBVIOUS
  <1> HIDE DEF N
  <1>7. \A m \in 0..N : run[m] = IF m \in Losses THEN run[m - 1] + 1 ELSE 0
    BY <1>5, <1>6
  <1> DEFINE Good(m) == /\ run[m] \in 0..m
                        /\ \A k \in (m - run[m] + 1)..m : k \in Losses
                        /\ run[m] < m => m - run[m] \notin Losses
             Bad == {m \in 0..N : ~Good(m)}
  <1>8. Bad = {}
    <2>1. SUFFICES ASSUME Bad # {} PROVE FALSE
      OBVIOUS
    <2>2. Bad \in SUBSET Nat
      BY <1>1
    <2>3. PICK m \in Bad : \A l \in Bad : m <= l
      <3> HIDE DEF Bad
      <3>1. QED
        BY <2>1, <2>2, LeastNumber
    <2>4. m \in 0..N /\ ~Good(m)
      BY <2>3
    <2>5. CASE m \notin Losses
      <3>1. run[m] = 0
        BY <1>7, <2>4, <2>5
      <3>2. run[m] \in 0..m /\ (m - run[m] + 1)..m = {} /\ m - run[m] = m
        BY <1>1, <2>4, <3>1
      <3>3. QED
        BY <2>4, <2>5, <3>2
    <2>6. CASE m \in Losses
      <3>1. m \in 1..N /\ m - 1 \in 0..N /\ ~(m <= m - 1)
        BY <1>1, <2>4, <2>6
      <3>2. Good(m - 1)
        BY <2>3, <3>1
      <3>3. PICK r \in Int : r = run[m - 1] /\ run[m] = r + 1 /\ r \in 0..(m - 1)
        BY <1>7, <2>4, <2>6, <3>1, <3>2
      <3>4. run[m] \in 0..m /\ m - run[m] = (m - 1) - r
            /\ (m - run[m] + 1) = (m - 1) - r + 1
        BY <1>1, <3>1, <3>3
      <3>5. \A k \in (m - run[m] + 1)..m : k \in ((m - 1) - r + 1)..(m - 1) \/ k = m
        BY <1>1, <3>1, <3>3, <3>4
      <3>6. \A k \in (m - run[m] + 1)..m : k \in Losses
        BY <2>6, <3>2, <3>3, <3>5
      <3>7. run[m] < m => r < m - 1
        BY <1>1, <3>1, <3>3
      <3>8. run[m] < m => m - run[m] \notin Losses
        BY <3>2, <3>3, <3>4, <3>7
      <3>9. QED
        BY <2>4, <3>4, <3>6, <3>8
    <2>7. QED
      BY <2>5, <2>6
  <1>9. Good(n)
    BY <1>1, <1>8
  <1>10. QED
    BY <1>6, <1>9

LEMMA MaxIs ==
  ASSUME NEW B \in SUBSET Int, NEW d \in B, \A x \in B : x <= d
  PROVE  Max(B) = d
  <1>1. Max(B) \in B /\ Max(B) >= d
    BY MaxIsGreatest
  <1>2. Max(B) \in Int /\ d \in Int /\ Max(B) <= d
    BY <1>1
  <1>3. QED
    BY <1>1, <1>2

\* The longest of the streaks is the longest run of losses.
LossRuns == {s \in (DOMAIN trades) \X (DOMAIN trades) : \A k \in s[1]..s[2] : trades[k].pnl <= 0}

LEMMA StreakIsLongest ==
  ASSUME Len(trades) \in Nat, DOMAIN trades = 1..Len(trades)
  PROVE  Max({Streak[n] : n \in 0..Len(trades)}) = Max({0} \union {s[2] - s[1] + 1 : s \in LossRuns})
  <1>1. PICK N \in Nat : N = Len(trades)
    OBVIOUS
  <1>2. PICK run : run = Streak
    OBVIOUS
  <1>3. \A n \in 0..N : /\ run[n] \in 0..n
                        /\ \A k \in (n - run[n] + 1)..n : k \in Losses
                        /\ run[n] < n => n - run[n] \notin Losses
    BY <1>1, <1>2, StreakSays
  <1>4. \A k \in 1..N : k \in Losses <=> trades[k].pnl <= 0
    BY <1>1 DEF Losses
  <1>5. PICK A : A = {run[n] : n \in 0..N}
    OBVIOUS
  <1>6. PICK B : B = {0} \union {s[2] - s[1] + 1 : s \in LossRuns}
    OBVIOUS
  <1>7. \A s \in LossRuns : s[1] \in 1..N /\ s[2] \in 1..N /\ \A k \in s[1]..s[2] : k \in Losses
    BY <1>1, <1>4 DEF LossRuns
  <1>8. A \in SUBSET Int /\ \A x \in A : x <= N
    <2>1. \A n \in 0..N : run[n] \in Int /\ run[n] <= N
      BY <1>3
    <2>2. QED
      BY <1>5, <2>1
  <1>9. A # {}
    <2>1. 0 \in 0..N
      OBVIOUS
    <2>2. QED
      BY <1>5, <2>1
  <1>10. Max(A) \in A /\ \A x \in A : Max(A) >= x
    <2>1. PICK top \in Int : top = N /\ \A x \in A : x <= top
      BY <1>8
    <2>2. QED
      BY <1>8, <1>9, <2>1, MaxIsGreatest
  <1>11. B \in SUBSET Int
    BY <1>6, <1>7
  <1>12. ASSUME NEW x \in A PROVE x \in B
    <2>1. PICK n \in 0..N : x = run[n]
      BY <1>5
    <2>2. CASE x = 0
      BY <1>6, <2>2
    <2>3. CASE x # 0
      <3>1. PICK r \in 1..n : r = run[n] /\ \A k \in (n - r + 1)..n : k \in Losses
        <4>1. run[n] \in 0..n /\ run[n] # 0 /\ \A k \in (n - run[n] + 1)..n : k \in Losses
          BY <1>3, <2>1, <2>3
        <4>2. PICK q : q = run[n]
          OBVIOUS
        <4>3. q \in 1..n
          BY <4>1, <4>2
        <4>4. QED
          BY <4>1, <4>2, <4>3
      <3>2. PICK i \in 1..N : i = n - r + 1
        BY <3>1
      <3>3. n \in 1..N /\ n - i + 1 = r
        BY <3>1, <3>2
      <3>4. \A k \in i..n : k \in 1..N /\ trades[k].pnl <= 0
        BY <1>4, <3>1, <3>2, <3>3
      <3>5. PICK s : s = <<i, n>>
        OBVIOUS
      <3>6. s \in LossRuns /\ s[1] = i /\ s[2] = n
        BY <1>1, <3>2, <3>3, <3>4, <3>5 DEF LossRuns
      <3>7. s[2] - s[1] + 1 = x
        BY <2>1, <3>1, <3>3, <3>6
      <3>8. QED
        BY <1>6, <3>6, <3>7
    <2>4. QED
      BY <2>2, <2>3
  <1>13. ASSUME NEW x \in B PROVE \E y \in A : x <= y
    <2>1. CASE x = 0
      <3>1. 0 \in 0..N /\ run[0] \in 0..0
        BY <1>3
      <3>2. run[0] \in A /\ run[0] = 0
        BY <1>5, <3>1
      <3>3. QED
        BY <2>1, <3>2
    <2>2. CASE x # 0
      <3>1. PICK s \in LossRuns : x = s[2] - s[1] + 1
        BY <1>6, <2>2
      <3>2. PICK i \in 1..N, n \in 1..N : i = s[1] /\ n = s[2] /\ x = n - i + 1
                                          /\ \A k \in i..n : k \in Losses
        BY <1>7, <3>1
      <3>3. PICK r \in Int : r = run[n] /\ r \in 0..n /\ (r < n => n - r \notin Losses)
        BY <1>3, <3>2
      <3>4. x <= r
        <4>1. SUFFICES ASSUME ~(x <= r) PROVE FALSE
          OBVIOUS
        <4>2. r < n - i + 1
          BY <3>2, <3>3, <4>1
        <4>3. n - r \in i..n /\ r < n
          BY <3>2, <3>3, <4>2
        <4>4. QED
          BY <3>2, <3>3, <4>3
      <3>5. r \in A
        BY <1>5, <3>2, <3>3
      <3>6. QED
        BY <3>4, <3>5
    <2>3. QED
      BY <2>1, <2>2
  <1>14. \A x \in B : x <= Max(A)
    <2>1. ASSUME NEW x \in B PROVE x <= Max(A)
      <3>1. PICK y \in A : x <= y
        BY <1>13
      <3>2. x \in Int /\ y \in Int /\ Max(A) \in Int /\ Max(A) >= y
        BY <1>8, <1>10, <1>11
      <3>3. QED
        BY <3>1, <3>2
    <2>2. QED
      BY <2>1
  <1>15. Max(B) = Max(A)
    BY <1>10, <1>11, <1>12, <1>14, MaxIs
  <1>16. QED
    BY <1>1, <1>2, <1>5, <1>6, <1>15

\* A drawdown, told without a maximum.
FallsAtMost(c, d) ==
  /\ d \in Int /\ d >= 0
  /\ \A k \in 1..Len(c) : \A j \in 1..k : c[j] - c[k] <= d
  /\ d = 0 \/ \E k \in 1..Len(c) : \E j \in 1..k : d = c[j] - c[k]

LEMMA DrawdownIsLargest ==
  ASSUME NEW c \in Seq(Int), NEW d, FallsAtMost(c, d)
  PROVE  d = Max({0} \union {Max({c[j] : j \in 1..k}) - c[k] : k \in DOMAIN c})
  <1>1. PICK N \in Nat : N = Len(c) /\ DOMAIN c = 1..N /\ \A k \in 1..N : c[k] \in Int
    OBVIOUS
  <1>2. d \in Int /\ d >= 0 /\ \A k \in 1..N : \A j \in 1..k : c[j] - c[k] <= d
    BY <1>1 DEF FallsAtMost
  <1> DEFINE top(k) == Max({c[j] : j \in 1..k})
  <1>3. ASSUME NEW k \in 1..N
        PROVE  /\ top(k) \in Int /\ top(k) - c[k] <= d
               /\ \A j \in 1..k : c[j] <= top(k)
    <2>1. PICK T : T = {c[j] : j \in 1..k}
      OBVIOUS
    <2>2. k \in 1..k /\ \A j \in 1..k : j \in 1..N /\ c[j] \in Int
      BY <1>1
    <2>3. T \in SUBSET Int /\ T # {}
      BY <2>1, <2>2
    <2>4. PICK b \in Int : b = d + c[k]
      BY <1>1, <1>2
    <2>5. \A j \in 1..k : c[j] <= b
      BY <1>1, <1>2, <2>2, <2>4
    <2>6. \A x \in T : x <= b
      BY <2>1, <2>5
    <2>7. Max(T) \in T /\ \A y \in T : Max(T) >= y
      BY <2>3, <2>6, MaxIsGreatest
    <2>8. PICK m \in Int : m = Max(T) /\ m <= b /\ \A y \in T : m >= y
      BY <2>3, <2>6, <2>7
    <2>9. \A j \in 1..k : c[j] \in T /\ c[j] \in Int
      BY <2>1, <2>2
    <2>10. m - c[k] <= d /\ \A j \in 1..k : c[j] <= m
      BY <1>1, <1>2, <2>4, <2>8, <2>9
    <2>11. top(k) = m
      BY <2>1, <2>8
    <2> HIDE DEF top
    <2>12. QED
      BY <2>10, <2>11
  <1>4. PICK B : B = {0} \union {top(k) - c[k] : k \in 1..N}
    OBVIOUS
  <1> HIDE DEF top
  <1>5. B \in SUBSET Int
    BY <1>1, <1>3, <1>4
  <1>6. \A x \in B : x <= d
    BY <1>2, <1>3, <1>4
  <1>7. d \in B
    <2>1. CASE d = 0
      BY <1>4, <2>1
    <2>2. CASE d # 0
      <3>1. PICK k \in 1..N : \E j \in 1..k : d = c[j] - c[k]
        BY <1>1, <2>2 DEF FallsAtMost
      <3>2. PICK j \in 1..k : d = c[j] - c[k]
        BY <3>1
      <3>3. j \in 1..N /\ c[j] \in Int /\ c[k] \in Int /\ top(k) \in Int
            /\ top(k) - c[k] <= d /\ c[j] <= top(k)
        BY <1>1, <1>3
      <3>4. d = top(k) - c[k]
        BY <1>2, <3>2, <3>3
      <3>5. QED
        BY <1>4, <3>4
    <2>3. QED
      BY <2>1, <2>2
  <1>8. Max(B) = d
    BY <1>5, <1>6, <1>7, MaxIs
  <1>9. QED
    BY <1>1, <1>4, <1>8 DEF top

\* The highest point of a curve.
Tops(c, high) ==
  /\ high \in Int /\ \E k \in 1..Len(c) : high = c[k]
  /\ \A k \in 1..Len(c) : c[k] <= high

\* One more point of the curve.
LEMMA OneMorePoint ==
  ASSUME NEW c \in Seq(Int), Len(c) >= 1, NEW x \in Int, NEW d, FallsAtMost(c, d),
         NEW high, Tops(c, high),
         NEW w, Len(w) = Len(c) + 1, \A k \in 1..Len(c) : w[k] = c[k], w[Len(c) + 1] = x,
         NEW top, top = Max({high, x})
  PROVE  /\ Tops(w, top)
         /\ FallsAtMost(w, Max({d, top - x}))
  <1>1. PICK N \in Nat : /\ N = Len(c) /\ N >= 1 /\ Len(w) = N + 1
                         /\ \A k \in 1..N : w[k] = c[k] /\ c[k] \in Int
                         /\ w[N + 1] = x /\ high \in Int
    BY DEF Tops
  <1>2. PICK p \in Int : /\ p = top /\ high <= p /\ x <= p
                         /\ p = high \/ p = x
    BY <1>1, MaxOfTwo
  <1>3. PICK e \in Int : /\ e = Max({d, p - x}) /\ d <= e /\ p - x <= e
                         /\ e = d \/ e = p - x
    <2>1. d \in Int /\ p - x \in Int
      BY DEF FallsAtMost
    <2>2. QED
      BY <2>1, MaxOfTwo
  <1>4. \A k \in 1..(N + 1) : k \in 1..N \/ k = N + 1
    OBVIOUS
  <1>5. PICK h \in 1..N : high = c[h]
    BY <1>1 DEF Tops
  <1>6. \E k \in 1..(N + 1) : p = w[k]
    <2>1. CASE p = high
      <3>1. h \in 1..(N + 1) /\ w[h] = c[h]
        BY <1>1
      <3>2. QED
        BY <1>5, <2>1, <3>1
    <2>2. CASE p = x
      <3>1. N + 1 \in 1..(N + 1) /\ p = w[N + 1]
        BY <1>1, <2>2
      <3>2. QED
        BY <3>1
    <2>3. QED
      BY <1>2, <2>1, <2>2
  <1>7. ASSUME NEW k \in 1..(N + 1) PROVE w[k] <= p /\ w[k] \in Int
    <2>1. CASE k \in 1..N
      <3>1. w[k] = c[k] /\ c[k] <= high /\ c[k] \in Int
        BY <1>1, <2>1 DEF Tops
      <3>2. QED
        BY <1>1, <1>2, <3>1
    <2>2. CASE k = N + 1
      BY <1>1, <1>2, <2>2
    <2>3. QED
      BY <1>4, <2>1, <2>2
  <1>8. ASSUME NEW k \in 1..(N + 1), NEW j \in 1..k PROVE w[j] - w[k] <= e
    <2>1. CASE k \in 1..N
      <3>1. j \in 1..N
        BY <2>1
      <3>2. c[j] - c[k] <= d /\ c[j] \in Int /\ c[k] \in Int /\ d \in Int
        BY <1>1, <2>1, <3>1 DEF FallsAtMost
      <3>3. w[j] = c[j] /\ w[k] = c[k]
        BY <1>1, <2>1, <3>1
      <3>4. QED
        BY <1>3, <3>2, <3>3
    <2>2. CASE k = N + 1
      <3>1. j \in 1..(N + 1)
        BY <2>2
      <3>2. w[j] <= p /\ w[j] \in Int /\ w[k] = x
        BY <1>1, <1>7, <2>2, <3>1
      <3>3. d \in Int
        BY DEF FallsAtMost
      <3>4. QED
        BY <1>3, <3>2, <3>3
    <2>3. QED
      BY <1>4, <2>1, <2>2
  <1>9. e >= 0
    BY <1>3 DEF FallsAtMost
  <1>10. e = 0 \/ \E k \in 1..(N + 1) : \E j \in 1..k : e = w[j] - w[k]
    <2>1. CASE e = d
      <3>1. CASE d = 0
        BY <2>1, <3>1
      <3>2. CASE d # 0
        <4>1. PICK k \in 1..N : \E j \in 1..k : d = c[j] - c[k]
          BY <1>1, <3>2 DEF FallsAtMost
        <4>2. PICK j \in 1..k : d = c[j] - c[k]
          BY <4>1
        <4>3. k \in 1..(N + 1) /\ w[k] = c[k] /\ w[j] = c[j]
          BY <1>1, <4>1, <4>2
        <4>4. QED
          BY <2>1, <4>2, <4>3
      <3>3. QED
        BY <3>1, <3>2
    <2>2. CASE e = p - x
      <3>1. PICK j \in 1..(N + 1) : p = w[j]
        BY <1>6
      <3>2. N + 1 \in 1..(N + 1) /\ e = w[j] - w[N + 1]
        BY <1>1, <2>2, <3>1
      <3>3. QED
        BY <3>1, <3>2
    <2>3. QED
      BY <1>3, <2>1, <2>2
  <1>11. FallsAtMost(w, e)
    BY <1>1, <1>3, <1>8, <1>9, <1>10 DEF FallsAtMost
  <1>12. Tops(w, top)
    BY <1>1, <1>2, <1>6, <1>7 DEF Tops
  <1>13. QED
    BY <1>2, <1>3, <1>11, <1>12

\* The sequences of numbers that a report sums over its trades.
Gained(T)    == [n \in DOMAIN T |-> IF T[n].pnl > 0 THEN T[n].pnl ELSE 0]
GivenBack(T) == [n \in DOMAIN T |-> IF T[n].pnl <= 0 THEN T[n].pnl ELSE 0]
PaidFees(T)  == [n \in DOMAIN T |-> T[n].fees]
Spans(T)     == [n \in DOMAIN T |-> T[n].exit - T[n].signal]

InBook(t) == t.pnl \in Int /\ t.fees \in Int /\ t.exit \in Int /\ t.signal \in Int

Booked(T) ==
  /\ Len(T) \in Nat /\ DOMAIN T = 1..Len(T)
  /\ \A n \in 1..Len(T) : InBook(T[n])

LEMMA NumbersInRow ==
  ASSUME NEW N \in Nat, NEW f \in [1..N -> Int]
  PROVE  f \in Seq(Int) /\ Len(f) = N
  <1>1. f \in Seq(Int)
    OBVIOUS
  <1>2. Len(f) \in Nat /\ DOMAIN f = 1..Len(f) /\ DOMAIN f = 1..N
    BY <1>1
  <1>3. Len(f) = N
    <2>1. PICK m \in Nat : m = Len(f) /\ 1..m = 1..N
      BY <1>2
    <2>2. N # 0 => N \in 1..m
      BY <2>1
    <2>3. m # 0 => m \in 1..N
      BY <2>1
    <2>4. QED
      BY <2>1, <2>2, <2>3
  <1>4. QED
    BY <1>1, <1>3

LEMMA BookSums ==
  ASSUME NEW T, Booked(T)
  PROVE  /\ Gained(T) \in Seq(Int) /\ Len(Gained(T)) = Len(T)
         /\ GivenBack(T) \in Seq(Int) /\ Len(GivenBack(T)) = Len(T)
         /\ PaidFees(T) \in Seq(Int) /\ Len(PaidFees(T)) = Len(T)
         /\ Spans(T) \in Seq(Int) /\ Len(Spans(T)) = Len(T)
  <1>1. PICK N \in Nat : /\ N = Len(T) /\ DOMAIN T = 1..N
                         /\ \A n \in 1..N : InBook(T[n])
    BY DEF Booked
  <1>2. /\ Gained(T) \in [1..N -> Int] /\ GivenBack(T) \in [1..N -> Int]
        /\ PaidFees(T) \in [1..N -> Int] /\ Spans(T) \in [1..N -> Int]
    BY <1>1 DEF InBook, Gained, GivenBack, PaidFees, Spans
  <1>3. QED
    BY <1>1, <1>2, NumbersInRow

\* One more trade, in the book and in the sums.
LEMMA BookGrows ==
  ASSUME NEW T, Booked(T), NEW t, InBook(t),
         NEW U, Len(U) = Len(T) + 1, DOMAIN U = 1..Len(U),
         \A n \in 1..Len(T) : U[n] = T[n], U[Len(T) + 1] = t
  PROVE  /\ Booked(U)
         /\ Total(Gained(T)) \in Int /\ Total(GivenBack(T)) \in Int
         /\ Total(PaidFees(T)) \in Int /\ Total(Spans(T)) \in Int
         /\ Total(Gained(U)) = Total(Gained(T)) + (IF t.pnl > 0 THEN t.pnl ELSE 0)
         /\ Total(GivenBack(U)) = Total(GivenBack(T)) + (IF t.pnl <= 0 THEN t.pnl ELSE 0)
         /\ Total(PaidFees(U)) = Total(PaidFees(T)) + t.fees
         /\ Total(Spans(U)) = Total(Spans(T)) + (t.exit - t.signal)
  <1>1. PICK N \in Nat : /\ N = Len(T) /\ DOMAIN T = 1..N /\ Len(U) = N + 1
                         /\ DOMAIN U = 1..(N + 1)
                         /\ \A n \in 1..N : InBook(T[n]) /\ U[n] = T[n]
                         /\ U[N + 1] = t
    BY DEF Booked
  <1>2. Booked(U)
    <2>1. \A n \in 1..(N + 1) : n \in 1..N \/ n = N + 1
      OBVIOUS
    <2>2. QED
      BY <1>1, <2>1 DEF Booked
  <1>3. N + 1 \in DOMAIN U /\ \A n \in 1..N : n \in DOMAIN U /\ n \in DOMAIN T
    BY <1>1
  <1>4. ASSUME NEW v \in Seq(Int), Len(v) = N, NEW w \in Seq(Int), Len(w) = N + 1,
               \A n \in 1..N : w[n] = v[n]
        PROVE  Total(v) \in Int /\ Total(w) = Total(v) + w[N + 1]
    BY <1>4, TotalGrows
  <1>5. /\ Gained(T) \in Seq(Int) /\ Len(Gained(T)) = N
        /\ GivenBack(T) \in Seq(Int) /\ Len(GivenBack(T)) = N
        /\ PaidFees(T) \in Seq(Int) /\ Len(PaidFees(T)) = N
        /\ Spans(T) \in Seq(Int) /\ Len(Spans(T)) = N
    BY <1>1, BookSums
  <1>6. /\ Gained(U) \in Seq(Int) /\ Len(Gained(U)) = N + 1
        /\ GivenBack(U) \in Seq(Int) /\ Len(GivenBack(U)) = N + 1
        /\ PaidFees(U) \in Seq(Int) /\ Len(PaidFees(U)) = N + 1
        /\ Spans(U) \in Seq(Int) /\ Len(Spans(U)) = N + 1
    BY <1>1, <1>2, BookSums
  <1>7. \A n \in 1..N : /\ Gained(U)[n] = Gained(T)[n] /\ GivenBack(U)[n] = GivenBack(T)[n]
                        /\ PaidFees(U)[n] = PaidFees(T)[n] /\ Spans(U)[n] = Spans(T)[n]
    BY <1>1, <1>3 DEF Gained, GivenBack, PaidFees, Spans
  <1>8. /\ Gained(U)[N + 1] = IF t.pnl > 0 THEN t.pnl ELSE 0
        /\ GivenBack(U)[N + 1] = IF t.pnl <= 0 THEN t.pnl ELSE 0
        /\ PaidFees(U)[N + 1] = t.fees
        /\ Spans(U)[N + 1] = t.exit - t.signal
    BY <1>1, <1>3 DEF Gained, GivenBack, PaidFees, Spans
  <1>9. Total(Gained(T)) \in Int /\ Total(Gained(U)) = Total(Gained(T)) + Gained(U)[N + 1]
    BY <1>4, <1>5, <1>6, <1>7
  <1>10. Total(GivenBack(T)) \in Int /\ Total(GivenBack(U)) = Total(GivenBack(T)) + GivenBack(U)[N + 1]
    BY <1>4, <1>5, <1>6, <1>7
  <1>11. Total(PaidFees(T)) \in Int /\ Total(PaidFees(U)) = Total(PaidFees(T)) + PaidFees(U)[N + 1]
    BY <1>4, <1>5, <1>6, <1>7
  <1>12. Total(Spans(T)) \in Int /\ Total(Spans(U)) = Total(Spans(T)) + Spans(U)[N + 1]
    BY <1>4, <1>5, <1>6, <1>7
  <1>13. QED
    BY <1>2, <1>8, <1>9, <1>10, <1>11, <1>12

LEMMA TotalIsInt == ASSUME NEW v \in Seq(Int) PROVE Total(v) \in Int
  <1>1. PICK g : Sums(g, v) /\ Total(v) = g[Len(v)]
    BY TotalSays
  <1>2. Len(v) \in 0..Len(v)
    OBVIOUS
  <1>3. QED
    BY <1>1, <1>2 DEF Sums

-----------------------------------------------------------------------------
(* The accounts of a walk, and the reports.                                 *)

Counts == [passed : Nat, rejected : Nat, delayed : Nat, unavailable : Nat]

\* What the walk has earned and paid, and where its curve went.
Accounts ==
  /\ Booked(trades)
  /\ curve \in Seq(Int) /\ Len(curve) >= 1
  /\ capital \in Int /\ capital = curve[Len(curve)]
  /\ capital = config.capital + Total(Gained(trades)) + Total(GivenBack(trades))
  /\ Tops(curve, peak) /\ FallsAtMost(curve, drawdown)
  /\ fees \in Int /\ fees >= Total(PaidFees(trades))
  /\ stats \in Counts /\ stats.passed >= Len(trades)
  /\ fees > Total(PaidFees(trades)) => stats.passed > Len(trades)

\* Where the walk is: every row before it was looked at or passed over.
RowsSeen == stats.passed + stats.rejected + Total(Spans(trades))

Placed ==
  /\ phase = "walk" => RowsSeen = index - 1 /\ index <= Len(rows) + 1
  /\ phase = "finish" => /\ RowsSeen <= Len(rows)
                         /\ Used > 0 /\ Delay = 0 => RowsSeen = Len(rows)

\* What FiguresAgree says of one report.
Agrees(r) ==
  LET runs == {s \in (DOMAIN r.trades) \X (DOMAIN r.trades) :
                 \A k \in s[1]..s[2] : r.trades[k].pnl <= 0}
      paid == Total([k \in DOMAIN r.trades |-> r.trades[k].fees])
  IN  /\ r.drawdown = Max({0} \cup
           {Max({r.curve[j] : j \in 1..k}) - r.curve[k] :
              k \in DOMAIN r.curve})
      /\ r.streak = Max({0} \cup {s[2] - s[1] + 1 : s \in runs})
      /\ r.final = config.capital + r.gained - r.lost
      /\ r.fees >= paid
      /\ r.fees > paid => r.stats.passed > Len(r.trades)

BooksInv ==
  /\ phase \in {"load", "walk", "finish", "done"}
  /\ phase \in {"walk", "finish"} => Accounts /\ Placed
  /\ reports \in Seq({reports[n] : n \in DOMAIN reports})
  /\ \A n \in DOMAIN reports : Agrees(reports[n])

LEMMA BooksImply == TestInv /\ BooksInv => ReportAgrees
  <1> SUFFICES ASSUME TestInv, BooksInv PROVE ReportAgrees
    OBVIOUS
  <1>1. RowsAccounted
    BY DEF BooksInv, Placed, RowsSeen, Spans, RowsAccounted
  <1>2. FiguresAgree
    BY DEF BooksInv, Agrees, FiguresAgree
  <1>3. QED
    BY <1>1, <1>2 DEF ReportAgrees

\* The report agrees with the accounts it is made of.
LEMMA ReportIsRight ==
  ASSUME Given, Accounts
  PROVE  \A r : r = Report => Agrees(r)
  <1>1. PICK r : r = Report
    OBVIOUS
  <1>2. Len(trades) \in Nat /\ DOMAIN trades = 1..Len(trades)
    BY DEF Accounts, Booked
  <1>3. /\ r.trades = trades /\ r.curve = curve /\ r.drawdown = drawdown /\ r.final = capital
        /\ r.fees = fees /\ r.stats = stats /\ r.gained = PnlOf(Wins) /\ r.lost = -PnlOf(Losses)
        /\ r.streak = Max({Streak[n] : n \in 0..Len(trades)})
    BY <1>1 DEF Report
  <1>4. drawdown = Max({0} \cup {Max({curve[j] : j \in 1..k}) - curve[k] : k \in DOMAIN curve})
    BY DrawdownIsLargest DEF Accounts
  <1>5. r.streak = Max({0} \cup {s[2] - s[1] + 1 : s \in LossRuns})
    BY <1>2, <1>3, StreakIsLongest
  <1>6. PnlOf(Wins) = Total(Gained(trades)) /\ PnlOf(Losses) = Total(GivenBack(trades))
    <2>1. \A n \in DOMAIN trades : /\ n \in Wins <=> trades[n].pnl > 0
                                   /\ n \in Losses <=> trades[n].pnl <= 0
      BY DEF Wins, Losses
    <2>2. /\ [n \in DOMAIN trades |-> IF n \in Wins THEN trades[n].pnl ELSE 0] = Gained(trades)
          /\ [n \in DOMAIN trades |-> IF n \in Losses THEN trades[n].pnl ELSE 0] = GivenBack(trades)
      BY <2>1 DEF Gained, GivenBack
    <2>3. QED
      BY <2>2 DEF PnlOf
  <1>7. capital = config.capital + PnlOf(Wins) - (-PnlOf(Losses))
    <2>1. /\ Total(Gained(trades)) \in Int /\ Total(GivenBack(trades)) \in Int
      BY BookSums, TotalIsInt DEF Accounts
    <2>2. capital = config.capital + Total(Gained(trades)) + Total(GivenBack(trades))
      BY DEF Accounts
    <2>3. config.capital \in Int
      BY GivenConfig
    <2>4. QED
      BY <1>6, <2>1, <2>2, <2>3
  <1>8. /\ fees >= Total(PaidFees(trades))
        /\ fees > Total(PaidFees(trades)) => stats.passed > Len(trades)
    BY DEF Accounts
  <1>9. Agrees(r)
    BY <1>3, <1>4, <1>5, <1>7, <1>8 DEF Agrees, LossRuns, PaidFees
  <1>10. QED
    BY <1>1, <1>9

LEMMA UsedIsInt ==
  ASSUME Given, capital \in Int
  PROVE  Used \in Int
  <1>1. PICK c \in Int : c = config.usage
    BY GivenConfig
  <1>2. PICK a \in Int : a = Min({c, 100})
    BY MinOfTwo
  <1>3. PICK b \in Int : b = Max({0, a})
    <2>1. PICK z \in Int : z = 0
      OBVIOUS
    <2>2. Max({z, a}) = IF z >= a THEN z ELSE a
      BY MaxOfTwo
    <2>3. QED
      BY <2>1, <2>2
  <1>4. Used = (capital * b) \div 100
    BY <1>1, <1>2, <1>3 DEF Used
  <1>5. capital * b \in Int
    OBVIOUS
  <1>6. QED
    BY <1>4, <1>5

LEMMA EntryFeeIsPaid ==
  ASSUME Given, capital \in Int, Used > 0
  PROVE  EntryFee \in Int /\ EntryFee >= 0
  <1>1. PICK u \in Nat : u = Used
    BY UsedIsInt
  <1>2. PICK f \in Nat : f = config.fee
    BY GivenConfig
  <1>3. PICK p \in Nat : p = u * f
    OBVIOUS
  <1>4. EntryFee = p \div 100
    BY <1>1, <1>2, <1>3 DEF EntryFee
  <1>5. QED
    BY <1>4

\* Two of the counters go up.
LEMMA CountTwo ==
  ASSUME NEW s \in Counts, NEW k \in Nat
  PROVE  /\ \A c : c = [s EXCEPT !.passed = @ + 1, !.delayed = @ + k] =>
              c \in Counts /\ c.rejected = s.rejected /\ c.passed = s.passed + 1
         /\ \A c : c = [s EXCEPT !.passed = @ + 1, !.unavailable = @ + k] =>
              c \in Counts /\ c.rejected = s.rejected /\ c.passed = s.passed + 1
  <1>1. PICK p \in Nat : p = s.passed + 1
    BY DEF Counts
  <1>2. PICK d \in Nat : d = s.delayed + k
    BY DEF Counts
  <1>3. PICK u \in Nat : u = s.unavailable + k
    BY DEF Counts
  <1>4. PICK one \in Counts : /\ one = [s EXCEPT !.passed = p]
                              /\ one.passed = p /\ one.rejected = s.rejected
    <2>1. PICK x : x = [s EXCEPT !.passed = p]
      OBVIOUS
    <2>2. x \in Counts /\ x.passed = p /\ x.rejected = s.rejected
      BY <2>1 DEF Counts
    <2>3. QED
      BY <2>1, <2>2
  <1>5. ASSUME NEW c, c = [s EXCEPT !.passed = @ + 1, !.delayed = @ + k]
        PROVE  c \in Counts /\ c.rejected = s.rejected /\ c.passed = s.passed + 1
    <2>1. c = [one EXCEPT !.delayed = d]
      <3>1. c = [s EXCEPT !.passed = p, !.delayed = d]
        BY <1>1, <1>2, <1>5, Zenon
      <3>2. QED
        BY <1>4, <3>1, Zenon
    <2>2. QED
      BY <1>1, <1>4, <2>1 DEF Counts
  <1>6. ASSUME NEW c, c = [s EXCEPT !.passed = @ + 1, !.unavailable = @ + k]
        PROVE  c \in Counts /\ c.rejected = s.rejected /\ c.passed = s.passed + 1
    <2>1. c = [one EXCEPT !.unavailable = u]
      <3>1. c = [s EXCEPT !.passed = p, !.unavailable = u]
        BY <1>1, <1>3, <1>6, Zenon
      <3>2. QED
        BY <1>4, <3>1, Zenon
    <2>2. QED
      BY <1>1, <1>4, <2>1 DEF Counts
  <1>7. QED
    BY <1>5, <1>6

LEMMA CountedOnce ==
  ASSUME stats \in Counts, NEW e
  PROVE  /\ Counted(e) \in Counts /\ Counted(e).rejected = stats.rejected
         /\ Counted(e).passed = stats.passed + 1
  <1>1. PICK k \in Nat : k = IF e = index THEN 0 ELSE 1
    OBVIOUS
  <1>2. Counted(e) = [stats EXCEPT !.passed = @ + 1, !.delayed = @ + k]
    BY <1>1 DEF Counted
  <1>3. PICK s \in Counts : s = stats
    OBVIOUS
  <1>4. PICK c : c = [s EXCEPT !.passed = @ + 1, !.delayed = @ + k]
    OBVIOUS
  <1>5. c \in Counts /\ c.rejected = s.rejected /\ c.passed = s.passed + 1
    BY <1>4, CountTwo
  <1>6. QED
    BY <1>2, <1>3, <1>4, <1>5

LEMMA AgreesKept ==
  ASSUME config' = config, NEW r, Agrees(r)
  PROVE  Agrees(r)'
  BY DEF Agrees

\* A step that looks at one row and makes no trade.
LEMMA CountsKept ==
  ASSUME TestInv, BooksInv, phase = "walk", index <= Len(rows),
         UNCHANGED <<request, rows, todo, capital, peak, drawdown, trades, curve, reports>>,
         stats' \in Counts, stats'.passed >= stats.passed,
         stats'.passed + stats'.rejected = stats.passed + stats.rejected + 1,
         fees' \in Int, fees' >= fees, fees' > fees => stats'.passed > stats.passed,
         \/ phase' = "walk" /\ index' = index + 1
         \/ phase' = "finish" /\ (Used > 0 => Delay # 0)
  PROVE  BooksInv'
  <1>1. Accounts /\ Placed /\ index \in Nat /\ Len(rows) \in Nat
    BY DEF BooksInv, TestInv, TestTyped, Given
  <1>2. /\ stats.passed \in Nat /\ stats.rejected \in Nat /\ stats'.passed \in Nat
        /\ stats'.rejected \in Nat
    BY <1>1 DEF Accounts, Counts
  <1>3. Total(PaidFees(trades)) \in Int /\ Total(Spans(trades)) \in Int /\ Len(trades) \in Nat
    BY <1>1, BookSums, TotalIsInt DEF Accounts, Booked
  <1>4. PICK paid, span, n : /\ paid = Total(PaidFees(trades)) /\ span = Total(Spans(trades))
                             /\ n = Len(trades)
    OBVIOUS
  <1>5. /\ fees \in Int /\ fees >= paid /\ stats.passed >= n
        /\ fees > paid => stats.passed > n
    BY <1>1, <1>4 DEF Accounts
  <1>6. /\ fees' >= paid /\ stats'.passed >= n
        /\ fees' > paid => stats'.passed > n
    <2>1. paid \in Int /\ n \in Int
      BY <1>3, <1>4
    <2>2. QED
      BY <1>2, <1>5, <2>1
  <1>7. Accounts'
    <2>1. /\ Booked(trades) /\ curve \in Seq(Int) /\ Len(curve) >= 1
          /\ capital \in Int /\ capital = curve[Len(curve)]
          /\ capital = config.capital + Total(Gained(trades)) + Total(GivenBack(trades))
          /\ Tops(curve, peak) /\ FallsAtMost(curve, drawdown)
      BY <1>1 DEF Accounts
    <2>2. config' = config
      BY DEF request
    <2>3. QED
      BY <1>4, <1>6, <2>1, <2>2 DEF Accounts
  <1>8. stats.passed + stats.rejected + span = index - 1
    BY <1>1, <1>4 DEF Placed, RowsSeen
  <1>9. stats'.passed + stats'.rejected + span = index
    <2>1. span \in Int
      BY <1>3, <1>4
    <2>2. QED
      BY <1>1, <1>2, <1>8, <2>1
  <1>10. RowsSeen' = index
    BY <1>4, <1>9 DEF RowsSeen
  <1>11. Placed'
    <2>1. CASE phase' = "walk" /\ index' = index + 1
      BY <1>1, <1>10, <2>1 DEF Placed
    <2>2. CASE phase' = "finish" /\ (Used > 0 => Delay # 0)
      <3>1. Used' = Used /\ Delay' = Delay
        BY DEF Used, Delay, request
      <3>2. QED
        BY <1>1, <1>10, <2>2, <3>1 DEF Placed
    <2>3. QED
      BY <2>1, <2>2
  <1>12. \A m \in DOMAIN reports : Agrees(reports[m])'
    <2>1. \A r : Agrees(r) => Agrees(r)'
      BY AgreesKept DEF request
    <2>2. QED
      BY <2>1 DEF BooksInv
  <1>13. QED
    BY <1>7, <1>11, <1>12 DEF BooksInv

LEMMA RejectKeeps == ASSUME TestInv, BooksInv, Reject PROVE BooksInv'
  <1>1. stats \in Counts /\ fees \in Int
    BY DEF BooksInv, Accounts, Reject
  <1>2. /\ stats' \in Counts /\ stats'.passed = stats.passed
        /\ stats'.rejected = stats.rejected + 1
    BY <1>1 DEF Reject, Counts
  <1>3. stats.passed \in Nat /\ stats.rejected \in Nat
    BY <1>1 DEF Counts
  <1>4. stats'.passed + stats'.rejected = stats.passed + stats.rejected + 1 /\ stats'.passed >= stats.passed
    BY <1>2, <1>3
  <1>5. fees' = fees /\ phase = "walk" /\ phase' = "walk" /\ index' = index + 1 /\ index <= Len(rows)
        /\ UNCHANGED <<request, rows, todo, capital, peak, drawdown, trades, curve, reports>>
    BY DEF Reject
  <1>6. QED
    BY <1>1, <1>2, <1>4, <1>5, CountsKept

LEMMA StarveKeeps == ASSUME TestInv, BooksInv, Starve PROVE BooksInv'
  <1>1. stats \in Counts /\ fees \in Int
    BY DEF BooksInv, Accounts, Starve, Signal
  <1>2. /\ stats' \in Counts /\ stats'.passed = stats.passed + 1
        /\ stats'.rejected = stats.rejected
    <2>1. PICK s \in Counts : s = stats
      BY <1>1
    <2>2. PICK c : c = [s EXCEPT !.passed = @ + 1, !.unavailable = @ + 1]
      OBVIOUS
    <2>3. c \in Counts /\ c.passed = s.passed + 1 /\ c.rejected = s.rejected
      <3>1. PICK one \in Nat : one = 1
        OBVIOUS
      <3>2. c = [s EXCEPT !.passed = @ + 1, !.unavailable = @ + one]
        BY <2>2, <3>1
      <3>3. QED
        BY <3>2, CountTwo
    <2>4. stats' = c
      BY <2>1, <2>2 DEF Starve
    <2>5. QED
      BY <2>1, <2>3, <2>4
  <1>3. stats.passed \in Nat /\ stats.rejected \in Nat
    BY <1>1 DEF Counts
  <1>4. stats'.passed + stats'.rejected = stats.passed + stats.rejected + 1 /\ stats'.passed >= stats.passed
    BY <1>2, <1>3
  <1>5. fees' = fees /\ phase = "walk" /\ phase' = "finish" /\ index <= Len(rows)
        /\ UNCHANGED <<request, rows, todo, capital, peak, drawdown, trades, curve, reports>>
    BY DEF Starve, Signal
  <1>6. Delay # 0
    <2>1. index \in DOMAIN rows /\ Given
      BY <1>5 DEF TestInv, TestTyped, Given
    <2>2. Later(index) \subseteq 1..Len(rows) /\ Len(rows) \in Int
      BY <2>1, LaterRows DEF Given
    <2>3. Cardinality(Later(index)) \in Nat
      <3>1. PICK N \in Int : N = Len(rows)
        BY <2>2
      <3>2. IsFiniteSet(1..N)
        BY FS_Interval
      <3>3. IsFiniteSet(Later(index))
        BY <2>2, <3>1, <3>2, FS_Subset
      <3>4. QED
        BY <3>3, FS_CardinalityType
    <2>4. Cardinality(Later(index)) < Delay
      BY DEF Starve, Starved
    <2>5. QED
      BY <2>3, <2>4
  <1>7. QED
    BY <1>1, <1>2, <1>4, <1>5, <1>6, CountsKept

LEMMA UnpricedKeeps == ASSUME TestInv, BooksInv, Unpriced PROVE BooksInv'
  <1>1. stats \in Counts /\ fees \in Int
    BY DEF BooksInv, Accounts, Unpriced, Signal
  <1>2. PICK c \in Counts : /\ c = Counted(EntryRow(index)) /\ c.passed = stats.passed + 1
                            /\ c.rejected = stats.rejected
    BY <1>1, CountedOnce
  <1>3. stats' = [c EXCEPT !.unavailable = @ + 1]
    BY <1>2 DEF Unpriced
  <1>4. /\ stats' \in Counts /\ stats'.passed = stats.passed + 1
        /\ stats'.rejected = stats.rejected
    BY <1>2, <1>3 DEF Counts
  <1>5. stats.passed \in Nat /\ stats.rejected \in Nat
    BY <1>1 DEF Counts
  <1>6. stats'.passed + stats'.rejected = stats.passed + stats.rejected + 1 /\ stats'.passed >= stats.passed
    BY <1>4, <1>5
  <1>7. fees' = fees /\ phase = "walk" /\ phase' = "walk" /\ index' = index + 1 /\ index <= Len(rows)
        /\ UNCHANGED <<request, rows, todo, capital, peak, drawdown, trades, curve, reports>>
    BY DEF Unpriced, Signal
  <1>8. QED
    BY <1>1, <1>4, <1>6, <1>7, CountsKept

LEMMA BrokeKeeps == ASSUME TestInv, BooksInv, Broke PROVE BooksInv'
  <1>1. stats \in Counts /\ fees \in Int /\ capital \in Int /\ Given
    BY DEF BooksInv, Accounts, Broke, Enters, Signal, TestInv, TestTyped
  <1>2. /\ stats' \in Counts /\ stats'.passed = stats.passed + 1
        /\ stats'.rejected = stats.rejected
    BY <1>1, CountedOnce DEF Broke
  <1>3. stats.passed \in Nat /\ stats.rejected \in Nat
    BY <1>1 DEF Counts
  <1>4. stats'.passed + stats'.rejected = stats.passed + stats.rejected + 1 /\ stats'.passed >= stats.passed
    BY <1>2, <1>3
  <1>5. fees' = fees /\ phase = "walk" /\ phase' = "finish" /\ index <= Len(rows) /\ Used <= 0
        /\ UNCHANGED <<request, rows, todo, capital, peak, drawdown, trades, curve, reports>>
    BY DEF Broke, Enters, Signal
  <1>6. ~(Used > 0)
    BY <1>1, <1>5, UsedIsInt
  <1>7. QED
    BY <1>1, <1>2, <1>4, <1>5, <1>6, CountsKept

LEMMA AbandonKeeps == ASSUME TestInv, BooksInv, Abandon PROVE BooksInv'
  <1>1. stats \in Counts /\ fees \in Int /\ capital \in Int /\ Given
    BY DEF BooksInv, Accounts, Abandon, Enters, Signal, TestInv, TestTyped
  <1>2. /\ stats' \in Counts /\ stats'.passed = stats.passed + 1
        /\ stats'.rejected = stats.rejected
    BY <1>1, CountedOnce DEF Abandon
  <1>3. stats.passed \in Nat /\ stats.rejected \in Nat
    BY <1>1 DEF Counts
  <1>4. /\ stats'.passed + stats'.rejected = stats.passed + stats.rejected + 1
        /\ stats'.passed >= stats.passed /\ stats'.passed > stats.passed
    BY <1>2, <1>3
  <1>5. EntryFee \in Int /\ EntryFee >= 0
    BY <1>1, EntryFeeIsPaid DEF Abandon
  <1>6. fees' \in Int /\ fees' >= fees
    BY <1>1, <1>5 DEF Abandon
  <1>7. phase = "walk" /\ phase' = "walk" /\ index' = index + 1 /\ index <= Len(rows)
        /\ UNCHANGED <<request, rows, todo, capital, peak, drawdown, trades, curve, reports>>
    BY DEF Abandon, Enters, Signal
  <1>8. QED
    BY <1>2, <1>4, <1>6, <1>7, CountsKept

LEMMA WalkedAllKeeps == ASSUME TestInv, BooksInv, WalkedAll PROVE BooksInv'
  <1>1. /\ phase = "walk" /\ index > Len(rows) /\ phase' = "finish"
        /\ UNCHANGED <<request, rows, todo, walkVars, reports>>
    BY DEF WalkedAll
  <1>2. Accounts /\ RowsSeen = index - 1 /\ index <= Len(rows) + 1 /\ index \in Nat
        /\ Len(rows) \in Nat
    BY <1>1 DEF BooksInv, Placed, TestInv, TestTyped, Given
  <1>3. RowsSeen = Len(rows)
    BY <1>1, <1>2
  <1>4. Accounts' /\ RowsSeen' = Len(rows)'
    BY <1>1, <1>2, <1>3 DEF Accounts, RowsSeen, request, walkVars
  <1>5. Placed'
    BY <1>1, <1>2, <1>4 DEF Placed
  <1>6. \A m \in DOMAIN reports : Agrees(reports[m])'
    <2>1. config' = config /\ reports' = reports
      BY <1>1 DEF request
    <2>2. \A r : Agrees(r) => Agrees(r)'
      BY <2>1, AgreesKept
    <2>3. QED
      BY <2>1, <2>2 DEF BooksInv
  <1>7. QED
    BY <1>1, <1>4, <1>5, <1>6 DEF BooksInv

\* What a trade does to the books, and to the place in the walk.
LEMMA TradeSays ==
  ASSUME TestInv, BooksInv, Trade
  PROVE  \E t : /\ InBook(t) /\ trades' = Append(trades, t)
                /\ capital' = capital + t.pnl /\ fees' = fees + t.fees
                /\ t.signal = index /\ t.exit >= index /\ t.exit <= Len(rows)
                /\ index' = t.exit + 1
  <1>1. PICK e : e = EntryRow(index)
    OBVIOUS
  <1>2. PICK x : x = Exit(e)
    OBVIOUS
  <1>3. /\ Signal /\ ~Starved(index) /\ Ask(rows[e]) > 0 /\ x.at # 0 /\ Used > 0
        /\ index' = x.at + 1 /\ phase = "walk" /\ index <= Len(rows)
    BY <1>1, <1>2 DEF Trade, Enters, Signal, Resume
  <1>4. /\ Given /\ index \in Nat /\ Head(todo) \in Int /\ index \in DOMAIN rows
        /\ capital \in Int /\ fees \in Int
    <2>1. /\ Given /\ index \in Nat /\ index >= 1 /\ todo \in Seq(Int) /\ todo # <<>>
      BY <1>3 DEF TestInv, TestTyped
    <2>2. capital \in Int /\ fees \in Int
      BY <1>3 DEF BooksInv, Accounts
    <2>3. QED
      BY <1>3, <2>1, <2>2 DEF Given
  <1>5. e \in {index} \cup Later(index)
    BY <1>1, <1>3, <1>4, EntryIsDelayed
  <1>6. e \in DOMAIN rows /\ e \in Int /\ e >= index
    BY <1>4, <1>5, LaterRows
  <1>7. x.at \in Later(e)
    BY <1>2, <1>3, <1>4, <1>6, ExitSays
  <1>8. x.at \in Int /\ x.at > e /\ x.at <= Len(rows) /\ x.at \in DOMAIN rows /\ Len(rows) \in Nat
    BY <1>4, <1>6, <1>7, LaterRows
  <1>9. PICK entry \in Int : entry = Bought(Ask(rows[e])) /\ entry > 0
    BY <1>3, <1>4, <1>6, EntryPriced DEF EntryPrice
  <1>10. PICK raw \in Int : raw = Bid(rows[x.at])
    BY <1>4, <1>8, GivenRow
  <1>11. PICK u \in Int : u = Used
    BY <1>4, UsedIsInt
  <1>12. PICK paid \in Int : paid = EntryFee
    BY <1>3, <1>4, EntryFeeIsPaid
  <1>13. PICK sold \in Int : sold = u * Sold(raw)
    <2>1. config.slippage \in Int
      BY <1>4, GivenConfig
    <2>2. QED
      BY <1>10, <1>11, <2>1 DEF Sold
  <1>14. PICK value \in Int : value = sold \div entry
    BY <1>9, <1>13
  <1>15. PICK part \in Int : part = value * config.fee
    BY <1>4, <1>14, GivenConfig
  <1>16. PICK exitFee \in Int : exitFee = part \div 100
    BY <1>15
  <1>17. PICK pnl \in Int : pnl = (value - u) - paid - exitFee
    BY <1>11, <1>12, <1>14, <1>16
  <1>18. PICK t : t = [symbol |-> rows[index].symbol, signal |-> index, entry |-> e,
                       exit |-> x.at, reason |-> x.reason, pnl |-> pnl,
                       fees |-> paid + exitFee, used |-> u,
                       duration |-> Cardinality({j \in Later(e) : j <= x.at})]
    OBVIOUS
  <1>19. /\ t.signal = index /\ t.exit = x.at /\ t.pnl = pnl /\ t.fees = paid + exitFee
         /\ InBook(t)
    BY <1>4, <1>8, <1>12, <1>16, <1>18 DEF InBook
  <1>20. exitFee = (((Used * Sold(raw)) \div entry) * config.fee) \div 100
         /\ value = (Used * Sold(raw)) \div entry
    BY <1>11, <1>13, <1>14, <1>15, <1>16
  <1>21. /\ trades' = Append(trades, t) /\ capital' = capital + pnl
         /\ fees' = fees + paid + exitFee
    BY <1>1, <1>2, <1>9, <1>10, <1>11, <1>12, <1>17, <1>18, <1>20 DEF Trade
  <1>22. fees + paid + exitFee = fees + (paid + exitFee)
    BY <1>4, <1>12, <1>16
  <1>23. t.exit >= index /\ t.exit <= Len(rows)
    BY <1>4, <1>6, <1>8, <1>19
  <1>24. QED
    BY <1>3, <1>19, <1>21, <1>22, <1>23

LEMMA TradeKeeps == ASSUME TestInv, BooksInv, Trade PROVE BooksInv'
  <1>1. PICK t : /\ InBook(t) /\ trades' = Append(trades, t)
                 /\ capital' = capital + t.pnl /\ fees' = fees + t.fees
                 /\ t.signal = index /\ t.exit >= index /\ t.exit <= Len(rows)
                 /\ index' = t.exit + 1
    BY TradeSays
  <1>2. /\ phase = "walk" /\ phase' = "walk" /\ UNCHANGED <<request, rows, todo, reports>>
        /\ stats' = Counted(EntryRow(index)) /\ curve' = Append(curve, capital')
        /\ peak' = Max({peak, capital'}) /\ drawdown' = Max({drawdown, peak' - capital'})
    BY DEF Trade, Enters, Signal, Peak
  <1>3. Accounts /\ Placed /\ index \in Nat /\ Len(rows) \in Nat
    BY <1>2 DEF BooksInv, TestInv, TestTyped, Given
  <1>4. PICK s \in Counts : /\ s = stats' /\ s.rejected = stats.rejected
                            /\ s.passed = stats.passed + 1
    BY <1>2, <1>3, CountedOnce DEF Accounts
  <1>5. stats.passed \in Nat /\ stats.rejected \in Nat
    BY <1>3 DEF Accounts, Counts
  <1>6. PICK N \in Nat : /\ N = Len(trades) /\ Len(trades') = N + 1
                         /\ DOMAIN trades' = 1..Len(trades') /\ trades'[N + 1] = t
                         /\ \A n \in 1..N : trades'[n] = trades[n]
    <2>1. PICK u : u = trades'
      OBVIOUS
    <2>2. PICK S : trades \in Seq(S)
      BY DEF TestInv, TestTyped
    <2>3. u = Append(trades, t)
      BY <1>1, <2>1
    <2>4. /\ DOMAIN u = 1..(Len(trades) + 1) /\ DOMAIN trades = 1..Len(trades)
          /\ Len(trades) \in Nat /\ \A n \in DOMAIN trades : u[n] = trades[n]
          /\ u[Len(trades) + 1] = t
      BY <2>2, <2>3, OneMore
    <2>5. Len(u) = Len(trades) + 1
      BY <2>2, <2>3
    <2>6. QED
      BY <2>1, <2>4, <2>5
  <1>7. /\ Booked(trades')
        /\ Total(Gained(trades)) \in Int /\ Total(GivenBack(trades)) \in Int
        /\ Total(PaidFees(trades)) \in Int /\ Total(Spans(trades)) \in Int
        /\ Total(Gained(trades')) = Total(Gained(trades)) + (IF t.pnl > 0 THEN t.pnl ELSE 0)
        /\ Total(GivenBack(trades')) = Total(GivenBack(trades)) + (IF t.pnl <= 0 THEN t.pnl ELSE 0)
        /\ Total(PaidFees(trades')) = Total(PaidFees(trades)) + t.fees
        /\ Total(Spans(trades')) = Total(Spans(trades)) + (t.exit - t.signal)
    <2>1. PICK u : u = trades'
      OBVIOUS
    <2>2. /\ Booked(trades) /\ Len(u) = Len(trades) + 1 /\ DOMAIN u = 1..Len(u)
          /\ \A n \in 1..Len(trades) : u[n] = trades[n]
          /\ u[Len(trades) + 1] = t
      BY <1>3, <1>6, <2>1 DEF Accounts
    <2>3. /\ Booked(u)
          /\ Total(Gained(trades)) \in Int /\ Total(GivenBack(trades)) \in Int
          /\ Total(PaidFees(trades)) \in Int /\ Total(Spans(trades)) \in Int
          /\ Total(Gained(u)) = Total(Gained(trades)) + (IF t.pnl > 0 THEN t.pnl ELSE 0)
          /\ Total(GivenBack(u)) = Total(GivenBack(trades)) + (IF t.pnl <= 0 THEN t.pnl ELSE 0)
          /\ Total(PaidFees(u)) = Total(PaidFees(trades)) + t.fees
          /\ Total(Spans(u)) = Total(Spans(trades)) + (t.exit - t.signal)
      <3>1. PICK T : T = trades
        OBVIOUS
      <3>2. InBook(t)
        BY <1>1
      <3>3. /\ Booked(T) /\ Len(u) = Len(T) + 1 /\ DOMAIN u = 1..Len(u)
            /\ \A n \in 1..Len(T) : u[n] = T[n]
            /\ u[Len(T) + 1] = t
        BY <2>2, <3>1
      <3>4. /\ Booked(u)
            /\ Total(Gained(T)) \in Int /\ Total(GivenBack(T)) \in Int
            /\ Total(PaidFees(T)) \in Int /\ Total(Spans(T)) \in Int
            /\ Total(Gained(u)) = Total(Gained(T)) + (IF t.pnl > 0 THEN t.pnl ELSE 0)
            /\ Total(GivenBack(u)) = Total(GivenBack(T)) + (IF t.pnl <= 0 THEN t.pnl ELSE 0)
            /\ Total(PaidFees(u)) = Total(PaidFees(T)) + t.fees
            /\ Total(Spans(u)) = Total(Spans(T)) + (t.exit - t.signal)
        BY <3>2, <3>3, BookGrows
      <3>5. QED
        BY <3>1, <3>4
    <2>4. QED
      BY <2>1, <2>3
  <1>8. PICK g, b, p, v :
          /\ g = Total(Gained(trades)) /\ b = Total(GivenBack(trades))
          /\ p = Total(PaidFees(trades)) /\ v = Total(Spans(trades))
    OBVIOUS
  <1>9. g \in Int /\ b \in Int /\ p \in Int /\ v \in Int
    BY <1>7, <1>8
  <1>10. t.pnl \in Int /\ t.fees \in Int /\ t.exit \in Int
    BY <1>1 DEF InBook
  <1>11. capital \in Int /\ capital = config.capital + g + b /\ capital' \in Int
         /\ config.capital \in Int
    <2>1. capital \in Int /\ capital = config.capital + g + b
      BY <1>3, <1>8 DEF Accounts
    <2>2. config.capital \in Int
      BY GivenConfig DEF TestInv, TestTyped
    <2>3. QED
      BY <1>1, <1>10, <2>1, <2>2
  <1>12. capital' = config'.capital + Total(Gained(trades')) + Total(GivenBack(trades'))
    <2>1. config' = config
      BY <1>2 DEF request
    <2>2. CASE t.pnl > 0
      BY <1>1, <1>7, <1>8, <1>9, <1>10, <1>11, <2>1, <2>2
    <2>3. CASE t.pnl <= 0
      BY <1>1, <1>7, <1>8, <1>9, <1>10, <1>11, <2>1, <2>3
    <2>4. QED
      BY <1>10, <2>2, <2>3
  <1>13. /\ curve' \in Seq(Int) /\ Len(curve') >= 1 /\ capital' = curve'[Len(curve')]
         /\ Tops(curve', peak') /\ FallsAtMost(curve', drawdown')
    <2>1. PICK c \in Seq(Int) : c = curve /\ Len(c) >= 1
      BY <1>3 DEF Accounts
    <2>2. PICK x \in Int : x = capital'
      BY <1>11
    <2>3. PICK w : w = Append(c, x)
      OBVIOUS
    <2>4. /\ w \in Seq(Int) /\ Len(w) = Len(c) + 1 /\ w[Len(c) + 1] = x
          /\ \A k \in 1..Len(c) : w[k] = c[k]
      BY <2>3
    <2>5. PICK high, d : high = peak /\ d = drawdown
      OBVIOUS
    <2>6. Tops(c, high) /\ FallsAtMost(c, d)
      BY <1>3, <2>1, <2>5 DEF Accounts
    <2>7. PICK top : top = Max({high, x})
      OBVIOUS
    <2>8. Tops(w, top) /\ FallsAtMost(w, Max({d, top - x}))
      BY <2>1, <2>4, <2>6, <2>7, OneMorePoint
    <2>9. curve' = w /\ peak' = top /\ drawdown' = Max({d, top - x})
      BY <1>2, <2>1, <2>2, <2>3, <2>5, <2>7
    <2>10. Len(w) >= 1 /\ w[Len(w)] = x
      BY <2>1, <2>4
    <2>11. QED
      BY <2>2, <2>4, <2>8, <2>9, <2>10
  <1>14. /\ fees' \in Int /\ fees' >= Total(PaidFees(trades'))
         /\ stats'.passed >= Len(trades')
         /\ fees' > Total(PaidFees(trades')) => stats'.passed > Len(trades')
    <2>1. /\ fees \in Int /\ fees >= p /\ stats.passed >= N
          /\ fees > p => stats.passed > N
      BY <1>3, <1>6, <1>8 DEF Accounts
    <2>2. Total(PaidFees(trades')) = p + t.fees /\ fees' = fees + t.fees
          /\ Len(trades') = N + 1 /\ stats'.passed = stats.passed + 1
      BY <1>1, <1>4, <1>6, <1>7, <1>8
    <2>3. QED
      BY <1>5, <1>9, <1>10, <2>1, <2>2
  <1>15. Accounts'
    BY <1>4, <1>7, <1>11, <1>12, <1>13, <1>14 DEF Accounts
  <1>16. RowsSeen' = t.exit
    <2>1. stats.passed + stats.rejected + v = index - 1
      BY <1>2, <1>3, <1>8 DEF Placed, RowsSeen
    <2>2. /\ stats'.passed = stats.passed + 1 /\ stats'.rejected = stats.rejected
          /\ Total(Spans(trades')) = v + (t.exit - index)
      BY <1>1, <1>4, <1>7, <1>8
    <2>3. stats'.passed + stats'.rejected + Total(Spans(trades')) = t.exit
      <3>1. PICK i, j, k, l \in Int : /\ i = stats.passed /\ j = stats.rejected
                                      /\ k = t.exit /\ l = index
        BY <1>3, <1>5, <1>10
      <3>2. i + j + v = l - 1
        BY <2>1, <3>1
      <3>3. (i + 1) + j + (v + (k - l)) = k
        BY <1>9, <3>2
      <3>4. QED
        BY <2>2, <3>1, <3>3
    <2>4. QED
      BY <2>3 DEF RowsSeen
  <1>17. Placed'
    <2>1. PICK k \in Int : k = t.exit /\ RowsSeen' = k /\ index' = k + 1 /\ k <= Len(rows)
      BY <1>1, <1>10, <1>16
    <2>2. RowsSeen' = index' - 1 /\ index' <= Len(rows)' + 1
      BY <1>2, <1>3, <2>1
    <2>3. QED
      BY <1>2, <2>2 DEF Placed
  <1>18. \A m \in DOMAIN reports : Agrees(reports[m])'
    <2>1. config' = config /\ reports' = reports
      BY <1>2 DEF request
    <2>2. \A r : Agrees(r) => Agrees(r)'
      BY <2>1, AgreesKept
    <2>3. QED
      BY <2>1, <2>2 DEF BooksInv
  <1>19. QED
    BY <1>2, <1>15, <1>17, <1>18 DEF BooksInv

\* The books of a walk that begins.
LEMMA BooksOpen ==
  ASSUME Given, rows' \in Seq(StoredRow), config' = config, phase' = "walk", Fresh(config.capital)
  PROVE  Accounts' /\ Placed'
  <1>1. PICK k \in Int : k = config.capital
    BY GivenConfig
  <1>2. PICK T : T = <<>>
    OBVIOUS
  <1>3. /\ trades' = T /\ curve' = <<k>> /\ capital' = k /\ peak' = k /\ drawdown' = 0
        /\ fees' = 0 /\ stats' = Zero /\ index' = 1
    BY <1>1, <1>2 DEF Fresh
  <1>4. Booked(T) /\ Len(T) = 0
    BY <1>2 DEF Booked
  <1>5. /\ Total(Gained(T)) = 0 /\ Total(GivenBack(T)) = 0
        /\ Total(PaidFees(T)) = 0 /\ Total(Spans(T)) = 0
    BY <1>4, BookSums, TotalOfNone
  <1>6. PICK c : c = <<k>>
    OBVIOUS
  <1>7. c \in Seq(Int) /\ Len(c) = 1 /\ c[1] = k
    BY <1>6
  <1>8. Tops(c, k) /\ FallsAtMost(c, 0)
    BY <1>7 DEF Tops, FallsAtMost
  <1>9. /\ stats' \in Counts /\ stats'.passed = 0 /\ stats'.rejected = 0
    BY <1>3 DEF Zero, Counts
  <1>10. Accounts'
    <2>1. /\ Booked(trades') /\ curve' \in Seq(Int) /\ Len(curve') >= 1
          /\ capital' = curve'[Len(curve')] /\ capital' \in Int
          /\ Tops(curve', peak') /\ FallsAtMost(curve', drawdown')
      BY <1>3, <1>4, <1>6, <1>7, <1>8
    <2>2. capital' = config'.capital + Total(Gained(trades')) + Total(GivenBack(trades'))
      <3>1. k = k + 0 + 0
        OBVIOUS
      <3>2. QED
        BY <1>1, <1>3, <1>5, <3>1
    <2>3. /\ fees' \in Int /\ fees' = Total(PaidFees(trades')) /\ Len(trades') = 0
          /\ ~(0 > 0) /\ 0 >= 0
      BY <1>3, <1>4, <1>5
    <2>4. QED
      BY <1>3, <1>5, <1>9, <2>1, <2>2, <2>3 DEF Accounts
  <1>11. RowsSeen' = 0
    BY <1>3, <1>5, <1>9 DEF RowsSeen
  <1>12. Len(rows') \in Nat
    OBVIOUS
  <1>13. Placed'
    BY <1>3, <1>11, <1>12 DEF Placed
  <1>14. QED
    BY <1>10, <1>13

LEMMA LoadKeeps ==
  ASSUME TestInv, BooksInv, NEW delay \in Delays, Load(delay)
  PROVE  BooksInv'
  <1>1. /\ phase' = "walk" /\ Fresh(config.capital) /\ config' = config /\ reports' = reports
        /\ rows' = Loaded
    BY DEF Load, request
  <1>2. Given /\ rows' \in Seq(StoredRow)
    BY <1>1, LoadedIsRows DEF TestInv, TestTyped, Given
  <1>3. Accounts' /\ Placed'
    BY <1>1, <1>2, BooksOpen
  <1>4. \A m \in DOMAIN reports : Agrees(reports[m])'
    <2>1. \A r : Agrees(r) => Agrees(r)'
      BY <1>1, AgreesKept
    <2>2. QED
      BY <1>1, <2>1 DEF BooksInv
  <1>5. QED
    BY <1>1, <1>3, <1>4 DEF BooksInv

LEMMA FinishKeeps == ASSUME TestInv, BooksInv, Finish PROVE BooksInv'
  <1>1. /\ phase = "finish" /\ config' = config /\ rows' = rows
        /\ reports' = Append(reports, Report)
    BY DEF Finish, request
  <1>2. Given /\ Accounts
    BY <1>1 DEF TestInv, TestTyped, BooksInv
  <1>3. PICK r : r = Report /\ Agrees(r)
    BY <1>2, ReportIsRight
  <1>4. PICK u : u = reports' /\ u = Append(reports, r)
    BY <1>1, <1>3
  <1>5. PICK S : reports \in Seq(S)
    BY DEF BooksInv
  <1>6. /\ DOMAIN u = 1..(Len(reports) + 1) /\ DOMAIN reports = 1..Len(reports)
        /\ Len(reports) \in Nat /\ \A n \in DOMAIN reports : u[n] = reports[n]
        /\ u[Len(reports) + 1] = r /\ u \in Seq({u[n] : n \in DOMAIN u})
    BY <1>4, <1>5, OneMore
  <1>7. \A x : Agrees(x) => Agrees(x)'
    BY <1>1, AgreesKept
  <1>8. ASSUME NEW n \in DOMAIN u PROVE \A x : x = u[n] => Agrees(x)'
    <2>1. n \in DOMAIN reports \/ n = Len(reports) + 1
      BY <1>6
    <2>2. CASE n \in DOMAIN reports
      BY <1>6, <1>7, <2>2 DEF BooksInv
    <2>3. CASE n = Len(reports) + 1
      BY <1>3, <1>6, <1>7, <2>3
    <2>4. QED
      BY <2>1, <2>2, <2>3
  <1>9. (\A n \in DOMAIN reports : Agrees(reports[n]))'
    BY <1>4, <1>8
  <1>10. reports' \in Seq({reports'[n] : n \in DOMAIN reports'})
    BY <1>4, <1>6
  <1>11. CASE Len(todo) = 1
    <2>1. phase' = "done"
      BY <1>11 DEF Finish
    <2>2. QED
      BY <1>9, <1>10, <2>1 DEF BooksInv
  <1>12. CASE Len(todo) # 1
    <2>1. phase' = "walk" /\ Fresh(config.capital)
      BY <1>12 DEF Finish
    <2>2. rows' \in Seq(StoredRow)
      BY <1>1, <1>2 DEF Given
    <2>3. Accounts' /\ Placed'
      BY <1>1, <1>2, <2>1, <2>2, BooksOpen
    <2>4. QED
      BY <1>9, <1>10, <2>1, <2>3 DEF BooksInv
  <1>13. QED
    BY <1>11, <1>12

LEMMA BooksBegin == TestInit => BooksInv
  <1> SUFFICES ASSUME TestInit PROVE BooksInv
    OBVIOUS
  <1>1. phase = "load" /\ reports = <<>>
    BY DEF TestInit
  <1>2. reports \in Seq({reports[n] : n \in DOMAIN reports})
    BY <1>1
  <1>3. QED
    BY <1>1, <1>2 DEF BooksInv

LEMMA BooksStep == TestInv /\ BooksInv /\ [TestNext]_testVars => BooksInv'
  <1> SUFFICES ASSUME TestInv, BooksInv, [TestNext]_testVars PROVE BooksInv'
    OBVIOUS
  <1>1. CASE UNCHANGED testVars
    <2>1. /\ UNCHANGED <<request, rows, todo, phase, reports, index, capital, peak, drawdown>>
          /\ UNCHANGED <<fees, trades, curve, stats>> /\ config' = config
      BY <1>1 DEF testVars, walkVars, request
    <2>2. Used' = Used /\ Delay' = Delay
      BY <2>1 DEF Used, Delay
    <2>3. Accounts => Accounts'
      BY <2>1 DEF Accounts
    <2>4. Placed => Placed'
      BY <2>1, <2>2 DEF Placed, RowsSeen
    <2>5. \A r : Agrees(r) => Agrees(r)'
      BY <2>1, AgreesKept
    <2>6. QED
      BY <2>1, <2>3, <2>4, <2>5 DEF BooksInv
  <1>2. QED
    BY <1>1, LoadKeeps, RejectKeeps, StarveKeeps, UnpricedKeeps, BrokeKeeps, AbandonKeeps,
       TradeKeeps, WalkedAllKeeps, FinishKeeps DEF TestNext

(* Every row of a backtest is examined once or passed over inside a trade,  *)
(* and the figures of a report agree with its trades and its curve, for any *)
(* history, settings and delay (run_backtest).                              *)
THEOREM Reported == TestSpec => []ReportAgrees
  <1>1. TestInit => TestInv /\ BooksInv
    BY TestStarts, BooksBegin
  <1>2. (TestInv /\ BooksInv) /\ [TestNext]_testVars => (TestInv /\ BooksInv)'
    BY TestStep, BooksStep
  <1>3. TestInv /\ BooksInv => ReportAgrees
    BY BooksImply
  <1>4. QED
    BY <1>1, <1>2, <1>3, PTL DEF TestSpec

-----------------------------------------------------------------------------
(* The score.  Whatever a market holds, each of the signals is a number:    *)
(* what the detector divides by is a price or a mean of prices, and only    *)
(* positive ones are recorded, or a count or a mean that it tests first.    *)

\* The values of a function on a finite set are finitely many, and one of
\* them is the least and one the greatest.
LEMMA FiniteExtremes ==
  ASSUME NEW T \in SUBSET Int, IsFiniteSet(T), T # {}
  PROVE  (\E x \in T : \A y \in T : x <= y) /\ (\E x \in T : \A y \in T : x >= y)
  <1> DEFINE Up == {p \in T \X T : p[1] < p[2]}
             Down == {p \in T \X T : p[1] > p[2]}
  <1>1. 1 \in 1..Cardinality(T)
    BY FS_CardinalityType, FS_EmptySet
  <1>2. /\ \A p, q \in T : <<p, q>> \in Up <=> p < q
        /\ \A p, q \in T : <<p, q>> \in Down <=> p > q
    OBVIOUS
  <1> HIDE DEF Up, Down
  <1>3. \E x \in T : Earlier(T, Up, x) = 0
    <2>1. /\ \A p, q \in T : p = q \/ <<p, q>> \in Up \/ <<q, p>> \in Up
          /\ \A p \in T : <<p, p>> \notin Up
          /\ \A p, q, r \in T : <<p, q>> \in Up /\ <<q, r>> \in Up => <<p, r>> \in Up
      BY <1>2
    <2>2. \E x \in T : Earlier(T, Up, x) = 1 - 1
      BY <1>1, <2>1, Ranked
    <2>3. QED
      BY <2>2
  <1>4. \E x \in T : Earlier(T, Down, x) = 0
    <2>1. /\ \A p, q \in T : p = q \/ <<p, q>> \in Down \/ <<q, p>> \in Down
          /\ \A p \in T : <<p, p>> \notin Down
          /\ \A p, q, r \in T : <<p, q>> \in Down /\ <<q, r>> \in Down => <<p, r>> \in Down
      BY <1>2
    <2>2. \E x \in T : Earlier(T, Down, x) = 1 - 1
      BY <1>1, <2>1, Ranked
    <2>3. QED
      BY <2>2
  <1>5. ASSUME NEW R, NEW x \in T, Earlier(T, R, x) = 0
        PROVE  \A y \in T : <<y, x>> \notin R
    <2> DEFINE B == {y \in T : <<y, x>> \in R}
    <2>1. IsFiniteSet(B)
      BY FS_Subset, B \subseteq T
    <2>2. B = {}
      BY <1>5, <2>1, FS_EmptySet DEF Earlier
    <2>3. QED
      BY <2>2
  <1>6. \E x \in T : \A y \in T : x <= y
    <2>1. PICK x \in T : Earlier(T, Up, x) = 0
      BY <1>3
    <2>2. \A y \in T : <<y, x>> \notin Up
      BY <1>5, <2>1
    <2>3. \A y \in T : ~(y < x)
      BY <1>2, <2>2
    <2>4. \A y \in T : x <= y
      BY <2>3
    <2>5. QED
      BY <2>4
  <1>7. \E x \in T : \A y \in T : x >= y
    <2>1. PICK x \in T : Earlier(T, Down, x) = 0
      BY <1>4
    <2>2. \A y \in T : <<y, x>> \notin Down
      BY <1>5, <2>1
    <2>3. \A y \in T : ~(y > x)
      BY <1>2, <2>2
    <2>4. \A y \in T : x >= y
      BY <2>3
    <2>5. QED
      BY <2>4
  <1>8. QED
    BY <1>6, <1>7

LEMMA NthIsValue ==
  ASSUME NEW D, IsFiniteSet(D), NEW values \in [D -> Int], NEW n \in 1..Cardinality(D)
  PROVE  Nth(values, n) \in Int
  <1> DEFINE T == Range(values)
             Reached(v) == {s \in D : values[s] >= v}
             Kept == {v \in T : Cardinality(Reached(v)) >= n}
  <1>1. DOMAIN values = D /\ T \subseteq Int /\ \A s \in D : values[s] \in T
    BY DEF Range
  <1>2. values \in Surjection(D, T)
    BY <1>1 DEF Range, Surjection
  <1>3. IsFiniteSet(T)
    BY <1>2, FS_Surjection
  <1>4. T # {}
    <2>1. D # {}
      BY FS_EmptySet
    <2>2. QED
      BY <1>1, <2>1
  <1>5. PICK v \in T : \A y \in T : v <= y
    BY <1>1, <1>3, <1>4, FiniteExtremes
  <1>6. Reached(v) = D
    BY <1>1, <1>5
  <1>7. v \in Kept
    <2>1. Cardinality(D) \in Nat
      BY FS_CardinalityType
    <2>2. Cardinality(Reached(v)) >= n
      BY <1>6, <2>1
    <2>3. QED
      BY <2>2
  <1>8. Kept \in SUBSET Int /\ Kept # {} /\ IsFiniteSet(Kept)
    <2>1. Kept \subseteq T
      OBVIOUS
    <2>2. QED
      BY <1>1, <1>3, <1>7, <2>1, FS_Subset
  <1>9. Nth(values, n) = Max(Kept)
    BY <1>1 DEF Nth
  <1> HIDE DEF Kept
  <1>10. \E x \in Kept : \A y \in Kept : x >= y
    BY <1>8, FiniteExtremes
  <1>11. Max(Kept) \in Kept
    BY <1>10 DEF Max
  <1>12. QED
    BY <1>8, <1>9, <1>11

LEMMA SortedIsNumbers ==
  ASSUME NEW D, IsFiniteSet(D), NEW values \in [D -> Int]
  PROVE  Sorted(values) \in Seq(Int) /\ Len(Sorted(values)) = Cardinality(D)
  <1>1. PICK N : N = Cardinality(D)
    OBVIOUS
  <1>2. N \in Nat
    BY <1>1, FS_CardinalityType
  <1>3. Sorted(values) = [n \in 1..N |-> Nth(values, n)]
    BY <1>1 DEF Sorted
  <1>4. \A n \in 1..N : Nth(values, n) \in Int
    BY <1>1, NthIsValue
  <1>5. Sorted(values) \in [1..N -> Int]
    BY <1>3, <1>4
  <1>6. QED
    BY <1>1, <1>2, <1>5

\* The quotient of two numbers, the divisor positive, is a number, and it is
\* positive when the dividend is no smaller than the divisor.
LEMMA Quotient ==
  ASSUME NEW a \in Int, NEW b \in Nat \ {0}
  PROVE  a \div b \in Int /\ (a >= b => a \div b >= 1)
  <1>1. a \div b \in Int
    OBVIOUS
  <1>2. ASSUME a >= b PROVE a \div b >= 1
    <2>1. PICK q, r \in Int : q = a \div b /\ r = a % b
      BY <1>1
    <2>2. a = b * q + r /\ 0 <= r /\ r < b
      BY <2>1
    <2>3. CASE q <= 0
      <3>1. b * q <= 0
        BY <2>3
      <3>2. QED
        BY <1>2, <2>2, <3>1
    <2>4. QED
      BY <2>1, <2>3
  <1>3. QED
    BY <1>1, <1>2

LEMMA MeanIsNumber ==
  ASSUME NEW v \in Seq(Int), Len(v) # 0
  PROVE  Mean(v) \in Int
  <1>1. Total(v) \in Int /\ Len(v) \in Nat \ {0}
    BY TotalIsInt
  <1>2. QED
    BY <1>1, Quotient DEF Mean

\* The mean of positive numbers is positive, even when it is rounded down.
LEMMA MeanIsPositive ==
  ASSUME NEW v \in Seq(Nat \ {0}), Len(v) # 0
  PROVE  Mean(v) \in Nat \ {0}
  <1>1. PICK N \in Nat \ {0} : N = Len(v)
    OBVIOUS
  <1>2. v \in Seq(Int) /\ \A n \in 1..N : v[n] \in Int /\ v[n] >= 1
    BY <1>1
  <1>3. PICK g : Sums(g, v) /\ Total(v) = g[N]
    BY <1>1, <1>2, TotalSays
  <1> DEFINE Bad == {n \in 0..N : ~(g[n] >= n)}
  <1>4. Bad = {}
    <2>1. SUFFICES ASSUME Bad # {} PROVE FALSE
      OBVIOUS
    <2>2. PICK n \in Bad : \A m \in Bad : n <= m
      <3>1. Bad \in SUBSET Nat
        OBVIOUS
      <3> HIDE DEF Bad
      <3>2. QED
        BY <2>1, <3>1, LeastNumber
    <2>3. n \in 0..N /\ ~(g[n] >= n)
      BY <2>2
    <2>4. n # 0
      BY <1>3, <2>3 DEF Sums
    <2>5. n \in 1..N /\ n - 1 \in 0..N /\ ~(n <= n - 1)
      BY <2>3, <2>4
    <2>6. g[n - 1] >= n - 1
      BY <2>2, <2>5
    <2>7. g[n - 1] \in Int /\ g[n] = g[n - 1] + v[n]
      BY <1>1, <1>3, <2>5 DEF Sums
    <2>8. QED
      BY <1>2, <2>3, <2>5, <2>6, <2>7
  <1>5. Total(v) >= N /\ Total(v) \in Int
    <2>1. N \in 0..N
      OBVIOUS
    <2>2. QED
      BY <1>1, <1>3, <1>4, <2>1 DEF Sums
  <1>6. PICK q : q = Total(v) \div N
    OBVIOUS
  <1>7. q \in Int /\ q >= 1
    BY <1>5, <1>6, Quotient
  <1>8. QED
    BY <1>1, <1>6, <1>7 DEF Mean

Positive == Nat \ {0}

\* What the detector remembers, and what it measures from: prices that are
\* positive, so that a mean or an older price can be divided by.
Measurable(prices, btc, volumes) ==
  /\ prices \in [Symbols -> Seq(Positive)] /\ btc \in Seq(Positive)
  /\ volumes \in Seq(Int)

LEMMA PushKeeps ==
  ASSUME NEW T, NEW h \in Seq(T), NEW x \in T
  PROVE  Push(h, x) \in Seq(T)
  <1>1. Append(h, x) \in Seq(T) /\ Append(h, x) # <<>>
    OBVIOUS
  <1>2. Tail(Append(h, x)) \in Seq(T)
    BY <1>1
  <1>3. QED
    BY <1>1, <1>2 DEF Push

LEMMA VolumeIsNumber == ASSUME NEW table, Rows(table) PROVE TotalVolume(table) \in Int
  <1> DEFINE volume == [s \in DOMAIN table |-> table[s].volume]
  <1>1. volume \in [DOMAIN table -> Int] /\ IsFiniteSet(DOMAIN table)
    BY DEF Rows, MarketRow
  <1> HIDE DEF volume
  <1>2. Sorted(volume) \in Seq(Int)
    BY <1>1, SortedIsNumbers
  <1>3. QED
    BY <1>2, TotalIsInt DEF TotalVolume, volume

\* Recording a scan keeps it so.
LEMMA RecordKeeps ==
  ASSUME Measurable(priceHistory, btcHistory, volumeHistory),
         NEW table, Rows(table),
         NEW prices, prices = RecordPrices(table)
  PROVE  Measurable(prices, RecordBtc(prices, table), RecordVolume(table))
  <1>1. prices \in [Symbols -> Seq(Positive)]
    <2>1. ASSUME NEW s \in Symbols
          PROVE  (IF s \in DOMAIN table /\ table[s].price > 0
                  THEN Push(priceHistory[s], table[s].price) ELSE priceHistory[s]) \in Seq(Positive)
      <3>1. priceHistory[s] \in Seq(Positive)
        BY DEF Measurable
      <3>2. CASE s \in DOMAIN table /\ table[s].price > 0
        <4>1. table[s].price \in Positive
          BY <3>2 DEF Rows, MarketRow, Positive
        <4>2. QED
          BY <3>1, <3>2, <4>1, PushKeeps
      <3>3. QED
        BY <3>1, <3>2
    <2>2. QED
      BY <2>1 DEF RecordPrices
  <1>2. RecordBtc(prices, table) \in Seq(Positive)
    <2>1. prices[BTC] \in Seq(Positive) /\ btcHistory \in Seq(Positive)
      <3>1. BTC \in Symbols
        BY DEF Symbols
      <3>2. QED
        BY <1>1, <3>1 DEF Measurable
    <2>2. CASE prices[BTC] # <<>>
      <3>1. Last(prices[BTC]) \in Positive
        BY <2>1, <2>2 DEF Last
      <3>2. QED
        BY <2>1, <2>2, <3>1, PushKeeps DEF RecordBtc
    <2>3. QED
      BY <2>1, <2>2 DEF RecordBtc
  <1>3. RecordVolume(table) \in Seq(Int)
    <2>1. TotalVolume(table) \in Int /\ volumeHistory \in Seq(Int)
      BY VolumeIsNumber DEF Measurable
    <2>2. QED
      BY <2>1, PushKeeps DEF RecordVolume
  <1>4. QED
    BY <1>1, <1>2, <1>3 DEF Measurable

LEMMA LookbackReaches == Lookback \in Nat /\ Lookback >= 2
  <1>1. Detector.shortLookback \in Int
    BY DetectorAssumption
  <1>2. QED
    BY <1>1, MaxOfTwo DEF Lookback

LEMMA PctIsNumber ==
  ASSUME NEW new \in Int, NEW old \in Positive
  PROVE  PctChange(new, old) \in Int
  <1>1. (new - old) * 10000 \in Int
    BY DEF Positive
  <1>2. QED
    BY <1>1, Quotient DEF PctChange, Positive

\* The change over the lookback of a history that reaches back so far.
LEMMA ChangeIsNumber ==
  ASSUME NEW h \in Seq(Positive), Len(h) >= Lookback
  PROVE  PctChange(Last(h), Back(h, Lookback)) \in Int
  <1>1. PICK n, k \in Nat : n = Len(h) /\ k = Lookback /\ k >= 2
    BY LookbackReaches
  <1>2. n \in 1..n /\ n - k + 1 \in 1..n /\ n >= 1
    BY <1>1
  <1>3. h[n] \in Positive /\ h[n - k + 1] \in Positive
    BY <1>1, <1>2
  <1>4. Last(h) \in Positive /\ Back(h, Lookback) \in Positive
    BY <1>1, <1>3 DEF Last, Back
  <1>5. QED
    BY <1>4, PctIsNumber DEF Positive

LEMMA ClampIsNumber ==
  ASSUME NEW x \in Int, NEW lo \in Int, NEW hi \in Int
  PROVE  /\ Clamp(x, lo, hi) \in Int
         /\ lo <= hi => lo <= Clamp(x, lo, hi) /\ Clamp(x, lo, hi) <= hi
  <1>1. PICK m \in Int : m = Min({hi, x}) /\ m <= hi
    BY MinOfTwo
  <1>2. Clamp(x, lo, hi) = IF lo >= m THEN lo ELSE m
    BY <1>1, MaxOfTwo DEF Clamp
  <1>3. QED
    BY <1>1, <1>2

LEMMA ScaleIsNumber ==
  ASSUME NEW x \in Int, NEW lo \in Int, NEW hi \in Int, lo < hi
  PROVE  Scale(x, lo, hi) \in Int
  <1>1. PICK b \in Nat \ {0} : b = hi - lo
    OBVIOUS
  <1>2. (x - lo) * 1000 \in Int
    OBVIOUS
  <1>3. ((x - lo) * 1000) \div (hi - lo) \in Int
    BY <1>1, <1>2, Quotient
  <1>4. QED
    BY <1>3, ClampIsNumber DEF Scale

LEMMA FractionIsNumber ==
  ASSUME NEW whole, IsFiniteSet(whole), NEW part \in SUBSET whole
  PROVE  Fraction(part, whole) \in Int
  <1>1. IsFiniteSet(part) /\ Cardinality(part) \in Nat /\ Cardinality(whole) \in Nat
    BY FS_Subset, FS_CardinalityType
  <1>2. CASE whole = {}
    BY <1>2 DEF Fraction
  <1>3. CASE whole # {}
    <2>1. Cardinality(whole) \in Nat \ {0}
      BY <1>1, <1>3, FS_EmptySet
    <2>2. Cardinality(part) * 1000 \in Int
      BY <1>1
    <2>3. QED
      BY <1>3, <2>1, <2>2, Quotient DEF Fraction
  <1>4. QED
    BY <1>2, <1>3

LEMMA TopMeanIsNumber ==
  ASSUME NEW D, IsFiniteSet(D), NEW values \in [D -> Int], NEW n \in Nat \ {0}
  PROVE  TopMean(values, n) \in Int
  <1>1. CASE D = {}
    BY <1>1 DEF TopMean
  <1>2. CASE D # {}
    <2>1. PICK N \in Nat \ {0} : N = Cardinality(D)
      BY <1>2, FS_CardinalityType, FS_EmptySet
    <2>2. Sorted(values) \in Seq(Int) /\ Len(Sorted(values)) = N
      BY <2>1, SortedIsNumbers
    <2>3. PICK m : m = Min({n, N})
      OBVIOUS
    <2>4. m \in 1..N
      BY <2>3, MinOfTwo
    <2>5. PICK top : top = SubSeq(Sorted(values), 1, m)
      OBVIOUS
    <2>6. top \in Seq(Int) /\ Len(top) = m
      BY <2>2, <2>4, <2>5
    <2>7. Mean(top) \in Int
      BY <2>4, <2>6, MeanIsNumber
    <2>8. QED
      BY <1>2, <2>1, <2>3, <2>5, <2>7 DEF TopMean
  <1>3. QED
    BY <1>1, <1>2

\* A part of the symbols of a table is finite, and a row's figures are numbers.
LEMMA TableSays ==
  ASSUME NEW table, Rows(table), NEW part \in SUBSET (DOMAIN table)
  PROVE  /\ IsFiniteSet(part) /\ Cardinality(part) \in Nat
         /\ \A s \in part : /\ table[s].volume \in Int /\ table[s].bid \in Int
                            /\ table[s].ask \in Int
                            /\ table[s].change \in {Unquoted} \cup Int
  <1>1. IsFiniteSet(part) /\ Cardinality(part) \in Nat
    BY FS_Subset, FS_CardinalityType DEF Rows
  <1>2. \A s \in DOMAIN table : table[s] \in MarketRow
    BY DEF Rows
  <1>3. QED
    BY <1>1, <1>2 DEF MarketRow

LEMMA QuotesAreNumbers ==
  ASSUME NEW table, Rows(table)
  PROVE  /\ Breadth24h(table) \in Int /\ Skew(table) \in Int
         /\ Btc24h(table) \in Int /\ TopStrength(table) \in Int
  <1>1. /\ IsFiniteSet(Quoted(table))
        /\ \A s \in Quoted(table) : table[s].change \in Int
    <2>1. Quoted(table) \subseteq DOMAIN table
      BY DEF Quoted
    <2>2. QED
      BY <2>1, TableSays DEF Quoted
  <1>2. Breadth24h(table) \in Int /\ Skew(table) \in Int
    BY <1>1, FractionIsNumber DEF Breadth24h, Skew
  <1>3. Btc24h(table) \in Int
    BY <1>1 DEF Btc24h
  <1>4. TopStrength(table) \in Int
    <2>1. [s \in Quoted(table) |-> table[s].change] \in [Quoted(table) -> Int]
      BY <1>1
    <2>2. QED
      BY <1>1, <2>1, TopMeanIsNumber DEF TopStrength
  <1>5. QED
    BY <1>2, <1>3, <1>4

LEMMA MovesAreNumbers ==
  ASSUME NEW table, Rows(table), DOMAIN table \subseteq Symbols,
         NEW prices \in [Symbols -> Seq(Positive)]
  PROVE  BreadthShort(table, prices) \in Int /\ AvgMomentum(table, prices) \in Int
  <1>1. Measured(table, prices) \subseteq DOMAIN table
    BY DEF Measured
  <1>2. IsFiniteSet(Measured(table, prices))
    BY <1>1, TableSays
  <1>3. BreadthShort(table, prices) \in Int
    BY <1>2, FractionIsNumber DEF BreadthShort
  <1>4. \A s \in Measured(table, prices) : Move(s, prices) \in Int
    <2>1. ASSUME NEW s \in Measured(table, prices)
          PROVE  prices[s] \in Seq(Positive) /\ Len(prices[s]) >= Lookback
      BY DEF Measured
    <2>2. QED
      BY <2>1, ChangeIsNumber DEF Move
  <1>5. AvgMomentum(table, prices) \in Int
    <2>1. [s \in Measured(table, prices) |-> Move(s, prices)] \in [Measured(table, prices) -> Int]
      BY <1>4
    <2>2. QED
      BY <1>2, <2>1, TopMeanIsNumber DEF AvgMomentum
  <1>6. QED
    BY <1>3, <1>5

LEMMA BtcIsNumber ==
  ASSUME NEW btc \in Seq(Positive)
  PROVE  BtcShort(btc) \in Int /\ BtcAboveMean(btc) \in Int
  <1>1. Len(btc) \in Nat /\ Lookback \in Nat
    BY LookbackReaches
  <1>2. BtcShort(btc) \in Int
    BY <1>1, ChangeIsNumber DEF BtcShort
  <1>3. CASE Len(btc) < 10
    BY <1>2, <1>3 DEF BtcAboveMean
  <1>4. CASE ~(Len(btc) < 10)
    <2>1. Len(btc) # 0 /\ Len(btc) \in 1..Len(btc)
      BY <1>1, <1>4
    <2>2. Mean(btc) \in Positive
      BY <2>1, MeanIsPositive DEF Positive
    <2>3. Last(btc) \in Int
      BY <2>1 DEF Last, Positive
    <2>4. PctChange(Last(btc), Mean(btc)) \in Int
      BY <2>2, <2>3, PctIsNumber
    <2>5. QED
      BY <1>2, <1>4, <2>4 DEF BtcAboveMean
  <1>5. QED
    BY <1>3, <1>4

LEMMA TrendIsNumber ==
  ASSUME NEW table, Rows(table), NEW volumes \in Seq(Int)
  PROVE  VolumeTrend(table, volumes) \in Int
  <1>1. PICK n \in Nat : n = Len(volumes)
    OBVIOUS
  <1>2. CASE TotalVolume(table) <= 0 \/ n < 6
    BY <1>1, <1>2 DEF VolumeTrend
  <1>3. CASE ~(TotalVolume(table) <= 0) /\ n >= 6
    <2>1. PICK early : early = SubSeq(volumes, n - 5, n - 3)
      OBVIOUS
    <2>2. PICK late : late = SubSeq(volumes, n - 2, n)
      OBVIOUS
    <2>3. early \in Seq(Int) /\ Len(early) = 3
      BY <1>1, <1>3, <2>1
    <2>4. late \in Seq(Int) /\ Len(late) = 3
      BY <1>1, <1>3, <2>2
    <2>5. Mean(early) \in Int /\ Mean(late) \in Int
      BY <2>3, <2>4, MeanIsNumber
    <2>6. VolumeTrend(table, volumes) =
            IF Mean(early) <= 0 THEN 0 ELSE PctChange(Mean(late), Mean(early))
      BY <1>1, <1>3, <2>1, <2>2 DEF VolumeTrend
    <2>7. CASE Mean(early) <= 0
      BY <2>6, <2>7
    <2>8. CASE ~(Mean(early) <= 0)
      <3>1. Mean(early) \in Positive
        BY <2>5, <2>8 DEF Positive
      <3>2. QED
        BY <2>5, <2>6, <2>8, <3>1, PctIsNumber
    <2>9. QED
      BY <2>7, <2>8
  <1>4. QED
    BY <1>1, <1>2, <1>3

LEMMA SpreadIsNumber ==
  ASSUME NEW table, Rows(table)
  PROVE  SpreadHealth(table) \in Int
  <1>1. TwoSided(table) \subseteq DOMAIN table
    BY DEF TwoSided
  <1>2. IsFiniteSet(TwoSided(table))
    BY <1>1, TableSays
  <1>3. ASSUME NEW s \in TwoSided(table) PROVE SpreadOf(table, s) \in Int
    <2>1. table[s].bid \in Positive /\ table[s].ask \in Int
      BY <1>1, TableSays DEF TwoSided, Positive
    <2>2. QED
      BY <2>1, PctIsNumber DEF SpreadOf
  <1>4. PICK sorted : sorted = Sorted([s \in TwoSided(table) |-> SpreadOf(table, s)])
    OBVIOUS
  <1>5. sorted \in Seq(Int)
    <2>1. [s \in TwoSided(table) |-> SpreadOf(table, s)] \in [TwoSided(table) -> Int]
      BY <1>3
    <2>2. QED
      BY <1>2, <1>4, <2>1, SortedIsNumbers
  <1>6. PICK n \in Nat : n = Len(sorted)
    BY <1>5
  <1>7. SpreadHealth(table) = IF n = 0 THEN 0
                              ELSE IF n % 2 = 1 THEN sorted[n \div 2 + 1]
                              ELSE (sorted[n \div 2] + sorted[n \div 2 + 1]) \div 2
    BY <1>4, <1>6 DEF SpreadHealth
  <1>8. CASE n = 0
    BY <1>7, <1>8
  <1>9. CASE n # 0 /\ n % 2 = 1
    <2>1. n \div 2 + 1 \in 1..n
      BY <1>9
    <2>2. QED
      BY <1>5, <1>6, <1>7, <1>9, <2>1
  <1>10. CASE n # 0 /\ n % 2 # 1
    <2>1. n \div 2 + 1 \in 1..n /\ n \div 2 \in 1..n
      BY <1>10
    <2>2. sorted[n \div 2] \in Int /\ sorted[n \div 2 + 1] \in Int
      BY <1>5, <1>6, <2>1
    <2>3. (sorted[n \div 2] + sorted[n \div 2 + 1]) \div 2 \in Int
      BY <2>2, Quotient
    <2>4. QED
      BY <1>7, <1>10, <2>3
  <1>11. QED
    BY <1>8, <1>9, <1>10

LEMMA StatsAreNumbers ==
  ASSUME NEW tracker \in {NoTracker} \cup [pnls : Seq(Int), peak : Int, cash : Int]
  PROVE  TradeStats(tracker).winRate \in Int
  <1>1. CASE tracker = NoTracker \/ tracker.pnls = <<>>
    BY <1>1 DEF TradeStats
  <1>2. CASE ~(tracker = NoTracker \/ tracker.pnls = <<>>)
    <2>1. PICK pnls \in Seq(Int) : pnls = tracker.pnls /\ pnls # <<>>
      BY <1>2
    <2>2. PICK n \in Nat : n = Len(pnls) /\ n >= 1
      BY <2>1
    <2>3. PICK m : m = Max({1, n - 19})
      OBVIOUS
    <2>4. m \in 1..n
      BY <2>2, <2>3, MaxOfTwo
    <2>5. DOMAIN Latest(pnls) = 1..(n - m + 1) /\ n - m + 1 \in Nat
      BY <2>1, <2>2, <2>3, <2>4 DEF Latest
    <2>6. WinRate(Latest(pnls)) \in Int
      <3>1. PICK whole : whole = DOMAIN Latest(pnls)
        OBVIOUS
      <3>2. IsFiniteSet(whole)
        BY <2>5, <3>1, FS_Interval
      <3>3. PICK won \in SUBSET whole : won = {k \in whole : Latest(pnls)[k] > 0}
        OBVIOUS
      <3>4. Fraction(won, whole) \in Int
        BY <3>2, FractionIsNumber
      <3>5. QED
        BY <3>1, <3>3, <3>4 DEF WinRate
    <2>7. QED
      BY <1>2, <2>1, <2>6 DEF TradeStats
  <1>3. QED
    BY <1>1, <1>2

\* The weighted sum of what a scan measures is a number.
LEMMA WeightedIsNumber ==
  ASSUME NEW table, Rows(table), DOMAIN table \subseteq Symbols,
         NEW prices, NEW btc, NEW volumes, Measurable(prices, btc, volumes),
         NEW tracker \in {NoTracker} \cup [pnls : Seq(Int), peak : Int, cash : Int]
  PROVE  Weighted(table, prices, btc, volumes, tracker) \in Int
  <1>1. /\ Breadth24h(table) \in Int /\ Skew(table) \in Int
        /\ Btc24h(table) \in Int /\ TopStrength(table) \in Int
    BY QuotesAreNumbers
  <1>2. BreadthShort(table, prices) \in Int /\ AvgMomentum(table, prices) \in Int
    BY MovesAreNumbers DEF Measurable
  <1>3. BtcShort(btc) \in Int /\ BtcAboveMean(btc) \in Int
    BY BtcIsNumber DEF Measurable
  <1>4. VolumeTrend(table, volumes) \in Int /\ SpreadHealth(table) \in Int
    BY TrendIsNumber, SpreadIsNumber DEF Measurable
  <1>5. PICK w \in Int : w = TradeStats(tracker).winRate
    BY StatsAreNumbers
  <1>6. PICK a \in Int : a = Scale(Breadth24h(table), 200, 650)
    BY <1>1, ScaleIsNumber
  <1>7. PICK b \in Int : b = Scale(BreadthShort(table, prices), 250, 700)
    BY <1>2, ScaleIsNumber
  <1>8. PICK c \in Int : c = Scale(Btc24h(table), -300, 300)
    BY <1>1, ScaleIsNumber
  <1>9. PICK d \in Int : d = Scale(BtcShort(btc), -150, 150)
    BY <1>3, ScaleIsNumber
  <1>10. PICK e \in Int : e = Scale(BtcAboveMean(btc), -150, 150)
    BY <1>3, ScaleIsNumber
  <1>11. PICK f \in Int : f = Scale(AvgMomentum(table, prices), -50, 150)
    BY <1>2, ScaleIsNumber
  <1>12. PICK g \in Int : g = Scale(VolumeTrend(table, volumes), -3000, 3000)
    BY <1>4, ScaleIsNumber
  <1>13. PICK h \in Int : h = Scale(SpreadHealth(table), 10, 200)
    BY <1>4, ScaleIsNumber
  <1>14. PICK i \in Int : i = Scale(Skew(table), 20, 200)
    BY <1>1, ScaleIsNumber
  <1>15. PICK j \in Int : j = Scale(TopStrength(table), 50, 600)
    BY <1>1, ScaleIsNumber
  <1>16. PICK k : k = IF TradeStats(tracker).count >= Detector.minTradeSamples
                      THEN Scale(w, 300, 700) ELSE 500
    OBVIOUS
  <1>17. k \in Int
    <2>1. Scale(w, 300, 700) \in Int
      BY ScaleIsNumber
    <2>2. k \in {Scale(w, 300, 700), 500}
      BY <1>16
    <2>3. QED
      BY <2>1, <2>2
  <1>18. Weighted(table, prices, btc, volumes, tracker) =
           a * 18 + b * 12 + c * 14 + d * 8 + e * 6 + f * 10 + g * 6 + (1000 - h) * 6
             + i * 8 + j * 6 + k * 6
    BY <1>5, <1>6, <1>7, <1>8, <1>9, <1>10, <1>11, <1>12, <1>13, <1>14, <1>15, <1>16
       DEF Weighted
  <1>19. QED
    BY <1>17, <1>18

\* The overrides and the lift choose between numbers, and the clamp bounds
\* what they choose.
LEMMA ScoreIsNumber ==
  ASSUME NEW weighted \in Int, NEW sig
  PROVE  Score(weighted, sig) \in Points
  <1>1. ASSUME NEW x \in Int, NEW y \in Int PROVE Min({x, y}) \in Int /\ Max({x, y}) \in Int
    BY MinOfTwo, MaxOfTwo
  <1>2. Override(weighted, sig) \in Int
    <2>1. PICK dump : dump = IF sig.btc24h <= -400 \/ sig.btcShort <= -250
                             THEN Min({weighted, 25000}) ELSE weighted
      OBVIOUS
    <2>2. PICK wide : wide = IF sig.spread >= 300 THEN Min({dump, 30000}) ELSE dump
      OBVIOUS
    <2>3. PICK shaken : shaken = IF sig.volatility >= 350 THEN Min({wide, 35000}) ELSE wide
      OBVIOUS
    <2>4. dump \in Int
      BY <1>1, <2>1
    <2>5. wide \in Int
      BY <1>1, <2>2, <2>4
    <2>6. shaken \in Int
      BY <1>1, <2>3, <2>5
    <2>7. Max({shaken, 80000}) \in Int
      BY <1>1, <2>6
    <2>8. Override(weighted, sig) \in {shaken, Max({shaken, 80000})}
      BY <2>1, <2>2, <2>3 DEF Override
    <2>9. QED
      BY <2>6, <2>7, <2>8
  <1>3. ASSUME NEW score \in Int PROVE Lift(score, sig) \in Int
    <2>1. Detector.aggressive \in Int /\ Detector.conservative \in Int
      BY DetectorAssumption
    <2>2. PICK three : three = IF sig.strong >= 3 /\ score < Detector.conservative
                               THEN Min({score + 10000, Detector.conservative + 4000})
                               ELSE score
      OBVIOUS
    <2>3. score + 10000 \in Int /\ Detector.conservative + 4000 \in Int
      BY <2>1
    <2>4. three \in Int
      BY <1>1, <2>2, <2>3
    <2>5. three + 5000 \in Int /\ Detector.aggressive - 2000 \in Int
      BY <2>1, <2>4
    <2>6. Min({three + 5000, Detector.aggressive - 2000}) \in Int
      BY <1>1, <2>5
    <2>7. Lift(score, sig) \in {three, Min({three + 5000, Detector.aggressive - 2000})}
      BY <2>2 DEF Lift
    <2>8. QED
      BY <2>4, <2>6, <2>7
  <1>4. PICK raised \in Int : raised = Lift(Override(weighted, sig), sig)
    BY <1>2, <1>3
  <1>5. Clamp(raised, 0, 100000) \in Points
    <2>1. PICK lo, hi \in Int : lo = 0 /\ hi = 100000
      BY SMT
    <2>2. PICK points : points = Clamp(raised, lo, hi)
      OBVIOUS
    <2>3. points \in Int /\ (lo <= hi => lo <= points /\ points <= hi)
      BY <2>2, ClampIsNumber
    <2>4. points \in Points
      BY <2>1, <2>3, SMT DEF Points
    <2>5. QED
      BY <2>1, <2>2, <2>4, SMT
  <1>6. QED
    BY <1>4, <1>5 DEF Score

ScoreInv ==
  /\ \E S : log \in Seq(S)
  /\ ScoresInRange
  /\ Measurable(priceHistory, btcHistory, volumeHistory)

LEMMA ScoresBegin == RegimeInit => ScoreInv
  <1> SUFFICES ASSUME RegimeInit PROVE ScoreInv
    OBVIOUS
  <1>1. log \in Seq({}) /\ DOMAIN log = {}
    BY DEF RegimeInit
  <1>2. PICK n \in WarmUps :
          /\ priceHistory = [s \in Symbols |-> IF s \in DOMAIN Quiet THEN Times(n, Quiet[s].price)
                                               ELSE <<>>]
          /\ btcHistory = Times(n, Quiet[BTC].price)
          /\ volumeHistory = Times(n, TotalVolume(Quiet))
    BY DEF RegimeInit
  <1>3. n \in Nat /\ Rows(Quiet) /\ BTC \in DOMAIN Quiet
    BY DetectorAssumption
  <1>4. ASSUME NEW s \in DOMAIN Quiet PROVE Quiet[s].price \in Positive
    <2>1. Quiet[s] \in MarketRow
      BY <1>3 DEF Rows
    <2>2. Quiet[s].price > 0
      BY DetectorAssumption
    <2>3. QED
      BY <2>1, <2>2 DEF MarketRow, Positive
  <1>5. ASSUME NEW T, NEW x \in T PROVE Times(n, x) \in Seq(T)
    BY <1>3 DEF Times
  <1>6. priceHistory \in [Symbols -> Seq(Positive)]
    <2>1. ASSUME NEW s \in Symbols
          PROVE  (IF s \in DOMAIN Quiet THEN Times(n, Quiet[s].price) ELSE <<>>) \in Seq(Positive)
      BY <1>4, <1>5
    <2>2. QED
      BY <1>2, <2>1
  <1>7. btcHistory \in Seq(Positive)
    BY <1>2, <1>3, <1>4, <1>5
  <1>8. volumeHistory \in Seq(Int)
    BY <1>2, <1>3, <1>5, VolumeIsNumber
  <1>9. QED
    BY <1>1, <1>6, <1>7, <1>8 DEF ScoreInv, ScoresInRange, Measurable

LEMMA ScoresStep == ScoreInv /\ [RegimeNext]_regimeVars => ScoreInv'
  <1> SUFFICES ASSUME ScoreInv, [RegimeNext]_regimeVars PROVE ScoreInv'
    OBVIOUS
  <1>1. CASE UNCHANGED regimeVars
    BY <1>1 DEF regimeVars, ScoreInv, ScoresInRange, Measurable
  <1>2. ASSUME NEW scan \in Scans, Scan(scan) PROVE ScoreInv'
    <2>1. /\ Rows(scan.rows)
          /\ scan.tracker \in {NoTracker} \cup [pnls : Seq(Int), peak : Int, cash : Int]
      BY DetectorAssumption
    <2>2. DOMAIN scan.rows \subseteq Symbols
      BY DEF Symbols
    <2>3. PICK prices, btc, volumes : /\ prices = RecordPrices(scan.rows)
                                      /\ btc = RecordBtc(prices, scan.rows)
                                      /\ volumes = RecordVolume(scan.rows)
      OBVIOUS
    <2>4. PICK sig : sig = Signals(scan.rows, prices, btc, scan.tracker)
      OBVIOUS
    <2>5. PICK score :
            score = Score(Weighted(scan.rows, prices, btc, volumes, scan.tracker), sig)
      OBVIOUS
    <2>6. Measurable(prices, btc, volumes)
      BY <2>1, <2>3, RecordKeeps DEF ScoreInv
    <2>7. score \in Points
      BY <2>1, <2>2, <2>5, <2>6, WeightedIsNumber, ScoreIsNumber
    <2>8. /\ priceHistory' = prices /\ btcHistory' = btc /\ volumeHistory' = volumes
          /\ \E e : log' = Append(log, e) /\ e.score = score
      BY <1>2, <2>3, <2>4, <2>5 DEF Scan
    <2>9. PICK e : log' = Append(log, e) /\ e.score = score
      BY <2>8
    <2>10. PICK S : log \in Seq(S)
      BY DEF ScoreInv
    <2>11. /\ log' \in Seq(S \cup {e}) /\ Len(log) \in Nat
           /\ DOMAIN log' = 1..(Len(log) + 1) /\ DOMAIN log = 1..Len(log)
           /\ log'[Len(log) + 1] = e
           /\ \A k \in 1..Len(log) : log'[k] = log[k]
      BY <2>9, <2>10, Longer
    <2>12. \A k \in DOMAIN log' : log'[k].score \in Points
      BY <2>7, <2>9, <2>11 DEF ScoreInv, ScoresInRange
    <2>13. QED
      BY <2>6, <2>8, <2>11, <2>12 DEF ScoreInv, ScoresInRange, Measurable
  <1>3. QED
    BY <1>1, <1>2 DEF RegimeNext

\* The score of every scan is a number between 0 and 100, whatever the market,
\* the tracker and the length of the histories: the prices score() divides
\* by are positive because only such are recorded, the counts and the means
\* are tested, and what the overrides and the lift leave is clamped.
THEOREM Scored == RegimeSpec => []ScoresInRange
  <1>1. ScoreInv => ScoresInRange
    BY DEF ScoreInv
  <1>2. QED
    BY <1>1, ScoresBegin, ScoresStep, PTL DEF RegimeSpec

\* The hysteresis of decide() keeps two changes of the regime that undo each
\* other apart in score by twice its width, for every width, every threshold
\* and every market.
THEOREM Toggles == RegimeSpec => []NoToggle
  BY ToggleInvariance, Scored, TogglesAreApart, PTL

\* What decide() does with the votes and with the hysteresis, together.
THEOREM Confirmations == RegimeSpec => []ConfirmationDecides
  <1>1. FlipIsConfirmed /\ AgreementFlips /\ NoToggle => ConfirmationDecides
    BY DEF ConfirmationDecides
  <1>2. QED
    BY <1>1, VotesDecide, Toggles, PTL
==============================================================================
