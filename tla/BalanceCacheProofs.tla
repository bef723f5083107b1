------------------------- MODULE BalanceCacheProofs -------------------------
(***************************************************************************)
(* The safety properties of BalanceCache, for any threads, amounts and     *)
(* number of orders.                                                       *)
(***************************************************************************)
EXTENDS BalanceCache, TLAPS

-----------------------------------------------------------------------------
(* The inductive invariant.                                                *)

\* An answer of the exchange, wherever it has got to: nothing is made up in it.
Honest(entry) == entry.free # 0 /\ entry.free <= entry.total /\ entry.total \in totalsSeen

\* The wallet never empties, its total is a recorded one, and no response is known of an order
\* that was not sent.
WalletOk ==
  /\ wallet.free + wallet.blocked <= InitialFree
  /\ wallet.free + wallet.ver >= InitialFree
  /\ wallet.free + wallet.blocked \in totalsSeen
  /\ known <= wallet.ver
  /\ \A t \in Threads : since[t] <= wallet.ver

Reading(t) == pc[t] \in {"request", "answered", "readTotals", "fallback"}

\* What a thread that reads carries.
ReadersOk ==
  \A t \in Threads :
    /\ Reading(t) => op[t] \in ReadOps \cup {"fallback"}
    /\ pc[t] = "fallback" => op[t] = "fallback"
    /\ pc[t] = "answered" => IF snap[t] = Empty THEN "empty" \in mishaps
                             ELSE snap[t] \in Entries /\ Honest(snap[t])

\* Without an overlap nothing became known since a read began; so its answer is new enough.
ReadersCurrent ==
  Spared({"overlap"}) =>
    \A t \in Threads : Reading(t) =>
      /\ since[t] = known
      /\ pc[t] = "answered" /\ snap[t] # Empty => snap[t].ver >= known

\* A total is looked for only where it is, unless the cache was emptied meanwhile.
TotalsThere ==
  Spared({"empty", "overlap"}) =>
    \A t \in Threads :
      /\ pc[t] = "readTotals" => cache # None
      /\ Reading(t) => op[t] # "fallback"

CacheOk == cache # None => Honest(cache)

IInv ==
  /\ TypeOK /\ WalletOk /\ CacheOk /\ ReadersOk /\ ReadersCurrent /\ TotalsThere
  /\ CacheKnowsOrders /\ FreshReadIsFresh /\ TotalIncludesBlockedAlone /\ ZeroIsNeverInvented

LEMMA Begins == ASSUME Init PROVE IInv
  <1> USE CacheAssumption, AbsenceAssumption
  <1>1. TypeOK
    <2>1. InitialFree \in Amounts /\ 0 \in Amounts /\ 0 \in Versions /\ 1 \in 1..Attempts
      BY DEF Amounts, Versions, Attempts
    <2>2. wallet \in [free : Amounts, blocked : Amounts, ver : Versions]
      BY <2>1 DEF Init
    <2>3. QED
      BY <2>1, <2>2 DEF Init, TypeOK
  <1>2. WalletOk /\ CacheOk
    BY DEF Init, WalletOk, CacheOk
  <1>3. ReadersOk /\ ReadersCurrent
    BY DEF Init, ReadersOk, ReadersCurrent, Reading
  <1>7. TotalsThere
    BY DEF Init, TotalsThere, Reading
  <1>4. CacheKnowsOrders
    BY DEF Init, CacheKnowsOrders
  <1>5. FreshReadIsFresh /\ TotalIncludesBlockedAlone /\ ZeroIsNeverInvented
    BY DEF Init, FreshReadIsFresh, TotalIncludesBlockedAlone, TotalsSeen, ZeroIsNeverInvented, NoResult
  <1>6. QED
    BY <1>1, <1>2, <1>3, <1>4, <1>5, <1>7 DEF IInv

-----------------------------------------------------------------------------
(* A read returns.                                                         *)

\* The amount, with the version it is of, that a read of t may be given.
MayReturn(t, val, ver) ==
  /\ Spared({"overlap"}) /\ op[t] \in {"fresh", "totalFresh"} /\ val # None => ver >= known
  /\ Spared({"empty", "overlap"}) /\ op[t] \in Totals /\ val # None => val \in totalsSeen
  /\ Spared({"empty"}) /\ op[t] \in {"balance", "fresh"} => val # 0

\* The cache that is there after it: the old one, or an answer.
CacheMoves ==
  /\ cache' \in Entries \cup {None}
  /\ fresh' \in BOOLEAN
  /\ CacheOk'
  /\ CacheKnowsOrders'
  /\ Spared({"empty", "overlap"}) /\ cache # None => cache' # None

LEMMA CacheStays ==
  ASSUME IInv, UNCHANGED <<cache, fresh, known, totalsSeen, mishaps>>
  PROVE  CacheMoves
  BY DEF IInv, CacheMoves, TypeOK, CacheOk, Honest, CacheKnowsOrders, Spared

LEMMA ReturnKeeps ==
  ASSUME IInv, NEW t \in Threads, Reading(t), NEW val, NEW ver, Return(t, val, ver),
         UNCHANGED <<wallet, known, ghosts>>, CacheMoves, MayReturn(t, val, ver)
  PROVE  IInv'
  <1> DEFINE name == IF op[t] = "fallback" THEN "total" ELSE op[t]
  <1>1. /\ wallet' = wallet /\ known' = known /\ totalsSeen' = totalsSeen /\ mishaps' = mishaps
        /\ pc' = [pc EXCEPT ![t] = "idle"] /\ op' = [op EXCEPT ![t] = None]
        /\ tries' = [tries EXCEPT ![t] = 1] /\ snap' = [snap EXCEPT ![t] = None]
        /\ since' = [since EXCEPT ![t] = 0]
        /\ ret' = [ret EXCEPT ![t] = [op |-> name, val |-> val, ver |-> ver, since |-> since[t]]]
    BY DEF Return, Goto, ghosts
  <1>2. TypeOK /\ since[t] \in Versions
    BY DEF IInv, TypeOK
  <1>3. TypeOK'
    BY <1>1, <1>2, CacheAssumption DEF TypeOK, CacheMoves, Attempts, Versions
  <1>4. /\ pc'[t] = "idle" /\ since'[t] = 0
        /\ \A u \in Threads \ {t} : /\ pc'[u] = pc[u] /\ op'[u] = op[u]
                                    /\ snap'[u] = snap[u] /\ since'[u] = since[u]
    BY <1>1, <1>2 DEF TypeOK
  <1>5. wallet.ver \in Nat
    BY <1>2, CacheAssumption DEF TypeOK, Versions
  <1>6. WalletOk'
    BY <1>1, <1>4, <1>5 DEF IInv, WalletOk
  <1>7. ReadersOk' /\ ReadersCurrent' /\ TotalsThere'
    <2>1. ReadersOk'
      BY <1>1, <1>4 DEF IInv, ReadersOk, Reading, Honest
    <2>2. ReadersCurrent'
      BY <1>1, <1>4 DEF IInv, ReadersCurrent, Reading, Spared
    <2>3. TotalsThere'
      BY <1>1, <1>4 DEF IInv, TotalsThere, Reading, Spared, CacheMoves
    <2>4. QED
      BY <2>1, <2>2, <2>3
  <1>8. /\ ret'[t] = [op |-> name, val |-> val, ver |-> ver, since |-> since[t]]
        /\ \A u \in Threads \ {t} : ret'[u] = ret[u]
    BY <1>1, <1>2 DEF TypeOK
  <1>9. FreshReadIsFresh'
    <2>1. Spared({"overlap"}) => since[t] = known
      BY DEF IInv, ReadersCurrent
    <2>2. Spared({"overlap"}) /\ name \in {"fresh", "totalFresh"} /\ val # None => ver >= since[t]
      BY <2>1 DEF MayReturn
    <2>3. QED
      BY <1>1, <1>8, <2>2 DEF IInv, FreshReadIsFresh, Spared
  <1>10. TotalIncludesBlockedAlone'
    <2>1. Spared({"empty", "overlap"}) => op[t] # "fallback"
      BY DEF IInv, TotalsThere
    <2>2. QED
      BY <1>1, <1>8, <2>1 DEF IInv, TotalIncludesBlockedAlone, TotalsSeen, Spared, MayReturn
  <1>11. ZeroIsNeverInvented'
    BY <1>1, <1>8 DEF IInv, ZeroIsNeverInvented, Spared, MayReturn
  <1>12. QED
    BY <1>3, <1>6, <1>7, <1>9, <1>10, <1>11 DEF IInv, CacheMoves

-----------------------------------------------------------------------------
(* A read goes on.                                                         *)

OthersStay(t) ==
  \A u \in Threads \ {t} : /\ pc'[u] = pc[u] /\ op'[u] = op[u]
                           /\ snap'[u] = snap[u] /\ since'[u] = since[u]

\* Where t has got to, with what it carries.
ArrivedOk(t) ==
  /\ since'[t] = since[t]
  /\ pc'[t] \in {"request", "answered", "readTotals", "fallback"}
  /\ op'[t] \in ReadOps \cup {"fallback"}
  /\ pc'[t] = "fallback" => op'[t] = "fallback"
  /\ pc'[t] = "answered" =>
       IF snap'[t] = Empty THEN "empty" \in mishaps'
       ELSE snap'[t] \in Entries /\ Honest(snap'[t]) /\ snap'[t].ver >= known
  /\ Spared({"empty", "overlap"})' =>
       op'[t] # "fallback" /\ (pc'[t] = "readTotals" => cache' # None)

LEMMA GoesOn ==
  ASSUME IInv, NEW t \in Threads, Reading(t), TypeOK', OthersStay(t), ArrivedOk(t), CacheMoves,
         UNCHANGED <<wallet, known, totalsSeen, ret>>, mishaps \subseteq mishaps'
  PROVE  IInv'
  <1>1. \A set : Spared(set)' => Spared(set)
    BY DEF Spared
  <1>2. WalletOk'
    BY DEF IInv, WalletOk, OthersStay, ArrivedOk
  <1>3. ReadersOk'
    <2>1. \A e : Honest(e)' <=> Honest(e)
      BY DEF Honest
    <2>2. QED
      BY <2>1 DEF IInv, ReadersOk, Reading, Honest, OthersStay, ArrivedOk
  <1>4. ReadersCurrent'
    BY <1>1 DEF IInv, ReadersCurrent, Reading, OthersStay, ArrivedOk
  <1>5. TotalsThere'
    BY <1>1 DEF IInv, TotalsThere, Reading, OthersStay, ArrivedOk, CacheMoves
  <1>6. FreshReadIsFresh' /\ TotalIncludesBlockedAlone' /\ ZeroIsNeverInvented'
    BY <1>1 DEF IInv, FreshReadIsFresh, TotalIncludesBlockedAlone, TotalsSeen, ZeroIsNeverInvented
  <1>7. QED
    BY <1>2, <1>3, <1>4, <1>5, <1>6 DEF IInv, CacheMoves

LEMMA AnswersKeep ==
  ASSUME IInv, NEW t \in Threads, ExchangeAnswers(t)
  PROVE  IInv'
  <1>1. TypeOK /\ pc[t] = "request" /\ Reading(t)
    BY DEF IInv, ExchangeAnswers, Reading
  <1>2. /\ wallet.free \in Nat /\ wallet.blocked \in Nat /\ wallet.ver \in Nat
        /\ wallet.free <= InitialFree /\ wallet.ver \in Versions /\ InitialFree \in Nat
        /\ MaxOrders \in Nat /\ InitialFree > MaxOrders /\ wallet.ver <= MaxOrders
    BY <1>1, CacheAssumption DEF TypeOK, Amounts, Versions
  <1>3. Snapshot \in Entries /\ Honest(Snapshot) /\ Snapshot.ver >= known
    <2>1. Snapshot.free = wallet.free /\ Snapshot.total = wallet.free + wallet.blocked
          /\ Snapshot.ver = wallet.ver
      BY DEF Snapshot
    <2>2. Snapshot \in Entries
      BY <1>2 DEF IInv, WalletOk, Snapshot, Entries, Amounts
    <2>3. Honest(Snapshot)
      BY <1>2, <2>1 DEF IInv, WalletOk, Honest
    <2>4. QED
      BY <1>2, <2>1, <2>2, <2>3 DEF IInv, WalletOk, TypeOK, Versions
  <1>4. /\ pc' = [pc EXCEPT ![t] = "answered"]
        /\ \/ snap' = [snap EXCEPT ![t] = Snapshot] /\ mishaps' = mishaps
           \/ snap' = [snap EXCEPT ![t] = Empty] /\ mishaps' = mishaps \cup {"empty"}
        /\ UNCHANGED <<wallet, cache, fresh, known, op, tries, since, ret, totalsSeen>>
    BY DEF ExchangeAnswers, Goto
  <1>5. TypeOK'
    <2>1. pc' \in [Threads -> {"idle", "request", "answered", "readTotals", "fallback", "ordered"}]
      BY <1>1, <1>4 DEF TypeOK
    <2>2. snap' \in [Threads -> Entries \cup {Empty, None}]
      BY <1>1, <1>3, <1>4 DEF TypeOK
    <2>3. mishaps' \subseteq {"overlap", "empty"}
      BY <1>1, <1>4 DEF TypeOK
    <2>4. QED
      BY <1>1, <1>4, <2>1, <2>2, <2>3 DEF TypeOK
  <1>6. OthersStay(t)
    BY <1>1, <1>4 DEF OthersStay, TypeOK
  <1>7. ArrivedOk(t)
    <2>1. pc'[t] = "answered" /\ op'[t] = op[t] /\ since'[t] = since[t]
      BY <1>1, <1>4 DEF TypeOK
    <2>2. \/ snap'[t] = Snapshot
          \/ snap'[t] = Empty /\ "empty" \in mishaps'
      BY <1>1, <1>4 DEF TypeOK
    <2>3. Spared({"empty", "overlap"})' => Spared({"empty", "overlap"})
      BY <1>4 DEF Spared
    <2>4. QED
      BY <1>1, <1>3, <2>1, <2>2, <2>3, AbsenceAssumption
         DEF IInv, ReadersOk, TotalsThere, ArrivedOk
  <1>8. CacheMoves
    BY <1>4 DEF IInv, CacheMoves, TypeOK, CacheOk, Honest, CacheKnowsOrders, Spared
  <1>9. QED
    BY <1>1, <1>4, <1>5, <1>6, <1>7, <1>8, GoesOn

\* A step of a read that keeps the cache and only moves t on.
LEMMA MovesOn ==
  ASSUME IInv, NEW t \in Threads, Reading(t), NEW label \in {"request", "readTotals", "fallback"},
         NEW name \in ReadOps \cup {"fallback"}, NEW n \in 1..Attempts,
         label = "fallback" => name = "fallback",
         Spared({"empty", "overlap"}) => name # "fallback" /\ (label = "readTotals" => cache # None),
         pc' = [pc EXCEPT ![t] = label], op' = [op EXCEPT ![t] = name],
         tries' = [tries EXCEPT ![t] = n],
         UNCHANGED <<wallet, cache, fresh, known, snap, since, ret, totalsSeen, mishaps>>
  PROVE  IInv'
  <1>1. TypeOK
    BY DEF IInv
  <1>2. TypeOK'
    BY <1>1 DEF TypeOK
  <1>3. OthersStay(t)
    BY <1>1 DEF TypeOK, OthersStay
  <1>4. pc'[t] = label /\ op'[t] = name
    BY <1>1 DEF TypeOK
  <1>5. ArrivedOk(t)
    BY <1>4 DEF ArrivedOk, Spared
  <1>6. CacheMoves
    BY CacheStays
  <1>7. QED
    BY <1>2, <1>3, <1>5, <1>6, GoesOn

LEMMA StoreKeeps ==
  ASSUME IInv, NEW t \in Threads, StoreAnswer(t)
  PROVE  IInv'
  <1>1. TypeOK /\ pc[t] = "answered" /\ Reading(t) /\ op[t] \in ReadOps \cup {"fallback"}
    BY DEF IInv, StoreAnswer, Reading, ReadersOk
  <1>2. IF snap[t] = Empty THEN "empty" \in mishaps ELSE snap[t] \in Entries /\ Honest(snap[t])
    BY <1>1 DEF IInv, ReadersOk
  <1>3. /\ cache' = IF snap[t] = Empty THEN None ELSE snap[t]
        /\ fresh' = (snap[t] # Empty)
        /\ UNCHANGED <<wallet, known, totalsSeen, mishaps>>
    BY DEF StoreAnswer, ghosts
  <1>4. Spared({"overlap"}) /\ snap[t] # Empty => snap[t].ver >= known /\ since[t] = known
    BY <1>1 DEF IInv, ReadersCurrent
  <1>5. Spared({"empty", "overlap"}) => snap[t] # Empty
    BY <1>2 DEF Spared
  <1>6. CacheMoves
    <2>1. cache' \in Entries \cup {None} /\ fresh' \in BOOLEAN
      BY <1>2, <1>3
    <2>2. cache' # None => Honest(snap[t]) /\ cache' = snap[t]
      BY <1>2, <1>3
    <2>3. CacheOk'
      BY <1>3, <2>2 DEF CacheOk, Honest
    <2>4. CacheKnowsOrders'
      BY <1>3, <1>4 DEF CacheKnowsOrders, Spared
    <2>5. Spared({"empty", "overlap"}) => cache' # None
      BY <1>2, <1>3, <1>5, AbsenceAssumption
    <2>6. QED
      BY <2>1, <2>3, <2>4, <2>5 DEF CacheMoves
  <1>7. CASE op[t] \in Totals
    <2>1. /\ pc' = [pc EXCEPT ![t] = "readTotals"] /\ snap' = [snap EXCEPT ![t] = None]
          /\ tries' = [tries EXCEPT ![t] = 1] /\ UNCHANGED <<op, since, ret>>
      BY <1>7 DEF StoreAnswer, Goto
    <2>2. TypeOK'
      <3>1. 1 \in 1..Attempts
        BY DEF Attempts
      <3>2. QED
        BY <1>1, <1>3, <1>6, <2>1, <3>1 DEF TypeOK, CacheMoves
    <2>3. OthersStay(t)
      BY <1>1, <2>1 DEF TypeOK, OthersStay
    <2>4. pc'[t] = "readTotals" /\ op'[t] = op[t] /\ since'[t] = since[t]
      BY <1>1, <2>1 DEF TypeOK
    <2>5. ArrivedOk(t)
      <3>1. op[t] # "fallback"
        BY <1>7 DEF Totals
      <3>2. Spared({"empty", "overlap"})' => cache' # None
        BY <1>2, <1>3, <1>5, AbsenceAssumption DEF Spared
      <3>3. QED
        BY <1>1, <2>4, <3>1, <3>2 DEF ArrivedOk
    <2>6. QED
      BY <1>1, <1>3, <1>6, <2>1, <2>2, <2>3, <2>5, GoesOn
  <1>8. CASE op[t] \notin Totals
    <2>1. CASE snap[t] = Empty
      <3>1. Return(t, 0, wallet.ver)
        BY <1>8, <2>1 DEF StoreAnswer
      <3>2. wallet.ver >= known
        BY <1>1, CacheAssumption DEF IInv, WalletOk, TypeOK, Versions
      <3>3. MayReturn(t, 0, wallet.ver)
        BY <1>2, <1>8, <2>1, <3>2 DEF MayReturn, Spared
      <3>4. QED
        BY <1>1, <1>3, <1>6, <3>1, <3>3, ReturnKeeps DEF ghosts
    <2>2. CASE snap[t] # Empty
      <3>1. Return(t, snap[t].free, snap[t].ver)
        BY <1>8, <2>2 DEF StoreAnswer
      <3>2. MayReturn(t, snap[t].free, snap[t].ver)
        BY <1>2, <1>4, <1>8, <2>2 DEF MayReturn, Honest
      <3>3. QED
        BY <1>1, <1>3, <1>6, <3>1, <3>2, ReturnKeeps DEF ghosts
    <2>3. QED
      BY <2>1, <2>2
  <1>9. QED
    BY <1>7, <1>8

\* What the cache holds may be returned by any read that has got so far.
LEMMA CacheMayReturn ==
  ASSUME IInv, NEW t \in Threads, cache # None
  PROVE  /\ op[t] \notin Totals => MayReturn(t, cache.free, cache.ver)
         /\ MayReturn(t, cache.total, cache.ver)
  <1>1. Honest(cache) /\ (Spared({"overlap"}) => cache.ver >= known)
    BY DEF IInv, CacheOk, CacheKnowsOrders
  <1>2. cache.free \in Nat /\ cache.total \in Nat
    BY CacheAssumption DEF IInv, TypeOK, Entries, Amounts
  <1>3. cache.total # 0
    BY <1>1, <1>2 DEF Honest
  <1>4. QED
    BY <1>1, <1>3 DEF MayReturn, Honest, Totals

LEMMA StaleKeeps ==
  ASSUME IInv, NEW t \in Threads, pc[t] = "request", StaleOrError(t),
         UNCHANGED <<wallet, cache, fresh, known, ghosts>>
  PROVE  IInv'
  <1>1. TypeOK /\ Reading(t) /\ op[t] \in ReadOps \cup {"fallback"}
    BY DEF IInv, Reading, ReadersOk
  <1>2. CacheMoves
    BY CacheStays DEF ghosts
  <1>3. CASE cache = None
    <2>1. Return(t, None, None)
      BY <1>3 DEF StaleOrError
    <2>2. MayReturn(t, None, None)
      BY AbsenceAssumption DEF MayReturn
    <2>3. QED
      BY <1>1, <1>2, <2>1, <2>2, ReturnKeeps DEF ghosts
  <1>4. CASE cache # None /\ op[t] \in Totals
    <2>1. /\ pc' = [pc EXCEPT ![t] = "readTotals"] /\ tries' = [tries EXCEPT ![t] = 1]
          /\ UNCHANGED <<op, snap, since, ret>>
      BY <1>4 DEF StaleOrError, Goto
    <2>2. op' = [op EXCEPT ![t] = op[t]] /\ op[t] # "fallback" /\ 1 \in 1..Attempts
      BY <1>1, <1>4, <2>1 DEF TypeOK, Totals, Attempts
    <2>3. QED
      BY <1>1, <1>4, <2>1, <2>2, MovesOn DEF ghosts
  <1>5. CASE cache # None /\ op[t] \notin Totals
    <2>1. Return(t, cache.free, cache.ver)
      BY <1>5 DEF StaleOrError
    <2>2. MayReturn(t, cache.free, cache.ver)
      BY <1>5, CacheMayReturn
    <2>3. QED
      BY <1>1, <1>2, <2>1, <2>2, ReturnKeeps DEF ghosts
  <1>6. QED
    BY <1>3, <1>4, <1>5

LEMMA RequestEnds ==
  ASSUME IInv, NEW t \in Threads, AttemptFails(t) \/ RequestFails(t) \/ RequestRefused(t)
  PROVE  IInv'
  <1>1. /\ pc[t] = "request" /\ UNCHANGED <<wallet, cache, fresh, known, ghosts>>
        /\ TypeOK /\ Reading(t) /\ op[t] \in ReadOps \cup {"fallback"}
    BY DEF IInv, ReadersOk, Reading, AttemptFails, RequestFails, RequestRefused
  <1>2. CASE StaleOrError(t)
    BY <1>1, <1>2, StaleKeeps
  <1>3. CASE AttemptFails(t) /\ tries[t] < Attempts
    <2>1. tries' = [tries EXCEPT ![t] = tries[t] + 1] /\ UNCHANGED <<pc, op, snap, since, ret>>
      BY <1>3 DEF AttemptFails
    <2>2. tries[t] + 1 \in 1..Attempts
      BY <1>1, <1>3 DEF TypeOK, Attempts
    <2>3. pc' = [pc EXCEPT ![t] = "request"] /\ op' = [op EXCEPT ![t] = op[t]]
      BY <1>1, <2>1 DEF TypeOK
    <2>4. Spared({"empty", "overlap"}) => op[t] # "fallback"
      BY <1>1 DEF IInv, TotalsThere
    <2>5. QED
      BY <1>1, <2>1, <2>2, <2>3, <2>4, MovesOn DEF ghosts
  <1>4. CASE RequestRefused(t)
    <2>1. MayReturn(t, None, None)
      BY AbsenceAssumption DEF MayReturn
    <2>2. CacheMoves
      BY <1>1, CacheStays DEF ghosts
    <2>3. QED
      BY <1>1, <1>4, <2>1, <2>2, ReturnKeeps DEF RequestRefused, ghosts
  <1>5. QED
    BY <1>2, <1>3, <1>4 DEF AttemptFails, RequestFails

LEMMA TotalsKeep ==
  ASSUME IInv, NEW t \in Threads, ReadTotals(t)
  PROVE  IInv'
  <1>1. /\ pc[t] = "readTotals" /\ UNCHANGED <<wallet, cache, fresh, known, ghosts>>
        /\ TypeOK /\ Reading(t)
    BY DEF IInv, Reading, ReadTotals
  <1>2. CacheMoves
    BY <1>1, CacheStays DEF ghosts
  <1>3. Spared({"empty", "overlap"}) => cache # None
    BY <1>1 DEF IInv, TotalsThere
  <1>4. CASE cache # None
    BY <1>1, <1>2, <1>4, CacheMayReturn, ReturnKeeps DEF ReadTotals, ghosts
  <1>5. CASE cache = None /\ op[t] = "totalFresh"
    <2>1. wallet.ver >= known
      BY <1>1, CacheAssumption DEF IInv, WalletOk, TypeOK, Versions
    <2>2. MayReturn(t, 0, wallet.ver)
      BY <1>3, <1>5, <2>1 DEF MayReturn
    <2>3. QED
      BY <1>1, <1>2, <1>5, <2>2, ReturnKeeps DEF ReadTotals, ghosts
  <1>6. CASE cache = None /\ op[t] # "totalFresh"
    <2>1. /\ pc' = [pc EXCEPT ![t] = "fallback"] /\ op' = [op EXCEPT ![t] = "fallback"]
          /\ UNCHANGED <<tries, snap, since, ret>>
      BY <1>6 DEF ReadTotals, Goto
    <2>2. tries' = [tries EXCEPT ![t] = tries[t]] /\ tries[t] \in 1..Attempts
      BY <1>1, <2>1 DEF TypeOK
    <2>3. QED
      BY <1>1, <1>3, <1>6, <2>1, <2>2, MovesOn DEF ghosts
  <1>7. QED
    BY <1>4, <1>5, <1>6

LEMMA FallBackKeeps ==
  ASSUME IInv, NEW t \in Threads, FallBack(t)
  PROVE  IInv'
  <1>1. /\ pc[t] = "fallback" /\ UNCHANGED <<wallet, cache, fresh, known, ghosts>>
        /\ TypeOK /\ Reading(t) /\ op[t] = "fallback"
    BY DEF IInv, Reading, ReadersOk, FallBack
  <1>2. CASE CacheHit
    <2>1. CacheMoves
      BY <1>1, CacheStays DEF ghosts
    <2>2. MayReturn(t, cache.free, cache.ver)
      BY <1>1, <1>2, CacheMayReturn DEF CacheHit, Totals
    <2>3. QED
      BY <1>1, <1>2, <2>1, <2>2, ReturnKeeps DEF FallBack, ghosts
  <1>3. CASE ~CacheHit
    <2>1. pc' = [pc EXCEPT ![t] = "request"] /\ UNCHANGED <<op, tries, snap, since, ret>>
      BY <1>3 DEF FallBack, Goto
    <2>2. /\ op' = [op EXCEPT ![t] = op[t]]
          /\ tries' = [tries EXCEPT ![t] = tries[t]] /\ tries[t] \in 1..Attempts
      BY <1>1, <2>1 DEF TypeOK
    <2>3. Spared({"empty", "overlap"}) => op[t] # "fallback"
      BY <1>1 DEF IInv, TotalsThere
    <2>4. QED
      BY <1>1, <2>1, <2>2, <2>3, MovesOn DEF ghosts
  <1>4. QED
    BY <1>2, <1>3

-----------------------------------------------------------------------------
(* A thread that is not reading does something.                            *)

\* It leaves the cache alone, or empties it when no other thread reads, or there is an overlap.
CacheTurn(t) ==
  /\ mishaps \subseteq mishaps' /\ mishaps' \subseteq {"overlap", "empty"}
  /\ fresh' \in BOOLEAN
  /\ \/ cache' = cache /\ known' = known
     \/ /\ cache' = None
        /\ Spared({"overlap"})' => \A u \in Threads \ {t} : ~Reading(u)

LEMMA Turns ==
  ASSUME IInv, NEW t \in Threads,
         \/ UNCHANGED <<cache, known, mishaps>> /\ fresh' \in BOOLEAN
         \/ Invalidate /\ Overlap(t)
  PROVE  CacheTurn(t)
  <1>1. TypeOK
    BY DEF IInv
  <1>2. CASE UNCHANGED <<cache, known, mishaps>> /\ fresh' \in BOOLEAN
    BY <1>1, <1>2 DEF CacheTurn, TypeOK
  <1>3. CASE Invalidate /\ Overlap(t)
    <2>1. \A u \in Threads \ {t} : Reading(u) => pc[u] \notin {"idle", "ordered"}
      BY DEF Reading
    <2>2. CASE \E u \in Threads \ {t} : pc[u] \notin {"idle", "ordered"}
      <3>1. mishaps' = mishaps \cup {"overlap"}
        BY <1>3, <2>2 DEF Overlap
      <3>2. QED
        BY <1>1, <1>3, <3>1 DEF CacheTurn, TypeOK, Invalidate, Spared
    <2>3. CASE ~\E u \in Threads \ {t} : pc[u] \notin {"idle", "ordered"}
      <3>1. mishaps' = mishaps
        BY <1>3, <2>3 DEF Overlap
      <3>2. QED
        BY <1>1, <1>3, <2>1, <2>3, <3>1 DEF CacheTurn, TypeOK, Invalidate
    <2>4. QED
      BY <2>2, <2>3
  <1>4. QED
    BY <1>2, <1>3

\* What the result of a thread that does not finish a read may be.
Harmless(r) ==
  /\ r.op \in {"fresh", "totalFresh"} \cup Totals => r.val = None
  /\ r.op = "balance" => r.val # 0

LEMMA TurnKeeps ==
  ASSUME IInv, NEW t \in Threads, ~Reading(t), CacheTurn(t),
         NEW label \in {"idle", "request", "readTotals", "ordered"},
         NEW name \in ReadOps \cup {"fallback", None}, NEW n \in Versions, NEW r, Harmless(r),
         pc' = [pc EXCEPT ![t] = label], op' = [op EXCEPT ![t] = name],
         since' = [since EXCEPT ![t] = n], ret' = [ret EXCEPT ![t] = r],
         label \in {"request", "readTotals"} =>
           name \in ReadOps /\ n = known' /\ (label = "readTotals" => cache' # None),
         wallet' \in [free : Amounts, blocked : Amounts, ver : Versions], WalletOk',
         known' \in Versions, totalsSeen \subseteq totalsSeen', totalsSeen' \subseteq Amounts,
         UNCHANGED <<tries, snap>>
  PROVE  IInv'
  <1>1. TypeOK
    BY DEF IInv
  <1>2. TypeOK'
    <2>1. pc' \in [Threads -> {"idle", "request", "answered", "readTotals", "fallback", "ordered"}]
      BY <1>1 DEF TypeOK
    <2>2. op' \in [Threads -> ReadOps \cup {"fallback", None}]
      BY <1>1 DEF TypeOK
    <2>3. since' \in [Threads -> Versions]
      BY <1>1 DEF TypeOK
    <2>4. DOMAIN ret' = Threads
      BY <1>1 DEF TypeOK
    <2>5. cache' \in Entries \cup {None}
      BY <1>1 DEF TypeOK, CacheTurn
    <2>6. QED
      BY <1>1, <2>1, <2>2, <2>3, <2>4, <2>5 DEF TypeOK, CacheTurn
  <1>3. /\ pc'[t] = label /\ op'[t] = name /\ since'[t] = n /\ ret'[t] = r
        /\ \A u \in Threads \ {t} : /\ pc'[u] = pc[u] /\ op'[u] = op[u] /\ since'[u] = since[u]
                                    /\ ret'[u] = ret[u]
    BY <1>1 DEF TypeOK
  <1>4. \A set : Spared(set)' => Spared(set)
    BY DEF Spared, CacheTurn
  <1>5. Spared({"empty", "overlap"})' => Spared({"overlap"})'
    BY DEF Spared
  <1>6. CacheOk'
    BY DEF IInv, CacheOk, Honest, CacheTurn
  <1>7. ReadersOk'
    <2>1. \A u \in Threads \ {t} : /\ Reading(u)' => op'[u] \in ReadOps \cup {"fallback"}
                                   /\ pc'[u] = "fallback" => op'[u] = "fallback"
      BY <1>3 DEF IInv, ReadersOk, Reading
    <2>2. \A u \in Threads \ {t} : pc'[u] = "answered" =>
            IF snap'[u] = Empty THEN "empty" \in mishaps'
                                ELSE snap'[u] \in Entries /\ Honest(snap[u])
      BY <1>3 DEF IInv, ReadersOk, CacheTurn
    <2>3. \A u \in Threads : Honest(snap[u]) => Honest(snap[u])'
      BY DEF Honest
    <2>4. QED
      BY <1>3, <2>1, <2>2, <2>3 DEF ReadersOk, Reading
  <1>8. Spared({"overlap"})' => known' = known \/ \A u \in Threads \ {t} : ~Reading(u)
    BY DEF CacheTurn
  <1>9. ReadersCurrent'
    BY <1>3, <1>4, <1>8 DEF IInv, ReadersCurrent, Reading
  <1>10. TotalsThere'
    <2>1. Spared({"overlap"})' => cache' = cache \/ \A u \in Threads \ {t} : ~Reading(u)
      BY DEF CacheTurn
    <2>2. label \in {"request", "readTotals"} => name # "fallback"
      BY DEF ReadOps
    <2>3. QED
      BY <1>3, <1>4, <1>5, <2>1, <2>2 DEF IInv, TotalsThere, Reading
  <1>11. CacheKnowsOrders'
    BY <1>4 DEF IInv, CacheKnowsOrders, CacheTurn
  <1>12. FreshReadIsFresh'
    BY <1>3, <1>4 DEF IInv, FreshReadIsFresh, Harmless
  <1>13. TotalIncludesBlockedAlone'
    BY <1>3, <1>4 DEF IInv, TotalIncludesBlockedAlone, TotalsSeen, Harmless
  <1>14. ZeroIsNeverInvented'
    BY <1>3, <1>4, AbsenceAssumption DEF IInv, ZeroIsNeverInvented, Harmless
  <1>15. QED
    BY <1>2, <1>6, <1>7, <1>9, <1>10, <1>11, <1>12, <1>13, <1>14 DEF IInv

LEMMA IdleReads ==
  ASSUME IInv, NEW t \in Threads, TotalFromCache(t) \/ \E o \in ReadOps : ReadMisses(t, o)
  PROVE  IInv'
  <1>1. TypeOK /\ WalletOk /\ known \in Versions
    BY DEF IInv, TypeOK
  <1>2. PICK o \in ReadOps, label \in {"request", "readTotals"} :
          /\ BeginRead(t, o) /\ pc' = [pc EXCEPT ![t] = label]
          /\ label = "readTotals" => cache # None /\ UNCHANGED cache
          /\ UNCHANGED <<cache, fresh, mishaps>> \/ (Invalidate /\ Overlap(t))
    <2>1. CASE TotalFromCache(t)
      BY <2>1 DEF TotalFromCache, CacheHit, Goto, ReadOps
    <2>2. CASE \E o \in ReadOps : ReadMisses(t, o)
      BY <2>2 DEF ReadMisses, Goto
    <2>3. QED
      BY <2>1, <2>2
  <1>3. /\ pc[t] = "idle" /\ op' = [op EXCEPT ![t] = o] /\ since' = [since EXCEPT ![t] = known]
        /\ ret' = [ret EXCEPT ![t] = NoResult]
        /\ UNCHANGED <<wallet, known, tries, snap, totalsSeen>>
    BY <1>2 DEF BeginRead
  <1>4. CacheTurn(t)
    BY <1>1, <1>2, <1>3, Turns DEF TypeOK
  <1>5. WalletOk'
    BY <1>1, <1>3 DEF WalletOk, TypeOK
  <1>6. Harmless(NoResult) /\ ~Reading(t)
    BY <1>3, AbsenceAssumption DEF Harmless, NoResult, Reading
  <1>7. QED
    BY <1>1, <1>2, <1>3, <1>4, <1>5, <1>6, TurnKeeps DEF TypeOK

LEMMA BalanceServed ==
  ASSUME IInv, NEW t \in Threads, BalanceFromCache(t)
  PROVE  IInv'
  <1>1. TypeOK /\ WalletOk /\ pc[t] = "idle" /\ cache # None /\ Honest(cache)
    BY DEF IInv, CacheOk, BalanceFromCache, CacheHit
  <1>2. /\ UNCHANGED <<wallet, cache, fresh, known, pc, op, tries, snap, since, totalsSeen, mishaps>>
        /\ ret' = [ret EXCEPT ![t] = [op |-> "balance", val |-> cache.free, ver |-> cache.ver,
                                      since |-> known]]
    BY DEF BalanceFromCache, ghosts
  <1>3. Harmless([op |-> "balance", val |-> cache.free, ver |-> cache.ver, since |-> known])
    BY <1>1 DEF Harmless, Honest, Totals
  <1>4. /\ pc' = [pc EXCEPT ![t] = "idle"] /\ op' = [op EXCEPT ![t] = op[t]]
        /\ since' = [since EXCEPT ![t] = since[t]]
    BY <1>1, <1>2 DEF TypeOK
  <1>5. CacheTurn(t) /\ WalletOk' /\ ~Reading(t)
    BY <1>1, <1>2, Turns DEF TypeOK, WalletOk, Reading
  <1>6. /\ wallet' \in [free : Amounts, blocked : Amounts, ver : Versions] /\ known' \in Versions
        /\ totalsSeen \subseteq totalsSeen' /\ totalsSeen' \subseteq Amounts
        /\ op[t] \in ReadOps \cup {"fallback", None} /\ since[t] \in Versions
    BY <1>1, <1>2 DEF TypeOK
  <1>7. PICK r : /\ ret' = [ret EXCEPT ![t] = r] /\ Harmless(r)
    BY <1>2, <1>3
  <1>8. QED
    BY <1>2, <1>4, <1>5, <1>6, <1>7, TurnKeeps

LEMMA OrderSent ==
  ASSUME IInv, NEW t \in Threads, SendOrder(t)
  PROVE  IInv'
  <1>1. TypeOK /\ WalletOk /\ pc[t] = "idle" /\ wallet.ver < MaxOrders
    BY DEF IInv, SendOrder
  <1>2. /\ wallet.free \in Nat /\ wallet.blocked \in Nat /\ wallet.ver \in Nat
        /\ wallet.free + wallet.blocked <= InitialFree /\ wallet.free + wallet.ver >= InitialFree
        /\ InitialFree \in Nat /\ MaxOrders \in Nat /\ InitialFree > MaxOrders
    BY <1>1, CacheAssumption DEF TypeOK, WalletOk, Amounts, Versions
  <1>3. PICK f \in Int, b \in Int :
          /\ \/ f = wallet.free - 1 /\ b \in {wallet.blocked, wallet.blocked + 1}
             \/ f = wallet.free + 1 /\ b = wallet.blocked - 1 /\ wallet.blocked > 0
          /\ wallet' = [free |-> f, blocked |-> b, ver |-> wallet.ver + 1]
          /\ totalsSeen' = totalsSeen \cup {f + b}
    <2>1. PICK w \in WalletChange :
            /\ wallet' = [free |-> w.free, blocked |-> w.blocked, ver |-> wallet.ver + 1]
            /\ totalsSeen' = totalsSeen \cup {w.free + w.blocked}
      BY DEF SendOrder
    <2>2. \/ w.free = wallet.free - 1 /\ w.blocked \in {wallet.blocked, wallet.blocked + 1}
          \/ w.free = wallet.free + 1 /\ w.blocked = wallet.blocked - 1 /\ wallet.blocked > 0
      <3>1. \/ w = [free |-> wallet.free - 1, blocked |-> wallet.blocked]
            \/ w = [free |-> wallet.free - 1, blocked |-> wallet.blocked + 1]
            \/ w = [free |-> wallet.free + 1, blocked |-> wallet.blocked - 1] /\ wallet.blocked > 0
        BY <2>1 DEF WalletChange
      <3>2. QED
        BY <3>1
    <2>3. w.free \in Int /\ w.blocked \in Int
      BY <1>2, <2>2
    <2>4. QED
      BY <2>1, <2>2, <2>3
  <1>4. /\ f \in Amounts /\ b \in Amounts /\ f + b \in Amounts /\ f + b <= InitialFree
        /\ f + wallet.ver + 1 >= InitialFree /\ wallet.ver + 1 \in Versions
    BY <1>1, <1>2, <1>3 DEF Amounts, Versions
  <1>5. /\ UNCHANGED <<cache, fresh, known, op, tries, snap, mishaps>>
        /\ pc' = [pc EXCEPT ![t] = "ordered"]
        /\ since' = [since EXCEPT ![t] = wallet.ver + 1]
        /\ ret' = [ret EXCEPT ![t] = NoResult]
    BY DEF SendOrder, Goto
  <1>6. wallet'.free = f /\ wallet'.blocked = b /\ wallet'.ver = wallet.ver + 1
    BY <1>3
  <1>7. wallet' \in [free : Amounts, blocked : Amounts, ver : Versions]
    BY <1>3, <1>4
  <1>8. WalletOk'
    <2>1. \A u \in Threads : since'[u] <= wallet.ver + 1
      <3>1. since[t] \in Nat /\ \A u \in Threads : since[u] \in Nat /\ since[u] <= wallet.ver
        BY <1>1, CacheAssumption DEF TypeOK, WalletOk, Versions
      <3>2. \A u \in Threads : since'[u] = IF u = t THEN wallet.ver + 1 ELSE since[u]
        BY <1>1, <1>5 DEF TypeOK
      <3>3. QED
        BY <1>2, <3>1, <3>2
    <2>2. known <= wallet.ver + 1
      BY <1>1, <1>2, CacheAssumption DEF WalletOk, TypeOK, Versions
    <2>3. wallet'.free + wallet'.ver >= InitialFree
      BY <1>2, <1>3, <1>4, <1>6
    <2>4. QED
      BY <1>3, <1>4, <1>5, <1>6, <2>1, <2>2, <2>3 DEF WalletOk
  <1>9. totalsSeen \subseteq totalsSeen' /\ totalsSeen' \subseteq Amounts
    BY <1>1, <1>3, <1>4 DEF TypeOK
  <1>10. CacheTurn(t) /\ ~Reading(t) /\ Harmless(NoResult)
    BY <1>1, <1>5, Turns, AbsenceAssumption DEF TypeOK, Reading, Harmless, NoResult
  <1>11. op' = [op EXCEPT ![t] = op[t]] /\ op[t] \in ReadOps \cup {"fallback", None}
    BY <1>1, <1>5 DEF TypeOK
  <1>12. QED
    BY <1>1, <1>4, <1>5, <1>7, <1>8, <1>9, <1>10, <1>11, TurnKeeps DEF TypeOK

LEMMA OrderEnded ==
  ASSUME IInv, NEW t \in Threads, OrderAnswered(t) \/ OrderLost(t)
  PROVE  IInv'
  <1>1. /\ TypeOK /\ WalletOk
        /\ pc[t] = "ordered" /\ pc' = [pc EXCEPT ![t] = "idle"]
        /\ since' = [since EXCEPT ![t] = 0]
        /\ UNCHANGED <<wallet, op, tries, snap, ret, totalsSeen>>
    BY DEF IInv, OrderAnswered, OrderLost, OrderEnds, Goto
  <1>2. since[t] \in Versions /\ since[t] <= wallet.ver /\ 0 \in Versions /\ wallet.ver \in Nat
    BY <1>1, CacheAssumption DEF TypeOK, WalletOk, Versions
  <1>3. /\ \/ UNCHANGED <<cache, known, mishaps>> /\ fresh' \in BOOLEAN
           \/ Invalidate /\ Overlap(t)
        /\ known' \in Versions /\ known' <= wallet.ver
    <2>1. CASE OrderLost(t)
      BY <1>1, <2>1 DEF OrderLost, TypeOK, WalletOk
    <2>2. CASE OrderAnswered(t)
      BY <1>1, <1>2, <2>2 DEF OrderAnswered, TypeOK, WalletOk
    <2>3. QED
      BY <2>1, <2>2
  <1>4. CacheTurn(t) /\ ~Reading(t)
    BY <1>1, <1>3, Turns DEF Reading
  <1>5. WalletOk'
    <2>1. \A u \in Threads : since'[u] = IF u = t THEN 0 ELSE since[u]
      BY <1>1 DEF TypeOK
    <2>2. QED
      BY <1>1, <1>2, <1>3, <2>1 DEF WalletOk
  <1>6. /\ wallet' \in [free : Amounts, blocked : Amounts, ver : Versions]
        /\ totalsSeen \subseteq totalsSeen' /\ totalsSeen' \subseteq Amounts
        /\ op' = [op EXCEPT ![t] = op[t]] /\ op[t] \in ReadOps \cup {"fallback", None}
        /\ \A u \in Threads \ {t} : pc'[u] = pc[u] /\ since'[u] = since[u]
        /\ pc'[t] = "idle" /\ since'[t] = 0
    BY <1>1 DEF TypeOK
  <1>7. \A set : Spared(set)' => Spared(set)
    BY <1>4 DEF Spared, CacheTurn
  <1>8. TypeOK'
    <2>1. cache' \in Entries \cup {None}
      BY <1>1, <1>4 DEF TypeOK, CacheTurn
    <2>2. QED
      BY <1>1, <1>2, <1>3, <1>4, <1>6, <2>1 DEF TypeOK, CacheTurn
  <1>9. CacheOk' /\ CacheKnowsOrders'
    BY <1>1, <1>4, <1>7 DEF IInv, CacheOk, Honest, CacheKnowsOrders, CacheTurn
  <1>10. ReadersOk'
    BY <1>1, <1>4, <1>6 DEF IInv, ReadersOk, Reading, Honest, CacheTurn
  <1>11. ReadersCurrent' /\ TotalsThere'
    <2>1. Spared({"empty", "overlap"})' => Spared({"overlap"})'
      BY DEF Spared
    <2>2. Spared({"overlap"})' => (known' = known /\ cache' = cache) \/ \A u \in Threads \ {t} : ~Reading(u)
      BY <1>4 DEF CacheTurn
    <2>3. ReadersCurrent'
      BY <1>1, <1>6, <1>7, <2>2 DEF IInv, ReadersCurrent, Reading
    <2>4. TotalsThere'
      BY <1>1, <1>6, <1>7, <2>1, <2>2 DEF IInv, TotalsThere, Reading
    <2>5. QED
      BY <2>3, <2>4
  <1>12. FreshReadIsFresh' /\ TotalIncludesBlockedAlone' /\ ZeroIsNeverInvented'
    BY <1>1, <1>7 DEF IInv, FreshReadIsFresh, TotalIncludesBlockedAlone, TotalsSeen,
                      ZeroIsNeverInvented
  <1>13. QED
    BY <1>5, <1>8, <1>9, <1>10, <1>11, <1>12 DEF IInv

-----------------------------------------------------------------------------
(* The theorems.                                                           *)

LEMMA StutterKeeps ==
  ASSUME IInv, UNCHANGED <<wallet, cache, known, threadVars, ghosts>>, fresh' \in BOOLEAN
  PROVE  IInv'
  <1>1. TypeOK'
    BY DEF IInv, TypeOK, threadVars, ghosts
  <1>2. WalletOk' /\ CacheOk'
    BY DEF IInv, WalletOk, CacheOk, Honest, threadVars, ghosts
  <1>3. ReadersOk' /\ ReadersCurrent' /\ TotalsThere'
    BY DEF IInv, ReadersOk, ReadersCurrent, TotalsThere, Reading, Honest, Spared, threadVars, ghosts
  <1>4. CacheKnowsOrders' /\ FreshReadIsFresh' /\ TotalIncludesBlockedAlone' /\ ZeroIsNeverInvented'
    BY DEF IInv, CacheKnowsOrders, FreshReadIsFresh, TotalIncludesBlockedAlone, TotalsSeen,
           ZeroIsNeverInvented, Spared, threadVars, ghosts
  <1>5. QED
    BY <1>1, <1>2, <1>3, <1>4 DEF IInv

LEMMA Keeps == ASSUME IInv, [Next]_vars PROVE IInv'
  <1>1. CASE CacheExpires
    BY <1>1, StutterKeeps DEF CacheExpires
  <1>2. CASE UNCHANGED vars
    BY <1>2, StutterKeeps DEF vars, IInv, TypeOK
  <1>3. ASSUME NEW t \in Threads, Begin(t) PROVE IInv'
    BY <1>3, IdleReads, BalanceServed, OrderSent DEF Begin
  <1>4. ASSUME NEW t \in Threads, Finish(t) PROVE IInv'
    BY <1>4, AnswersKeep, StoreKeeps, RequestEnds, TotalsKeep, FallBackKeeps, OrderEnded DEF Finish
  <1>5. QED
    BY <1>1, <1>2, <1>3, <1>4 DEF Next

\* The cache is sound between any two steps: what it holds came from one answer of the exchange, and
\* it is not older than an order whose response has been processed, unless that order ended during a
\* read (get_balances, invalidate_balance_cache).
THEOREM Sound == Spec => []CacheSound
  <1>1. IInv => CacheSound
    BY DEF IInv, CacheSound, CachesAgree, CacheOk, Honest
  <1>2. QED
    BY <1>1, Begins, Keeps, PTL DEF Spec

\* What a read returns is current: with force as new as the caller's orders, and a total is one the
\* wallet has had (get_balance_fresh, get_balance_total, get_balance_total_fresh).
THEOREM Current == Spec => []ReadsAreCurrent
  <1>1. IInv => ReadsAreCurrent
    BY DEF IInv, ReadsAreCurrent
  <1>2. QED
    BY <1>1, Begins, Keeps, PTL DEF Spec

\* No failure of a request turns a spendable amount into zero (get_balances' stale cache and errors).
THEOREM NoZero == Spec => []ZeroIsNeverInvented
  <1>1. IInv => ZeroIsNeverInvented
    BY DEF IInv
  <1>2. QED
    BY <1>1, Begins, Keeps, PTL DEF Spec
=============================================================================
