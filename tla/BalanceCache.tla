---------------------------- MODULE BalanceCache ----------------------------
(***************************************************************************)
(* The wallet cache of trading/nobitex_client.py, shared by the threads    *)
(* that read balances and place orders.  The client's lock covers single   *)
(* cache accesses; HTTP requests, and the gap between get_balances and the *)
(* second look into the totals cache, are outside it.                      *)
(*                                                                         *)
(* One asset is modelled.  Every change of the wallet at the exchange gets *)
(* a version, so that a property can say how old a value is.  The age of   *)
(* the cache is the flag fresh: younger than the 300 second TTL.  The      *)
(* client also records an authentication and a balance status on these     *)
(* paths; no decision here reads them, and TradingBot models the bot's.    *)
(***************************************************************************)
EXTENDS Integers

CONSTANTS Threads,
          InitialFree,   \* spendable amount at the start
          MaxOrders,     \* bound: orders and cancels that change the wallet
          EmptyAnswers,  \* may the exchange answer 200 without wallets?
          Empty,         \* a 200 answer without wallets: no balances at all
          None           \* no value

ASSUME CacheAssumption ==
  /\ MaxOrders \in Nat
  /\ InitialFree \in Nat /\ InitialFree > MaxOrders  \* the wallet never empties
  /\ EmptyAnswers \in BOOLEAN

Attempts == 2          \* bodies get_balances tries: {"type": "spot"} and {}

\* Public reads; "fallback" is the get_balance inside get_balance_total.
ReadOps == {"balance", "fresh", "total", "totalFresh"}
Totals  == {"total", "totalFresh"}

VARIABLES wallet,      \* at the exchange: spendable, blocked, version
          cache,       \* [free, total, ver] or None when the dicts are empty
          fresh,       \* the cache is younger than its TTL
          known,       \* newest wallet version an order response told us of
          pc, op, tries,
          snap,        \* snap[t]: what the exchange answered t
          since,       \* since[t]: known when t's current read began
          ret,         \* ret[t]: what t's last read returned
          totalsSeen,  \* wallet totals that have existed
          mishaps      \* what has happened that a property may not survive

threadVars == <<pc, op, tries, snap, since, ret>>
ghosts == <<totalsSeen, mishaps>>
vars == <<wallet, cache, fresh, known, threadVars, ghosts>>

Snapshot == [free  |-> wallet.free,
             total |-> wallet.free + wallet.blocked,
             ver   |-> wallet.ver]

NoResult == [op |-> None, val |-> None, ver |-> None, since |-> None]

Amounts  == 0..InitialFree
Versions == 0..MaxOrders
Entries  == [free : Amounts, total : Amounts, ver : Versions]

\* What stands for an absence is not taken for an answer.
ASSUME AbsenceAssumption == None \notin Entries \cup {0} /\ Empty \notin Entries

\* Types: amounts stay natural numbers within the wallet, and the two balance
\* dicts are filled and emptied together (get_balances, invalidate_balance_cache).
TypeOK ==
  /\ wallet \in [free : Amounts, blocked : Amounts, ver : Versions]
  /\ cache \in Entries \cup {None}
  /\ fresh \in BOOLEAN
  /\ known \in Versions
  /\ pc \in [Threads -> {"idle", "request", "answered", "readTotals",
                         "fallback", "ordered"}]
  /\ op \in [Threads -> ReadOps \cup {"fallback", None}]
  /\ tries \in [Threads -> 1..Attempts]
  /\ snap \in [Threads -> Entries \cup {Empty, None}]
  /\ since \in [Threads -> Versions]
  /\ DOMAIN ret = Threads
  /\ totalsSeen \subseteq Amounts
  /\ mishaps \subseteq {"overlap", "empty"}

Init ==
  /\ wallet = [free |-> InitialFree, blocked |-> 0, ver |-> 0]
  /\ cache = None /\ fresh = FALSE /\ known = 0
  /\ pc = [t \in Threads |-> "idle"]
  /\ op = [t \in Threads |-> None]
  /\ tries = [t \in Threads |-> 1]
  /\ snap = [t \in Threads |-> None]
  /\ since = [t \in Threads |-> 0]
  /\ ret = [t \in Threads |-> NoResult]
  /\ totalsSeen = {InitialFree} /\ mishaps = {}

Goto(t, label) == pc' = [pc EXCEPT ![t] = label]

\* Mutant: only the timestamp is reset.
Invalidate_Timestamp == UNCHANGED cache /\ fresh' = FALSE

Invalidate == cache' = None /\ fresh' = FALSE

\* The cache is emptied while another thread is inside a read.
Overlap(t) ==
  mishaps' = IF \E u \in Threads \ {t} : pc[u] \notin {"idle", "ordered"}
             THEN mishaps \cup {"overlap"} ELSE mishaps

\* The read of t returns amount val, of wallet version ver; None is an error.
Return(t, val, ver) ==
  /\ Goto(t, "idle")
  /\ ret' = [ret EXCEPT ![t] =
               [op |-> IF op[t] = "fallback" THEN "total" ELSE op[t],
                val |-> val, ver |-> ver, since |-> since[t]]]
  /\ op' = [op EXCEPT ![t] = None]
  /\ tries' = [tries EXCEPT ![t] = 1]
  /\ snap' = [snap EXCEPT ![t] = None]
  /\ since' = [since EXCEPT ![t] = 0]

-----------------------------------------------------------------------------
(***************************************************************************)
(* A read begins.  A fresh cache is served at once to a read that allows   *)
(* it; the "fresh" reads invalidate first and always ask the exchange.     *)
(***************************************************************************)
CacheHit == cache # None /\ fresh

BeginRead(t, o) ==
  /\ pc[t] = "idle"
  /\ op' = [op EXCEPT ![t] = o]
  /\ since' = [since EXCEPT ![t] = known]
  /\ ret' = [ret EXCEPT ![t] = NoResult]
  /\ UNCHANGED <<wallet, known, tries, snap, totalsSeen>>

ReadMisses(t, o) ==
  /\ BeginRead(t, o)
  /\ Goto(t, "request")
  /\ IF o \in {"balance", "total"}
     THEN ~CacheHit /\ UNCHANGED <<cache, fresh, mishaps>>
     ELSE Invalidate /\ Overlap(t)

\* get_balance answered from the cache returns within this step.
BalanceFromCache(t) ==
  /\ pc[t] = "idle"
  /\ CacheHit
  /\ ret' = [ret EXCEPT ![t] = [op |-> "balance", val |-> cache.free,
                                ver |-> cache.ver, since |-> known]]
  /\ UNCHANGED <<wallet, cache, fresh, known, pc, op, tries, snap, since,
                 ghosts>>

\* get_balance_total leaves get_balances and has still to read the totals.
TotalFromCache(t) ==
  /\ BeginRead(t, "total")
  /\ CacheHit
  /\ Goto(t, "readTotals")
  /\ UNCHANGED <<cache, fresh, mishaps>>

-----------------------------------------------------------------------------
(***************************************************************************)
(* The wallets request of get_balances.                                    *)
(***************************************************************************)
ExchangeAnswers(t) ==
  /\ pc[t] = "request"
  /\ Goto(t, "answered")
  /\ \/ snap' = [snap EXCEPT ![t] = Snapshot] /\ UNCHANGED mishaps
     \/ /\ EmptyAnswers
        /\ snap' = [snap EXCEPT ![t] = Empty]
        /\ mishaps' = mishaps \cup {"empty"}
  /\ UNCHANGED <<wallet, cache, fresh, known, op, tries, since, ret,
                 totalsSeen>>

\* The answer replaces the cache, whatever has happened since the request.
StoreAnswer(t) ==
  LET s == snap[t] IN
  /\ pc[t] = "answered"
  /\ cache' = IF s = Empty THEN None ELSE s
  /\ fresh' = (s # Empty)
  /\ IF op[t] \in Totals
     THEN /\ Goto(t, "readTotals")
          /\ snap' = [snap EXCEPT ![t] = None]
          /\ tries' = [tries EXCEPT ![t] = 1]
          /\ UNCHANGED <<op, since, ret>>
     ELSE IF s = Empty THEN Return(t, 0, wallet.ver)
                       ELSE Return(t, s.free, s.ver)
  /\ UNCHANGED <<wallet, known, ghosts>>

\* Mutant: without a cache the spendable amount is zero.
StaleOrError_Zero(t) ==
  IF cache = None
  THEN Return(t, 0, None)
  ELSE IF op[t] \in Totals
       THEN /\ Goto(t, "readTotals")
            /\ tries' = [tries EXCEPT ![t] = 1]
            /\ UNCHANGED <<op, snap, since, ret>>
       ELSE Return(t, cache.free, cache.ver)

\* All attempts failed: a cache of any age is served, or the error is raised.
StaleOrError(t) ==
  IF cache = None
  THEN Return(t, None, None)
  ELSE IF op[t] \in Totals
       THEN /\ Goto(t, "readTotals")
            /\ tries' = [tries EXCEPT ![t] = 1]
            /\ UNCHANGED <<op, snap, since, ret>>
       ELSE Return(t, cache.free, cache.ver)

\* HTTP 5xx or 400: the next body is tried, and after the last one the cache.
AttemptFails(t) ==
  /\ pc[t] = "request"
  /\ IF tries[t] < Attempts
     THEN /\ tries' = [tries EXCEPT ![t] = @ + 1]
          /\ UNCHANGED <<pc, op, snap, since, ret>>
     ELSE StaleOrError(t)
  /\ UNCHANGED <<wallet, cache, fresh, known, ghosts>>

\* Mutant: serving the stale cache renews its timestamp.
RequestFails_Renews(t) ==
  /\ pc[t] = "request"
  /\ StaleOrError(t)
  /\ fresh' = (cache # None)
  /\ UNCHANGED <<wallet, cache, known, ghosts>>

\* A network error or any other: no second attempt.
RequestFails(t) ==
  /\ pc[t] = "request"
  /\ StaleOrError(t)
  /\ UNCHANGED <<wallet, cache, fresh, known, ghosts>>

\* HTTP 401, 403, 429: raised at once, never masked by the cache.
RequestRefused(t) ==
  /\ pc[t] = "request"
  /\ Return(t, None, None)
  /\ UNCHANGED <<wallet, cache, fresh, known, ghosts>>

(***************************************************************************)
(* The second lock section of get_balance_total and                        *)
(* get_balance_total_fresh.  If the totals are gone the former falls back  *)
(* to get_balance, which looks at the cache again, and the latter returns  *)
(* 0.0.                                                                    *)
(***************************************************************************)
ReadTotals(t) ==
  /\ pc[t] = "readTotals"
  /\ IF cache # None
     THEN Return(t, cache.total, cache.ver)
     ELSE IF op[t] = "totalFresh"
          THEN Return(t, 0, wallet.ver)
          ELSE /\ Goto(t, "fallback")
               /\ op' = [op EXCEPT ![t] = "fallback"]
               /\ UNCHANGED <<tries, snap, since, ret>>
  /\ UNCHANGED <<wallet, cache, fresh, known, ghosts>>

FallBack(t) ==
  /\ pc[t] = "fallback"
  /\ IF CacheHit THEN Return(t, cache.free, cache.ver)
                 ELSE Goto(t, "request") /\ UNCHANGED <<op, tries, snap, since, ret>>
  /\ UNCHANGED <<wallet, cache, fresh, known, ghosts>>

-----------------------------------------------------------------------------
(***************************************************************************)
(* place_order and cancel_order: the exchange changes the wallet, later    *)
(* the response arrives and the cache is dropped.  Without a response it   *)
(* is not.                                                                 *)
(***************************************************************************)
WalletChange ==
  {[free |-> wallet.free - 1, blocked |-> wallet.blocked]} \cup      \* filled
  {[free |-> wallet.free - 1, blocked |-> wallet.blocked + 1]} \cup  \* resting
  IF wallet.blocked > 0                                              \* cancel
  THEN {[free |-> wallet.free + 1, blocked |-> wallet.blocked - 1]} ELSE {}

SendOrder(t) ==
  /\ pc[t] = "idle"
  /\ wallet.ver < MaxOrders
  /\ \E w \in WalletChange :
       /\ wallet' = [free |-> w.free, blocked |-> w.blocked,
                     ver |-> wallet.ver + 1]
       /\ totalsSeen' = totalsSeen \cup {w.free + w.blocked}
  /\ since' = [since EXCEPT ![t] = wallet.ver + 1]
  /\ ret' = [ret EXCEPT ![t] = NoResult]
  /\ Goto(t, "ordered")
  /\ UNCHANGED <<cache, fresh, known, op, tries, snap, mishaps>>

OrderEnds(t) ==
  /\ pc[t] = "ordered"
  /\ Goto(t, "idle")
  /\ since' = [since EXCEPT ![t] = 0]
  /\ UNCHANGED <<wallet, op, tries, snap, ret, totalsSeen>>

\* Mutant: an accepted order leaves the cache alone.
OrderAnswered_KeepsCache(t) ==
  /\ OrderEnds(t)
  /\ known' = IF since[t] > known THEN since[t] ELSE known
  /\ UNCHANGED <<cache, fresh>>
  /\ Overlap(t)

OrderAnswered(t) ==
  /\ OrderEnds(t)
  /\ Invalidate
  /\ Overlap(t)
  /\ known' = IF since[t] > known THEN since[t] ELSE known

OrderLost(t) == OrderEnds(t) /\ UNCHANGED <<cache, fresh, known, mishaps>>

\* The TTL passes.
CacheExpires ==
  /\ fresh
  /\ fresh' = FALSE
  /\ UNCHANGED <<wallet, cache, known, threadVars, ghosts>>

-----------------------------------------------------------------------------
Finish(t) ==
  \/ ExchangeAnswers(t) \/ StoreAnswer(t)
  \/ AttemptFails(t) \/ RequestFails(t) \/ RequestRefused(t)
  \/ ReadTotals(t) \/ FallBack(t) \/ OrderAnswered(t) \/ OrderLost(t)

Begin(t) ==
  \/ \E o \in ReadOps : ReadMisses(t, o)
  \/ BalanceFromCache(t) \/ TotalFromCache(t) \/ SendOrder(t)

Next == CacheExpires \/ \E t \in Threads : Begin(t) \/ Finish(t)

Spec == Init /\ [][Next]_vars

\* Time passes and every HTTP call ends, if only by its timeout.
Fairness == WF_vars(CacheExpires) /\ \A t \in Threads : WF_vars(Finish(t))

FairSpec == Spec /\ Fairness

-----------------------------------------------------------------------------
(***************************************************************************)
(* Properties.  Each names the mishaps it does not survive in this code.   *)
(***************************************************************************)
Spared(set) == mishaps \cap set = {}

\* "Cache is invalidated after accepted orders": what is cached is never
\* older than an order whose response has been processed, unless that order
\* ended while another thread was reading.
CacheKnowsOrders ==
  Spared({"overlap"}) /\ cache # None => cache.ver >= known

\* A cache-bypassing read returns an amount at least as new as the orders
\* acknowledged before it began, unless one has ended during another's read.
FreshReadIsFresh ==
  Spared({"overlap"}) =>
    \A t \in Threads :
      ret[t].op \in {"fresh", "totalFresh"} /\ ret[t].val # None
        => ret[t].ver >= ret[t].since

TotalsSeen ==
  \A t \in Threads :
    ret[t].op \in Totals /\ ret[t].val # None => ret[t].val \in totalsSeen

\* A wallet total includes the funds open orders block: it is an amount that
\* once was the total, neither the spendable part alone nor a made-up zero.
\* So the docstring of get_balance_total_fresh.
TotalIncludesBlocked == Spared({"empty"}) => TotalsSeen

\* The same as long as no thread empties the cache while another reads.
TotalIncludesBlockedAlone == Spared({"empty", "overlap"}) => TotalsSeen

\* "An unavailable balance must never silently become zero": the wallet is
\* never empty, so no read of the spendable amount may return 0, however many
\* attempts fail, unless the exchange has answered without wallets.
ZeroIsNeverInvented ==
  Spared({"empty"}) =>
    \A t \in Threads : ret[t].op \in {"balance", "fresh"} => ret[t].val # 0

\* The total of a wallet is never less than the spendable part reported with
\* it: both caches always come from one answer.
CachesAgree ==
  cache # None => cache.free <= cache.total /\ cache.total \in totalsSeen

\* What the lock protects, between any two steps of any threads: types, two
\* caches of one answer, and no order that the cache should know and does not.
CacheSound == TypeOK /\ CachesAgree /\ CacheKnowsOrders

\* What a read returns: with force it is as new as the caller's orders, and a
\* total includes what open orders block (get_balance_fresh, _total_fresh).
ReadsAreCurrent == FreshReadIsFresh /\ TotalIncludesBlockedAlone

\* Once the orders stop, a young cache that misses one does not live for ever,
\* although slow answers may still overwrite newer ones.
StaleCacheDies == <>[](fresh => cache.ver = wallet.ver)
=============================================================================
