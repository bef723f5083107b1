-------------------------- MODULE ScanServiceProofs --------------------------
(***************************************************************************)
(* The quota and the reads of ScanService, for any callers, requests,      *)
(* limits, days and scans; and what GlobalLead, which filters the coins of *)
(* a scan, remembers of the scans before, for any markets and settings.    *)
(***************************************************************************)
EXTENDS ScanService, GlobalLead, FiniteSetTheorems, WellFoundedInduction, TLAPS

-----------------------------------------------------------------------------
(* GET /api/scan.                                                          *)

ScansTyped ==
  /\ clock \in Times /\ cache \in Times /\ snap \in Times
  /\ read \in [Readers -> [pc : {"idle", "cached", "done"}, at : Times, floor : Times]]

\* What a read promised when it began is in the cache it saw or among the snapshots.
PromiseKept ==
  \A x \in Readers :
    /\ read[x].pc = "cached" => read[x].floor <= read[x].at \/ read[x].floor <= snap
    /\ read[x].pc = "done" => read[x].at >= read[x].floor

ReadsInv == ScansTyped /\ cache <= clock /\ snap <= clock /\ PromiseKept

LEMMA MaxOfTwo ==
  ASSUME NEW a \in Int, NEW b \in Int
  PROVE  Max({a, b}) \in {a, b}
  <1>1. \E x \in {a, b} : \A y \in {a, b} : x >= y
    <2>1. CASE a >= b
      BY <2>1
    <2>2. CASE b >= a
      BY <2>2
    <2>3. QED
      BY <2>1, <2>2
  <1>2. QED
    BY <1>1 DEF Max

LEMMA ReadsBegin == ASSUME Init PROVE ReadsInv
  <1>1. 0 \in Times
    BY ScanAssumption DEF Times
  <1>2. NoRead \in [pc : {"idle", "cached", "done"}, at : Times, floor : Times]
    BY <1>1 DEF NoRead
  <1>3. QED
    BY <1>1, <1>2 DEF Init, ReadsInv, ScansTyped, PromiseKept, NoRead, Times

\* A publication, or nothing of it: the clock and the snapshots only grow.
LEMMA Published ==
  ASSUME ReadsInv, clock' \in Times, cache' \in Times, snap' \in Times,
         cache' <= clock', snap' <= clock', snap <= snap', UNCHANGED read
  PROVE  ReadsInv'
  <1>1. \A x \in Readers : read[x].floor \in Int /\ snap \in Int /\ snap' \in Int
    BY DEF ReadsInv, ScansTyped, Times
  <1>2. QED
    BY <1>1 DEF ReadsInv, ScansTyped, PromiseKept

\* One reader's step.
LEMMA ReaderMoves ==
  ASSUME ReadsInv, UNCHANGED scans, NEW x \in Readers,
         NEW n \in [pc : {"idle", "cached", "done"}, at : Times, floor : Times],
         read' = [read EXCEPT ![x] = n],
         n.pc = "cached" => n.floor <= n.at \/ n.floor <= snap,
         n.pc = "done" => n.at >= n.floor
  PROVE  ReadsInv'
  <1>1. \A y \in Readers : read'[y] = IF y = x THEN n ELSE read[y]
    BY DEF ReadsInv, ScansTyped
  <1>2. QED
    BY <1>1 DEF ReadsInv, ScansTyped, PromiseKept, scans

LEMMA ReaderKeeps ==
  ASSUME ReadsInv, NEW x \in Readers, ReadCache(x) \/ ReadSnapshot(x) \/ ReadSnapshotFails(x)
  PROVE  ReadsInv'
  <1>1. /\ UNCHANGED scans /\ cache \in Times /\ snap \in Times /\ cache \in Int /\ snap \in Int
        /\ read[x] \in [pc : {"idle", "cached", "done"}, at : Times, floor : Times]
        /\ read[x].at \in Int /\ read[x].floor \in Int /\ 0 \in Times
    BY ScanAssumption DEF ReadsInv, ScansTyped, ReadCache, ReadSnapshot, ReadSnapshotFails, Times
  <1>2. CASE ReadCache(x)
    <2>1. PICK n : /\ n = [pc |-> "cached", at |-> cache, floor |-> Max({cache, snap})]
                   /\ read' = [read EXCEPT ![x] = n]
      BY <1>2 DEF ReadCache
    <2>2. Max({cache, snap}) \in {cache, snap}
      BY <1>1, MaxOfTwo
    <2>3. n.pc = "cached" /\ (n.floor <= n.at \/ n.floor <= snap)
      BY <1>1, <2>1, <2>2
    <2>4. n \in [pc : {"idle", "cached", "done"}, at : Times, floor : Times]
      BY <1>1, <2>1, <2>2
    <2>5. QED
      BY <1>1, <2>1, <2>3, <2>4, ReaderMoves
  <1>3. CASE ReadSnapshot(x)
    <2>1. PICK n : /\ n = [read[x] EXCEPT !.pc = "done",
                             !.at = IF Supersedes(read[x].at) THEN snap ELSE read[x].at]
                   /\ read' = [read EXCEPT ![x] = n]
      BY <1>3 DEF ReadSnapshot
    <2>2. n = [pc |-> "done", at |-> IF Supersedes(read[x].at) THEN snap ELSE read[x].at,
               floor |-> read[x].floor]
      BY <1>1, <2>1
    <2>3. read[x].floor <= read[x].at \/ read[x].floor <= snap
      BY <1>3 DEF ReadsInv, PromiseKept, ReadSnapshot
    <2>4. n.at >= n.floor
      BY <1>1, <2>2, <2>3 DEF Supersedes, Times
    <2>5. n \in [pc : {"idle", "cached", "done"}, at : Times, floor : Times] /\ n.pc = "done"
      BY <1>1, <2>2
    <2>6. QED
      BY <1>1, <2>1, <2>4, <2>5, ReaderMoves
  <1>4. CASE ReadSnapshotFails(x)
    <2>1. NoRead \in [pc : {"idle", "cached", "done"}, at : Times, floor : Times]
          /\ NoRead.pc = "idle"
      BY <1>1 DEF NoRead
    <2>2. QED
      BY <1>1, <1>4, <2>1, ReaderMoves DEF ReadSnapshotFails
  <1>5. QED
    BY <1>2, <1>3, <1>4

LEMMA ReadsKept == ASSUME ReadsInv, [Next]_vars PROVE ReadsInv'
  <1>1. clock \in Nat /\ cache \in Nat /\ snap \in Nat /\ 0 \in Times
    BY ScanAssumption DEF ReadsInv, ScansTyped, Times
  <1>2. ASSUME UNCHANGED <<scans, read>> PROVE ReadsInv'
    BY <1>2 DEF ReadsInv, ScansTyped, PromiseKept, scans
  <1>3. ASSUME NEW t \in Requests, QuotaStep(t) PROVE ReadsInv'
    BY <1>2, <1>3 DEF QuotaStep, Arrive, CheckQuota, GuestConsume, RecordSelect, RecordInsert,
                      RecordReread, RecordUpdate
  <1>4. ASSUME NEW t \in Threads, ScanStep(t) PROVE ReadsInv'
    <2>1. CASE ScanFails(t) \/ PersistSkipped(t)
      BY <1>2, <2>1 DEF ScanFails, PersistSkipped
    <2>2. CASE ScanStores(t)
      <3>1. clock' \in Times /\ cache' \in Times /\ cache' <= clock' /\ clock <= clock'
        BY <1>1, <2>2, ScanAssumption DEF ScanStores, Times, ReadsInv
      <3>2. snap' = snap /\ read' = read
        BY <2>2 DEF ScanStores
      <3>3. snap' <= clock'
        BY <1>1, <3>1, <3>2 DEF ReadsInv, Times
      <3>4. snap' \in Times /\ snap <= snap'
        BY <1>1, <3>2 DEF ReadsInv, ScansTyped
      <3>5. QED
        BY <3>1, <3>2, <3>3, <3>4, Published
    <2>3. CASE PersistSnapshot(t)
      <3>1. clock' \in Times /\ snap' = clock' /\ cache' = cache /\ clock <= clock' /\ read' = read
        BY <1>1, <2>3, ScanAssumption DEF PersistSnapshot, Times
      <3>2. cache' <= clock' /\ snap <= snap'
        BY <1>1, <3>1 DEF ReadsInv, Times
      <3>3. cache' \in Times /\ snap' \in Times /\ snap' <= clock'
        BY <1>1, <3>1 DEF ReadsInv, ScansTyped, Times
      <3>4. QED
        BY <3>1, <3>2, <3>3, Published
    <2>4. QED
      BY <1>4, <2>1, <2>2, <2>3 DEF ScanStep
  <1>5. CASE RestartWeb
    BY <1>1, <1>5 DEF RestartWeb, ReadsInv, ScansTyped, PromiseKept, NoRead, Times
  <1>6. QED
    BY <1>2, <1>3, <1>4, <1>5, ReaderKeeps
       DEF Next, StartJob, NewDay, RestartWorker, vars

-----------------------------------------------------------------------------
(* The quota: its inductive invariant.                                     *)

Pcs == {"idle", "refused"} \union QuotaPcs \union ScanPcs
Records == [pc : Pcs, who : Metered \union {None}, day : Days, row : Nat]

QuotaTyped ==
  /\ day \in Days
  /\ usage \in [Free -> [Days -> Nat]]
  /\ DOMAIN guest = Guests
  /\ \A g \in Guests : guest[g] = None \/ guest[g] \in [day : Days, count : Nat]
  /\ thread \in [Threads -> Records]
  /\ charges \in [Metered -> [Days -> Nat]]
  /\ together \subseteq Metered

\* Nothing is counted that was not charged.
Counted ==
  /\ \A u \in Free, d \in Days : usage[u][d] <= charges[u][d]
  /\ \A g \in Guests : guest[g] = None \/ guest[g].count <= charges[g][guest[g].day]

\* No day is charged before it comes.
FutureFree ==
  /\ \A c \in Metered, d \in Days : d > day => charges[c][d] = 0
  /\ \A g \in Guests : guest[g] = None \/ guest[g].day <= day

InQuota(n) == n.pc \in QuotaPcs

\* Two requests of one caller are before their charge only if it is a caller of that kind.
OneEach ==
  \A t, o \in Requests :
    t # o /\ InQuota(thread[t]) /\ InQuota(thread[o]) /\ thread[t].who = thread[o].who
      => thread[t].who \in together

\* The record n of thread t, when it is day today.
RecordOk(t, n, today, charged) ==
  /\ n.pc \in QuotaPcs \cup {"refused"} => t \in Requests /\ n.who \in Metered /\ n.day <= today
  /\ n.pc \in {"write", "reread"} => n.who \in Free
  /\ n.pc = "refused" => charged[n.who][n.day] >= LimitOf(n.who)
  /\ n.pc = "write" => n.row <= charged[n.who][n.day]

\* The record of the only request of a caller: nothing was charged after its day, a scan is
\* left on that day, and what it has read still stands.
AloneRecord(n, charged, used, guests) ==
  InQuota(n) =>
    /\ \A d \in Days : d > n.day => charged[n.who][d] = 0
    /\ n.pc # "check" => charged[n.who][n.day] < LimitOf(n.who)
    /\ n.pc = "write" => n.row = used[n.who][n.day]
    /\ n.who \in Guests => guests[n.who] = None \/ guests[n.who].day <= n.day

\* A caller whose requests follow one another.
AloneCaller(c, charged, used, guests) ==
  /\ \A d \in Days : charged[c][d] <= LimitOf(c)
  /\ c \in Free => \A d \in Days : used[c][d] = charged[c][d]
  /\ c \in Guests =>
       IF guests[c] = None THEN \A d \in Days : charged[c][d] = 0
       ELSE /\ charged[c][guests[c].day] = guests[c].count
            /\ \A d \in Days : d > guests[c].day => charged[c][d] = 0

RecordsOk == \A t \in Threads : RecordOk(t, thread[t], day, charges)
AloneRecords ==
  \A t \in Requests : thread[t].who \notin together => AloneRecord(thread[t], charges, usage, guest)
AloneCallers == \A c \in Metered \ together : AloneCaller(c, charges, usage, guest)

QInv ==
  QuotaTyped /\ Counted /\ FutureFree /\ OneEach /\ RecordsOk /\ AloneRecords /\ AloneCallers

LEMMA Limits == \A c : LimitOf(c) \in Nat \ {0}
  BY ScanAssumption DEF LimitOf

LEMMA IdleTyped ==
  ASSUME NEW p \in Pcs
  PROVE  /\ [Idle EXCEPT !.pc = p] = [pc |-> p, who |-> None, day |-> 1, row |-> 0]
         /\ [Idle EXCEPT !.pc = p] \in Records
  <1>1. 1 \in Days
    BY ScanAssumption DEF Days
  <1>2. [Idle EXCEPT !.pc = p] = [pc |-> p, who |-> None, day |-> 1, row |-> 0]
    BY DEF Idle
  <1>3. [pc |-> p, who |-> None, day |-> 1, row |-> 0] \in Records
    BY <1>1 DEF Records
  <1>4. QED
    BY <1>2, <1>3

LEMMA QuotaBegins == ASSUME Init PROVE QInv
  <1>1. 1 \in Days /\ Days \subseteq Nat
    BY ScanAssumption DEF Days
  <1>2. Idle \in Records /\ Idle.pc = "idle"
    BY <1>1 DEF Idle, Records, Pcs
  <1>3. \A t \in Threads : thread[t].pc = "idle"
    BY <1>2 DEF Init
  <1>4. Requests \subseteq Threads /\ \A c \in Metered, d \in Days : charges[c][d] = 0
    BY DEF Init, Threads
  <1>5. QuotaTyped
    BY <1>1, <1>2 DEF Init, QuotaTyped
  <1>6. Counted /\ FutureFree
    <2>1. \A u \in Free, d \in Days : usage[u][d] = 0 /\ charges[u][d] = 0
      BY <1>4 DEF Init, Metered
    <2>2. QED
      BY <1>4, <2>1 DEF Init, Counted, FutureFree
  <1>7. OneEach /\ RecordsOk /\ AloneRecords
    BY <1>3, <1>4 DEF OneEach, RecordsOk, RecordOk, AloneRecords, AloneRecord, InQuota, QuotaPcs
  <1>8. AloneCallers
    BY <1>4, Limits DEF Init, AloneCallers, AloneCaller, Metered
  <1>9. QED
    BY <1>5, <1>6, <1>7, <1>8 DEF QInv

\* A step of one thread that charges nobody.
LEMMA Moves ==
  ASSUME QInv, NEW t \in Threads, NEW n \in Records, thread' = [thread EXCEPT ![t] = n],
         UNCHANGED <<day, usage, guest, charges>>,
         together \subseteq together', together' \subseteq Metered,
         RecordOk(t, n, day, charges),
         n.who \notin together' => AloneRecord(n, charges, usage, guest),
         InQuota(n) => \A o \in Requests \ {t} :
           InQuota(thread[o]) /\ thread[o].who = n.who => n.who \in together'
  PROVE  QInv'
  <1>1. \A u \in Threads : thread'[u] = IF u = t THEN n ELSE thread[u]
    BY DEF QInv, QuotaTyped
  <1>2. Requests \subseteq Threads
    BY DEF Threads
  <1>3. QuotaTyped'
    BY DEF QInv, QuotaTyped
  <1>4. Counted' /\ FutureFree'
    BY DEF QInv, Counted, FutureFree
  <1>5. OneEach'
    BY <1>1, <1>2 DEF QInv, OneEach
  <1>6. RecordsOk'
    BY <1>1 DEF QInv, RecordsOk
  <1>7. AloneRecords'
    BY <1>1, <1>2 DEF QInv, AloneRecords
  <1>8. AloneCallers'
    BY DEF QInv, AloneCallers
  <1>9. QED
    BY <1>3, <1>4, <1>5, <1>6, <1>7, <1>8 DEF QInv

LEMMA Turned ==
  ASSUME QInv, NEW t \in Threads, NEW p \in {"idle"} \cup ScanPcs, Turn(t, p),
         UNCHANGED quota
  PROVE  QInv'
  <1>1. PICK n \in Records : n.pc = p /\ thread' = [thread EXCEPT ![t] = n]
    <2>1. p \in Pcs
      BY DEF Pcs
    <2>2. thread' = [thread EXCEPT ![t] = [pc |-> p, who |-> None, day |-> 1, row |-> 0]]
      BY <2>1, IdleTyped DEF Turn
    <2>3. [pc |-> p, who |-> None, day |-> 1, row |-> 0] \in Records
      BY <2>1, IdleTyped
    <2>4. QED
      BY <2>2, <2>3
  <1>2. ~InQuota(n) /\ n.pc # "refused"
    BY <1>1 DEF InQuota, QuotaPcs, ScanPcs
  <1>3. RecordOk(t, n, day, charges) /\ AloneRecord(n, charges, usage, guest)
    BY <1>2 DEF RecordOk, AloneRecord, InQuota, QuotaPcs
  <1>4. together \subseteq Metered
    BY DEF QInv, QuotaTyped
  <1>5. QED
    BY <1>1, <1>2, <1>3, <1>4, Moves DEF quota

\* What is known of a request before its charge.
LEMMA InQuotaTyped ==
  ASSUME QInv, NEW t \in Threads, InQuota(thread[t])
  PROVE  /\ t \in Requests /\ thread[t] \in Records /\ thread[t].who \in Metered
         /\ thread[t].day \in Days /\ day \in Days /\ thread[t].day <= day
         /\ Days \subseteq Nat /\ thread[t].row \in Nat /\ together \subseteq Metered
         /\ \A d \in Days : charges[thread[t].who][d] \in Nat
         /\ \A o \in Requests \ {t} :
              InQuota(thread[o]) /\ thread[o].who = thread[t].who => thread[t].who \in together
         /\ thread[t].who \notin together =>
              /\ AloneRecord(thread[t], charges, usage, guest)
              /\ AloneCaller(thread[t].who, charges, usage, guest)
  <1>1. thread[t] \in Records /\ day \in Days /\ together \subseteq Metered
        /\ charges \in [Metered -> [Days -> Nat]] /\ Days \subseteq Nat
    BY ScanAssumption DEF QInv, QuotaTyped, Days
  <1>2. thread[t].day \in Days /\ thread[t].row \in Nat
    BY <1>1 DEF Records
  <1>3. t \in Requests /\ thread[t].who \in Metered /\ thread[t].day <= day
    BY DEF QInv, RecordsOk, RecordOk, InQuota
  <1>4. \A d \in Days : charges[thread[t].who][d] \in Nat
    BY <1>1, <1>3
  <1>5. \A o \in Requests \ {t} :
          InQuota(thread[o]) /\ thread[o].who = thread[t].who => thread[t].who \in together
    BY <1>3 DEF QInv, OneEach
  <1>6. thread[t].who \notin together =>
              /\ AloneRecord(thread[t], charges, usage, guest)
              /\ AloneCaller(thread[t].who, charges, usage, guest)
    BY <1>3 DEF QInv, AloneRecords, AloneCallers
  <1>7. QED
    BY <1>1, <1>2, <1>3, <1>4, <1>5, <1>6

\* A request before its charge moves to the record n, of the same caller.
LEMMA RequestMoves ==
  ASSUME QInv, NEW t \in Threads, InQuota(thread[t]), NEW n \in Records,
         thread' = [thread EXCEPT ![t] = n], UNCHANGED quota,
         n.who = thread[t].who, n.day <= day,
         n.pc \in QuotaPcs \cup {"refused"},
         n.pc \in {"write", "reread"} => n.who \in Free,
         n.pc = "refused" => charges[n.who][n.day] >= LimitOf(n.who),
         n.pc = "write" => n.row <= charges[n.who][n.day],
         n.who \notin together => AloneRecord(n, charges, usage, guest)
  PROVE  QInv'
  <1>1. RecordOk(t, n, day, charges)
    BY InQuotaTyped DEF RecordOk
  <1>2. QED
    BY <1>1, InQuotaTyped, Moves DEF quota

LEMMA UsedBounds ==
  ASSUME QInv, NEW c \in Metered, NEW d \in Days
  PROVE  Used(c, d) \in Nat /\ Used(c, d) <= charges[c][d]
  <1>1. charges[c][d] \in Nat
    BY DEF QInv, QuotaTyped
  <1>2. CASE c \in Guests
    <2>1. guest[c] = None \/ (guest[c].count \in Nat /\ guest[c].count <= charges[c][guest[c].day])
      BY <1>2 DEF QInv, QuotaTyped, Counted
    <2>2. QED
      BY <1>1, <1>2, <2>1 DEF Used, GuestUsed
  <1>3. CASE c \notin Guests
    BY <1>3 DEF QInv, QuotaTyped, Counted, Used, Metered
  <1>4. QED
    BY <1>2, <1>3

\* For a caller alone the count is exact from the day its request looked at on.
LEMMA UsedExact ==
  ASSUME QInv, NEW t \in Threads, InQuota(thread[t]), thread[t].who \notin together,
         NEW d \in Days, d >= thread[t].day
  PROVE  Used(thread[t].who, d) = charges[thread[t].who][d]
  <1> DEFINE c == thread[t].who
  <1>1. /\ c \in Metered /\ thread[t].day \in Nat /\ d \in Nat
        /\ AloneRecord(thread[t], charges, usage, guest) /\ AloneCaller(c, charges, usage, guest)
    BY InQuotaTyped
  <1>2. CASE c \in Guests
    <2>1. guest[c] = None \/ guest[c] \in [day : Days, count : Nat]
      BY <1>2 DEF QInv, QuotaTyped
    <2>2. guest[c] = None \/ guest[c].day <= thread[t].day
      BY <1>1, <1>2 DEF AloneRecord
    <2>3. CASE guest[c] = None
      BY <1>1, <1>2, <2>3 DEF AloneCaller, Used, GuestUsed
    <2>4. CASE guest[c] # None
      <3>1. guest[c].day \in Nat /\ guest[c].day <= d
        BY <1>1, <2>1, <2>2, <2>4, ScanAssumption DEF Days
      <3>2. /\ charges[c][guest[c].day] = guest[c].count
            /\ d > guest[c].day => charges[c][d] = 0
        BY <1>1, <1>2, <2>4 DEF AloneCaller
      <3>3. QED
        BY <1>1, <1>2, <2>4, <3>1, <3>2 DEF Used, GuestUsed
    <2>5. QED
      BY <2>3, <2>4
  <1>3. CASE c \notin Guests
    BY <1>1, <1>3 DEF AloneCaller, Used, Metered
  <1>4. QED
    BY <1>2, <1>3

LEMMA Captured ==
  ASSUME QInv, NEW t \in Threads, InQuota(thread[t]), NEW d \in CapturedDays(t)
  PROVE  d \in Days /\ d \in Nat /\ d <= day /\ d >= thread[t].day
  BY InQuotaTyped, ScanAssumption DEF CapturedDays, Days

LEMMA CheckKeeps ==
  ASSUME QInv, NEW t \in Threads, CheckQuota(t)
  PROVE  QInv'
  <1> DEFINE c == thread[t].who
  <1>1. thread[t].pc = "check" /\ InQuota(thread[t]) /\ UNCHANGED quota
    BY DEF CheckQuota, InQuota, QuotaPcs
  <1>2. thread[t] \in Records /\ c \in Metered /\ thread[t].row \in Nat /\ thread[t].day \in Nat
    BY <1>1, InQuotaTyped
  <1>day. PICK d \in CapturedDays(t) :
            thread' = [thread EXCEPT ![t].pc = IF Allowed(c, d) THEN "charge" ELSE "refused",
                                     ![t].day = d]
    BY DEF CheckQuota
  <1>3. PICK n :
          /\ n = [thread[t] EXCEPT !.pc = IF Allowed(c, d) THEN "charge" ELSE "refused", !.day = d]
          /\ thread' = [thread EXCEPT ![t] = n]
    <2>1. PICK p : p = IF Allowed(c, d) THEN "charge" ELSE "refused"
      OBVIOUS
    <2>2. thread' = [thread EXCEPT ![t] = [thread[t] EXCEPT !.pc = p, !.day = d]]
      BY <1>day, <2>1
    <2>3. QED
      BY <2>1, <2>2
  <1>4. d \in Days /\ d \in Nat /\ d <= day /\ d >= thread[t].day
    BY <1>1, <1>day, Captured
  <1>5. n = [pc |-> IF Allowed(c, d) THEN "charge" ELSE "refused", who |-> c, day |-> d,
             row |-> thread[t].row]
    BY <1>2, <1>3 DEF Records
  <1>6. n \in Records
    BY <1>2, <1>4, <1>5 DEF Records, Pcs, QuotaPcs
  <1>7. n.who = c /\ n.day = d /\ n.pc = IF Allowed(c, d) THEN "charge" ELSE "refused"
    BY <1>5
  <1>8. Used(c, d) \in Nat /\ Used(c, d) <= charges[c][d] /\ LimitOf(c) \in Nat
        /\ charges[c][d] \in Nat
    BY <1>1, <1>2, <1>4, UsedBounds, InQuotaTyped, Limits
  <1>9. n.pc = "refused" => charges[c][d] >= LimitOf(c)
    BY <1>7, <1>8 DEF Allowed
  <1>10. c \notin together => AloneRecord(n, charges, usage, guest)
    <2>1. SUFFICES ASSUME c \notin together, n.pc = "charge"
                   PROVE  AloneRecord(n, charges, usage, guest)
      BY <1>7 DEF AloneRecord, InQuota, QuotaPcs
    <2>2. Used(c, d) < LimitOf(c) /\ Used(c, d) = charges[c][d]
      BY <1>1, <1>4, <1>7, <2>1, UsedExact DEF Allowed
    <2>3. AloneRecord(thread[t], charges, usage, guest)
      BY <1>1, <2>1, InQuotaTyped
    <2>4. \A e \in Days : e > d => charges[c][e] = 0
      BY <1>1, <1>2, <1>4, <2>3, ScanAssumption DEF AloneRecord, Days
    <2>5. c \in Guests => guest[c] = None \/ guest[c].day <= d
      <3>1. c \in Guests => guest[c] = None \/ (guest[c].day <= thread[t].day /\ guest[c].day \in Nat)
        BY <1>1, <2>3, ScanAssumption DEF AloneRecord, QInv, QuotaTyped, Days
      <3>2. QED
        BY <1>2, <1>4, <3>1
    <2>6. QED
      BY <1>7, <2>1, <2>2, <2>4, <2>5 DEF AloneRecord
  <1>11. n.pc \in {"charge", "refused"}
    BY <1>7
  <1>12. n.pc \in QuotaPcs \cup {"refused"} /\ n.pc \notin {"write", "reread"}
    BY <1>11 DEF QuotaPcs
  <1>13. QED
    BY <1>1, <1>3, <1>4, <1>6, <1>7, <1>9, <1>10, <1>12, RequestMoves

LEMMA SelectKeeps ==
  ASSUME QInv, NEW t \in Threads, RecordSelect(t)
  PROVE  QInv'
  <1> DEFINE c == thread[t].who
  <1>1. thread[t].pc = "charge" /\ InQuota(thread[t]) /\ c \in Free /\ UNCHANGED quota
    BY DEF RecordSelect, InQuota, QuotaPcs
  <1>2. thread[t] \in Records /\ c \in Metered /\ thread[t].day \in Nat /\ c \notin Guests
    BY <1>1, InQuotaTyped, ScanAssumption
  <1>day. PICK d \in CapturedDays(t) :
            thread' = [thread EXCEPT ![t].pc = "write", ![t].day = d, ![t].row = usage[c][d]]
    BY DEF RecordSelect
  <1>3. PICK n : /\ n = [thread[t] EXCEPT !.pc = "write", !.day = d, !.row = usage[c][d]]
                 /\ thread' = [thread EXCEPT ![t] = n]
    BY <1>day
  <1>4. d \in Days /\ d \in Nat /\ d <= day /\ d >= thread[t].day
    BY <1>1, Captured
  <1>5. usage[c][d] \in Nat /\ usage[c][d] <= charges[c][d]
    BY <1>1, <1>4 DEF QInv, QuotaTyped, Counted
  <1>6. n = [pc |-> "write", who |-> c, day |-> d, row |-> usage[c][d]]
    BY <1>2, <1>3 DEF Records
  <1>7. n \in Records
    BY <1>2, <1>4, <1>5, <1>6 DEF Records, Pcs, QuotaPcs
  <1>8. n.who = c /\ n.day = d /\ n.pc = "write" /\ n.row = usage[c][d]
    BY <1>6
  <1>9. c \notin together => AloneRecord(n, charges, usage, guest)
    <2>1. SUFFICES ASSUME c \notin together PROVE AloneRecord(n, charges, usage, guest)
      OBVIOUS
    <2>2. AloneRecord(thread[t], charges, usage, guest)
      BY <1>1, <2>1, InQuotaTyped
    <2>3. \A e \in Days : e > d => charges[c][e] = 0
      BY <1>1, <1>2, <1>4, <2>2, ScanAssumption DEF AloneRecord, Days
    <2>4. charges[c][d] < LimitOf(c)
      <3>1. charges[c][thread[t].day] < LimitOf(c)
        BY <1>1, <2>2 DEF AloneRecord
      <3>2. d > thread[t].day => charges[c][d] = 0
        BY <1>1, <1>4, <2>2 DEF AloneRecord
      <3>3. QED
        BY <1>2, <1>4, <3>1, <3>2, Limits
    <2>5. QED
      BY <1>2, <1>8, <2>3, <2>4 DEF AloneRecord
  <1>10. n.pc \in QuotaPcs
    BY <1>8 DEF QuotaPcs
  <1>11. QED
    BY <1>1, <1>3, <1>4, <1>5, <1>7, <1>8, <1>9, <1>10, RequestMoves

LEMMA RereadKeeps ==
  ASSUME QInv, NEW t \in Threads, RecordReread(t)
  PROVE  QInv'
  <1> DEFINE c == thread[t].who
             d == thread[t].day
  <1>1. thread[t].pc = "reread" /\ InQuota(thread[t]) /\ UNCHANGED quota
    BY DEF RecordReread, InQuota, QuotaPcs
  <1>2. /\ thread[t] \in Records /\ c \in Metered /\ d \in Days /\ d <= day /\ c \in Free
    BY <1>1, InQuotaTyped DEF QInv, RecordsOk, RecordOk
  <1>3. PICK n : /\ n = [thread[t] EXCEPT !.pc = "write", !.row = usage[c][d]]
                 /\ thread' = [thread EXCEPT ![t] = n]
    BY DEF RecordReread
  <1>4. usage[c][d] \in Nat /\ usage[c][d] <= charges[c][d]
    BY <1>2 DEF QInv, QuotaTyped, Counted
  <1>5. n = [pc |-> "write", who |-> c, day |-> d, row |-> usage[c][d]]
    BY <1>2, <1>3 DEF Records
  <1>6. n \in Records
    BY <1>2, <1>4, <1>5 DEF Records, Pcs, QuotaPcs
  <1>7. n.who = c /\ n.day = d /\ n.pc = "write" /\ n.row = usage[c][d]
    BY <1>5
  <1>8. c \notin together => AloneRecord(n, charges, usage, guest)
    <2>1. c \notin together => AloneRecord(thread[t], charges, usage, guest)
      BY <1>1, InQuotaTyped
    <2>2. QED
      BY <1>1, <1>7, <2>1 DEF AloneRecord, InQuota
  <1>9. n.pc \in QuotaPcs
    BY <1>7 DEF QuotaPcs
  <1>10. QED
    BY <1>1, <1>2, <1>3, <1>4, <1>6, <1>7, <1>8, <1>9, RequestMoves

-----------------------------------------------------------------------------
(* A charge.                                                               *)

LEMMA Charged ==
  ASSUME QInv, NEW t \in Threads, InQuota(thread[t]), Turn(t, "scan"), UNCHANGED <<day, together>>,
         NEW c, c = thread[t].who, NEW d \in Days, d <= day, Charge(c, d),
         usage' \in [Free -> [Days -> Nat]], DOMAIN guest' = Guests,
         \A u \in Free \ {c} : usage'[u] = usage[u],
         \A g \in Guests \ {c} : guest'[g] = guest[g],
         c \in Free => \A e \in Days : usage'[c][e] <= charges'[c][e],
         c \in Guests => /\ guest'[c] \in [day : Days, count : Nat]
                         /\ guest'[c].count <= charges'[c][guest'[c].day]
                         /\ guest'[c].day <= day,
         c \notin together => AloneCaller(c, charges', usage', guest')
  PROVE  QInv'
  <1>1. /\ t \in Requests /\ c \in Metered /\ charges \in [Metered -> [Days -> Nat]]
        /\ \A o \in Requests \ {t} : InQuota(thread[o]) /\ thread[o].who = c => c \in together
    BY InQuotaTyped DEF QInv, QuotaTyped
  <1>2. /\ charges' \in [Metered -> [Days -> Nat]]
        /\ \A x \in Metered, e \in Days :
             charges'[x][e] = IF x = c /\ e = d THEN charges[x][e] + 1 ELSE charges[x][e]
    BY <1>1 DEF Charge
  <1>3. \A x \in Metered \ {c} : charges'[x] = charges[x]
    BY <1>1 DEF Charge
  <1>4. \A x \in Metered, e \in Days : charges'[x][e] >= charges[x][e]
    BY <1>1, <1>2
  <1>5. PICK n \in Records : n.pc = "scan" /\ thread' = [thread EXCEPT ![t] = n]
    <2>1. "scan" \in Pcs
      BY DEF Pcs, ScanPcs
    <2>2. thread' = [thread EXCEPT ![t] = [pc |-> "scan", who |-> None, day |-> 1, row |-> 0]]
      BY <2>1, IdleTyped DEF Turn
    <2>3. [pc |-> "scan", who |-> None, day |-> 1, row |-> 0] \in Records
      BY <2>1, IdleTyped
    <2>4. QED
      BY <2>2, <2>3
  <1>6. \A u \in Threads : thread'[u] = IF u = t THEN n ELSE thread[u]
    BY <1>5 DEF QInv, QuotaTyped
  <1>7. ~InQuota(n) /\ n.pc \notin QuotaPcs \cup {"refused", "write", "reread"}
    BY <1>5 DEF InQuota, QuotaPcs
  <1>8. Requests \subseteq Threads /\ Free \subseteq Metered /\ Guests \subseteq Metered
        /\ Metered = Free \cup Guests /\ Days \subseteq Nat
    BY ScanAssumption DEF Threads, Metered, Days
  <1>9. QuotaTyped'
    <2>1. thread' \in [Threads -> Records]
      BY <1>5 DEF QInv, QuotaTyped
    <2>2. \A g \in Guests : guest'[g] = None \/ guest'[g] \in [day : Days, count : Nat]
      BY DEF QInv, QuotaTyped
    <2>3. QED
      BY <1>2, <2>1, <2>2 DEF QInv, QuotaTyped
  <1>10. Counted'
    <2>1. \A u \in Free, e \in Days : usage'[u][e] <= charges'[u][e]
      BY <1>3, <1>8 DEF QInv, Counted
    <2>2. \A g \in Guests : guest'[g] = None \/ guest'[g].count <= charges'[g][guest'[g].day]
      BY <1>3, <1>8 DEF QInv, Counted
    <2>3. QED
      BY <2>1, <2>2 DEF Counted
  <1>11. FutureFree'
    <2>1. \A x \in Metered, e \in Days : e > day => charges'[x][e] = 0
      BY <1>2, <1>8 DEF QInv, FutureFree, QuotaTyped
    <2>2. \A g \in Guests : guest'[g] = None \/ guest'[g].day <= day
      BY DEF QInv, FutureFree
    <2>3. QED
      BY <2>1, <2>2 DEF FutureFree
  <1>12. OneEach'
    BY <1>6, <1>7, <1>8 DEF QInv, OneEach
  <1>13. RecordsOk'
    <2>1. \A u \in Threads \ {t} : RecordOk(u, thread[u], day, charges')
      <3>1. SUFFICES ASSUME NEW u \in Threads \ {t} PROVE RecordOk(u, thread[u], day, charges')
        OBVIOUS
      <3>2. RecordOk(u, thread[u], day, charges) /\ thread[u] \in Records
        BY DEF QInv, RecordsOk, QuotaTyped
      <3>3. thread[u].day \in Days /\ thread[u].row \in Nat
        BY <3>2 DEF Records
      <3>4. thread[u].pc \in {"refused", "write"} =>
              /\ charges'[thread[u].who][thread[u].day] >= charges[thread[u].who][thread[u].day]
              /\ charges'[thread[u].who][thread[u].day] \in Nat
              /\ charges[thread[u].who][thread[u].day] \in Nat
        <4>1. thread[u].pc \in {"refused", "write"} => thread[u].who \in Metered
          BY <3>2 DEF RecordOk, QuotaPcs
        <4>2. QED
          BY <1>1, <1>2, <1>4, <3>3, <4>1
      <3>5. LimitOf(thread[u].who) \in Nat
        BY Limits
      <3>6. QED
        BY <3>2, <3>3, <3>4, <3>5 DEF RecordOk
    <2>2. RecordOk(t, n, day, charges')
      BY <1>7 DEF RecordOk
    <2>3. QED
      BY <1>6, <2>1, <2>2 DEF RecordsOk
  <1>14. AloneRecords'
    <2>1. SUFFICES ASSUME NEW u \in Requests, thread'[u].who \notin together, InQuota(thread'[u])
                   PROVE  AloneRecord(thread'[u], charges', usage', guest')
      BY DEF AloneRecords, AloneRecord
    <2>2. u # t /\ thread'[u] = thread[u]
      BY <1>6, <1>7, <1>8, <2>1
    <2>3. thread[u].who # c /\ thread[u].who \in Metered
      BY <1>1, <1>8, <2>1, <2>2, InQuotaTyped
    <2>4. AloneRecord(thread[u], charges, usage, guest)
      BY <2>1, <2>2 DEF QInv, AloneRecords
    <2>5. thread[u].pc = "write" => thread[u].who \in Free
      BY <1>8 DEF QInv, RecordsOk, RecordOk
    <2>6. QED
      BY <1>3, <2>2, <2>3, <2>4, <2>5 DEF AloneRecord
  <1>15. AloneCallers'
    <2>1. SUFFICES ASSUME NEW x \in Metered \ together, x # c
                   PROVE  AloneCaller(x, charges', usage', guest')
      BY DEF AloneCallers
    <2>2. AloneCaller(x, charges, usage, guest)
      BY <2>1 DEF QInv, AloneCallers
    <2>3. QED
      BY <1>3, <2>1, <2>2 DEF AloneCaller
  <1>16. QED
    BY <1>9, <1>10, <1>11, <1>12, <1>13, <1>14, <1>15 DEF QInv

LEMMA ConsumeKeeps ==
  ASSUME QInv, NEW t \in Threads, GuestConsume(t)
  PROVE  QInv'
  <1> DEFINE c == thread[t].who
  <1>1. thread[t].pc = "charge" /\ InQuota(thread[t]) /\ c \in Guests /\ Turn(t, "scan")
        /\ UNCHANGED <<day, usage, together>>
    BY DEF GuestConsume, InQuota, QuotaPcs
  <1>2. /\ c \in Metered /\ c \notin Free /\ thread[t].day \in Nat
        /\ charges \in [Metered -> [Days -> Nat]] /\ Days \subseteq Nat
    BY <1>1, InQuotaTyped, ScanAssumption DEF QInv, QuotaTyped
  <1>3. PICK d \in CapturedDays(t) :
          guest' = [guest EXCEPT ![c] = [day |-> d, count |-> GuestUsed(c, d) + 1]] /\ Charge(c, d)
    BY DEF GuestConsume
  <1>4. d \in Days /\ d \in Nat /\ d <= day /\ d >= thread[t].day
    BY <1>1, Captured
  <1>5. GuestUsed(c, d) \in Nat /\ GuestUsed(c, d) <= charges[c][d] /\ charges[c][d] \in Nat
    BY <1>1, <1>2, <1>4, UsedBounds DEF Used
  <1>6. guest'[c] = [day |-> d, count |-> GuestUsed(c, d) + 1] /\ DOMAIN guest' = Guests
        /\ \A g \in Guests \ {c} : guest'[g] = guest[g]
    BY <1>1, <1>3 DEF QInv, QuotaTyped
  <1>7. \A e \in Days : charges'[c][e] = IF e = d THEN charges[c][e] + 1 ELSE charges[c][e]
    BY <1>2, <1>3 DEF Charge
  <1>8. /\ guest'[c] \in [day : Days, count : Nat] /\ guest'[c].day = d
        /\ guest'[c].count = GuestUsed(c, d) + 1
    BY <1>4, <1>5, <1>6
  <1>9. c \notin together => AloneCaller(c, charges', usage', guest')
    <2>1. SUFFICES ASSUME c \notin together PROVE AloneCaller(c, charges', usage', guest')
      OBVIOUS
    <2>2. AloneRecord(thread[t], charges, usage, guest) /\ AloneCaller(c, charges, usage, guest)
      BY <1>1, <2>1, InQuotaTyped
    <2>3. GuestUsed(c, d) = charges[c][d]
      BY <1>1, <1>4, <2>1, UsedExact DEF Used
    <2>4. \A e \in Days : e > d => charges[c][e] = 0
      BY <1>1, <1>2, <1>4, <2>2 DEF AloneRecord
    <2>5. charges[c][d] < LimitOf(c)
      <3>1. charges[c][thread[t].day] < LimitOf(c)
        BY <1>1, <2>2 DEF AloneRecord
      <3>2. d > thread[t].day => charges[c][d] = 0
        BY <1>1, <1>4, <2>2 DEF AloneRecord
      <3>3. QED
        BY <1>2, <1>4, <3>1, <3>2, Limits
    <2>6. \A e \in Days : charges'[c][e] <= LimitOf(c)
      BY <1>5, <1>7, <2>2, <2>5, Limits DEF AloneCaller
    <2>7. /\ charges'[c][guest'[c].day] = guest'[c].count
          /\ \A e \in Days : e > guest'[c].day => charges'[c][e] = 0
      <3>1. \A e \in Days : e \in Nat
        BY <1>2
      <3>2. charges'[c][d] = charges[c][d] + 1
        BY <1>4, <1>7
      <3>3. \A e \in Days : e > d => charges'[c][e] = 0
        BY <1>4, <1>7, <2>4, <3>1
      <3>4. QED
        BY <1>8, <2>3, <3>2, <3>3
    <2>8. guest'[c] # None
      BY <1>8, AbsenceAssumption DEF Days
    <2>9. QED
      BY <1>2, <2>6, <2>7, <2>8 DEF AloneCaller
  <1>10. guest'[c].count <= charges'[c][guest'[c].day]
    BY <1>4, <1>5, <1>7, <1>8
  <1>11. usage' \in [Free -> [Days -> Nat]] /\ \A u \in Free \ {c} : usage'[u] = usage[u]
    BY <1>1 DEF QInv, QuotaTyped
  <1>12. QED
    BY <1>1, <1>2, <1>3, <1>4, <1>6, <1>8, <1>9, <1>10, <1>11, Charged

\* What a write of the scan_usage row does.
LEMMA Written ==
  ASSUME QInv, NEW t \in Threads, thread[t].pc = "write", NEW m \in Nat,
         usage' = [usage EXCEPT ![thread[t].who][thread[t].day] = m],
         Charge(thread[t].who, thread[t].day), Turn(t, "scan"), UNCHANGED <<day, guest, together>>,
         m <= charges[thread[t].who][thread[t].day] + 1,
         thread[t].who \notin together => m = charges[thread[t].who][thread[t].day] + 1
  PROVE  QInv'
  <1> DEFINE c == thread[t].who
             d == thread[t].day
  <1>1. InQuota(thread[t])
    BY DEF InQuota, QuotaPcs
  <1>2. /\ c \in Metered /\ d \in Days /\ d <= day /\ c \in Free /\ c \notin Guests
        /\ charges \in [Metered -> [Days -> Nat]] /\ usage \in [Free -> [Days -> Nat]]
    BY <1>1, InQuotaTyped, ScanAssumption DEF QInv, RecordsOk, RecordOk, QuotaTyped
  <1>3. /\ usage' \in [Free -> [Days -> Nat]]
        /\ \A e \in Days : usage'[c][e] = IF e = d THEN m ELSE usage[c][e]
        /\ \A u \in Free \ {c} : usage'[u] = usage[u]
    BY <1>2
  <1>4. \A e \in Days : charges'[c][e] = IF e = d THEN charges[c][e] + 1 ELSE charges[c][e]
    BY <1>2 DEF Charge
  <1>5. \A e \in Days : usage'[c][e] <= charges'[c][e]
    BY <1>2, <1>3, <1>4 DEF QInv, Counted
  <1>6. c \notin together => AloneCaller(c, charges', usage', guest')
    <2>1. SUFFICES ASSUME c \notin together PROVE AloneCaller(c, charges', usage', guest')
      OBVIOUS
    <2>2. AloneRecord(thread[t], charges, usage, guest) /\ AloneCaller(c, charges, usage, guest)
      BY <1>1, <2>1, InQuotaTyped
    <2>3. charges[c][d] < LimitOf(c) /\ charges[c][d] \in Nat /\ LimitOf(c) \in Nat
      BY <1>1, <1>2, <2>2, Limits DEF AloneRecord
    <2>4. \A e \in Days : charges'[c][e] <= LimitOf(c)
      BY <1>4, <2>2, <2>3 DEF AloneCaller
    <2>5. \A e \in Days : usage'[c][e] = charges'[c][e]
      BY <1>2, <1>3, <1>4, <2>1, <2>2 DEF AloneCaller
    <2>6. QED
      BY <1>2, <2>4, <2>5 DEF AloneCaller
  <1>7. DOMAIN guest' = Guests /\ \A g \in Guests \ {c} : guest'[g] = guest[g]
    BY DEF QInv, QuotaTyped
  <1>8. QED
    BY <1>1, <1>2, <1>3, <1>5, <1>6, <1>7, Charged

LEMMA InsertKeeps ==
  ASSUME QInv, NEW t \in Threads, RecordInsert(t)
  PROVE  QInv'
  <1> DEFINE c == thread[t].who
             d == thread[t].day
  <1>1. /\ thread[t].pc = "write" /\ thread[t].row = 0 /\ InQuota(thread[t])
        /\ UNCHANGED <<day, guest, together>>
    BY DEF RecordInsert, InQuota, QuotaPcs
  <1>2. /\ thread[t] \in Records /\ c \in Metered /\ d \in Days /\ c \in Free /\ d <= day
        /\ charges[c][d] \in Nat
    BY <1>1, InQuotaTyped DEF QInv, RecordsOk, RecordOk
  <1>3. CASE usage[c][d] = 0
    <2>1. usage' = [usage EXCEPT ![c][d] = 1] /\ Charge(c, d) /\ Turn(t, "scan")
      BY <1>3 DEF RecordInsert
    <2>2. c \notin together => 1 = charges[c][d] + 1
      <3>1. c \notin together => AloneCaller(c, charges, usage, guest)
        BY <1>1, InQuotaTyped
      <3>2. QED
        BY <1>2, <1>3, <3>1 DEF AloneCaller
    <2>3. PICK m \in Nat : m = 1
      OBVIOUS
    <2>4. usage' = [usage EXCEPT ![c][d] = m] /\ m <= charges[c][d] + 1
          /\ (c \notin together => m = charges[c][d] + 1)
      BY <1>2, <2>1, <2>2, <2>3
    <2>5. QED
      BY <1>1, <2>1, <2>4, Written
  <1>4. CASE usage[c][d] # 0
    <2>1. PICK n : /\ n = [thread[t] EXCEPT !.pc = "reread"]
                   /\ thread' = [thread EXCEPT ![t] = n]
      BY <1>4 DEF RecordInsert
    <2>2. UNCHANGED quota
      BY <1>4 DEF RecordInsert, quota
    <2>3. n = [pc |-> "reread", who |-> c, day |-> d, row |-> thread[t].row]
      BY <1>2, <2>1 DEF Records
    <2>4. n \in Records
      BY <1>2, <2>3 DEF Records, Pcs, QuotaPcs
    <2>5. n.who = c /\ n.day = d /\ n.pc = "reread"
      BY <2>3
    <2>6. c \notin together => AloneRecord(n, charges, usage, guest)
      <3>1. c \notin together => AloneRecord(thread[t], charges, usage, guest)
        BY <1>1, InQuotaTyped
      <3>2. QED
        BY <1>1, <2>5, <3>1 DEF AloneRecord
    <2>7. n.pc \in QuotaPcs
      BY <2>5 DEF QuotaPcs
    <2>8. QED
      BY <1>1, <1>2, <2>1, <2>2, <2>4, <2>5, <2>6, <2>7, RequestMoves
  <1>5. QED
    BY <1>3, <1>4

LEMMA UpdateKeeps ==
  ASSUME QInv, NEW t \in Threads, RecordUpdate(t)
  PROVE  QInv'
  <1> DEFINE c == thread[t].who
             d == thread[t].day
  <1>1. /\ thread[t].pc = "write" /\ InQuota(thread[t])
        /\ usage' = [usage EXCEPT ![c][d] = thread[t].row + 1]
        /\ Charge(c, d) /\ Turn(t, "scan") /\ UNCHANGED <<day, guest, together>>
    BY DEF RecordUpdate, InQuota, QuotaPcs
  <1>2. /\ thread[t].row \in Nat /\ d \in Days /\ c \in Free /\ charges[c][d] \in Nat
        /\ thread[t].row <= charges[c][d]
    BY <1>1, InQuotaTyped DEF QInv, RecordsOk, RecordOk
  <1>3. c \notin together => thread[t].row = charges[c][d]
    <2>1. c \notin together =>
            AloneRecord(thread[t], charges, usage, guest) /\ AloneCaller(c, charges, usage, guest)
      BY <1>1, InQuotaTyped
    <2>2. QED
      BY <1>1, <1>2, <2>1 DEF AloneRecord, AloneCaller
  <1>4. PICK m \in Nat : m = thread[t].row + 1
    BY <1>2
  <1>5. usage' = [usage EXCEPT ![c][d] = m] /\ m <= charges[c][d] + 1
        /\ (c \notin together => m = charges[c][d] + 1)
    BY <1>1, <1>2, <1>3, <1>4
  <1>6. QED
    BY <1>1, <1>5, Written

LEMMA ArriveKeeps ==
  ASSUME QInv, NEW t \in Requests, NEW c \in Callers, Arrive(t, c)
  PROVE  QInv'
  <1>1. /\ UNCHANGED <<day, usage, guest, charges>> /\ thread' = [thread EXCEPT ![t] = Begin(c)]
        /\ together' = IF \E o \in Requests \ {t} : thread[o].who = c /\ thread[o].pc \in QuotaPcs
                       THEN together \union {c} ELSE together
    BY DEF Arrive
  <1>2. t \in Threads /\ day \in Days /\ together \subseteq Metered /\ c # None /\ day \in Nat
    BY ScanAssumption DEF Threads, QInv, QuotaTyped, Days, Callers
  <1>3. CASE c \in Metered
    <2>1. PICK n : n = [pc |-> "check", who |-> c, day |-> day, row |-> 0] /\ n = Begin(c)
      BY <1>3 DEF Begin
    <2>2. n \in Records
      BY <1>2, <1>3, <2>1 DEF Records, Pcs, QuotaPcs
    <2>3. n.who = c /\ n.pc = "check" /\ n.day = day
      BY <2>1
    <2>4. RecordOk(t, n, day, charges)
      BY <1>2, <1>3, <2>3 DEF RecordOk
    <2>5. AloneRecord(n, charges, usage, guest)
      BY <1>3, <2>3 DEF AloneRecord, QInv, FutureFree
    <2>6. together \subseteq together' /\ together' \subseteq Metered
      BY <1>1, <1>2, <1>3
    <2>7. \A o \in Requests \ {t} : InQuota(thread[o]) /\ thread[o].who = n.who => n.who \in together'
      BY <1>1, <2>3 DEF InQuota
    <2>8. QED
      BY <1>1, <1>2, <2>1, <2>2, <2>4, <2>5, <2>6, <2>7, Moves
  <1>4. CASE c \notin Metered
    <2>1. \A o \in Threads : InQuota(thread[o]) => thread[o].who # c
      BY <1>4, InQuotaTyped
    <2>2. together' = together
      BY <1>1, <2>1 DEF InQuota, Threads
    <2>3. \E p \in {"scan", "forced"} : Begin(c) = [Idle EXCEPT !.pc = p]
      BY <1>4 DEF Begin
    <2>4. \E p \in ScanPcs : Turn(t, p)
      BY <1>1, <2>3 DEF Turn, ScanPcs
    <2>5. QED
      BY <1>1, <1>2, <2>2, <2>4, Turned DEF quota
  <1>5. QED
    BY <1>3, <1>4

-----------------------------------------------------------------------------
(* Midnight and the restarts.                                              *)

LEMMA DayKeeps ==
  ASSUME QInv, NewDay
  PROVE  QInv'
  <1>1. /\ day' = day + 1 /\ day' \in Days /\ day \in Nat /\ Days \subseteq Nat
        /\ UNCHANGED <<usage, guest, charges, together, thread>>
    BY ScanAssumption DEF NewDay, QInv, QuotaTyped, Days
  <1>2. QuotaTyped' /\ Counted' /\ OneEach' /\ AloneRecords' /\ AloneCallers'
    <2>1. QuotaTyped'
      BY <1>1 DEF QInv, QuotaTyped
    <2>2. Counted' /\ OneEach'
      BY <1>1 DEF QInv, Counted, OneEach
    <2>3. AloneRecords' /\ AloneCallers'
      BY <1>1 DEF QInv, AloneRecords, AloneCallers
    <2>4. QED
      BY <2>1, <2>2, <2>3
  <1>3. FutureFree'
    <2>1. \A g \in Guests : guest[g] = None \/ guest[g].day \in Nat
      BY <1>1 DEF QInv, QuotaTyped
    <2>2. QED
      BY <1>1, <2>1 DEF QInv, FutureFree
  <1>4. RecordsOk'
    <2>1. \A t \in Threads : thread[t].day \in Nat
      BY <1>1 DEF QInv, QuotaTyped, Records
    <2>2. \A t \in Threads : RecordOk(t, thread[t], day + 1, charges)
      BY <1>1, <2>1 DEF QInv, RecordsOk, RecordOk
    <2>3. QED
      BY <1>1, <2>2 DEF RecordsOk
  <1>5. QED
    BY <1>2, <1>3, <1>4 DEF QInv

LEMMA IdleIsQuiet ==
  /\ Idle \in Records /\ ~InQuota(Idle)
  /\ \A t, today, charged : RecordOk(t, Idle, today, charged)
  <1>1. 1 \in Days
    BY ScanAssumption DEF Days
  <1>2. Idle.pc = "idle" /\ Idle \in Records
    BY <1>1 DEF Idle, Records, Pcs
  <1>3. ~InQuota(Idle) /\ \A t, today, charged : RecordOk(t, Idle, today, charged)
    BY <1>2 DEF InQuota, RecordOk, QuotaPcs
  <1>4. QED
    BY <1>2, <1>3

LEMMA WorkerKeeps ==
  ASSUME QInv, RestartWorker
  PROVE  QInv'
  <1>1. /\ UNCHANGED <<day, usage, guest, charges, together>>
        /\ thread' = [t \in Threads |-> IF t \in Jobs THEN Idle ELSE thread[t]]
    BY DEF RestartWorker, quota
  <1>2. Requests \subseteq Threads /\ \A t \in Requests : thread'[t] = thread[t]
    BY <1>1, ScanAssumption DEF Threads
  <1>3. QuotaTyped'
    BY <1>1, IdleIsQuiet DEF QInv, QuotaTyped
  <1>4. Counted' /\ FutureFree' /\ AloneCallers'
    BY <1>1 DEF QInv, Counted, FutureFree, AloneCallers
  <1>5. OneEach' /\ AloneRecords'
    BY <1>1, <1>2 DEF QInv, OneEach, AloneRecords
  <1>6. RecordsOk'
    BY <1>1, IdleIsQuiet DEF QInv, RecordsOk
  <1>7. QED
    BY <1>3, <1>4, <1>5, <1>6 DEF QInv

LEMMA WebKeeps ==
  ASSUME QInv, RestartWeb
  PROVE  QInv'
  <1>1. /\ UNCHANGED <<day, usage, together>> /\ guest' = [g \in Guests |-> None]
        /\ charges' = [c \in Metered |-> IF c \in Guests THEN [d \in Days |-> 0] ELSE charges[c]]
        /\ thread' = [t \in Threads |-> IF t \in Requests THEN Idle ELSE thread[t]]
    BY DEF RestartWeb
  <1>2. Requests \subseteq Threads /\ \A t \in Requests : thread'[t] = Idle
    BY <1>1 DEF Threads
  <1>3. /\ Free \subseteq Metered /\ Guests \subseteq Metered /\ Free \cap Guests = {}
        /\ Metered = Free \cup Guests
    BY ScanAssumption DEF Metered
  <1>4. /\ \A c \in Free : charges'[c] = charges[c]
        /\ \A g \in Guests, d \in Days : charges'[g][d] = 0
        /\ \A g \in Guests : guest'[g] = None
    BY <1>1, <1>3
  <1>5. QuotaTyped'
    <2>1. charges' \in [Metered -> [Days -> Nat]]
      BY <1>1 DEF QInv, QuotaTyped
    <2>2. thread' \in [Threads -> Records]
      BY <1>1, IdleIsQuiet DEF QInv, QuotaTyped
    <2>3. QED
      BY <1>1, <1>4, <2>1, <2>2 DEF QInv, QuotaTyped
  <1>6. Counted' /\ FutureFree'
    BY <1>1, <1>3, <1>4 DEF QInv, Counted, FutureFree
  <1>7. OneEach' /\ AloneRecords'
    BY <1>2, IdleIsQuiet DEF OneEach, AloneRecords, AloneRecord
  <1>8. RecordsOk'
    <2>1. SUFFICES ASSUME NEW t \in Threads PROVE RecordOk(t, thread'[t], day, charges')
      BY <1>1 DEF RecordsOk
    <2>2. CASE t \in Requests
      BY <1>2, <2>2, IdleIsQuiet
    <2>3. CASE t \notin Requests
      <3>1. thread'[t] = thread[t] /\ RecordOk(t, thread[t], day, charges)
        BY <1>1, <2>3 DEF QInv, RecordsOk
      <3>2. thread[t].pc \notin QuotaPcs \cup {"refused"}
        BY <2>3, <3>1 DEF RecordOk
      <3>3. QED
        BY <3>1, <3>2 DEF RecordOk, QuotaPcs
    <2>4. QED
      BY <2>2, <2>3
  <1>9. AloneCallers'
    <2>1. SUFFICES ASSUME NEW c \in Metered \ together
                   PROVE  AloneCaller(c, charges', usage', guest')
      BY <1>1 DEF AloneCallers
    <2>2. AloneCaller(c, charges, usage, guest)
      BY DEF QInv, AloneCallers
    <2>3. CASE c \in Guests
      BY <1>3, <1>4, <2>3, Limits DEF AloneCaller
    <2>4. CASE c \notin Guests
      BY <1>1, <1>3, <1>4, <2>2, <2>4 DEF AloneCaller
    <2>5. QED
      BY <2>3, <2>4
  <1>10. QED
    BY <1>5, <1>6, <1>7, <1>8, <1>9 DEF QInv

-----------------------------------------------------------------------------
(* The theorems.                                                           *)

LEMMA QuotaKept == ASSUME QInv, [Next]_vars PROVE QInv'
  <1>1. ASSUME UNCHANGED <<quota, thread>> PROVE QInv'
    <2>1. QuotaTyped' /\ Counted' /\ FutureFree' /\ OneEach'
      BY <1>1 DEF QInv, QuotaTyped, Counted, FutureFree, OneEach, quota
    <2>2. RecordsOk' /\ AloneRecords' /\ AloneCallers'
      BY <1>1 DEF QInv, RecordsOk, AloneRecords, AloneCallers, quota
    <2>3. QED
      BY <2>1, <2>2 DEF QInv
  <1>2. ASSUME NEW t \in Requests, QuotaStep(t) PROVE QInv'
    <2>1. t \in Threads
      BY DEF Threads
    <2>2. QED
      BY <1>2, <2>1, ArriveKeeps, CheckKeeps, ConsumeKeeps, SelectKeeps, InsertKeeps, RereadKeeps,
         UpdateKeeps DEF QuotaStep
  <1>3. ASSUME NEW j \in Jobs, StartJob(j) PROVE QInv'
    <2>1. j \in Threads /\ "scan" \in {"idle"} \cup ScanPcs
      BY DEF Threads, ScanPcs
    <2>2. QED
      BY <1>3, <2>1, Turned DEF StartJob
  <1>4. ASSUME NEW t \in Threads, ScanStep(t) PROVE QInv'
    <2>1. UNCHANGED quota /\ \E p \in {"idle", "persist"} : Turn(t, p)
      BY <1>4 DEF ScanStep, ScanFails, ScanStores, PersistSnapshot, PersistSkipped
    <2>2. QED
      BY <2>1, Turned DEF ScanPcs
  <1>5. QED
    BY <1>1, <1>2, <1>3, <1>4, DayKeeps, WorkerKeeps, WebKeeps
       DEF Next, vars, ReadCache, ReadSnapshot, ReadSnapshotFails

\* The daily quota means what it says to its callers: a refusal follows a whole charged quota, and a
\* caller whose requests follow one another gets exactly its quota on every day, through midnights,
\* failed inserts and restarts (routes/scan.py, plans.py).
THEOREM Quota == Spec => []QuotaSound
  <1>1. QInv /\ ReadsInv => TypeOK
    BY DEF QInv, QuotaTyped, ReadsInv, ScansTyped, TypeOK, Records, Pcs
  <1>2. QInv => RefusedOnlyWhenUsedUp
    BY DEF QInv, RecordsOk, RecordOk, RefusedOnlyWhenUsedUp, Threads
  <1>3. QInv => QuotaExactWhenAlone
    BY DEF QInv, AloneCallers, AloneCaller, QuotaExactWhenAlone
  <1>4. QInv /\ ReadsInv => QuotaSound
    BY <1>1, <1>2, <1>3 DEF QuotaSound
  <1>5. QED
    BY <1>4, QuotaBegins, QuotaKept, ReadsBegin, ReadsKept, PTL DEF Spec

\* A read of the scan that reached the database returns nothing older than what was published when
\* it began, whichever process published it and whatever restarted since (get_cached).
THEOREM Reads == Spec => []ReadsArePublished
  <1>1. ReadsInv => ReadsArePublished
    BY DEF ReadsInv, PromiseKept, ReadsArePublished
  <1>2. QED
    BY <1>1, ReadsBegin, ReadsKept, PTL DEF Spec

-----------------------------------------------------------------------------
(* GlobalLead.  A scan is told by the coins it listed and by what became of *)
(* each; the filters decide, and the stores follow.                         *)

(* Every set of numbers has a least one: the order of the numbers is well   *)
(* founded.                                                                 *)
LEMMA LeastNumber ==
  ASSUME NEW T \in SUBSET Nat, T # {}
  PROVE  \E x \in T : \A y \in T : x <= y
  <1> DEFINE R == {p \in Nat \X Nat : p[1] < p[2]}
  <1>1. IsWellFoundedOn(R, Nat)
    BY NatLessThanWellFounded DEF OpToRel
  <1>2. \A x, y \in Nat : x < y => <<x, y>> \in R
    OBVIOUS
  <1> HIDE DEF R
  <1>3. PICK x \in T : \A y \in T : <<y, x>> \notin R
    BY <1>1, WFMin
  <1>4. ASSUME NEW y \in T PROVE x <= y
    <2>1. x \in Nat /\ y \in Nat
      OBVIOUS
    <2>2. ~(y < x)
      BY <1>2, <1>3, <2>1
    <2>3. QED
      BY <2>1, <2>2
  <1>5. QED
    BY <1>4

\* So the minimum that the models choose is an element, and the least.
LEMMA MinIsLeast ==
  ASSUME NEW T \in SUBSET Nat, T # {}
  PROVE  Min(T) \in T /\ \A y \in T : Min(T) <= y
  <1>1. \E x \in T : \A y \in T : x <= y
    BY LeastNumber
  <1>2. QED
    BY <1>1 DEF Min

\* The verdicts of the filters.
Labels == {"no_ask", "volume", "spread", "stale", "global_24h", "vol_chg", "cmc1h", "local_24h",
           "btc_dump", "no_trend", "falling", "fading", "local_fall", "chase", "passed"}

\* The filters are seventeen, the last applies to every coin and it alone passes.
LEMMA FilterRow ==
  ASSUME NEW s, NEW row, NEW coin, NEW m, NEW dumping
  PROVE  LET f == Filters(s, row, coin, m, dumping)
         IN  /\ DOMAIN f = 1..17
             /\ \A i \in 1..17 : f[i][2] \in Labels /\ (f[i][2] = "passed" => i = 17)
             /\ f[17][1] = TRUE
             /\ f[11][1] = (m.observed = NoMove \/ m.observed < ObservedNeed)
  <1> DEFINE f == Filters(s, row, coin, m, dumping)
  <1>1. DOMAIN f = 1..17
    BY DEF Filters
  <1>2. f[17][1] = TRUE
    BY DEF Filters
  <1>3. f[11][1] = (m.observed = NoMove \/ m.observed < ObservedNeed)
    BY DEF Filters
  <1>4. \A i \in 1..17 : f[i][2] \in Labels /\ (f[i][2] = "passed" => i = 17)
    BY DEF Filters, Labels
  <1>5. QED
    BY <1>1, <1>2, <1>3, <1>4

LEMMA VerdictSays ==
  ASSUME NEW s, NEW row, NEW coin, NEW m, NEW dumping
  PROVE  /\ Verdict(s, row, coin, m, dumping) \in Labels
         /\ Verdict(s, row, coin, m, dumping) = "passed" => m.observed # NoMove
  <1> DEFINE f == Filters(s, row, coin, m, dumping)
             T == {i \in DOMAIN f : f[i][1]}
  <1>1. /\ DOMAIN f = 1..17
        /\ \A i \in 1..17 : f[i][2] \in Labels /\ (f[i][2] = "passed" => i = 17)
        /\ f[17][1] = TRUE
        /\ f[11][1] = (m.observed = NoMove \/ m.observed < ObservedNeed)
    BY FilterRow
  <1> HIDE DEF f
  <1>2. T \subseteq 1..17 /\ 17 \in T
    BY <1>1
  <1>3. T \in SUBSET Nat /\ T # {}
    BY <1>2
  <1>4. Min(T) \in T /\ \A y \in T : Min(T) <= y
    BY <1>3, MinIsLeast
  <1>5. Verdict(s, row, coin, m, dumping) = f[Min(T)][2]
    BY DEF Verdict, f
  <1>6. Min(T) \in 1..17
    BY <1>2, <1>4
  <1>7. ASSUME f[Min(T)][2] = "passed" PROVE m.observed # NoMove
    <2>1. Min(T) = 17
      BY <1>1, <1>6, <1>7
    <2>2. 11 \notin T
      BY <1>4, <2>1
    <2>3. ~f[11][1]
      BY <1>1, <2>2
    <2>4. QED
      BY <1>1, <2>3
  <1>8. QED
    BY <1>1, <1>5, <1>6, <1>7

\* A move is told only of a history as long as the lookback, or of three prices.
LEMMA MoveIsWatched ==
  ASSUME NEW h, Len(h) \in Int, NEW price, NEW want \in Int,
         LookbackMove(h, price, want) # NoMove
  PROVE  Len(h) >= Min({want, 3})
  <1>1. ~(Len(h) < Min({want, 3}))
    BY DEF LookbackMove
  <1>2. Min({want, 3}) \in Int
    <2>1. \E x \in {want, 3} : \A y \in {want, 3} : x <= y
      <3>1. CASE want <= 3
        BY <3>1
      <3>2. CASE 3 <= want
        BY <3>2
      <3>3. QED
        BY <3>1, <3>2
    <2>2. QED
      BY <2>1 DEF Min
  <1>3. QED
    BY <1>1, <1>2

\* What a scan may say of the coins it listed.
Outcomes == UNION {[D -> Labels \union {"no_cmc"}] : D \in SUBSET Coins}

\* What evaluate() leaves, told of the coins it listed and of what became of them.
Listed(global, live, outcome) ==
  /\ live \subseteq Coins
  /\ DOMAIN outcome = live /\ outcome \in Outcomes
  /\ \A s \in live : outcome[s] = "no_cmc" <=> s \notin DOMAIN global
  /\ \A s \in live : outcome[s] = "passed" => Len(usdHistory[s]) >= Min({conf.lookback, 3})

Stored(global, live, outcome) ==
  /\ usdHistory' = RecordUsd(global, live)
  /\ verdicts' = Append(verdicts, outcome)
  /\ hits' = [s \in {x \in DOMAIN hits \cap live : outcome[x] \notin Resets}
                    \union {x \in live : outcome[x] = "passed"} |->
                (IF s \in DOMAIN hits THEN hits[s] ELSE 0)
                + (IF outcome[s] = "passed" THEN 1 ELSE 0)]
  /\ firstSeen' = [s \in Kept(live, outcome) \union {x \in live : outcome[x] = "passed"} |->
                     IF s \in DOMAIN firstSeen THEN firstSeen[s] ELSE now]
  /\ DOMAIN lastMove' = (DOMAIN lastMove \cap live) \union {x \in live : outcome[x] = "passed"}
  /\ \A i \in DOMAIN candidates' :
       candidates'[i].coin \in live /\ outcome[candidates'[i].coin] = "passed"
  /\ UNCHANGED conf

LEMMA Evaluated ==
  ASSUME NEW local, NEW payload, Evaluate(local, payload), DOMAIN local \subseteq Coins,
         conf.lookback \in Int, \A s \in Coins : Len(usdHistory[s]) \in Int
  PROVE  \E global, live, outcome : Listed(global, live, outcome) /\ Stored(global, live, outcome)
  <1>1. PICK global : global = GlobalMap(payload)
    OBVIOUS
  <1>2. PICK live : live = DOMAIN local \ Stablecoins
    OBVIOUS
  <1>3. PICK dumping : dumping = BtcDumping(global)
    OBVIOUS
  <1>4. PICK m : m = [s \in live \cap DOMAIN global |-> Measure(s, local, global)]
    OBVIOUS
  <1>5. PICK outcome : outcome = [s \in live |->
                    IF s \notin live \cap DOMAIN global THEN "no_cmc"
                    ELSE Verdict(s, local[s], global[s], m[s], dumping)]
    OBVIOUS
  <1>6. PICK passed : passed = {s \in live : outcome[s] = "passed"}
    OBVIOUS
  <1>7. PICK count : count = [s \in {x \in DOMAIN hits \cap live : outcome[x] \notin Resets} \cup passed |->
                    (IF s \in DOMAIN hits THEN hits[s] ELSE 0)
                    + (IF s \in passed THEN 1 ELSE 0)]
    OBVIOUS
  <1>8. \A s \in live \cap DOMAIN global :
          /\ outcome[s] \in Labels
          /\ outcome[s] = "passed" => m[s].observed # NoMove
    BY <1>5, VerdictSays
  <1>9. "no_cmc" \notin Labels
    BY DEF Labels
  <1>10. \A s \in live \ DOMAIN global : outcome[s] = "no_cmc"
    BY <1>5
  <1>11. \A s \in live \cap DOMAIN global : outcome[s] # "no_cmc"
    BY <1>8, <1>9
  <1>12. live \subseteq Coins /\ DOMAIN outcome = live /\ outcome \in [live -> Labels \union {"no_cmc"}]
    BY <1>2, <1>5, <1>8, <1>10
  <1>13. outcome \in Outcomes
    BY <1>12 DEF Outcomes
  <1>14. ASSUME NEW s \in live, outcome[s] = "passed"
         PROVE  Len(usdHistory[s]) >= Min({conf.lookback, 3})
    <2>1. "passed" # "no_cmc"
      OBVIOUS
    <2>2. s \in live \cap DOMAIN global
      BY <1>10, <1>14, <2>1
    <2>3. LookbackMove(usdHistory[s], global[s].price, conf.lookback) # NoMove
      BY <1>4, <1>8, <1>14, <2>2 DEF Measure
    <2>4. QED
      BY <1>12, <1>14, <2>3, MoveIsWatched
  <1>15. Listed(global, live, outcome)
    BY <1>10, <1>11, <1>12, <1>13, <1>14 DEF Listed
  <1>16. /\ usdHistory' = RecordUsd(global, live)
         /\ verdicts' = Append(verdicts, outcome)
         /\ firstSeen' = [s \in Kept(live, outcome) \cup passed |->
                            IF s \in DOMAIN firstSeen THEN firstSeen[s] ELSE now]
         /\ UNCHANGED conf
    BY <1>1, <1>2, <1>3, <1>4, <1>5, <1>6 DEF Evaluate
  <1>17. hits' = count
    BY <1>1, <1>2, <1>3, <1>4, <1>5, <1>6, <1>7 DEF Evaluate
  <1>18. DOMAIN lastMove' = (DOMAIN lastMove \cap live) \cup passed
    BY <1>1, <1>2, <1>3, <1>4, <1>5, <1>6 DEF Evaluate
  <1>19. \E chosen \in SUBSET passed : \E order \in Orders(chosen) :
           /\ DOMAIN candidates' = DOMAIN order
           /\ \A i \in DOMAIN order : candidates'[i].coin = order[i]
    <2> DEFINE g == GlobalMap(payload)
               lv == DOMAIN local \ Stablecoins
               d == BtcDumping(g)
               mm == [s \in lv \cap DOMAIN g |-> Measure(s, local, g)]
               o == [s \in lv |-> IF s \notin lv \cap DOMAIN g THEN "no_cmc"
                                  ELSE Verdict(s, local[s], g[s], mm[s], d)]
               p == {s \in lv : o[s] = "passed"}
               c == [s \in {x \in DOMAIN hits \cap lv : o[x] \notin Resets} \cup p |->
                       (IF s \in DOMAIN hits THEN hits[s] ELSE 0) + (IF s \in p THEN 1 ELSE 0)]
               need(s) == IF StrongNow(s, g[s], mm[s], d) THEN 1 ELSE conf.confirm
               chosen == {s \in p : c[s] >= need(s)}
    <2>1. PICK order \in Orders(chosen) :
            candidates' = [i \in DOMAIN order |->
                   [coin |-> order[i], hits |-> c[order[i]],
                    hold |-> now - firstSeen'[order[i]],
                    move |-> mm[order[i]].observed,
                    score |-> LeadScore(local[order[i]], g[order[i]], mm[order[i]], c[order[i]]),
                    eagle |-> Guarded(order[i], d)]]
      BY Zenon DEF Evaluate
    <2>2. chosen \in SUBSET p
      OBVIOUS
    <2>3. p = passed
      BY <1>1, <1>2, <1>3, <1>4, <1>5, <1>6
    <2> HIDE DEF chosen, p
    <2>4. QED
      BY <2>1, <2>2, <2>3
  <1>20. \A i \in DOMAIN candidates' : candidates'[i].coin \in passed
    <2>1. PICK chosen \in SUBSET passed : \E order \in Orders(chosen) :
           /\ DOMAIN candidates' = DOMAIN order
           /\ \A i \in DOMAIN order : candidates'[i].coin = order[i]
      BY <1>19
    <2>2. PICK order \in Orders(chosen) :
           /\ DOMAIN candidates' = DOMAIN order
           /\ \A i \in DOMAIN order : candidates'[i].coin = order[i]
      BY <2>1
    <2>3. order \in [1..Cardinality(chosen) -> chosen]
      BY <2>2 DEF Orders
    <2>4. QED
      BY <2>1, <2>2, <2>3
  <1>21. Stored(global, live, outcome)
    BY <1>6, <1>7, <1>16, <1>17, <1>18, <1>20 DEF Stored
  <1>22. QED
    BY <1>15, <1>21

\* The scans that recorded a global price of coin s.
Seen(s) == {n \in DOMAIN verdicts : s \in DOMAIN verdicts[n] /\ verdicts[n][s] # "no_cmc"}

\* The prices are a sequence of something.
IsHistory(h) == \E S : h \in Seq(S)

WatchTyped ==
  /\ verdicts \in Seq(Outcomes)
  /\ "lookback" \in DOMAIN conf /\ conf.lookback \in Nat \ {0}
  /\ DOMAIN usdHistory = Coins
  /\ \A s \in Coins : IsHistory(usdHistory[s])

HistoriesAreSeen == \A s \in Coins : Len(usdHistory[s]) <= Cardinality(Seen(s))

\* TrendsAreScans with the minimum spelt out.
TrendsKept ==
  /\ DOMAIN hits = {s \in Coins : Confirming(s) # {}}
  /\ DOMAIN firstSeen = DOMAIN hits
  /\ DOMAIN hits \subseteq DOMAIN lastMove
  /\ \A s \in DOMAIN hits : /\ hits[s] = Cardinality(Confirming(s))
                            /\ firstSeen[s] \in Confirming(s)
                            /\ \A n \in Confirming(s) : firstSeen[s] <= n

WatchInv == WatchTyped /\ HistoriesAreSeen /\ TrendsKept

LEMMA HistoryGrows ==
  ASSUME NEW h, IsHistory(h), NEW price
  PROVE  /\ Len(h) \in Nat
         /\ IsHistory(Record(h, price)) /\ Len(Record(h, price)) <= Len(h) + 1
  <1>1. PICK S : h \in Seq(S)
    BY DEF IsHistory
  <1>2. h \in Seq(S \union {price})
    BY <1>1
  <1>3. PICK T : T = S \union {price}
    OBVIOUS
  <1>4. h \in Seq(T) /\ price \in T
    BY <1>2, <1>3
  <1>5. CASE Len(h) < LeadHistory
    <2>1. Append(h, price) \in Seq(T) /\ Len(Append(h, price)) = Len(h) + 1 /\ Len(h) \in Nat
      BY <1>4
    <2>2. QED
      BY <1>5, <2>1 DEF Record, IsHistory
  <1>6. CASE ~(Len(h) < LeadHistory)
    <2>1. h # <<>>
      <3>1. CASE h = <<>>
        <4>1. Len(h) = 0
          BY <3>1
        <4>2. QED
          BY <1>6, <4>1, LeadAssumption
      <3>2. QED
        BY <3>1
    <2>2. Tail(h) \in Seq(T) /\ Len(Tail(h)) = Len(h) - 1 /\ Len(h) \in Nat
      BY <1>4, <2>1
    <2>3. Append(Tail(h), price) \in Seq(T) /\ Len(Append(Tail(h), price)) = Len(Tail(h)) + 1
      BY <1>4, <2>2
    <2>4. QED
      BY <1>6, <2>2, <2>3 DEF Record, IsHistory
  <1>7. QED
    BY <1>1, <1>5, <1>6

LEMMA OneMore ==
  ASSUME NEW S, NEW q \in Seq(S), NEW e \in S
  PROVE  /\ Append(q, e) \in Seq(S) /\ Len(Append(q, e)) = Len(q) + 1 /\ Len(q) \in Nat
         /\ DOMAIN q = 1..Len(q) /\ DOMAIN Append(q, e) = 1..(Len(q) + 1)
         /\ \A n \in 1..Len(q) : Append(q, e)[n] = q[n]
         /\ Append(q, e)[Len(q) + 1] = e
  OBVIOUS

\* The scans of a log that count for a coin are finitely many.
LEMMA Finite ==
  ASSUME WatchTyped, NEW s
  PROVE  /\ IsFiniteSet(Seen(s)) /\ Cardinality(Seen(s)) \in Nat /\ Len(verdicts) + 1 \notin Seen(s)
         /\ IsFiniteSet(Confirming(s)) /\ Cardinality(Confirming(s)) \in Nat
         /\ Len(verdicts) + 1 \notin Confirming(s)
         /\ Confirming(s) \subseteq 1..Len(verdicts)
  <1>1. DOMAIN verdicts = 1..Len(verdicts) /\ Len(verdicts) \in Nat
    BY DEF WatchTyped
  <1>2. IsFiniteSet(1..Len(verdicts))
    BY <1>1, FS_Interval
  <1>3. Seen(s) \subseteq 1..Len(verdicts) /\ Confirming(s) \subseteq 1..Len(verdicts)
    BY <1>1 DEF Seen, Confirming
  <1>4. Len(verdicts) + 1 \notin 1..Len(verdicts)
    BY <1>1
  <1>5. QED
    BY <1>2, <1>3, <1>4, FS_Subset, FS_CardinalityType

\* One more scan: what it adds to the scans of a coin.
LEMMA NextScan ==
  ASSUME WatchTyped, NEW live, NEW outcome \in Outcomes, DOMAIN outcome = live,
         verdicts' = Append(verdicts, outcome), NEW s
  PROVE  /\ Seen(s)' = IF s \in live /\ outcome[s] # "no_cmc"
                       THEN Seen(s) \union {Len(verdicts) + 1} ELSE Seen(s)
         /\ s \notin live => Confirming(s)' = {}
         /\ s \in live /\ outcome[s] \in Resets => Confirming(s)' = {}
         /\ s \in live /\ outcome[s] \notin Resets =>
              Confirming(s)' = IF outcome[s] = "passed"
                               THEN Confirming(s) \union {Len(verdicts) + 1} ELSE Confirming(s)
  <1> DEFINE N == Len(verdicts)
             w == Append(verdicts, outcome)
  <1>1. /\ N \in Nat /\ DOMAIN verdicts = 1..N /\ DOMAIN w = 1..(N + 1) /\ Len(w) = N + 1
        /\ \A n \in 1..N : w[n] = verdicts[n]
        /\ w[N + 1] = outcome
    BY OneMore DEF WatchTyped
  <1>2. Seen(s)' = {n \in DOMAIN w : s \in DOMAIN w[n] /\ w[n][s] # "no_cmc"}
    BY DEF Seen
  <1>3. Confirming(s)' = {n \in DOMAIN w : /\ \A k \in n..Len(w) : s \in DOMAIN w[k] /\ w[k][s] \notin Resets
                                           /\ w[n][s] = "passed"}
    BY DEF Confirming
  <1>4. N = Len(verdicts)
    OBVIOUS
  <1> HIDE DEF w, N
  <1>5. Seen(s)' = IF s \in live /\ outcome[s] # "no_cmc" THEN Seen(s) \union {N + 1} ELSE Seen(s)
    BY <1>1, <1>2 DEF Seen
  <1>6. ASSUME s \notin live \/ outcome[s] \in Resets
        PROVE  Confirming(s)' = {}
    <2>1. \A n \in 1..(N + 1) : N + 1 \in n..(N + 1)
      BY <1>1
    <2>2. QED
      BY <1>1, <1>3, <1>6, <2>1
  <1>7. ASSUME s \in live, outcome[s] \notin Resets
        PROVE  Confirming(s)' = IF outcome[s] = "passed"
                               THEN Confirming(s) \union {N + 1} ELSE Confirming(s)
    <2>1. \A n \in 1..N : n..(N + 1) = (n..N) \union {N + 1}
      BY <1>1
    <2>2. ASSUME NEW n \in 1..N
          PROVE  n \in Confirming(s)' <=> n \in Confirming(s)
      <3>1. n \in Confirming(s)' <=> /\ \A k \in n..(N + 1) : s \in DOMAIN w[k] /\ w[k][s] \notin Resets
                                     /\ w[n][s] = "passed"
        BY <1>1, <1>3
      <3>2. (\A k \in n..(N + 1) : s \in DOMAIN w[k] /\ w[k][s] \notin Resets)
            <=> (\A k \in n..N : s \in DOMAIN verdicts[k] /\ verdicts[k][s] \notin Resets)
        <4>1. \A k \in n..N : k \in 1..N /\ w[k] = verdicts[k]
          BY <1>1
        <4>2. s \in DOMAIN w[N + 1] /\ w[N + 1][s] \notin Resets
          BY <1>1, <1>7
        <4>3. QED
          BY <2>1, <4>1, <4>2
      <3>3. n \in Confirming(s) <=> /\ \A k \in n..N : s \in DOMAIN verdicts[k] /\ verdicts[k][s] \notin Resets
                                    /\ verdicts[n][s] = "passed"
        BY <1>1, <1>4 DEF Confirming
      <3>4. w[n] = verdicts[n]
        BY <1>1
      <3>5. QED
        BY <3>1, <3>2, <3>3, <3>4
    <2>3. N + 1 \in Confirming(s)' <=> outcome[s] = "passed"
      <3>1. (N + 1)..(N + 1) = {N + 1}
        BY <1>1
      <3>2. QED
        BY <1>1, <1>3, <1>7, <3>1
    <2>4. Confirming(s)' \subseteq 1..(N + 1) /\ Confirming(s) \subseteq 1..N
      BY <1>1, <1>3 DEF Confirming
    <2>5. 1..(N + 1) = (1..N) \union {N + 1} /\ N + 1 \notin 1..N
      BY <1>1
    <2>6. PICK C, D : C = Confirming(s)' /\ D = Confirming(s)
      OBVIOUS
    <2>7. /\ \A n \in 1..N : n \in C <=> n \in D
          /\ N + 1 \in C <=> outcome[s] = "passed"
          /\ C \subseteq (1..N) \union {N + 1} /\ D \subseteq 1..N
      BY <2>2, <2>3, <2>4, <2>5, <2>6
    <2>8. CASE outcome[s] = "passed"
      <3>1. C = D \union {N + 1}
        BY <2>7, <2>8
      <3>2. QED
        BY <2>6, <2>8, <3>1
    <2>9. CASE outcome[s] # "passed"
      <3>1. C = D
        BY <2>7, <2>9
      <3>2. QED
        BY <2>6, <2>9, <3>1
    <2>10. QED
      BY <2>8, <2>9
  <1>8. QED
    BY <1>4, <1>5, <1>6, <1>7

LEMMA WatchBegins == ASSUME LeadInit PROVE WatchInv
  <1>1. verdicts \in Seq(Outcomes) /\ DOMAIN verdicts = {}
    BY DEF LeadInit
  <1>2. \A s : Seen(s) = {} /\ Confirming(s) = {}
    BY <1>1 DEF Seen, Confirming
  <1>3. \A s \in Coins : IsHistory(usdHistory[s]) /\ Len(usdHistory[s]) = 0
    <2>1. <<>> \in Seq({}) /\ Len(<<>>) = 0
      OBVIOUS
    <2>2. IsHistory(<<>>)
      BY <2>1 DEF IsHistory
    <2>3. QED
      BY <2>1, <2>2 DEF LeadInit
  <1>4. WatchTyped
    BY <1>1, <1>3, LeadAssumption DEF LeadInit, WatchTyped
  <1>5. HistoriesAreSeen
    BY <1>2, <1>3, FS_EmptySet DEF HistoriesAreSeen
  <1>6. DOMAIN hits = {} /\ DOMAIN firstSeen = {} /\ DOMAIN lastMove = {}
    BY DEF LeadInit
  <1>7. TrendsKept
    BY <1>2, <1>6 DEF TrendsKept
  <1>8. QED
    BY <1>4, <1>5, <1>7 DEF WatchInv

\* One scan.
LEMMA ScanKeepsTyped ==
  ASSUME WatchInv, NEW global, NEW live, NEW outcome,
         Listed(global, live, outcome), Stored(global, live, outcome)
  PROVE  WatchTyped' /\ HistoriesAreSeen'
  <1>1. verdicts' \in Seq(Outcomes)
    BY OneMore DEF Stored, Listed, WatchInv, WatchTyped
  <1>2. ASSUME NEW s \in Coins
        PROVE  /\ IsHistory(usdHistory'[s])
               /\ Len(usdHistory'[s]) <= Cardinality(Seen(s)')
    <2>1. PICK h : h = usdHistory[s]
      OBVIOUS
    <2>2. IsHistory(h) /\ Len(h) <= Cardinality(Seen(s)) /\ Len(h) \in Nat
      BY <2>1, HistoryGrows DEF WatchInv, WatchTyped, HistoriesAreSeen
    <2>3. PICK c : c = Cardinality(Seen(s))
      OBVIOUS
    <2>4. c \in Nat /\ Cardinality(Seen(s) \union {Len(verdicts) + 1}) = c + 1
      BY <2>3, Finite, FS_AddElement DEF WatchInv
    <2>5. CASE s \in live /\ outcome[s] # "no_cmc"
      <3>1. s \in DOMAIN global
        BY <2>5 DEF Listed
      <3>2. usdHistory'[s] = Record(h, global[s].price)
        BY <2>1, <2>5, <3>1 DEF Stored, RecordUsd
      <3>3. /\ IsHistory(Record(h, global[s].price))
            /\ Len(Record(h, global[s].price)) <= Len(h) + 1
            /\ Len(Record(h, global[s].price)) \in Nat
        BY <2>2, HistoryGrows
      <3>4. Seen(s)' = Seen(s) \union {Len(verdicts) + 1}
        BY <2>5, NextScan DEF Stored, Listed, WatchInv
      <3>5. QED
        BY <2>2, <2>3, <2>4, <3>2, <3>3, <3>4
    <2>6. CASE ~(s \in live /\ outcome[s] # "no_cmc")
      <3>1. s \in live => s \notin DOMAIN global
        BY <2>6 DEF Listed
      <3>2. usdHistory'[s] = h
        BY <2>1, <3>1 DEF Stored, RecordUsd
      <3>3. Seen(s)' = Seen(s)
        BY <2>6, NextScan DEF Stored, Listed, WatchInv
      <3>4. QED
        BY <2>2, <3>2, <3>3
    <2>7. QED
      BY <2>5, <2>6
  <1>3. DOMAIN usdHistory' = Coins
    BY DEF Stored, RecordUsd
  <1>4. "lookback" \in DOMAIN conf' /\ conf'.lookback \in Nat \ {0}
    BY DEF Stored, WatchInv, WatchTyped
  <1>5. WatchTyped'
    BY <1>1, <1>2, <1>3, <1>4 DEF WatchTyped
  <1>6. HistoriesAreSeen'
    BY <1>2 DEF HistoriesAreSeen
  <1>7. QED
    BY <1>5, <1>6

LEMMA ScanKeepsTrends ==
  ASSUME WatchInv, NEW global, NEW live, NEW outcome,
         Listed(global, live, outcome), Stored(global, live, outcome)
  PROVE  TrendsKept'
  <1>1. PICK passed : passed = {x \in live : outcome[x] = "passed"}
    OBVIOUS
  <1>2. PICK kept : kept = {x \in DOMAIN hits \cap live : outcome[x] \notin Resets}
    OBVIOUS
  <1>3. "passed" \notin Resets
    BY DEF Resets
  <1>4. DOMAIN hits' = kept \union passed
    BY <1>1, <1>2 DEF Stored
  <1>5. DOMAIN firstSeen' = kept \union passed
    <2>1. Kept(live, outcome) = kept
      BY <1>2 DEF Kept, WatchInv, TrendsKept
    <2>2. QED
      BY <1>1, <2>1 DEF Stored
  <1>6. DOMAIN lastMove' = (DOMAIN lastMove \cap live) \union passed
    BY <1>1 DEF Stored
  <1>7. DOMAIN hits' \subseteq DOMAIN lastMove'
    BY <1>2, <1>4, <1>6 DEF WatchInv, TrendsKept
  <1>8. live \subseteq Coins /\ DOMAIN hits \subseteq Coins
    BY DEF Listed, WatchInv, TrendsKept
  <1>9. ASSUME NEW s \in Coins
        PROVE  /\ s \in kept \union passed <=> Confirming(s)' # {}
               /\ s \in kept \union passed =>
                    /\ hits'[s] = Cardinality(Confirming(s)')
                    /\ firstSeen'[s] \in Confirming(s)'
                    /\ \A n \in Confirming(s)' : firstSeen'[s] <= n
    <2>1. PICK C, N : C = Confirming(s) /\ N = Len(verdicts)
      OBVIOUS
    <2>2. /\ IsFiniteSet(C) /\ Cardinality(C) \in Nat /\ N + 1 \notin C /\ C \subseteq 1..N
          /\ N \in Nat
      BY <2>1, Finite DEF WatchInv, WatchTyped
    <2>3. Cardinality(C \union {N + 1}) = Cardinality(C) + 1
      BY <2>2, FS_AddElement
    <2>4. /\ s \notin live => Confirming(s)' = {}
          /\ s \in live /\ outcome[s] \in Resets => Confirming(s)' = {}
          /\ s \in live /\ outcome[s] \notin Resets =>
               Confirming(s)' = IF outcome[s] = "passed" THEN C \union {N + 1} ELSE C
      BY <2>1, NextScan DEF Stored, Listed, WatchInv
    <2>5. /\ s \in DOMAIN hits <=> C # {}
          /\ s \in DOMAIN hits => /\ hits[s] = Cardinality(C) /\ firstSeen[s] \in C
                                  /\ \A n \in C : firstSeen[s] <= n
          /\ DOMAIN firstSeen = DOMAIN hits
      BY <2>1 DEF WatchInv, TrendsKept
    <2>6. CASE s \notin live \/ outcome[s] \in Resets
      <3>1. Confirming(s)' = {}
        BY <2>4, <2>6
      <3>2. s \notin kept /\ s \notin passed
        BY <1>1, <1>2, <1>3, <2>6
      <3>3. QED
        BY <3>1, <3>2
    <2>7. CASE s \in live /\ outcome[s] \notin Resets /\ outcome[s] # "passed"
      <3>1. Confirming(s)' = C /\ (s \in kept \union passed <=> s \in DOMAIN hits)
        BY <1>1, <1>2, <2>4, <2>7
      <3>2. ASSUME s \in kept PROVE hits'[s] = hits[s] + 0 /\ firstSeen'[s] = firstSeen[s]
        BY <1>2, <2>5, <2>7, <3>2 DEF Stored, Kept
      <3>3. s \notin passed
        BY <1>1, <2>7
      <3>4. CASE s \in kept
        <4>1. s \in DOMAIN hits
          BY <1>2, <3>4
        <4>2. /\ hits[s] = Cardinality(C) /\ Cardinality(C) + 0 = Cardinality(C)
              /\ firstSeen[s] \in C /\ \A n \in C : firstSeen[s] <= n /\ C # {}
          BY <2>2, <2>5, <4>1
        <4>3. hits'[s] = Cardinality(C) /\ firstSeen'[s] = firstSeen[s]
          BY <3>2, <3>4, <4>2
        <4>4. QED
          BY <3>1, <3>4, <4>2, <4>3
      <3>5. CASE s \notin kept
        <4>1. C = {} /\ s \notin kept \union passed
          BY <2>5, <3>1, <3>3, <3>5
        <4>2. QED
          BY <3>1, <4>1
      <3>6. QED
        BY <3>4, <3>5
    <2>8. CASE s \in live /\ outcome[s] = "passed"
      <3>1. Confirming(s)' = C \union {N + 1} /\ s \in passed
        BY <1>1, <1>3, <2>4, <2>8
      <3>2. hits'[s] = (IF s \in DOMAIN hits THEN hits[s] ELSE 0) + 1
        BY <2>8 DEF Stored
      <3>3. firstSeen'[s] = IF s \in DOMAIN firstSeen THEN firstSeen[s] ELSE N + 1
        BY <2>1, <2>8 DEF Stored, now
      <3>4. CASE s \in DOMAIN hits
        <4>1. hits'[s] = Cardinality(C) + 1 /\ firstSeen'[s] \in C /\ \A n \in C : firstSeen'[s] <= n
          BY <2>5, <3>2, <3>3, <3>4
        <4>2. firstSeen'[s] <= N + 1
          <5>1. firstSeen'[s] \in 1..N
            BY <2>2, <4>1
          <5>2. QED
            BY <2>2, <5>1
        <4>3. QED
          BY <2>3, <3>1, <4>1, <4>2
      <3>5. CASE s \notin DOMAIN hits
        <4>1. C = {} /\ hits'[s] = 0 + 1 /\ firstSeen'[s] = N + 1
          BY <2>5, <3>2, <3>3, <3>5
        <4>2. Cardinality(C) = 0 /\ N + 1 <= N + 1
          BY <2>2, <4>1, FS_EmptySet
        <4>3. QED
          BY <2>3, <3>1, <4>1, <4>2
      <3>6. QED
        BY <3>4, <3>5
    <2>9. QED
      BY <2>6, <2>7, <2>8
  <1>10. kept \union passed \subseteq Coins
    BY <1>1, <1>2, <1>8
  <1>11. DOMAIN hits' = {s \in Coins : Confirming(s)' # {}}
    BY <1>4, <1>9, <1>10
  <1>12. QED
    BY <1>4, <1>5, <1>7, <1>9, <1>10, <1>11 DEF TrendsKept

LEMMA ConfigureKeeps ==
  ASSUME WatchInv, NEW change \in Changes, Configure(change)
  PROVE  WatchInv' /\ UNCHANGED <<usdHistory, hits, firstSeen, lastMove, candidates, verdicts>>
  <1>1. UNCHANGED <<usdHistory, hits, firstSeen, lastMove, candidates, verdicts>>
    BY DEF Configure
  <1>2. DOMAIN conf' = DOMAIN conf
    BY DEF Configure
  <1>3. conf'["lookback"] = IF "lookback" \notin DOMAIN change THEN conf["lookback"]
                            ELSE Max({1, change["lookback"]})
    BY DEF Configure, WatchInv, WatchTyped
  <1>4. conf'["lookback"] \in Nat \ {0}
    <2>1. CASE "lookback" \notin DOMAIN change
      BY <1>3, <2>1 DEF WatchInv, WatchTyped
    <2>2. CASE "lookback" \in DOMAIN change
      <3>1. PICK k : k = change["lookback"] /\ k \in Int
        BY <2>2, LeadAssumption
      <3>2. \E x \in {1, k} : \A y \in {1, k} : x >= y
        <4>1. CASE k >= 1
          BY <3>1, <4>1
        <4>2. CASE 1 >= k
          BY <3>1, <4>2
        <4>3. QED
          BY <3>1, <4>1, <4>2
      <3>3. Max({1, k}) \in {1, k} /\ Max({1, k}) >= 1
        BY <3>2 DEF Max
      <3>4. QED
        BY <1>3, <2>2, <3>1, <3>3
    <2>3. QED
      BY <2>1, <2>2
  <1>5. WatchTyped'
    BY <1>1, <1>2, <1>4 DEF WatchInv, WatchTyped
  <1>6. HistoriesAreSeen' /\ TrendsKept'
    BY <1>1 DEF WatchInv, HistoriesAreSeen, TrendsKept, Seen, Confirming
  <1>7. QED
    BY <1>1, <1>5, <1>6 DEF WatchInv

LEMMA TrendsAreTold == ASSUME WatchInv PROVE TrendsAreScans
  <1>1. ASSUME NEW s \in DOMAIN hits
        PROVE  firstSeen[s] = Min(Confirming(s))
    <2>1. PICK C : C = Confirming(s)
      OBVIOUS
    <2>2. C \subseteq Nat /\ firstSeen[s] \in C /\ \A n \in C : firstSeen[s] <= n
      <3>1. \A n \in 1..Len(verdicts) : n \in Nat
        BY DEF WatchInv, WatchTyped
      <3>2. QED
        BY <2>1, <3>1, Finite DEF WatchInv, TrendsKept
    <2>3. Min(C) \in C /\ \A n \in C : Min(C) <= n
      BY <2>2, MinIsLeast
    <2>4. Min(C) \in Nat /\ firstSeen[s] \in Nat /\ Min(C) <= firstSeen[s] /\ firstSeen[s] <= Min(C)
      BY <2>2, <2>3
    <2>5. Min(C) = firstSeen[s]
      BY <2>4
    <2>6. QED
      BY <2>1, <2>5
  <1>2. QED
    BY <1>1 DEF WatchInv, TrendsKept, TrendsAreScans

LEMMA WatchStep ==
  ASSUME WatchInv, [LeadNext]_leadVars
  PROVE  /\ WatchInv'
         /\ CandidatesWereWatched
  <1>1. CASE UNCHANGED leadVars
    <2>1. UNCHANGED <<conf, usdHistory, hits, firstSeen, lastMove, candidates, verdicts>>
      BY <1>1 DEF leadVars
    <2>2. WatchTyped' /\ HistoriesAreSeen'
      BY <2>1 DEF WatchInv, WatchTyped, HistoriesAreSeen, Seen
    <2>3. \A s : Confirming(s)' = Confirming(s)
      BY <2>1 DEF Confirming
    <2>4. TrendsKept'
      <3>1. {s \in Coins : Confirming(s)' # {}} = {s \in Coins : Confirming(s) # {}}
        BY <2>3
      <3>2. QED
        BY <2>1, <2>3, <3>1 DEF WatchInv, TrendsKept
    <2>5. QED
      BY <2>1, <2>2, <2>4 DEF WatchInv, CandidatesWereWatched
  <1>2. ASSUME NEW change \in Changes, Configure(change)
        PROVE  WatchInv' /\ CandidatesWereWatched
    BY <1>2, ConfigureKeeps DEF CandidatesWereWatched
  <1>3. ASSUME NEW market \in Markets, Evaluate(market.local, market.payload)
        PROVE  WatchInv' /\ CandidatesWereWatched
    <2>1. conf.lookback \in Int /\ \A s \in Coins : Len(usdHistory[s]) \in Int
      BY HistoryGrows DEF WatchInv, WatchTyped
    <2>2. PICK global, live, outcome : Listed(global, live, outcome) /\ Stored(global, live, outcome)
      BY <1>3, <2>1, Evaluated, LeadAssumption
    <2>3. WatchInv'
      BY <2>2, ScanKeepsTyped, ScanKeepsTrends DEF WatchInv
    <2>4. ASSUME NEW i \in DOMAIN candidates'
          PROVE  Cardinality(Observed(candidates'[i].coin, verdicts')) >= Min({conf.lookback, 3})
      <3>1. PICK s : s = candidates'[i].coin
        OBVIOUS
      <3>2. s \in live /\ outcome[s] = "passed" /\ s \in Coins
        BY <2>2, <3>1 DEF Stored, Listed
      <3>3. Len(usdHistory[s]) >= Min({conf.lookback, 3})
        BY <2>2, <3>2 DEF Listed
      <3>4. /\ Len(verdicts') = Len(verdicts) + 1 /\ Len(verdicts) \in Nat
            /\ DOMAIN verdicts = 1..Len(verdicts)
            /\ \A n \in 1..Len(verdicts) : verdicts'[n] = verdicts[n]
        BY <2>2, OneMore DEF WatchInv, WatchTyped, Listed, Stored
      <3>5. Len(verdicts') - 1 = Len(verdicts)
        BY <3>4
      <3>6. Observed(s, verdicts') = Seen(s)
        BY <3>4, <3>5 DEF Observed, Seen
      <3>7. Len(usdHistory[s]) <= Cardinality(Seen(s)) /\ Cardinality(Seen(s)) \in Int
            /\ Len(usdHistory[s]) \in Int /\ Min({conf.lookback, 3}) \in Int
        <4>1. Min({conf.lookback, 3}) \in {conf.lookback, 3}
          <5>1. {conf.lookback, 3} \in SUBSET Nat /\ {conf.lookback, 3} # {}
            BY DEF WatchInv, WatchTyped
          <5>2. QED
            BY <5>1, MinIsLeast
        <4>2. QED
          BY <2>1, <3>2, <4>1, Finite DEF WatchInv, HistoriesAreSeen
      <3>8. QED
        BY <3>1, <3>3, <3>6, <3>7
    <2>5. QED
      BY <2>3, <2>4 DEF CandidatesWereWatched
  <1>4. QED
    BY <1>1, <1>2, <1>3 DEF LeadNext

(* What the lead engine stores of a coin tells of the scans it passed, and   *)
(* a candidate's coin was watched before, for any coins, markets, settings   *)
(* and changes of them (GlobalLeadEngine.evaluate).                          *)
THEOREM Watched == LeadSpec => CandidateWasWatched
  <1>1. LeadInit => WatchInv
    BY WatchBegins
  <1>2. WatchInv /\ [LeadNext]_leadVars => WatchInv'
    BY WatchStep
  <1>3. WatchInv /\ WatchInv' /\ [LeadNext]_leadVars => [TrendsAreScans' /\ CandidatesWereWatched]_leadVars
    <2>1. WatchInv => TrendsAreScans
      BY TrendsAreTold
    <2>2. WatchInv' => TrendsAreScans'
      BY <2>1, PTL
    <2>3. QED
      BY <2>2, WatchStep
  <1>4. QED
    BY <1>1, <1>2, <1>3, PTL DEF LeadSpec, CandidateWasWatched
=============================================================================
