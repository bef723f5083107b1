---------------------------- MODULE ScanService ----------------------------
(***************************************************************************)
(* The market scanner and its daily quota: server/routes/scan.py,          *)
(* server/services/plans.py, server/services/scanner.py, the forced scan   *)
(* of server/routes/admin.py and the scan job of server/scheduler.py.      *)
(*                                                                         *)
(* Two processes share one database.  The web process serves requests,     *)
(* each in a thread and a session of its own, and keeps the guests' quota  *)
(* in memory; the worker process runs the scheduled scans.  Persisted      *)
(* snapshots are how the web process learns what the worker found.  The    *)
(* worker's own cache, which only its price lookups read, and the error    *)
(* text of the cache, which GET /api/scan does not return, are left out.   *)
(*                                                                         *)
(* A scan result is named by the time it was published, in the web cache   *)
(* or as a snapshot.  An instant captured between two steps of a request   *)
(* is a choice over the days that have passed meanwhile.  The route's      *)
(* 5/minute limit on one address is left out.                              *)
(***************************************************************************)
EXTENDS Integers, FiniteSets, FiniteSetsExt

CONSTANTS Free, Paid,   \* registered users, by plan
          Guests,       \* addresses of anonymous callers
          Admin,        \* the caller of POST /admin/scan/run
          Requests,     \* threads of the web process
          Jobs,         \* scan threads of the worker
          Readers,      \* concurrent GET /api/scan
          Limit,        \* FREE_DAILY_SCAN_LIMIT
          GuestLimit,   \* _GUEST_LIMIT_PER_DAY
          MaxDay,       \* bound: days that pass
          MaxCharges,   \* bound: a caller charged so often calls no more
          MaxTime,      \* bound: publications
          None

ASSUME ScanAssumption ==
  /\ Limit \in Nat \ {0} /\ GuestLimit \in Nat \ {0}
  /\ MaxDay \in Nat \ {0} /\ MaxCharges \in Nat /\ MaxTime \in Nat
  /\ Requests \cap Jobs = {} /\ Free \cap Guests = {}
  /\ None \notin Free \union Paid \union Guests \union {Admin}

\* What stands for no record is none.
ASSUME AbsenceAssumption == None \notin [day : 1..MaxDay, count : Nat]

Callers == Free \union Paid \union Guests \union {Admin}
Metered == Free \union Guests
Threads == Requests \union Jobs
Days  == 1..MaxDay
Times == 0..MaxTime     \* 0: never

LimitOf(c) == IF c \in Guests THEN GuestLimit ELSE Limit

VARIABLES day,      \* the current UTC day
          usage,    \* usage[u][d]: count of the scan_usage row, 0 without one
          guest,    \* guest[ip]: [day, count] of _guest_usage, or None
          thread,   \* thread[t]: where a request or a job is
          clock,    \* time of the latest publication
          cache,    \* when the rows of the web cache were stored, 0: none
          snap,     \* time of the newest persisted snapshot
          read,     \* read[x]: what a GET /api/scan has seen
          charges,  \* charges[c][d]: scans ever charged to c for day d
          together  \* callers that once had two requests before their charge

quota == <<day, usage, guest, charges, together>>
scans == <<clock, cache, snap>>
vars  == <<quota, scans, thread, read>>

QuotaPcs == {"check", "charge", "write", "reread"}
ScanPcs  == {"scan", "forced", "persist"}   \* only "scan" persists its rows

Idle == [pc |-> "idle", who |-> None, day |-> 1, row |-> 0]
NoRead == [pc |-> "idle", at |-> 0, floor |-> 0]

Init ==
  /\ day = 1
  /\ usage = [u \in Free |-> [d \in Days |-> 0]]
  /\ guest = [g \in Guests |-> None]
  /\ thread = [t \in Threads |-> Idle]
  /\ clock = 0
  /\ cache = 0
  /\ snap = 0
  /\ read = [x \in Readers |-> NoRead]
  /\ charges = [c \in Metered |-> [d \in Days |-> 0]]
  /\ together = {}

\* Thread t continues at pc, its caller and its quota behind it.
Turn(t, pc) == thread' = [thread EXCEPT ![t] = [Idle EXCEPT !.pc = pc]]

\* Days a clock read made since thread t's last step may have returned.
CapturedDays(t) == thread[t].day .. day

----------------------------------------------------------------------------
(* The daily quota.                                                        *)

\* Scans already counted for guest g on day d.
GuestUsed(g, d) ==
  IF guest[g] = None \/ guest[g].day # d THEN 0 ELSE guest[g].count

Used(c, d) == IF c \in Guests THEN GuestUsed(c, d) ELSE usage[c][d]

\* Mutant: the last scan of the day is granted once too often.
Allowed_OneMore(c, d) == Used(c, d) <= LimitOf(c)

\* can_scan for a free user, _guest_remaining for a guest.
Allowed(c, d) == Used(c, d) < LimitOf(c)

Charge(c, d) == charges' = [charges EXCEPT ![c][d] = @ + 1]

\* Where the request of c begins: at its quota, or, for an admin and a paid
\* user, at the scan.
Begin(c) ==
  IF c \in Metered THEN [pc |-> "check", who |-> c, day |-> day, row |-> 0]
  ELSE [Idle EXCEPT !.pc = IF c = Admin THEN "forced" ELSE "scan"]

\* A request arrives.
Arrive(t, c) ==
  /\ thread[t].pc \in {"idle", "refused"}
  /\ c \in Metered => \A d \in Days : charges[c][d] < MaxCharges
  /\ thread' = [thread EXCEPT ![t] = Begin(c)]
  /\ together' =
       IF \E o \in Requests \ {t} : thread[o].who = c /\ thread[o].pc \in QuotaPcs
       THEN together \union {c} ELSE together
  /\ UNCHANGED <<day, usage, guest, charges, scans, read>>

\* The quota is read and the request refused or let through.
CheckQuota(t) ==
  /\ thread[t].pc = "check"
  /\ \E d \in CapturedDays(t) :
       thread' = [thread EXCEPT
         ![t].pc  = IF Allowed(thread[t].who, d) THEN "charge" ELSE "refused",
         ![t].day = d]
  /\ UNCHANGED <<quota, scans, read>>

\* _guest_consume, under the guest lock but for its clock.
GuestConsume(t) ==
  LET g == thread[t].who IN
  /\ thread[t].pc = "charge" /\ g \in Guests
  /\ \E d \in CapturedDays(t) :
       /\ guest' = [guest EXCEPT ![g] = [day |-> d, count |-> GuestUsed(g, d) + 1]]
       /\ Charge(g, d)
  /\ Turn(t, "scan")
  /\ UNCHANGED <<day, usage, together, scans, read>>

\* record_scan: the clock and the first SELECT.
RecordSelect(t) ==
  LET u == thread[t].who IN
  /\ thread[t].pc = "charge" /\ u \in Free
  /\ \E d \in CapturedDays(t) :
       thread' = [thread EXCEPT ![t].pc = "write", ![t].day = d,
                                ![t].row = usage[u][d]]
  /\ UNCHANGED <<quota, scans, read>>

\* No row was seen.  The unique constraint refuses a second insert.
RecordInsert(t) ==
  LET u == thread[t].who  d == thread[t].day IN
  /\ thread[t].pc = "write" /\ thread[t].row = 0
  /\ IF usage[u][d] = 0
     THEN /\ usage' = [usage EXCEPT ![u][d] = 1]
          /\ Charge(u, d)
          /\ Turn(t, "scan")
     ELSE /\ thread' = [thread EXCEPT ![t].pc = "reread"]
          /\ UNCHANGED <<usage, charges>>
  /\ UNCHANGED <<day, guest, together, scans, read>>

\* After the IntegrityError the row that won is loaded.
RecordReread(t) ==
  LET u == thread[t].who  d == thread[t].day IN
  /\ thread[t].pc = "reread"
  /\ thread' = [thread EXCEPT ![t].pc = "write", ![t].row = usage[u][d]]
  /\ UNCHANGED <<quota, scans, read>>

\* The loaded count plus one is written back, whatever the row holds by now.
RecordUpdate(t) ==
  LET u == thread[t].who  d == thread[t].day IN
  /\ thread[t].pc = "write" /\ thread[t].row > 0
  /\ usage' = [usage EXCEPT ![u][d] = thread[t].row + 1]
  /\ Charge(u, d)
  /\ Turn(t, "scan")
  /\ UNCHANGED <<day, guest, together, scans, read>>

----------------------------------------------------------------------------
(* Scans.                                                                  *)

StartJob(j) ==
  /\ thread[j].pc = "idle"
  /\ Turn(j, "scan")
  /\ UNCHANGED <<quota, scans, read>>

\* run_scan got no rows or an exception: the rows of the last scan stay.
ScanFails(t) ==
  /\ thread[t].pc \in {"scan", "forced"}
  /\ Turn(t, "idle")
  /\ UNCHANGED <<quota, scans, read>>

\* run_scan publishes in its process.  Only a forced scan is not persisted.
ScanStores(t) ==
  /\ thread[t].pc \in {"scan", "forced"} /\ clock < MaxTime
  /\ IF t \in Requests THEN clock' = clock + 1 /\ cache' = clock'
                        ELSE UNCHANGED <<clock, cache>>
  /\ Turn(t, IF thread[t].pc = "forced" THEN "idle" ELSE "persist")
  /\ UNCHANGED <<quota, snap, read>>

\* _persist_snapshot.  Retention removes older snapshots, never this one.
PersistSnapshot(t) ==
  /\ thread[t].pc = "persist" /\ clock < MaxTime
  /\ clock' = clock + 1
  /\ snap' = clock'
  /\ Turn(t, "idle")
  /\ UNCHANGED <<quota, cache, read>>

\* Market history is disabled, or the insert failed and was logged.
PersistSkipped(t) ==
  /\ thread[t].pc = "persist"
  /\ Turn(t, "idle")
  /\ UNCHANGED <<quota, scans, read>>

----------------------------------------------------------------------------
(* GET /api/scan: get_cached looks into the cache, then at the database.   *)

ReadCache(x) ==
  /\ read[x].pc # "cached"
  /\ read' = [read EXCEPT ![x] =
       [pc |-> "cached", at |-> cache, floor |-> Max({cache, snap})]]
  /\ UNCHANGED <<quota, scans, thread>>

\* Mutant: the database is a fallback for an empty cache only.
Supersedes_IfEmpty(at) == snap # 0 /\ at = 0

\* The newest snapshot replaces rows published before it, or no rows.
Supersedes(at) == snap # 0 /\ (snap > at \/ at = 0)

ReadSnapshot(x) ==
  /\ read[x].pc = "cached"
  /\ read' = [read EXCEPT
       ![x].pc = "done",
       ![x].at = IF Supersedes(read[x].at) THEN snap ELSE read[x].at]
  /\ UNCHANGED <<quota, scans, thread>>

\* The database does not answer: logged, and the cached rows are returned.
ReadSnapshotFails(x) ==
  /\ read[x].pc = "cached"
  /\ read' = [read EXCEPT ![x] = NoRead]
  /\ UNCHANGED <<quota, scans, thread>>

----------------------------------------------------------------------------
NewDay ==
  /\ day < MaxDay
  /\ day' = day + 1
  /\ UNCHANGED <<usage, guest, charges, together, scans, thread, read>>

\* The web process dies: its memory and its requests are gone.  Charges of
\* guests are counted anew, as the process counts them.
RestartWeb ==
  /\ cache' = 0
  /\ guest' = [g \in Guests |-> None]
  /\ charges' = [c \in Metered |-> IF c \in Guests THEN [d \in Days |-> 0]
                                                   ELSE charges[c]]
  /\ thread' = [t \in Threads |-> IF t \in Requests THEN Idle ELSE thread[t]]
  /\ read' = [x \in Readers |-> NoRead]
  /\ UNCHANGED <<day, usage, together, clock, snap>>

RestartWorker ==
  /\ thread' = [t \in Threads |-> IF t \in Jobs THEN Idle ELSE thread[t]]
  /\ UNCHANGED <<quota, scans, read>>

QuotaStep(t) ==
  \/ \E c \in Callers : Arrive(t, c)
  \/ CheckQuota(t) \/ GuestConsume(t)
  \/ RecordSelect(t) \/ RecordInsert(t) \/ RecordReread(t) \/ RecordUpdate(t)

ScanStep(t) ==
  \/ ScanFails(t) \/ ScanStores(t) \/ PersistSnapshot(t) \/ PersistSkipped(t)

Next ==
  \/ \E t \in Requests : QuotaStep(t)
  \/ \E j \in Jobs : StartJob(j)
  \/ \E t \in Threads : ScanStep(t)
  \/ \E x \in Readers : ReadCache(x) \/ ReadSnapshot(x) \/ ReadSnapshotFails(x)
  \/ NewDay \/ RestartWeb \/ RestartWorker

Spec == Init /\ [][Next]_vars

----------------------------------------------------------------------------
(* Properties.                                                             *)

\* Types of the database rows, the processes' memory and the threads.
TypeOK ==
  /\ day \in Days
  /\ usage \in [Free -> [Days -> Nat]]
  /\ \A g \in Guests : guest[g] = None \/ guest[g] \in [day : Days, count : Nat]
  /\ thread \in [Threads -> [pc : {"idle", "refused"} \union QuotaPcs \union ScanPcs,
                             who : Metered \union {None},
                             day : Days, row : Nat]]
  /\ clock \in Times /\ cache \in Times /\ snap \in Times
  /\ read \in [Readers -> [pc : {"idle", "cached", "done"},
                           at : Times, floor : Times]]
  /\ charges \in [Metered -> [Days -> Nat]]
  /\ together \subseteq Metered

\* A caller is refused for a day only after its whole quota was charged to
\* that day: midnight, concurrent charges and a failed insert never cost a
\* caller a scan (routes/scan.py:45-68 and 107-148, plans.py:51-103).
RefusedOnlyWhenUsedUp ==
  \A t \in Requests : LET c == thread[t].who IN
    thread[t].pc = "refused" => charges[c][thread[t].day] >= LimitOf(c)

\* A caller whose requests follow one another gets exactly its quota on each
\* day, also when a day ends between check and charge or the process dies
\* between any two steps, and the table counts each of its scans.
QuotaExactWhenAlone ==
  \A c \in Metered \ together, d \in Days :
    /\ charges[c][d] <= LimitOf(c)
    /\ c \in Free => usage[c][d] = charges[c][d]

\* What the quota means to its callers, whatever requests, midnights, failed
\* inserts and restarts are interleaved.
QuotaSound == TypeOK /\ RefusedOnlyWhenUsedUp /\ QuotaExactWhenAlone

\* A read that reached the database returns nothing published earlier than
\* what the web cache or the snapshots held when it began: scans of either
\* process, restarts and failed scans never make it go back (get_cached).
ReadsArePublished ==
  \A x \in Readers :
    read[x].pc = "done" => read[x].at >= read[x].floor
=============================================================================
