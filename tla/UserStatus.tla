----------------------------- MODULE UserStatus -----------------------------
(***************************************************************************)
(* The status file of core/user_status.py, which keeps a device's plan,    *)
(* trials, daily refreshes and used payments, and the UserManagers of      *)
(* core/user_manager.py, each with a copy of it in memory.                 *)
(*                                                                         *)
(* One process is modelled.  What it does under _STATUS_LOCK is one        *)
(* action.  A write goes to a temporary file that then replaces the status *)
(* file, so it happens or it does not: an exception, or a crash inside the *)
(* write, leaves the old file.  The bot's trial is a second trial with the *)
(* same rules, which an activation does not end.                           *)
(*                                                                         *)
(* The clock counts ticks longer than CLOCK_ROLLBACK_TOLERANCE_SEC.  The   *)
(* list of used payments is kept whole: its 500 newest entries cover the   *)
(* 48 hours in which a payment is accepted.  A status file of another      *)
(* device counts as one that cannot be read.                               *)
(***************************************************************************)
EXTENDS Integers

CONSTANTS Callers,      \* threads that use the module, one operation each
          Managers,     \* those of them that do so through a UserManager
          Txs,          \* USDT transactions made to the wallet
          Terms,        \* lengths of a plan in days, VALID_PLAN_MONTHS * 30
          TrialDays,    \* TRIAL_DAYS and BOT_TRIAL_DAYS
          Limit,        \* DAILY_FREE_REFRESH_LIMIT
          TicksPerDay,
          MaxTime,      \* bound: the latest time the clock shows
          MaxCredits,   \* bound: times one transaction is credited
          MaxGrants,    \* bound: metered refreshes granted in one day
          Absent,       \* there is no status file
          None

ASSUME StatusAssumption ==
  /\ Managers \subseteq Callers
  /\ Terms \subseteq Nat \ {0}
  /\ TrialDays \in Nat \ {0} /\ Limit \in Nat /\ TicksPerDay \in Nat \ {0}
  /\ MaxTime \in Nat /\ MaxCredits \in Nat /\ MaxGrants \in Nat

VARIABLES now,       \* what time.time() returns
          file,      \* the status on disk
          status,    \* status[m]: the copy of manager m, None before _load
          call,      \* call[c]: where c is in an operation of several steps
          credited,  \* credited[x]: how often transaction x activated a plan
          granted,   \* metered refreshes granted since the day last changed
          until,     \* expiry given by the latest activation, None for admin
          mishaps    \* what has gone wrong with the file or the clock

ghosts == <<credited, granted, until, mishaps>>
vars   == <<now, file, status, call, ghosts>>

Times  == 0..MaxTime
DayOf(time) == time \div TicksPerDay
Days   == 0..DayOf(MaxTime)
Today  == DayOf(now)
Trials == {"scan", "bot"}

Status == [plan : {"free", "paid", "admin"}, expiry : Nat \cup {None},
           trial : [Trials -> Days \cup {None}],   \* its first day, if active
           count : 0..Limit, day : Days,           \* refresh_count and its day
           used : SUBSET Txs, last : Times]

ASSUME ValueAssumption == None \notin Int /\ Absent \notin Status

Idle == [pc |-> "idle", tx |-> None, days |-> 0]

\* Types of the file, the managers' copies and the calls in progress; the
\* refreshes left are never negative and a trial is active with a first day.
TypeOK ==
  /\ now \in Times
  /\ file \in Status \cup {Absent}
  /\ status \in [Managers -> Status \cup {None}]
  /\ call \in [Callers -> [pc : {"idle", "fetching", "reload"},
                            tx : Txs \cup {None}, days : Terms \cup {0}]]
  /\ credited \in [Txs -> Nat] /\ granted \in Nat
  /\ until \in Nat \cup {None}
  /\ mishaps \subseteq {"read", "write", "stale", "clock"}

Init ==
  /\ now = 0 /\ file = Absent
  /\ status = [m \in Managers |-> None]
  /\ call = [c \in Callers |-> Idle]
  /\ credited = [x \in Txs |-> 0] /\ granted = 0
  /\ until = None /\ mishaps = {}

-----------------------------------------------------------------------------
(***************************************************************************)
(* _normalize: what a status means at the current time.                    *)
(***************************************************************************)
RolledBack(s) == s.last > now

\* Mutant: a trial without a first day begins.
Trial_Restarts(s, k) ==
  IF s.trial[k] = None THEN Today
  ELSE IF RolledBack(s) \/ Today - s.trial[k] >= TrialDays THEN None
  ELSE s.trial[k]

\* A trial ends after its days, and when the clock was set back.
Trial(s, k) ==
  IF s.trial[k] = None \/ RolledBack(s) \/ Today - s.trial[k] >= TrialDays
  THEN None ELSE s.trial[k]

\* Mutant: the last day of a plan is not part of it.
PlanOver_OnItsLastDay(s) ==
  s.plan = "paid" /\ (RolledBack(s) \/ Today >= s.expiry)

\* The plan of an administrator has no end.
PlanOver(s) == s.plan = "paid" /\ (RolledBack(s) \/ Today > s.expiry)

\* The normal form of a missing status: both trials begin today.
Fresh == [plan |-> "free", expiry |-> None, trial |-> [k \in Trials |-> Today],
          count |-> Limit, day |-> Today, used |-> {}, last |-> now]

Premium(s)   == s.plan # "free"
Unmetered(s) == s.trial["scan"] # None \/ Premium(s)

\* A user with neither trial nor plan gets the daily refreshes once a day.
Refilled(s) ==
  IF Unmetered(s) \/ s.day = Today THEN s
  ELSE [s EXCEPT !.count = Limit, !.day = Today]

Normal(s) ==
  LET plan == IF PlanOver(s) THEN "free" ELSE s.plan IN
  Refilled([s EXCEPT !.trial = [k \in Trials |-> Trial(s, k)],
                     !.plan = plan, !.last = now,
                     !.expiry = IF plan = "paid" THEN @ ELSE None])

\* _read_raw and _normalize: a file that cannot be read counts as none.
Loaded(readable) == IF readable /\ file # Absent THEN Normal(file) ELSE Fresh

-----------------------------------------------------------------------------
(***************************************************************************)
(* Writing.  A mishap is recorded when the file loses what it held.        *)
(***************************************************************************)
Write(s, written) == file' = IF written THEN s ELSE file

Overwrites(readable, written) ==
  IF ~readable /\ written /\ file # Absent THEN {"read"} ELSE {}

Goto(c, pc) == call' = [call EXCEPT ![c] = [Idle EXCEPT !.pc = pc]]

\* A manager has been constructed before it is used.
Ready(c) == call[c].pc = "idle" /\ (c \in Managers => status[c] # None)

\* A manager's operations that may have changed the file end in _load.
Done(c) == Goto(c, IF c \in Managers THEN "reload" ELSE "idle")

\* UserManager._load: in the constructor, in reload and after an operation.
\* A failed write is swallowed.
Load(m) ==
  /\ call[m].pc \in {"idle", "reload"}
  /\ \E readable, written \in BOOLEAN :
       /\ status' = [status EXCEPT ![m] = Loaded(readable)]
       /\ Write(Loaded(readable), written)
       /\ mishaps' = mishaps \cup Overwrites(readable, written)
  /\ Goto(m, "idle")
  /\ UNCHANGED <<now, credited, granted, until>>

\* UserManager.__exit__: the copy is normalised and written over the file.
Save(m) ==
  /\ call[m].pc = "idle" /\ status[m] # None
  /\ LET s == Normal(status[m]) IN
       /\ status' = [status EXCEPT ![m] = s]
       /\ \E written \in BOOLEAN :
            /\ Write(s, written)
            /\ mishaps' = mishaps \cup
                 IF written /\ s # Loaded(TRUE) THEN {"stale"} ELSE {}
  /\ UNCHANGED <<now, call, credited, granted, until>>

\* consume_refresh of a user with neither trial nor plan, if any refresh is
\* left.  It is granted even if the write fails.
ConsumeMetered(c) ==
  /\ Ready(c)
  /\ granted < MaxGrants
  /\ \E readable, written \in BOOLEAN :
       LET s == Loaded(readable) IN
       /\ ~Unmetered(s) /\ s.count > 0
       /\ Write([s EXCEPT !.count = @ - 1], written)
       /\ mishaps' = mishaps \cup Overwrites(readable, written)
                       \cup IF written THEN {} ELSE {"write"}
  /\ granted' = granted + 1
  /\ Done(c)
  /\ UNCHANGED <<now, status, credited, until>>

\* consume_refresh that charges nothing, because nothing has to be charged or
\* nothing is left.  What was read is not written back.
ConsumeUnmetered(c) ==
  /\ Ready(c)
  /\ \E readable \in BOOLEAN :
       LET s == Loaded(readable) IN Unmetered(s) \/ s.count = 0
  /\ Done(c)
  /\ UNCHANGED <<now, file, status, ghosts>>

-----------------------------------------------------------------------------
(***************************************************************************)
(* Activation, by code or by payment.                                      *)
(***************************************************************************)
Activated(s, days) == [s EXCEPT !.plan = "paid", !.expiry = Today + days,
                                !.trial["scan"] = None]

\* activate_premium_plan.  A failed write is raised to the caller.
Activate(c, days) ==
  /\ Ready(c)
  /\ \E readable, written \in BOOLEAN :
       /\ Write(Activated(Loaded(readable), days), written)
       /\ mishaps' = mishaps \cup Overwrites(readable, written)
       /\ until' = IF written THEN Today + days ELSE until
       /\ IF written THEN Done(c) ELSE Goto(c, "idle")
  /\ UNCHANGED <<now, status, credited, granted>>

\* activate_admin_plan, which the managers learn of when they reload.
ActivateAdmin ==
  /\ \E readable, written \in BOOLEAN :
       /\ Write([Loaded(readable) EXCEPT !.plan = "admin", !.expiry = None,
                                         !.trial["scan"] = None], written)
       /\ mishaps' = mishaps \cup Overwrites(readable, written)
       /\ until' = IF written THEN None ELSE until
  /\ UNCHANGED <<now, status, call, credited, granted>>

\* verify_usdt_transaction looks at the used payments, then asks the network.
VerifyBegins(c, x, days) ==
  /\ Ready(c)
  /\ \E readable \in BOOLEAN : x \notin Loaded(readable).used
  /\ call' = [call EXCEPT ![c] = [pc |-> "fetching", tx |-> x, days |-> days]]
  /\ UNCHANGED <<now, file, status, ghosts>>

\* No answer, or _validate_tx_response refuses the transaction.
VerifyRefused(c) ==
  /\ call[c].pc = "fetching"
  /\ Goto(c, "idle")
  /\ UNCHANGED <<now, file, status, ghosts>>

\* The transaction is paid to the plan that s stands for.
Credit(c, s, readable) ==
  LET x == call[c].tx  days == call[c].days IN
  \E written \in BOOLEAN :
    /\ Write([Activated(s, days) EXCEPT !.used = @ \cup {x}], written)
    /\ mishaps' = mishaps \cup Overwrites(readable, written)
    /\ credited' = [credited EXCEPT ![x] = IF written THEN @ + 1 ELSE @]
    /\ until' = IF written THEN Today + days ELSE until
    /\ IF written THEN Done(c) ELSE Goto(c, "idle")

\* Mutant: the used payments are not looked at again.
VerifyEnds_NoRecheck(c) ==
  /\ call[c].pc = "fetching" /\ credited[call[c].tx] < MaxCredits
  /\ \E readable \in BOOLEAN : Credit(c, Loaded(readable), readable)
  /\ UNCHANGED <<now, status, granted>>

\* The transaction is valid and still unused.
VerifyEnds(c) ==
  /\ call[c].pc = "fetching" /\ credited[call[c].tx] < MaxCredits
  /\ \E readable \in BOOLEAN :
       /\ call[c].tx \notin Loaded(readable).used
       /\ Credit(c, Loaded(readable), readable)
  /\ UNCHANGED <<now, status, granted>>

\* The concurrent check: another call has used the transaction meanwhile.
VerifyTooLate(c) ==
  /\ call[c].pc = "fetching"
  /\ \E readable \in BOOLEAN : call[c].tx \in Loaded(readable).used
  /\ Goto(c, "idle")
  /\ UNCHANGED <<now, file, status, ghosts>>

-----------------------------------------------------------------------------
TimePasses ==
  /\ now < MaxTime /\ now' = now + 1
  /\ granted' = IF DayOf(now') = Today THEN granted ELSE 0
  /\ UNCHANGED <<file, status, call, credited, until, mishaps>>

ClockSetBack ==
  /\ now' \in 0..(now - 1)
  /\ granted' = 0
  /\ mishaps' = mishaps \cup {"clock"}
  /\ UNCHANGED <<file, status, call, credited, until>>

\* The process ends; the next one finds the file.
Restart ==
  /\ status' = [m \in Managers |-> None]
  /\ call' = [c \in Callers |-> Idle]
  /\ UNCHANGED <<now, file, ghosts>>

Operation(c) ==
  \/ ConsumeMetered(c) \/ ConsumeUnmetered(c)
  \/ \E d \in Terms : Activate(c, d) \/ \E x \in Txs : VerifyBegins(c, x, d)
  \/ VerifyRefused(c) \/ VerifyEnds(c) \/ VerifyTooLate(c)

Next ==
  \/ \E m \in Managers : Load(m) \/ Save(m)
  \/ \E c \in Callers : Operation(c)
  \/ ActivateAdmin \/ TimePasses \/ ClockSetBack \/ Restart

Spec == Init /\ [][Next]_vars

-----------------------------------------------------------------------------
(***************************************************************************)
(* Properties.  Each names the mishaps it cannot survive in this code.     *)
(***************************************************************************)
Spared(set) == mishaps \cap set = {}

\* A payment activates at most one plan, however verifications of several
\* threads, failed writes, clock changes and restarts interleave: the network
\* call between the two checks of verify_usdt_transaction holds no lock.
PaymentUsedOnce ==
  Spared({"read", "stale"}) => \A x \in Txs : credited[x] <= 1

\* The plan on disk is the one last paid for, from its activation to the end
\* of its last day and not longer.
PaidPlanKept ==
  file # Absent /\ Spared({"read", "stale", "clock"}) =>
    IF until # None /\ Today <= until
    THEN file.plan = "paid" /\ file.expiry = until
    ELSE file.plan = "paid" => file.expiry < Today

\* A trial that has ended does not begin again, even if the clock is set back.
TrialOnce ==
  [][\A k \in Trials :
       /\ file # Absent /\ file'.trial[k] # None
       /\ Spared({"read", "stale"})'
       => file.trial[k] # None]_file

\* A user with neither trial nor plan gets no more than the daily refreshes,
\* also across the end of a trial or a plan, restarts and other managers.
RefreshesWithinLimit ==
  mishaps = {} => granted <= Limit
=============================================================================
