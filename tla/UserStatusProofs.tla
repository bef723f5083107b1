-------------------------- MODULE UserStatusProofs --------------------------
(***************************************************************************)
(* Proofs about UserStatus, for every set of callers, managers, payments   *)
(* and terms, and every length of a trial, a day and the daily limit.      *)
(*                                                                         *)
(* One fact about a single write carries the theorems: what replaces the   *)
(* file was read from it (Keeps), or the file was lost and mishaps say so. *)
(* Rations and Holds say the same of the refreshes and of the plan.        *)
(***************************************************************************)
EXTENDS UserStatus, TLAPS

\* The mishaps after which the file no longer holds what it held.
Lost == {"read", "stale"}

\* Status s has the used payments of the file and none of its ended trials.
Keeps(s) ==
  file # Absent =>
    /\ file.used \subseteq s.used
    /\ \A k \in Trials : s.trial[k] # None => file.trial[k] # None

\* A step that loses nothing keeps the file.
FileKept ==
  Spared(Lost)' => /\ Spared(Lost)
                   /\ file # Absent => file' # Absent
                   /\ file' = file \/ Keeps(file')

\* What is credited is written down, and was credited once.
Credited ==
  Spared(Lost) => \A x \in Txs :
    \/ credited[x] = 0
    \/ credited[x] = 1 /\ file # Absent /\ x \in file.used

\* A verification knows its transaction and the plan it pays for.
Fetching ==
  \A c \in Callers : call[c].pc = "fetching" =>
    call[c].tx \in Txs /\ call[c].days \in Terms

IInv == TypeOK /\ Fetching /\ Credited

-----------------------------------------------------------------------------
\* The day of a time the clock shows is one of the days.
LEMMA DayBounds ==
  ASSUME NEW t \in Times
  PROVE  DayOf(t) \in Days
BY StatusAssumption, Z3 DEF Times, DayOf, Days

\* A missing status is normalised to one without used payments.
LEMMA FreshTyped ==
  ASSUME now \in Times
  PROVE  Fresh \in Status
BY DayBounds, StatusAssumption, ValueAssumption DEF Fresh, Status, Today

\* _normalize keeps the used payments and begins no trial.
LEMMA NormalKeeps ==
  ASSUME now \in Times, NEW s \in Status
  PROVE  /\ Normal(s) \in Status
         /\ Normal(s).used = s.used
         /\ \A k \in Trials : Normal(s).trial[k] # None => s.trial[k] # None
<1> DEFINE plan == IF PlanOver(s) THEN "free" ELSE s.plan
           n == [s EXCEPT !.trial = [k \in Trials |-> Trial(s, k)],
                          !.plan = plan, !.last = now,
                          !.expiry = IF plan = "paid" THEN @ ELSE None]
<1>1. Today \in Days /\ Limit \in 0..Limit
  BY DayBounds, StatusAssumption DEF Today
<1>2. \A k \in Trials : /\ Trial(s, k) \in Days \cup {None}
                        /\ Trial(s, k) # None => s.trial[k] # None
  BY DEF Trial, Status
<1>3. /\ n \in Status /\ n.used = s.used
      /\ \A k \in Trials : n.trial[k] # None => s.trial[k] # None
  BY <1>2 DEF Status
<1>4. Normal(s) = Refilled(n)
  BY DEF Normal
<1> HIDE DEF n
<1>5. /\ Refilled(n) \in Status
      /\ Refilled(n).used = n.used /\ Refilled(n).trial = n.trial
  BY <1>1, <1>3 DEF Refilled, Status
<1>6. QED
  BY <1>3, <1>4, <1>5

\* What is read is a status; what was readable keeps the file.
LEMMA LoadedKeeps ==
  ASSUME TypeOK, NEW readable \in BOOLEAN
  PROVE  Loaded(readable) \in Status /\ (readable => Keeps(Loaded(readable)))
BY FreshTyped, NormalKeeps, ValueAssumption DEF TypeOK, Loaded, Keeps

\* A write of what was read keeps the file, or its loss is recorded.
LEMMA WriteKeeps ==
  ASSUME TypeOK, NEW readable \in BOOLEAN, NEW written \in BOOLEAN,
         NEW s \in Status, NEW lost,
         Keeps(Loaded(readable)) => Keeps(s),
         Write(s, written),
         mishaps' = mishaps \cup Overwrites(readable, written) \cup lost
  PROVE  FileKept /\ file' \in Status \cup {Absent}
<1>1. Spared(Lost)' => Spared(Lost) /\ (written => readable \/ file = Absent)
  BY DEF Spared, Lost, Overwrites
<1>2. Spared(Lost)' /\ written => Keeps(s)
  BY <1>1, LoadedKeeps DEF Keeps
<1>3. s # Absent
  BY ValueAssumption
<1>4. QED
  BY <1>1, <1>2, <1>3 DEF FileKept, Write, TypeOK

\* An activation keeps the used payments and begins no trial.
LEMMA ActivatedKeeps ==
  ASSUME now \in Times, NEW s \in Status, NEW days \in Nat
  PROVE  /\ Activated(s, days) \in Status
         /\ Activated(s, days).used = s.used
         /\ Keeps(s) => Keeps(Activated(s, days))
<1>1. Today + days \in Nat
  BY DayBounds DEF Today, Days
<1>2. "scan" \in Trials
  BY DEF Trials
<1>3. QED
  BY <1>1, <1>2 DEF Activated, Status, Keeps

-----------------------------------------------------------------------------
(***************************************************************************)
(* The actions.                                                            *)
(***************************************************************************)
\* After _load, the managers' copies are still well typed.
LEMMA LoadStep ==
  ASSUME IInv, NEW m \in Managers, Load(m)
  PROVE  TypeOK' /\ FileKept /\ credited' = credited
<1>1. PICK readable \in BOOLEAN, written \in BOOLEAN :
        /\ status' = [status EXCEPT ![m] = Loaded(readable)]
        /\ Write(Loaded(readable), written)
        /\ mishaps' = mishaps \cup Overwrites(readable, written)
  BY DEF Load
<1>2. mishaps' = mishaps \cup Overwrites(readable, written) \cup {}
  BY <1>1
<1>3. FileKept /\ file' \in Status \cup {Absent}
  BY <1>1, <1>2, LoadedKeeps, WriteKeeps DEF IInv
<1>4. status' \in [Managers -> Status \cup {None}]
  BY <1>1, LoadedKeeps DEF IInv, TypeOK
<1>5. call' \in [Callers -> [pc : {"idle", "fetching", "reload"},
                             tx : Txs \cup {None}, days : Terms \cup {0}]]
  BY DEF Load, Goto, Idle, IInv, TypeOK
<1>6. TypeOK'
  BY <1>1, <1>3, <1>4, <1>5 DEF Load, IInv, TypeOK, Overwrites
<1>7. QED
  BY <1>3, <1>6 DEF Load

\* __exit__ writes a copy: the same as what the file stands for, or stale.
LEMMA SaveStep ==
  ASSUME IInv, NEW m \in Managers, Save(m)
  PROVE  TypeOK' /\ FileKept /\ credited' = credited
<1> DEFINE s == Normal(status[m])
<1>1. PICK written \in BOOLEAN :
        /\ Write(s, written)
        /\ mishaps' = mishaps \cup IF written /\ s # Loaded(TRUE) THEN {"stale"}
                                                                  ELSE {}
  BY DEF Save
<1>2. s \in Status
  BY NormalKeeps DEF Save, IInv, TypeOK
<1>3. s # Absent
  BY <1>2, ValueAssumption
<1>4. Spared(Lost)' => Spared(Lost) /\ (written => s = Loaded(TRUE))
  BY <1>1 DEF Spared, Lost
<1>5. Keeps(Loaded(TRUE))
  BY LoadedKeeps DEF IInv
<1> HIDE DEF s
<1>6. FileKept
  BY <1>1, <1>3, <1>4, <1>5 DEF FileKept, Write
<1>7. TypeOK'
  BY <1>1, <1>2 DEF Save, Write, IInv, TypeOK, s
<1>8. QED
  BY <1>6, <1>7 DEF Save

\* consume_refresh charges the status it read.
LEMMA ConsumeStep ==
  ASSUME IInv, NEW c \in Callers, ConsumeMetered(c)
  PROVE  TypeOK' /\ FileKept /\ credited' = credited
<1>1. PICK readable \in BOOLEAN, written \in BOOLEAN :
        /\ Loaded(readable).count > 0
        /\ Write([Loaded(readable) EXCEPT !.count = @ - 1], written)
        /\ mishaps' = mishaps \cup Overwrites(readable, written)
                        \cup IF written THEN {} ELSE {"write"}
  BY DEF ConsumeMetered
<1> DEFINE l == Loaded(readable)
           s == [l EXCEPT !.count = @ - 1]
<1>2. l \in Status
  BY LoadedKeeps DEF IInv
<1> HIDE DEF l
<1>3. s \in Status /\ s.used = l.used /\ s.trial = l.trial
  BY <1>1, <1>2, StatusAssumption DEF Status, l
<1>4. Keeps(l) => Keeps(s)
  BY <1>3 DEF Keeps
<1> HIDE DEF s
<1>5. FileKept /\ file' \in Status \cup {Absent}
  BY <1>1, <1>3, <1>4, WriteKeeps DEF IInv, s, l
<1>6. call' \in [Callers -> [pc : {"idle", "fetching", "reload"},
                             tx : Txs \cup {None}, days : Terms \cup {0}]]
  BY DEF ConsumeMetered, Done, Goto, Idle, IInv, TypeOK
<1>7. TypeOK'
  BY <1>1, <1>5, <1>6 DEF ConsumeMetered, IInv, TypeOK, Overwrites
<1>8. QED
  BY <1>5, <1>7 DEF ConsumeMetered

\* A plan is activated in the status that was read.
LEMMA ActivateStep ==
  ASSUME IInv, NEW c \in Callers, NEW days \in Terms, Activate(c, days)
  PROVE  TypeOK' /\ FileKept /\ credited' = credited
<1>1. PICK readable \in BOOLEAN, written \in BOOLEAN :
        /\ Write(Activated(Loaded(readable), days), written)
        /\ mishaps' = mishaps \cup Overwrites(readable, written)
        /\ until' = IF written THEN Today + days ELSE until
        /\ IF written THEN Done(c) ELSE Goto(c, "idle")
  BY DEF Activate
<1>2. days \in Nat /\ now \in Times
  BY StatusAssumption DEF IInv, TypeOK
<1>3. Loaded(readable) \in Status
  BY LoadedKeeps DEF IInv
<1>4. /\ Activated(Loaded(readable), days) \in Status
      /\ Keeps(Loaded(readable)) => Keeps(Activated(Loaded(readable), days))
  BY <1>2, <1>3, ActivatedKeeps
<1>5. mishaps' = mishaps \cup Overwrites(readable, written) \cup {}
  BY <1>1
<1>6. FileKept /\ file' \in Status \cup {Absent}
  BY <1>1, <1>4, <1>5, WriteKeeps DEF IInv
<1>7. Today + days \in Nat
  BY <1>2, DayBounds DEF Today, Days
<1>8. call' \in [Callers -> [pc : {"idle", "fetching", "reload"},
                             tx : Txs \cup {None}, days : Terms \cup {0}]]
  BY <1>1 DEF Done, Goto, Idle, IInv, TypeOK
<1>9. TypeOK'
  BY <1>1, <1>6, <1>7, <1>8 DEF Activate, IInv, TypeOK, Overwrites
<1>10. QED
  BY <1>6, <1>9 DEF Activate

\* The administrator's plan is activated in the status that was read.
LEMMA AdminStep ==
  ASSUME IInv, ActivateAdmin
  PROVE  TypeOK' /\ FileKept /\ credited' = credited
<1>1. PICK readable \in BOOLEAN, written \in BOOLEAN :
        /\ Write([Loaded(readable) EXCEPT !.plan = "admin", !.expiry = None,
                                          !.trial["scan"] = None], written)
        /\ mishaps' = mishaps \cup Overwrites(readable, written)
        /\ until' = IF written THEN None ELSE until
  BY DEF ActivateAdmin
<1> DEFINE l == Loaded(readable)
           s == [l EXCEPT !.plan = "admin", !.expiry = None,
                          !.trial["scan"] = None]
<1>2. l \in Status
  BY LoadedKeeps DEF IInv
<1> HIDE DEF l
<1>3. s \in Status /\ (Keeps(l) => Keeps(s))
  BY <1>2 DEF Status, Trials, Keeps
<1>4. mishaps' = mishaps \cup Overwrites(readable, written) \cup {}
  BY <1>1
<1> HIDE DEF s
<1>5. FileKept /\ file' \in Status \cup {Absent}
  BY <1>1, <1>3, <1>4, WriteKeeps DEF IInv, s, l
<1>6. TypeOK'
  BY <1>1, <1>5 DEF ActivateAdmin, IInv, TypeOK, Overwrites
<1>7. QED
  BY <1>5, <1>6 DEF ActivateAdmin

\* A payment is credited only while the status that is read does not name it,
\* and the status that is written does.
LEMMA VerifyStep ==
  ASSUME IInv, NEW c \in Callers, VerifyEnds(c)
  PROVE  TypeOK' /\ FileKept /\ Credited'
<1> DEFINE x == call[c].tx
           days == call[c].days
<1>1. PICK readable \in BOOLEAN :
        x \notin Loaded(readable).used /\ Credit(c, Loaded(readable), readable)
  BY DEF VerifyEnds
<1> DEFINE l == Loaded(readable)
           a == Activated(l, days)
           s == [a EXCEPT !.used = @ \cup {x}]
<1>2. PICK written \in BOOLEAN :
        /\ Write(s, written)
        /\ mishaps' = mishaps \cup Overwrites(readable, written)
        /\ credited' = [credited EXCEPT ![x] = IF written THEN @ + 1 ELSE @]
        /\ until' = IF written THEN Today + days ELSE until
        /\ IF written THEN Done(c) ELSE Goto(c, "idle")
  BY <1>1 DEF Credit
<1>3. x \in Txs /\ days \in Nat /\ now \in Times
  BY StatusAssumption DEF IInv, TypeOK, Fetching, VerifyEnds
<1>4. l \in Status
  BY LoadedKeeps DEF IInv
<1>5. a \in Status /\ a.used = l.used /\ (Keeps(l) => Keeps(a))
  BY <1>3, <1>4, ActivatedKeeps
<1> HIDE DEF a, l
<1>6. s \in Status /\ s.used = a.used \cup {x} /\ s.trial = a.trial
  BY <1>3, <1>5 DEF Status
<1>7. Keeps(l) => Keeps(s)
  BY <1>5, <1>6 DEF Keeps
<1> HIDE DEF s
<1>8. mishaps' = mishaps \cup Overwrites(readable, written) \cup {}
  BY <1>2
<1>9. FileKept /\ file' \in Status \cup {Absent}
  BY <1>2, <1>6, <1>7, <1>8, WriteKeeps DEF IInv, l
<1>10. TypeOK'
  <2>1. Today + days \in Nat
    BY <1>3, DayBounds DEF Today, Days
  <2>2. call' \in [Callers -> [pc : {"idle", "fetching", "reload"},
                               tx : Txs \cup {None}, days : Terms \cup {0}]]
    BY <1>2 DEF Done, Goto, Idle, IInv, TypeOK
  <2>3. credited' \in [Txs -> Nat]
    BY <1>2, <1>3 DEF IInv, TypeOK
  <2>4. QED
    BY <1>2, <1>9, <2>1, <2>2, <2>3 DEF VerifyEnds, IInv, TypeOK, Overwrites
<1>11. Credited'
  <2> SUFFICES ASSUME Spared(Lost)', NEW y \in Txs
               PROVE  \/ credited'[y] = 0
                      \/ credited'[y] = 1 /\ file' # Absent /\ y \in file'.used
    BY DEF Credited
  <2>1. \/ credited[y] = 0
        \/ credited[y] = 1 /\ file # Absent /\ y \in file.used
    BY <1>9 DEF FileKept, IInv, Credited
  <2>2. CASE written /\ y = x
    <3>1. Keeps(l)
      BY <1>2, <2>2, LoadedKeeps DEF IInv, l, Spared, Lost, Overwrites, Keeps
    <3>2. credited[x] = 0
      BY <1>1, <2>1, <2>2, <3>1 DEF Keeps, l
    <3>3. credited'[x] = 1
      BY <1>2, <1>3, <2>2, <3>2 DEF IInv, TypeOK
    <3>4. file' = s /\ s # Absent
      BY <1>2, <1>6, <2>2, ValueAssumption DEF Write
    <3>5. QED
      BY <1>6, <2>2, <3>3, <3>4
  <2>3. CASE ~(written /\ y = x)
    <3>1. credited'[y] = credited[y]
      BY <1>2, <1>3, <2>3 DEF IInv, TypeOK
    <3>2. QED
      BY <1>9, <2>1, <3>1 DEF FileKept, Keeps
  <2>4. QED
    BY <2>2, <2>3
<1>12. QED
  BY <1>9, <1>10, <1>11

\* The other actions leave the file alone.
LEMMA OtherStep ==
  ASSUME IInv,
         \/ \E c \in Callers : \/ ConsumeUnmetered(c) \/ VerifyRefused(c)
                               \/ VerifyTooLate(c)
                               \/ \E x \in Txs, d \in Terms : VerifyBegins(c, x, d)
         \/ TimePasses \/ ClockSetBack \/ Restart \/ UNCHANGED vars
  PROVE  TypeOK' /\ FileKept /\ credited' = credited
<1> DEFINE Calls == [Callers -> [pc : {"idle", "fetching", "reload"},
                                 tx : Txs \cup {None}, days : Terms \cup {0}]]
<1>1. ASSUME NEW c \in Callers, ConsumeUnmetered(c) PROVE call' \in Calls
  BY <1>1 DEF ConsumeUnmetered, Done, Goto, Idle, IInv, TypeOK
<1>2. ASSUME NEW c \in Callers, VerifyRefused(c) PROVE call' \in Calls
  BY <1>2 DEF VerifyRefused, Goto, Idle, IInv, TypeOK
<1>3. ASSUME NEW c \in Callers, VerifyTooLate(c) PROVE call' \in Calls
  BY <1>3 DEF VerifyTooLate, Goto, Idle, IInv, TypeOK
<1>4. ASSUME NEW c \in Callers, NEW x \in Txs, NEW d \in Terms,
             VerifyBegins(c, x, d)
      PROVE  call' \in Calls
  BY <1>4 DEF VerifyBegins, IInv, TypeOK
<1>5. Restart => call' \in Calls /\ status' \in [Managers -> Status \cup {None}]
  BY DEF Restart, Idle
<1>6. file' = file /\ credited' = credited /\ mishaps \subseteq mishaps'
  BY DEF ConsumeUnmetered, VerifyRefused, VerifyTooLate, VerifyBegins,
         TimePasses, ClockSetBack, Restart, vars, ghosts
<1>7. now' \in Times
  BY StatusAssumption DEF IInv, TypeOK, Times, ConsumeUnmetered, VerifyRefused,
     VerifyTooLate, VerifyBegins, TimePasses, ClockSetBack, Restart, vars, ghosts
<1>8. TypeOK'
  BY <1>1, <1>2, <1>3, <1>4, <1>5, <1>6, <1>7
  DEF IInv, TypeOK, ConsumeUnmetered, VerifyRefused, VerifyTooLate, VerifyBegins,
      TimePasses, ClockSetBack, Restart, vars, ghosts
<1>9. FileKept
  BY <1>6 DEF FileKept, Spared
<1>10. QED
  BY <1>6, <1>8, <1>9

\* Only the beginning of a verification makes a call fetch.
LEMMA FetchingStep ==
  ASSUME IInv, [Next]_vars
  PROVE  Fetching'
<1>1. CASE \E m \in Managers : Load(m)
  BY <1>1 DEF IInv, TypeOK, Fetching, Load, Goto, Idle
<1>2. CASE \E m \in Managers : Save(m)
  BY <1>2 DEF IInv, TypeOK, Fetching, Save
<1>3. CASE \E c \in Callers : ConsumeMetered(c) \/ ConsumeUnmetered(c)
  BY <1>3 DEF IInv, TypeOK, Fetching, ConsumeMetered, ConsumeUnmetered, Done,
              Goto, Idle
<1>4. CASE \E c \in Callers, d \in Terms : Activate(c, d)
  BY <1>4 DEF IInv, TypeOK, Fetching, Activate, Done, Goto, Idle
<1>5. CASE \E c \in Callers, d \in Terms, x \in Txs : VerifyBegins(c, x, d)
  BY <1>5 DEF IInv, TypeOK, Fetching, VerifyBegins
<1>6. CASE \E c \in Callers : VerifyRefused(c) \/ VerifyTooLate(c)
  BY <1>6 DEF IInv, TypeOK, Fetching, VerifyRefused, VerifyTooLate, Goto, Idle
<1>7. CASE \E c \in Callers : VerifyEnds(c)
  BY <1>7 DEF IInv, TypeOK, Fetching, VerifyEnds, Credit, Done, Goto, Idle
<1>8. CASE Restart
  <2>1. \A c \in Callers : call'[c].pc = "idle"
    BY <1>8 DEF Restart, Idle
  <2>2. QED
    BY <2>1 DEF Fetching
<1>9. CASE ActivateAdmin \/ TimePasses \/ ClockSetBack \/ UNCHANGED vars
  <2>1. call' = call
    BY <1>9 DEF ActivateAdmin, TimePasses, ClockSetBack, vars
  <2>2. QED
    BY <2>1 DEF IInv, Fetching
<1>10. QED
  BY <1>1, <1>2, <1>3, <1>4, <1>5, <1>6, <1>7, <1>8, <1>9 DEF Next, Operation

\* What is credited stays written down as long as nothing new is credited.
LEMMA CreditedKept ==
  ASSUME IInv, FileKept, credited' = credited
  PROVE  Credited'
BY DEF IInv, Credited, FileKept, Keeps

\* A step keeps the invariant, and keeps the file unless it records a loss.
LEMMA Step ==
  ASSUME IInv, [Next]_vars
  PROVE  IInv' /\ FileKept
<1>1. ASSUME NEW m \in Managers, Load(m) \/ Save(m)
      PROVE  TypeOK' /\ FileKept /\ Credited'
  BY <1>1, LoadStep, SaveStep, CreditedKept
<1>2. ASSUME NEW c \in Callers, Operation(c)
      PROVE  TypeOK' /\ FileKept /\ Credited'
  <2>1. CASE ConsumeMetered(c)
    BY <2>1, ConsumeStep, CreditedKept
  <2>2. ASSUME NEW d \in Terms, Activate(c, d)
        PROVE  TypeOK' /\ FileKept /\ Credited'
    BY <2>2, ActivateStep, CreditedKept
  <2>3. CASE VerifyEnds(c)
    BY <2>3, VerifyStep
  <2>4. CASE \/ ConsumeUnmetered(c) \/ VerifyRefused(c) \/ VerifyTooLate(c)
             \/ \E x \in Txs, d \in Terms : VerifyBegins(c, x, d)
    BY <2>4, OtherStep, CreditedKept
  <2>5. QED
    BY <1>2, <2>1, <2>2, <2>3, <2>4 DEF Operation
<1>3. CASE ActivateAdmin
  BY <1>3, AdminStep, CreditedKept, FetchingStep DEF IInv
<1>4. CASE TimePasses \/ ClockSetBack \/ Restart \/ UNCHANGED vars
  BY <1>4, OtherStep, CreditedKept, FetchingStep DEF IInv
<1>5. QED
  BY <1>1, <1>2, <1>3, <1>4, FetchingStep DEF Next, IInv

-----------------------------------------------------------------------------
(***************************************************************************)
(* The daily refreshes and the paid plan.                                  *)
(***************************************************************************)
\* What status s still grants today, with what was granted, is within the
\* limit.
Rations(s) == IF s.day = Today THEN granted + s.count <= Limit ELSE granted = 0

Rationed ==
  mishaps = {} => IF file = Absent THEN granted = 0 ELSE Rations(file)

\* Status s holds the plan last activated, and was written in the past.
Holds(s) ==
  /\ s.last <= now
  /\ s.plan = "paid" => until # None /\ s.expiry = until
  /\ until # None /\ Today <= until => s.plan = "paid"

PlanHeld ==
  Spared(Lost \cup {"clock"}) =>
    IF file = Absent THEN until = None ELSE Holds(file)

\* The refreshes of a status read are those of the file, or the new day's.
LEMMA LoadedRations ==
  ASSUME TypeOK, Rationed, mishaps = {}, NEW readable \in BOOLEAN,
         readable \/ file = Absent
  PROVE  Rations(Loaded(readable))
<1>1. CASE file = Absent
  BY <1>1, StatusAssumption DEF Loaded, Fresh, Rations, Rationed, TypeOK
<1>2. CASE file # Absent
  <2> DEFINE n == [file EXCEPT !.trial = [k \in Trials |-> Trial(file, k)],
                     !.plan = IF PlanOver(file) THEN "free" ELSE file.plan,
                     !.last = now,
                     !.expiry = IF (IF PlanOver(file) THEN "free" ELSE file.plan)
                                     = "paid" THEN @ ELSE None]
  <2>1. /\ n.day = file.day /\ n.count = file.count
        /\ DOMAIN n = DOMAIN file
    BY <1>2 DEF TypeOK, Status
  <2>2. Loaded(readable) = Refilled(n)
    BY <1>2 DEF Loaded, Normal
  <2> HIDE DEF n
  <2>3. Rations(n)
    BY <1>2, <2>1 DEF Rations, Rationed
  <2>4. \/ Refilled(n) = n
        \/ /\ n.day # Today
           /\ Refilled(n).count = Limit /\ Refilled(n).day = Today
    BY <1>2, <2>1 DEF Refilled, TypeOK, Status
  <2>5. QED
    BY <2>2, <2>3, <2>4, StatusAssumption DEF Rations
<1>3. QED
  BY <1>1, <1>2

\* The plan of a status read is that of the file, if that is not over.
LEMMA LoadedHolds ==
  ASSUME TypeOK, PlanHeld, Spared(Lost \cup {"clock"}), NEW readable \in BOOLEAN,
         readable \/ file = Absent
  PROVE  Holds(Loaded(readable))
<1>1. CASE file = Absent
  BY <1>1 DEF Loaded, Fresh, Holds, PlanHeld, TypeOK, Times
<1>2. CASE file # Absent
  <2> DEFINE plan == IF PlanOver(file) THEN "free" ELSE file.plan
             n == [file EXCEPT !.trial = [k \in Trials |-> Trial(file, k)],
                               !.plan = plan, !.last = now,
                               !.expiry = IF plan = "paid" THEN @ ELSE None]
  <2>1. /\ n.plan = plan /\ n.last = now
        /\ plan = "paid" => n.expiry = file.expiry
        /\ DOMAIN n = DOMAIN file
    BY <1>2 DEF TypeOK, Status
  <2>2. Loaded(readable) = Refilled(n)
    BY <1>2 DEF Loaded, Normal
  <2>3. Holds(file) /\ now \in Int
    BY <1>2 DEF PlanHeld, TypeOK, Times
  <2>4. /\ plan = "paid" => file.plan = "paid"
        /\ until # None /\ Today <= until => plan = "paid"
    BY <1>2, <2>3, DayBounds DEF PlanOver, RolledBack, Holds, TypeOK, Status,
       Times, Today, Days
  <2> HIDE DEF n, plan
  <2>5. Holds(n)
    BY <2>1, <2>3, <2>4 DEF Holds
  <2>6. /\ Refilled(n).plan = n.plan /\ Refilled(n).last = n.last
        /\ Refilled(n).expiry = n.expiry
    BY <1>2, <2>1 DEF Refilled, TypeOK, Status
  <2>7. QED
    BY <2>2, <2>5, <2>6 DEF Holds
<1>3. QED
  BY <1>1, <1>2

\* What a write without mishap leaves in the file.
LEMMA WriteRead ==
  ASSUME TypeOK, NEW readable \in BOOLEAN, NEW written \in BOOLEAN,
         NEW s \in Status, Write(s, written),
         Overwrites(readable, written) \subseteq mishaps'
  PROVE  /\ "read" \notin mishaps' /\ written =>
              (readable \/ file = Absent) /\ file' = s /\ file' # Absent
         /\ ~written => file' = file
BY ValueAssumption DEF Overwrites, Write

\* A step that records no mishap keeps the refreshes within the limit.
LEMMA RationStep ==
  ASSUME IInv, Rationed, [Next]_vars
  PROVE  Rationed'
<1> SUFFICES ASSUME mishaps' = {}
             PROVE  IF file' = Absent THEN granted' = 0 ELSE Rations(file)'
  BY DEF Rationed
<1>1. mishaps \subseteq mishaps'
  BY DEF Next, Operation, Load, Save, ConsumeMetered, ConsumeUnmetered, Activate,
     VerifyBegins, VerifyRefused, VerifyEnds, Credit, VerifyTooLate,
     ActivateAdmin, TimePasses, ClockSetBack, Restart, vars, ghosts
<1>2. mishaps = {} /\ TypeOK
  BY <1>1 DEF IInv
<1>3. IF file = Absent THEN granted = 0 ELSE Rations(file)
  BY <1>2 DEF Rationed
\* A status with the refreshes of the one read, written at the same time.
<1>4. ASSUME NEW readable \in BOOLEAN, NEW written \in BOOLEAN, NEW s \in Status,
             s.count = Loaded(readable).count, s.day = Loaded(readable).day,
             Write(s, written), Overwrites(readable, written) \subseteq mishaps',
             now' = now, granted' = granted
      PROVE  IF file' = Absent THEN granted' = 0 ELSE Rations(file)'
  <2>1. CASE written
    BY <1>2, <1>4, <2>1, WriteRead, LoadedRations DEF Rations, Today
  <2>2. CASE ~written
    BY <1>2, <1>3, <1>4, <2>2, WriteRead DEF Rations, Today
  <2>3. QED
    BY <2>1, <2>2
<1>5. ASSUME NEW m \in Managers, Load(m)
      PROVE  IF file' = Absent THEN granted' = 0 ELSE Rations(file)'
  <2>1. PICK readable \in BOOLEAN, written \in BOOLEAN :
          /\ Write(Loaded(readable), written)
          /\ mishaps' = mishaps \cup Overwrites(readable, written)
    BY <1>5 DEF Load
  <2>2. QED
    BY <1>2, <1>4, <1>5, <2>1, LoadedKeeps DEF Load
<1>6. ASSUME NEW m \in Managers, Save(m)
      PROVE  IF file' = Absent THEN granted' = 0 ELSE Rations(file)'
  <2>1. PICK written \in BOOLEAN :
          /\ Write(Normal(status[m]), written)
          /\ mishaps' = mishaps \cup IF written /\ Normal(status[m]) # Loaded(TRUE)
                                     THEN {"stale"} ELSE {}
    BY <1>6 DEF Save
  <2>2. written => Normal(status[m]) = Loaded(TRUE)
    BY <2>1
  <2>3. Write(Loaded(TRUE), written) /\ Overwrites(TRUE, written) = {}
    BY <2>1, <2>2 DEF Write, Overwrites
  <2>4. QED
    BY <1>2, <1>4, <1>6, <2>3, LoadedKeeps DEF Save
<1>7. ASSUME NEW c \in Callers, ConsumeMetered(c)
      PROVE  IF file' = Absent THEN granted' = 0 ELSE Rations(file)'
  <2>1. PICK readable \in BOOLEAN, written \in BOOLEAN :
          /\ ~Unmetered(Loaded(readable)) /\ Loaded(readable).count > 0
          /\ Write([Loaded(readable) EXCEPT !.count = @ - 1], written)
          /\ mishaps' = mishaps \cup Overwrites(readable, written)
                          \cup IF written THEN {} ELSE {"write"}
    BY <1>7 DEF ConsumeMetered
  <2> DEFINE l == Loaded(readable)
             s == [l EXCEPT !.count = @ - 1]
  <2>2. l \in Status
    BY <1>2, LoadedKeeps
  <2>3. written
    BY <2>1
  <2>4. l.day = Today
    <3>1. CASE file = Absent
      BY <3>1 DEF Loaded, Fresh
    <3>2. CASE file # Absent
      <4>1. readable
        BY <2>1, <2>3, <3>2 DEF Overwrites
      <4> DEFINE n == [file EXCEPT
                         !.trial = [k \in Trials |-> Trial(file, k)],
                         !.plan = IF PlanOver(file) THEN "free" ELSE file.plan,
                         !.last = now,
                         !.expiry =
                           IF (IF PlanOver(file) THEN "free" ELSE file.plan)
                                = "paid" THEN @ ELSE None]
      <4>2. l = Refilled(n) /\ DOMAIN n = DOMAIN file
        BY <3>2, <4>1 DEF Loaded, Normal
      <4> HIDE DEF n
      <4>3. \/ l = n /\ (Unmetered(n) \/ n.day = Today)
            \/ l.day = Today
        BY <1>2, <3>2, <4>2 DEF Refilled, TypeOK, Status
      <4>4. QED
        BY <2>1, <4>3
    <3>3. QED
      BY <3>1, <3>2
  <2> HIDE DEF l
  <2>5. s \in Status /\ s.count = l.count - 1 /\ s.day = l.day
    BY <2>1, <2>2, StatusAssumption DEF Status, l
  <2>6. Rations(l)
    BY <1>2, <2>1, <2>3, LoadedRations DEF Overwrites, l
  <2> HIDE DEF s
  <2>7. file' = s /\ file' # Absent
    BY <2>1, <2>3, <2>5, ValueAssumption DEF Write, s, l
  <2>8. granted' = granted + 1 /\ now' = now
    BY <1>7 DEF ConsumeMetered
  <2>9. granted + l.count <= Limit
    BY <2>4, <2>6 DEF Rations
  <2>10. QED
    BY <1>2, <2>2, <2>4, <2>5, <2>7, <2>8, <2>9, StatusAssumption
    DEF Rations, Today, Status, TypeOK
<1>8. ASSUME NEW readable \in BOOLEAN, NEW days \in Nat
      PROVE  LET s == Activated(Loaded(readable), days) IN
             /\ s \in Status /\ s.count = Loaded(readable).count
             /\ s.day = Loaded(readable).day
  BY <1>2, LoadedKeeps, ActivatedKeeps DEF Activated, Status, TypeOK
<1>9. ASSUME NEW c \in Callers, NEW days \in Terms, Activate(c, days)
      PROVE  IF file' = Absent THEN granted' = 0 ELSE Rations(file)'
  <2>1. PICK readable \in BOOLEAN, written \in BOOLEAN :
          /\ Write(Activated(Loaded(readable), days), written)
          /\ mishaps' = mishaps \cup Overwrites(readable, written)
    BY <1>9 DEF Activate
  <2>2. days \in Nat
    BY StatusAssumption
  <2>3. QED
    BY <1>4, <1>8, <1>9, <2>1, <2>2 DEF Activate
<1>10. CASE ActivateAdmin
  <2>1. PICK readable \in BOOLEAN, written \in BOOLEAN :
          /\ Write([Loaded(readable) EXCEPT !.plan = "admin", !.expiry = None,
                                            !.trial["scan"] = None], written)
          /\ mishaps' = mishaps \cup Overwrites(readable, written)
    BY <1>10 DEF ActivateAdmin
  <2> DEFINE l == Loaded(readable)
             s == [l EXCEPT !.plan = "admin", !.expiry = None,
                            !.trial["scan"] = None]
  <2>2. l \in Status
    BY <1>2, LoadedKeeps
  <2> HIDE DEF l
  <2>3. s \in Status /\ s.count = l.count /\ s.day = l.day
    BY <2>2 DEF Status, Trials
  <2> HIDE DEF s
  <2>4. Write(s, written)
    BY <2>1 DEF s, l
  <2>5. QED
    BY <1>4, <1>10, <2>1, <2>3, <2>4 DEF ActivateAdmin, l
<1>11. ASSUME NEW c \in Callers, VerifyEnds(c)
       PROVE  IF file' = Absent THEN granted' = 0 ELSE Rations(file)'
  <2>1. PICK readable \in BOOLEAN, written \in BOOLEAN :
          /\ Write([Activated(Loaded(readable), call[c].days)
                      EXCEPT !.used = @ \cup {call[c].tx}], written)
          /\ mishaps' = mishaps \cup Overwrites(readable, written)
    BY <1>11 DEF VerifyEnds, Credit
  <2> DEFINE a == Activated(Loaded(readable), call[c].days)
             s == [a EXCEPT !.used = @ \cup {call[c].tx}]
  <2>2. call[c].days \in Nat /\ call[c].tx \in Txs
    BY <1>11, StatusAssumption DEF VerifyEnds, IInv, Fetching
  <2>3. /\ a \in Status /\ a.count = Loaded(readable).count
        /\ a.day = Loaded(readable).day
    BY <1>8, <2>2
  <2> HIDE DEF a
  <2>4. s \in Status /\ s.count = a.count /\ s.day = a.day
    BY <2>2, <2>3 DEF Status
  <2> HIDE DEF s
  <2>5. Write(s, written)
    BY <2>1 DEF s, a
  <2>6. QED
    BY <1>4, <1>11, <2>1, <2>3, <2>4, <2>5 DEF VerifyEnds
<1>12. CASE TimePasses
  <2>1. CASE Today' = Today
    BY <1>3, <1>12, <2>1 DEF TimePasses, Rations, Today
  <2>2. CASE Today' # Today
    <3>1. granted' = 0 /\ file' = file
      BY <1>12, <2>2 DEF TimePasses, Today
    <3>2. file # Absent => file.count \in 0..Limit
      BY <1>2 DEF TypeOK, Status
    <3>3. QED
      BY <3>1, <3>2, StatusAssumption DEF Rations
  <2>3. QED
    BY <2>1, <2>2
<1>13. CASE ClockSetBack
  BY <1>13 DEF ClockSetBack
<1>14. CASE \/ \E c \in Callers :
                 \/ ConsumeUnmetered(c) \/ VerifyRefused(c) \/ VerifyTooLate(c)
                 \/ \E x \in Txs, d \in Terms : VerifyBegins(c, x, d)
            \/ Restart \/ UNCHANGED vars
  <2>1. file' = file /\ granted' = granted /\ now' = now
    BY <1>14 DEF ConsumeUnmetered, VerifyRefused, VerifyTooLate, VerifyBegins,
       Restart, vars, ghosts
  <2>2. QED
    BY <1>3, <2>1 DEF Rations, Today
<1>15. QED
  BY <1>5, <1>6, <1>7, <1>9, <1>10, <1>11, <1>12, <1>13, <1>14
  DEF Next, Operation

\* Days do not go back while the clock does not.
LEMMA DayGrows ==
  ASSUME NEW t \in Nat
  PROVE  DayOf(t) \in Nat /\ DayOf(t) <= DayOf(t + 1)
BY StatusAssumption, Z3 DEF DayOf

\* A step that neither loses the file nor sets the clock back keeps the plan.
LEMMA PlanStep ==
  ASSUME IInv, PlanHeld, [Next]_vars
  PROVE  PlanHeld'
<1> DEFINE Goal == IF file' = Absent THEN until' = None ELSE Holds(file)'
<1> SUFFICES ASSUME Spared(Lost \cup {"clock"})'
             PROVE  Goal
  BY DEF PlanHeld
<1>1. mishaps \subseteq mishaps'
  BY DEF Next, Operation, Load, Save, ConsumeMetered, ConsumeUnmetered, Activate,
     VerifyBegins, VerifyRefused, VerifyEnds, Credit, VerifyTooLate,
     ActivateAdmin, TimePasses, ClockSetBack, Restart, vars, ghosts
<1>2. Spared(Lost \cup {"clock"}) /\ TypeOK /\ "read" \notin mishaps'
  BY <1>1 DEF IInv, Spared, Lost
<1>3. IF file = Absent THEN until = None ELSE Holds(file)
  BY <1>2 DEF PlanHeld
\* A status that holds the plan which until' names, written at the same time.
<1>4. ASSUME NEW readable \in BOOLEAN, NEW written \in BOOLEAN, NEW s \in Status,
             s.last = Loaded(readable).last,
             \/ /\ s.plan = Loaded(readable).plan
                /\ s.expiry = Loaded(readable).expiry
                /\ until' = until
             \/ /\ s.plan = "paid" /\ s.expiry # None
                /\ until' = IF written THEN s.expiry ELSE until
             \/ /\ s.plan = "admin"
                /\ until' = IF written THEN None ELSE until,
             Write(s, written), Overwrites(readable, written) \subseteq mishaps',
             now' = now
      PROVE  Goal
  <2>1. CASE written
    <3>1. Holds(Loaded(readable)) /\ file' = s /\ file' # Absent
      BY <1>2, <1>4, <2>1, WriteRead, LoadedHolds
    <3>2. QED
      BY <1>4, <2>1, <3>1 DEF Holds, Today
  <2>2. CASE ~written
    BY <1>2, <1>3, <1>4, <2>2, WriteRead DEF Holds, Today
  <2>3. QED
    BY <2>1, <2>2
<1> HIDE DEF Goal
<1>5. ASSUME NEW m \in Managers, Load(m)
      PROVE  Goal
  <2>1. PICK readable \in BOOLEAN, written \in BOOLEAN :
          /\ Write(Loaded(readable), written)
          /\ mishaps' = mishaps \cup Overwrites(readable, written)
    BY <1>5 DEF Load
  <2>2. QED
    BY <1>2, <1>4, <1>5, <2>1, LoadedKeeps DEF Load
<1>6. ASSUME NEW m \in Managers, Save(m)
      PROVE  Goal
  <2>1. PICK written \in BOOLEAN :
          /\ Write(Normal(status[m]), written)
          /\ mishaps' = mishaps \cup IF written /\ Normal(status[m]) # Loaded(TRUE)
                                     THEN {"stale"} ELSE {}
    BY <1>6 DEF Save
  <2>2. written => Normal(status[m]) = Loaded(TRUE)
    BY <2>1 DEF Spared, Lost
  <2>3. Write(Loaded(TRUE), written) /\ Overwrites(TRUE, written) = {}
    BY <2>1, <2>2 DEF Write, Overwrites
  <2>4. QED
    BY <1>2, <1>4, <1>6, <2>3, LoadedKeeps DEF Save, ghosts
<1>7. ASSUME NEW c \in Callers, ConsumeMetered(c)
      PROVE  Goal
  <2>1. PICK readable \in BOOLEAN, written \in BOOLEAN :
          /\ Loaded(readable).count > 0
          /\ Write([Loaded(readable) EXCEPT !.count = @ - 1], written)
          /\ mishaps' = mishaps \cup Overwrites(readable, written)
                          \cup IF written THEN {} ELSE {"write"}
    BY <1>7 DEF ConsumeMetered
  <2> DEFINE l == Loaded(readable)
             s == [l EXCEPT !.count = @ - 1]
  <2>2. l \in Status
    BY <1>2, LoadedKeeps
  <2> HIDE DEF l
  <2>3. /\ s \in Status /\ s.plan = l.plan /\ s.expiry = l.expiry
        /\ s.last = l.last
    BY <2>1, <2>2, StatusAssumption DEF Status, l
  <2> HIDE DEF s
  <2>4. Write(s, written)
    BY <2>1 DEF s, l
  <2>5. QED
    BY <1>4, <1>7, <2>1, <2>3, <2>4 DEF ConsumeMetered, l
<1>8. ASSUME NEW readable \in BOOLEAN, NEW days \in Nat
      PROVE  LET s == Activated(Loaded(readable), days) IN
             /\ s \in Status /\ s.last = Loaded(readable).last
             /\ s.plan = "paid" /\ s.expiry = Today + days /\ Today + days # None
  <2>1. now \in Times /\ Today + days \in Nat
    BY <1>2, DayBounds DEF TypeOK, Today, Days
  <2> DEFINE l == Loaded(readable)
  <2>2. l \in Status
    BY <1>2, LoadedKeeps
  <2> HIDE DEF l
  <2>3. Activated(l, days) \in Status
    BY <2>1, <2>2, ActivatedKeeps
  <2>4. /\ Activated(l, days).last = l.last
        /\ Activated(l, days).plan = "paid"
        /\ Activated(l, days).expiry = Today + days
    BY <2>2 DEF Activated, Status
  <2>5. QED
    BY <2>1, <2>3, <2>4, ValueAssumption DEF l
<1>9. ASSUME NEW c \in Callers, NEW days \in Terms, Activate(c, days)
      PROVE  Goal
  <2>1. PICK readable \in BOOLEAN, written \in BOOLEAN :
          /\ Write(Activated(Loaded(readable), days), written)
          /\ mishaps' = mishaps \cup Overwrites(readable, written)
          /\ until' = IF written THEN Today + days ELSE until
    BY <1>9 DEF Activate
  <2>2. days \in Nat
    BY StatusAssumption
  <2>3. QED
    BY <1>4, <1>8, <1>9, <2>1, <2>2 DEF Activate
<1>10. CASE ActivateAdmin
  <2>1. PICK readable \in BOOLEAN, written \in BOOLEAN :
          /\ Write([Loaded(readable) EXCEPT !.plan = "admin", !.expiry = None,
                                            !.trial["scan"] = None], written)
          /\ mishaps' = mishaps \cup Overwrites(readable, written)
          /\ until' = IF written THEN None ELSE until
    BY <1>10 DEF ActivateAdmin
  <2> DEFINE l == Loaded(readable)
             s == [l EXCEPT !.plan = "admin", !.expiry = None,
                            !.trial["scan"] = None]
  <2>2. l \in Status
    BY <1>2, LoadedKeeps
  <2> HIDE DEF l
  <2>3. s \in Status /\ s.plan = "admin" /\ s.last = l.last
    BY <2>2 DEF Status, Trials
  <2> HIDE DEF s
  <2>4. Write(s, written)
    BY <2>1 DEF s, l
  <2>5. QED
    BY <1>4, <1>10, <2>1, <2>3, <2>4 DEF ActivateAdmin, l
<1>11. ASSUME NEW c \in Callers, VerifyEnds(c)
       PROVE  Goal
  <2>1. PICK readable \in BOOLEAN, written \in BOOLEAN :
          /\ Write([Activated(Loaded(readable), call[c].days)
                      EXCEPT !.used = @ \cup {call[c].tx}], written)
          /\ mishaps' = mishaps \cup Overwrites(readable, written)
          /\ until' = IF written THEN Today + call[c].days ELSE until
    BY <1>11 DEF VerifyEnds, Credit
  <2> DEFINE a == Activated(Loaded(readable), call[c].days)
             s == [a EXCEPT !.used = @ \cup {call[c].tx}]
  <2>2. call[c].days \in Nat /\ call[c].tx \in Txs
    BY <1>11, StatusAssumption DEF VerifyEnds, IInv, Fetching
  <2>3. /\ a \in Status /\ a.last = Loaded(readable).last /\ a.plan = "paid"
        /\ a.expiry = Today + call[c].days /\ a.expiry # None
    BY <1>8, <2>2
  <2> HIDE DEF a
  <2>4. /\ s \in Status /\ s.last = a.last /\ s.plan = a.plan
        /\ s.expiry = a.expiry
    BY <2>2, <2>3 DEF Status
  <2> HIDE DEF s
  <2>5. Write(s, written)
    BY <2>1 DEF s, a
  <2>6. QED
    BY <1>4, <1>11, <2>1, <2>3, <2>4, <2>5 DEF VerifyEnds
<1>12. CASE TimePasses
  <2>1. now \in Nat /\ now' = now + 1 /\ file' = file /\ until' = until
    BY <1>2, <1>12 DEF TimePasses, TypeOK, Times
  <2>2. Today \in Nat /\ Today' \in Nat /\ Today <= Today'
    BY <2>1, DayGrows DEF Today
  <2>3. file # Absent => file.last \in Nat /\ (until # None => until \in Nat)
    BY <1>2 DEF TypeOK, Status, Times
  <2>4. QED
    BY <1>3, <2>1, <2>2, <2>3 DEF Goal, Holds
<1>13. CASE ClockSetBack
  BY <1>13 DEF ClockSetBack, Spared, Lost
<1>14. CASE \/ \E c \in Callers :
                 \/ ConsumeUnmetered(c) \/ VerifyRefused(c) \/ VerifyTooLate(c)
                 \/ \E x \in Txs, d \in Terms : VerifyBegins(c, x, d)
            \/ Restart \/ UNCHANGED vars
  <2>1. file' = file /\ until' = until /\ now' = now
    BY <1>14 DEF ConsumeUnmetered, VerifyRefused, VerifyTooLate, VerifyBegins,
       Restart, vars, ghosts
  <2>2. QED
    BY <1>3, <2>1 DEF Goal, Holds, Today
<1>15. QED
  BY <1>5, <1>6, <1>7, <1>9, <1>10, <1>11, <1>12, <1>13, <1>14
  DEF Next, Operation

-----------------------------------------------------------------------------
(***************************************************************************)
(* The theorems.                                                           *)
(***************************************************************************)
\* The inductive invariant: types, each credited payment is named by the file,
\* what is granted and left is within the limit, and the file holds the plan.
THEOREM Invariance == Spec => [](IInv /\ Rationed /\ PlanHeld)
<1>1. Init => IInv /\ Rationed /\ PlanHeld
  BY StatusAssumption, ValueAssumption
  DEF Init, IInv, TypeOK, Times, Fetching, Credited, Idle, Rationed, PlanHeld
<1>2. IInv /\ Rationed /\ PlanHeld /\ [Next]_vars => (IInv /\ Rationed /\ PlanHeld)'
  BY Step, RationStep, PlanStep
<1>3. QED
  BY <1>1, <1>2, PTL DEF Spec

\* The file, the managers' copies and the calls are well typed: the refreshes
\* left never become negative (consume_refresh).
THEOREM Typing == Spec => []TypeOK
<1>1. IInv => TypeOK
  BY DEF IInv
<1>2. QED
  BY <1>1, Invariance, PTL

\* verify_usdt_transaction credits a payment at most once, for any number of
\* threads between its two looks at the used payments.
THEOREM PaymentSafety == Spec => []PaymentUsedOnce
<1>1. IInv => PaymentUsedOnce
  BY DEF IInv, Credited, PaymentUsedOnce, Lost
<1>2. QED
  BY <1>1, Invariance, PTL

\* The plan last paid for is on disk to the end of its last day, and no longer
\* (_normalize, activate_premium_plan, verify_usdt_transaction).
THEOREM PlanSafety == Spec => []PaidPlanKept
<1>1. IInv /\ PlanHeld => PaidPlanKept
  <2> SUFFICES ASSUME IInv, PlanHeld, file # Absent,
                      Spared({"read", "stale", "clock"})
               PROVE  IF until # None /\ Today <= until
                      THEN file.plan = "paid" /\ file.expiry = until
                      ELSE file.plan = "paid" => file.expiry < Today
    BY DEF PaidPlanKept
  <2>1. Holds(file)
    BY DEF PlanHeld, Spared, Lost
  <2>2. (until # None => until \in Nat) /\ Today \in Nat
    BY DayBounds DEF IInv, TypeOK, Today, Days
  <2>3. QED
    BY <2>1, <2>2 DEF Holds
<1>2. QED
  BY <1>1, Invariance, PTL

\* consume_refresh grants no more than the daily refreshes, as long as every
\* write succeeds, no older copy is written and the clock goes on.
THEOREM RefreshSafety == Spec => []RefreshesWithinLimit
<1>1. IInv /\ Rationed => RefreshesWithinLimit
  <2> SUFFICES ASSUME IInv, Rationed, mishaps = {}
               PROVE  granted <= Limit
    BY DEF RefreshesWithinLimit
  <2>1. granted \in Nat /\ (file # Absent => file.count \in 0..Limit)
    BY DEF IInv, TypeOK, Status
  <2>2. QED
    BY <2>1, StatusAssumption DEF Rationed, Rations
<1>2. QED
  BY <1>1, Invariance, PTL

\* _normalize never begins a trial again: no operation, restart or change of
\* the clock does.
THEOREM TrialSafety == Spec => TrialOnce
<1>1. IInv /\ [Next]_vars =>
        [\A k \in Trials :
           /\ file # Absent /\ file'.trial[k] # None
           /\ Spared({"read", "stale"})'
           => file.trial[k] # None]_file
  BY Step DEF FileKept, Keeps, Lost
<1>2. QED
  BY <1>1, Invariance, PTL DEF Spec, TrialOnce
=============================================================================
