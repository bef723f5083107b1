---------------------------- MODULE PaperTrading ----------------------------
(***************************************************************************)
(* Paper trading: server/services/paper.py, server/routes/paper.py and the *)
(* prices job of server/scheduler.py over one trades table.                *)
(*                                                                         *)
(* Each request has a database session of its own, and so has each run of  *)
(* the prices job (the watcher).  A SELECT sees committed rows only; an    *)
(* UPDATE that is flushed but not committed is visible to its own session, *)
(* locks its row, and is lost if the session closes first.  Requests flush *)
(* and commit in one statement sequence, so only the watcher holds rows.   *)
(* A flush or a commit may fail, for want of the row or for an error of    *)
(* the database.  The session then refuses every later statement until it  *)
(* is rolled back or closed.                                               *)
(*                                                                         *)
(* Prices are integers with two decimals of a percent of headroom, so that *)
(* the percentages below divide exactly.  One symbol is traded.            *)
(***************************************************************************)
EXTENDS Integers

CONSTANTS Users,          \* paper accounts
          Requests,       \* web requests served concurrently
          MaxTrades,      \* bound: rows ever inserted
          Prices,         \* the prices a request or the market may name
          Sides,          \* Sides[u]: "long", "short", or both, as u opens
          InitialCash,    \* settings.paper_initial_cash
          UsagePct,       \* settings.paper_capital_usage_pct
          StopPct, TakePct,             \* OpenTradeReq percentages
          ActivationPct, DistancePct,   \* settings.trailing_*_pct
          NoRow,          \* the value of a row that does not exist
          Expired,        \* an ORM object to be reloaded on its next use
          None            \* SQL NULL

Ids == 1..MaxTrades

Reasons == {"Manual", "Stop Loss", "Trailing Stop", "Take Profit"}

\* A row, as the columns of server/models.py declare it.
Trade ==
  [user : Users, side : {"long", "short"}, entry : Prices, notional : Nat,
   stop : Nat, take : Nat, best : Prices, trail : Nat \cup {None}, active : BOOLEAN,
   status : {"open", "closed"}, exit : Nat \cup {None}, pnl : Int \cup {None},
   reason : Reasons \cup {None}]

ASSUME PaperAssumption ==
  /\ MaxTrades \in Nat /\ InitialCash \in Nat
  /\ Prices \subseteq Nat \ {0}
  /\ Sides \in [Users -> SUBSET {"long", "short"}]
  /\ UsagePct \in 0..100 /\ StopPct \in 0..100 /\ TakePct \in 0..100
  /\ ActivationPct \in 0..100 /\ DistancePct \in 0..100
  /\ NoRow \notin Trade /\ Expired \notin Trade /\ NoRow # Expired

VARIABLES db,        \* db[i]: the committed row of trade i, or NoRow
          nextId,    \* the next primary key
          market,    \* the price a lookup answers: the last scan's, or a remote one
          req,       \* req[r]: what request r has read so far
          wpc,       \* where the watcher is in its job
          wprice,    \* the price it fetched, None before
          wusers,    \* users it has still to check
          wtodo,     \* loaded trades of the current user still to evaluate
          wobj,      \* its ORM objects: row copies with its own changes
          pend,      \* trades whose change it has flushed but not committed
          wid,       \* the trade it is closing
          evaluated, \* trades the current job has evaluated
          peak       \* peak[i]: best price a job has applied to trade i

watcher == <<wpc, wprice, wusers, wtodo, wobj, pend, wid, evaluated, peak>>
paperVars == <<db, nextId, market, req, watcher>>

IsRow(row)  == row # NoRow /\ row # Expired
IsOpen(row) == IsRow(row) /\ row.status = "open"
IsClosed(row) == IsRow(row) /\ row.status = "closed"

\* The trade rows, and the places a request and the job can be in.
PaperTypes ==
  /\ DOMAIN db = Ids
  /\ \A i \in Ids : IsRow(db[i]) =>
       /\ db[i] \in Trade /\ db[i].side \in Sides[db[i].user]
       /\ db[i].status = "closed" =>
            db[i].exit \in Nat /\ db[i].pnl \in Int /\ db[i].reason \in Reasons
  /\ nextId \in 1..(MaxTrades + 1)
  /\ market \in Prices /\ wprice \in Prices \cup {None}
  /\ \A r \in Requests : req[r].pc \in {"idle", "open", "insert", "close",
                                        "delete"}
  /\ wpc \in {"idle", "fetch", "select", "check", "closing", "refresh"}
  /\ wusers \subseteq Users
  /\ wtodo \subseteq Ids /\ pend \subseteq Ids /\ evaluated \subseteq Ids
  /\ wid \in Ids \cup {None}

-----------------------------------------------------------------------------
(***************************************************************************)
(* Price arithmetic, for both sides at once: the code of a short mirrors   *)
(* that of a long.                                                         *)
(***************************************************************************)
AtLeast(side, a, b) == IF side = "long" THEN a >= b ELSE a <= b
Best(side, a, b) == IF AtLeast(side, a, b) THEN a ELSE b

\* The price pct percent in the trader's favour, or against, of price p.
Up(side, p, pct)   == (p * (IF side = "long" THEN 100 + pct ELSE 100 - pct)) \div 100
Down(side, p, pct) == Up(side, p, -pct)

Gain(side, from, to) == IF side = "long" THEN to - from ELSE from - to

Pnl(row, price) == (Gain(row.side, row.entry, price) * row.notional) \div row.entry

StopHit(row, p) == AtLeast(row.side, row.stop, p)
TakeHit(row, p) == AtLeast(row.side, p, row.take)

\* Mutant: the trailing level replaces the stop without comparing.
Trailed_Replaces(row, p) ==
  LET best == Best(row.side, row.best, p)
      cand == Down(row.side, p, DistancePct)
  IN IF Gain(row.side, row.entry, best) * 100 >= ActivationPct * row.entry
     THEN [row EXCEPT !.best = best, !.active = TRUE, !.trail = cand,
                      !.stop = cand]
     ELSE [row EXCEPT !.best = best]

\* check_exits, first half: the high-water mark, and once the gain reaches the
\* activation the trailing stop, which pulls the stop loss along.
Trailed(row, p) ==
  LET best == Best(row.side, row.best, p)
      cand == Down(row.side, best, DistancePct)
      trail == IF row.trail = None THEN cand ELSE Best(row.side, row.trail, cand)
  IN IF Gain(row.side, row.entry, best) * 100 >= ActivationPct * row.entry
     THEN [row EXCEPT !.best = best, !.active = TRUE, !.trail = trail,
                      !.stop = Best(row.side, @, trail)]
     ELSE [row EXCEPT !.best = best]

\* check_exits, second half: the level that closes the trade, stop first.
ExitLevel(row, p) ==
  IF StopHit(row, p)
  THEN [exit |-> row.stop,
        reason |-> IF row.active THEN "Trailing Stop" ELSE "Stop Loss"]
  ELSE [exit |-> row.take, reason |-> "Take Profit"]

\* The columns close_trade writes.
Closed(row, exit, reason) ==
  [row EXCEPT !.status = "closed", !.exit = exit, !.reason = reason,
              !.pnl = Pnl(row, exit)]

\* The columns check_exits writes, copied from the ORM object into the row.
WithLevels(row, obj) ==
  [row EXCEPT !.best = obj.best, !.active = obj.active, !.trail = obj.trail,
              !.stop = obj.stop]

-----------------------------------------------------------------------------
Idle == [pc |-> "idle"]

PaperInit ==
  /\ db = [i \in Ids |-> NoRow]
  /\ nextId = 1
  /\ market \in Prices /\ wprice = None
  /\ req = [r \in Requests |-> Idle]
  /\ wpc = "idle"
  /\ wusers = {} /\ wtodo = {} /\ pend = {} /\ evaluated = {} /\ wid = None
  /\ wobj = [i \in Ids |-> NoRow]
  /\ peak = [i \in Ids |-> None]

MarketMoves ==
  /\ market' \in Prices \ {market}
  /\ UNCHANGED <<db, nextId, req, watcher>>

SetReq(r, rec) == req' = [req EXCEPT ![r] = rec]

OpenIds(u)   == {i \in Ids : IsOpen(db[i]) /\ db[i].user = u}
ClosedIds(u) == {i \in Ids : IsClosed(db[i]) /\ db[i].user = u}

\* The sum of a column over the rows.
Total(column) ==
  LET sum[n \in 0..MaxTrades] == IF n = 0 THEN 0 ELSE sum[n - 1] + column[n]
  IN sum[MaxTrades]

ClosedPnl(u)    == Total([i \in Ids |-> IF i \in ClosedIds(u) THEN db[i].pnl ELSE 0])
OpenNotional(u) == Total([i \in Ids |-> IF i \in OpenIds(u) THEN db[i].notional ELSE 0])

\* The cash of the account: what the rows, read at one moment, leave free.
Free(u) == InitialCash + ClosedPnl(u) - OpenNotional(u)

\* Rows the watcher has changed and not committed are locked.
Unlocked(i) == i \notin pend

-----------------------------------------------------------------------------
(***************************************************************************)
(* open_trade: the closed rows, then the open rows are read; the row that  *)
(* the cash left over allows is inserted and committed.  Ghosts of a       *)
(* request: what was free at its second read, and by how much the first    *)
(* read overstates the cash of that moment.                                *)
(***************************************************************************)
OpenTrade(r, u, side, price) ==
  /\ req[r].pc = "idle"
  /\ nextId <= MaxTrades
  /\ SetReq(r, [pc |-> "open", user |-> u, side |-> side, price |-> price,
                cash |-> InitialCash + ClosedPnl(u), free |-> 0, missed |-> 0])
  /\ UNCHANGED <<db, nextId, market, watcher>>

Excess(amount) == IF amount > 0 THEN amount ELSE 0

\* The request once it knows how much it opens.
Sized(q, notional) ==
  [pc |-> "insert", user |-> q.user, side |-> q.side, price |-> q.price,
   cash |-> notional, free |-> Free(q.user),
   missed |-> Excess(q.cash - (InitialCash + ClosedPnl(q.user)))]

\* Mutant: the open positions are not subtracted.
OpenSized_IgnoresOpen(r) ==
  LET notional == (req[r].cash * UsagePct) \div 100
  IN /\ req[r].pc = "open"
     /\ SetReq(r, IF notional <= 0 THEN Idle ELSE Sized(req[r], notional))
     /\ UNCHANGED <<db, nextId, market, watcher>>

\* Nothing to open with: "Insufficient virtual paper cash".
OpenSized(r) ==
  LET left == req[r].cash - OpenNotional(req[r].user)
      notional == (left * UsagePct) \div 100
  IN /\ req[r].pc = "open"
     /\ SetReq(r, IF notional <= 0 THEN Idle ELSE Sized(req[r], notional))
     /\ UNCHANGED <<db, nextId, market, watcher>>

NewRow(q) ==
  [user |-> q.user, side |-> q.side, entry |-> q.price, notional |-> q.cash,
   stop |-> Down(q.side, q.price, StopPct), take |-> Up(q.side, q.price, TakePct),
   best |-> q.price, trail |-> None, active |-> FALSE,
   status |-> "open", exit |-> None, pnl |-> None, reason |-> None]

OpenInserted(r) ==
  /\ req[r].pc = "insert"
  /\ IF nextId <= MaxTrades
     THEN /\ db' = [db EXCEPT ![nextId] = NewRow(req[r])]
          /\ nextId' = nextId + 1
          /\ peak' = [peak EXCEPT ![nextId] = req[r].price]
     ELSE UNCHANGED <<db, nextId, peak>>       \* beyond the bound: dropped
  /\ SetReq(r, Idle)
  /\ UNCHANGED <<market, wpc, wprice, wusers, wtodo, wobj, pend, wid, evaluated>>

(***************************************************************************)
(* close_trade from the route and delete_trade: the row is found open,     *)
(* then written by primary key alone.  An UPDATE that finds no row raises  *)
(* and rolls back; a DELETE that finds none does not.                      *)
(***************************************************************************)
CloseTrade(r, i, price) ==
  /\ req[r].pc = "idle"
  /\ IsOpen(db[i])                                   \* otherwise 404
  /\ SetReq(r, [pc |-> "close", id |-> i, row |-> db[i], price |-> price])
  /\ UNCHANGED <<db, nextId, market, watcher>>

CloseCommitted(r) ==
  LET i == req[r].id IN
  /\ req[r].pc = "close"
  /\ Unlocked(i)
  /\ db' = IF IsRow(db[i])
           THEN [db EXCEPT ![i] = WithLevels(Closed(req[r].row, req[r].price,
                                                    "Manual"), db[i])]
           ELSE db
  /\ SetReq(r, Idle)
  /\ UNCHANGED <<nextId, market, watcher>>

DeleteTrade(r, i) ==
  /\ req[r].pc = "idle"
  /\ IsOpen(db[i])                                   \* otherwise 404
  /\ SetReq(r, [pc |-> "delete", id |-> i])
  /\ UNCHANGED <<db, nextId, market, watcher>>

DeleteCommitted(r) ==
  LET i == req[r].id IN
  /\ req[r].pc = "delete"
  /\ Unlocked(i)
  /\ db' = [db EXCEPT ![i] = NoRow]
  /\ SetReq(r, Idle)
  /\ UNCHANGED <<nextId, market, watcher>>

\* A statement or the commit of a request raises, and its session is closed.
RequestFails(r) ==
  /\ req[r].pc # "idle"
  /\ SetReq(r, Idle)
  /\ UNCHANGED <<db, nextId, market, watcher>>

-----------------------------------------------------------------------------
(***************************************************************************)
(* The prices job.  One instance runs at a time (max_instances=1).         *)
(***************************************************************************)
JobVars == <<nextId, market, req>>

\* db.close(): what was flushed and not committed is rolled back.
EndJob ==
  /\ wpc' = "idle"
  /\ wprice' = None
  /\ pend' = {} /\ wusers' = {} /\ wtodo' = {} /\ wid' = None
  /\ wobj' = [i \in Ids |-> NoRow] /\ evaluated' = {}

JobStarts ==
  /\ wpc = "idle"
  /\ \E i \in Ids : IsOpen(db[i])
  /\ wpc' = "fetch"
  /\ UNCHANGED <<db, JobVars, wprice, wusers, wtodo, wobj, pend, wid, evaluated,
                 peak>>

PricesArrive ==
  /\ wpc = "fetch"
  /\ wprice' = market
  /\ wpc' = "select"
  /\ UNCHANGED <<db, JobVars, wusers, wtodo, wobj, pend, wid, evaluated, peak>>

NoPrices ==
  /\ wpc = "fetch"
  /\ EndJob
  /\ UNCHANGED <<db, JobVars, peak>>

SelectUsers ==
  /\ wpc = "select"
  /\ wusers' = {u \in Users : OpenIds(u) # {}}
  /\ wpc' = "check"
  /\ UNCHANGED <<db, JobVars, wprice, wtodo, wobj, pend, wid, evaluated, peak>>

\* check_exits(u): the user's open trades become ORM objects of the session.
LoadTrades(u) ==
  /\ wpc = "check" /\ wtodo = {} /\ u \in wusers
  /\ wusers' = wusers \ {u}
  /\ wtodo' = OpenIds(u)
  /\ wobj' = [i \in Ids |-> IF i \in OpenIds(u) THEN db[i] ELSE wobj[i]]
  /\ UNCHANGED <<db, JobVars, wpc, wprice, pend, wid, evaluated, peak>>

\* An expired object is reloaded when it is used.
Object(i) == IF wobj[i] = Expired THEN db[i] ELSE wobj[i]

\* The object's row is gone and it must be reloaded: check_exits raises for
\* this user, and the job goes on with the next.
ReloadFails(i) ==
  /\ wpc = "check" /\ i \in wtodo
  /\ Object(i) = NoRow
  /\ wtodo' = {}
  /\ UNCHANGED <<db, JobVars, wpc, wprice, wusers, wobj, pend, wid, evaluated,
                 peak>>

\* The flush finds no row to update, or the database fails: it raises, and the
\* session refuses every later statement of the job, whose users all fail.
FlushFails(i) ==
  /\ wpc = "check" /\ i \in wtodo
  /\ IsRow(Object(i)) /\ Trailed(Object(i), wprice) # Object(i)
  /\ EndJob
  /\ UNCHANGED <<db, JobVars, peak>>

\* Mutant: only the stop is looked at.
Evaluate_StopOnly(i) ==
  LET old == Object(i)
      new == Trailed(old, wprice)
  IN /\ wpc = "check" /\ i \in wtodo
     /\ IsRow(old)
     /\ new = old \/ IsRow(db[i])
     /\ wobj' = [wobj EXCEPT ![i] = new]
     /\ pend' = IF new = old THEN pend ELSE pend \cup {i}
     /\ peak' = [peak EXCEPT ![i] = Best(old.side, @, wprice)]
     /\ wtodo' = wtodo \ {i}
     /\ IF StopHit(new, wprice) /\ IsOpen(db[i])
        THEN wpc' = "closing" /\ wid' = i
        ELSE UNCHANGED <<wpc, wid>>
     /\ evaluated' = evaluated \cup {i}
     /\ UNCHANGED <<db, JobVars, wprice, wusers>>

\* One turn of the loop up to the SELECT of close_trade, which must find the
\* row still open.
Evaluate(i) ==
  LET old == Object(i)
      new == Trailed(old, wprice)
  IN /\ wpc = "check" /\ i \in wtodo
     /\ IsRow(old)
     /\ new = old \/ IsRow(db[i])
     /\ wobj' = [wobj EXCEPT ![i] = new]
     /\ pend' = IF new = old THEN pend ELSE pend \cup {i}
     /\ peak' = [peak EXCEPT ![i] = Best(old.side, @, wprice)]
     /\ wtodo' = wtodo \ {i}
     /\ IF (StopHit(new, wprice) \/ TakeHit(new, wprice)) /\ IsOpen(db[i])
        THEN wpc' = "closing" /\ wid' = i
        ELSE UNCHANGED <<wpc, wid>>
     /\ evaluated' = evaluated \cup {i}
     /\ UNCHANGED <<db, JobVars, wprice, wusers>>

\* Mutant: the close is flushed like the trailing stop and never committed.
WatcherCommits_Flushes ==
  /\ wpc = "closing"
  /\ IsRow(db[wid])
  /\ wpc' = "refresh"
  /\ UNCHANGED <<db, JobVars, wprice, wusers, wtodo, wobj, pend, wid, evaluated, peak>>

\* close_trade commits everything the session has flushed, and the close.
WatcherCommits ==
  LET level == ExitLevel(wobj[wid], wprice)
      write(i) == IF i = wid THEN Closed(wobj[i], level.exit, level.reason)
                  ELSE WithLevels(db[i], wobj[i])
  IN /\ wpc = "closing"
     /\ IsRow(db[wid])
     /\ db' = [i \in Ids |-> IF i \in pend \cup {wid} THEN write(i) ELSE db[i]]
     /\ pend' = {}
     /\ wpc' = "refresh"
     /\ UNCHANGED <<JobVars, wprice, wusers, wtodo, wobj, wid, evaluated, peak>>

\* The commit fails: the row was deleted since the SELECT, or the database
\* fails.  All that was flushed is lost.  The handler around close_trade asks the
\* expired object for its id, which the session refuses, so check_exits is left;
\* and so is that of every later user.
WatcherCommitFails ==
  /\ wpc = "closing"
  /\ EndJob
  /\ UNCHANGED <<db, JobVars, peak>>

\* The closed row is read again and the close recorded (audit.log_event).
Refreshed ==
  /\ wpc = "refresh"
  /\ IsRow(db[wid])
  /\ wpc' = "check" /\ wid' = None
  /\ UNCHANGED <<db, JobVars, wprice, wusers, wtodo, wobj, pend, evaluated, peak>>

\* The record cannot be committed: log_event rolls back, and every object expires.
AuditFails ==
  /\ wpc = "refresh"
  /\ IsRow(db[wid])
  /\ wobj' = [i \in Ids |-> IF wobj[i] = NoRow THEN NoRow ELSE Expired]
  /\ wpc' = "check" /\ wid' = None
  /\ UNCHANGED <<db, JobVars, wprice, wusers, wtodo, pend, evaluated, peak>>

\* The row was deleted since the commit: the refresh raises, and so does the
\* handler's use of the object; the job goes on with the next user.
RefreshFails ==
  /\ wpc = "refresh"
  /\ db[wid] = NoRow
  /\ wtodo' = {}
  /\ wpc' = "check" /\ wid' = None
  /\ UNCHANGED <<db, JobVars, wprice, wusers, wobj, pend, evaluated, peak>>

JobEnds ==
  /\ wpc = "check" /\ wtodo = {} /\ wusers = {}
  /\ EndJob
  /\ UNCHANGED <<db, JobVars, peak>>

-----------------------------------------------------------------------------
Request(r) ==
  \/ \E u \in Users, p \in Prices : \E side \in Sides[u] : OpenTrade(r, u, side, p)
  \/ OpenSized(r) \/ OpenInserted(r)
  \/ \E i \in Ids, p \in Prices : CloseTrade(r, i, p)
  \/ \E i \in Ids : DeleteTrade(r, i)
  \/ CloseCommitted(r) \/ DeleteCommitted(r)
  \/ RequestFails(r)

JobStep ==
  \/ SelectUsers
  \/ \E u \in Users : LoadTrades(u)
  \/ \E i \in Ids : ReloadFails(i) \/ FlushFails(i) \/ Evaluate(i)
  \/ WatcherCommits \/ WatcherCommitFails
  \/ Refreshed \/ AuditFails \/ RefreshFails
  \/ JobEnds

Watcher == JobStarts \/ PricesArrive \/ NoPrices \/ JobStep

PaperNext == MarketMoves \/ Watcher \/ \E r \in Requests : Request(r)

PaperSpec == PaperInit /\ [][PaperNext]_paperVars

(***************************************************************************)
(* The scheduler fires the job again and again, its statements end, and    *)
(* the price source answers infinitely often.                              *)
(***************************************************************************)
PaperFairness == /\ WF_paperVars(JobStarts)
            /\ WF_paperVars(JobStep)
            /\ SF_paperVars(PricesArrive)

PaperFairSpec == PaperSpec /\ PaperFairness

-----------------------------------------------------------------------------
(***************************************************************************)
(* Properties.                                                             *)
(***************************************************************************)
\* The committed stop of an open trade never moves against the trader, even
\* though a job writes it from an object loaded earlier.
StopTightens(i) ==
  IsOpen(db[i]) /\ IsOpen(db'[i]) => AtLeast(db[i].side, db'[i].stop, db[i].stop)

\* A trade closed automatically is closed at the level committed with it, and
\* the reason names that level, whichever closes and rollbacks raced.
ExitMatchesReason ==
  \A i \in Ids : IsClosed(db[i]) =>
    CASE db[i].reason = "Take Profit"   -> db[i].exit = db[i].take
      [] db[i].reason = "Stop Loss"     -> db[i].exit = db[i].stop /\ ~db[i].active
      [] db[i].reason = "Trailing Stop" -> /\ db[i].exit = db[i].stop
                                           /\ db[i].active
      [] OTHER -> TRUE

\* Rows keep their types, stops do not loosen, and a closed trade ended at the
\* level its reason names: what check_exits and close_trade do to the levels.
LevelsAreKept ==
  [][/\ PaperTypes'
     /\ ExitMatchesReason'
     /\ \A i \in Ids : StopTightens(i)]_db

\* When a job ends, in whatever way, no trade it evaluated is still open with its
\* committed stop or target on the wrong side of the price the job used, except
\* the one whose own commit failed.
NoMissedExit ==
  [][(wpc \in {"check", "closing"}) /\ wpc' = "idle" =>
       \A i \in evaluated \ {wid} : IsOpen(db[i]) =>
         ~StopHit(db[i], wprice) /\ ~TakeHit(db[i], wprice)]_paperVars

\* The sums an open is sized by are read at two moments and used at a third.  It
\* overdraws the account by no more than the losses booked between the two reads
\* and what was taken from the account between the second and its insert.
OverdraftIsExplained ==
  [][\A r \in Requests, u \in Users :
       req[r].pc = "insert" /\ req[r].user = u /\ nextId' # nextId /\ req'[r] # req[r] =>
         (Free(u)' + req[r].missed + Excess(req[r].free - Free(u)) >= 0)]_<<nextId, req>>

\* A closed trade is final: it is not closed again, reopened or deleted.
ClosedIsFinal == [][\A i \in Ids : IsClosed(db[i]) => db'[i] = db[i]]_db

\* Between jobs the committed high-water mark of an open trade is the best
\* price any job has applied to it.
HighWaterKept ==
  wpc = "idle" => \A i \in Ids : IsOpen(db[i]) => db[i].best = peak[i]

\* A step of the job fails: it leaves the trades of a user, or of all users to come.
JobFails ==
  \/ \E i \in Ids : ReloadFails(i) \/ FlushFails(i)
  \/ WatcherCommitFails \/ RefreshFails

\* Unless jobs go on failing for ever, a trade does not stay open for ever while
\* the price that get_prices answers stays beyond its stop or its target.
ExitHappens ==
  <>[][~JobFails]_paperVars =>
    \A i \in Ids : ~<>[](/\ IsOpen(db[i])
                         /\ StopHit(db[i], market) \/ TakeHit(db[i], market))
=============================================================================
