------------------------------ MODULE RiskBatch ------------------------------
(***************************************************************************)
(* The assessment of many rows at once: assess_risk_batch of               *)
(* analysis/risk.py with its pool of threads and the RiskCache they share.  *)
(*                                                                         *)
(* The assessment of one row is a function of the row (module Risk), so    *)
(* here a row is a key, and its result carries the time at which it was    *)
(* worked out, which the program does not keep.                            *)
(***************************************************************************)
EXTENDS Integers, Sequences, SequencesExt, FiniteSetsExt

CONSTANTS
  Keys,       \* the rows there are
  Failing,    \* those whose assessment raises an exception
  Threads,    \* batch_max_workers
  Batches,    \* the sequences of rows that are assessed
  TTL,        \* cache_ttl_sec
  MaxSize,    \* cache_max_size
  MaxClock,   \* bound of the clock
  Default     \* the row of _BATCH_DEFAULTS

Assessment == [key : Keys, began : Nat]

\* An age of 0 or a size of 0 reads as none, and the setting takes its place.
ASSUME BatchAssumption ==
  /\ Batches \subseteq Seq(Keys)
  /\ TTL \in Nat \ {0} /\ MaxSize \in Nat \ {0}
  /\ MaxClock \in Nat
  /\ Default \notin Assessment

VARIABLES
  clock,
  store,      \* the cache: [key, at, result], the least recently used first
  batch,      \* the rows, the futures and the results of the call
  threads     \* what each thread does: its row and the time it read

batchVars == <<clock, store, batch, threads>>

Idle == [at |-> "idle", row |-> 0, now |-> 0, result |-> Default]

NoBatch ==
  [phase |-> "done", cached |-> FALSE, rows |-> <<>>, queued |-> {},
   finished |-> {}, results |-> <<>>, late |-> FALSE]

RowIndices == DOMAIN batch.rows

Entries(key) == {i \in DOMAIN store : store[i].key = key}

-----------------------------------------------------------------------------
BatchInit ==
  /\ clock = 0
  /\ store = <<>>
  /\ batch = NoBatch
  /\ threads = [t \in Threads |-> Idle]

Submit(rows, cached) ==
  /\ batch.phase = "done"
  /\ batch' = [phase |-> "running", cached |-> cached, rows |-> rows,
               queued |-> DOMAIN rows, finished |-> {},
               results |-> [i \in DOMAIN rows |-> Default], late |-> FALSE]
  /\ UNCHANGED <<clock, store, threads>>

\* A thread takes the next row, and reads the time for the cache.
Take(t) ==
  /\ threads[t].at = "idle"
  /\ batch.queued # {}
  /\ LET row == Min(batch.queued)
     IN  /\ batch' = [batch EXCEPT !.queued = @ \ {row}]
         /\ threads' = [threads EXCEPT ![t] =
                          [at |-> IF batch.cached THEN "look" ELSE "compute",
                           row |-> row, now |-> clock, result |-> Default]]
  /\ UNCHANGED <<clock, store>>

KeyOf(t) == batch.rows[threads[t].row]

Deliver(t, result) ==
  /\ batch' = [batch EXCEPT !.finished =
                 @ \cup {[row |-> threads[t].row, asked |-> threads[t].now,
                          result |-> result]}]
  /\ threads' = [threads EXCEPT ![t] = Idle]

Live(t, entry) == threads[t].now - entry.at < TTL

GoOn(t) ==
  /\ threads' = [threads EXCEPT ![t].at = "compute"]
  /\ UNCHANGED batch

\* The first critical section of get_or_compute: a live entry is served and
\* becomes the one used last, an expired one is removed.
Look(t) ==
  /\ threads[t].at = "look"
  /\ \/ Entries(KeyOf(t)) = {} /\ GoOn(t) /\ UNCHANGED store
     \/ \E i \in Entries(KeyOf(t)) :
          \/ /\ Live(t, store[i])
             /\ store' = Append(RemoveAt(store, i), store[i])
             /\ Deliver(t, store[i].result)
          \/ /\ ~Live(t, store[i])
             /\ store' = RemoveAt(store, i)
             /\ GoOn(t)
  /\ UNCHANGED clock

\* _compute_risk_core, outside the lock.
Compute(t) ==
  /\ threads[t].at = "compute"
  /\ \/ /\ KeyOf(t) \in Failing
        /\ Deliver(t, Default)
     \/ /\ KeyOf(t) \notin Failing /\ ~batch.cached
        /\ Deliver(t, [key |-> KeyOf(t), began |-> clock])
     \/ /\ KeyOf(t) \notin Failing /\ batch.cached
        /\ threads' = [threads EXCEPT ![t].at = "store",
                         ![t].result = [key |-> KeyOf(t), began |-> clock]]
        /\ UNCHANGED batch
  /\ UNCHANGED <<clock, store>>

\* Mutant: the entry is dated when it is stored.
DatedAt_Storing(t) == clock

\* The time the thread read before it looked.
DatedAt(t) == threads[t].now

\* The oldest entry makes room, even for a key that has an entry already.
Room == IF Len(store) >= MaxSize THEN Tail(store) ELSE store

\* The second critical section; an entry that is there keeps its place.
Store(t) ==
  /\ threads[t].at = "store"
  /\ LET entry == [key |-> KeyOf(t), at |-> DatedAt(t),
                   result |-> threads[t].result]
         room  == Room
         there == {i \in DOMAIN room : room[i].key = entry.key}
     IN  store' = IF there = {} THEN Append(room, entry)
                  ELSE [room EXCEPT ![Min(there)] = entry]
  /\ Deliver(t, threads[t].result)
  /\ UNCHANGED clock

\* Mutant: results are kept in the order of completion.
PlaceOf_Arrival(future) ==
  Min({i \in RowIndices : batch.results[i] = Default})

\* futures[future], the row the future was submitted for
PlaceOf(future) == future.row

\* as_completed hands over a finished future.
Collect ==
  /\ batch.phase = "running"
  /\ \E future \in batch.finished :
       batch' = [batch EXCEPT !.results[PlaceOf(future)] = future.result,
                              !.finished = @ \ {future}]
  /\ UNCHANGED <<clock, store, threads>>

Uncollected ==
  \/ batch.queued # {}
  \/ batch.finished # {}
  \/ \E t \in Threads : threads[t].at # "idle"

\* The time of the batch is over: rows no thread has taken are cancelled, the
\* others are waited for and their results are not looked at.
TimeOut ==
  /\ batch.phase = "running" /\ Uncollected
  /\ batch' = [batch EXCEPT !.phase = "closing", !.queued = {}, !.late = TRUE]
  /\ UNCHANGED <<clock, store, threads>>

Return ==
  /\ \/ batch.phase = "running" /\ ~Uncollected
     \/ batch.phase = "closing" /\ \A t \in Threads : threads[t].at = "idle"
  /\ batch' = [batch EXCEPT !.phase = "done", !.finished = {}]
  /\ UNCHANGED <<clock, store, threads>>

Clear == store # <<>> /\ store' = <<>> /\ UNCHANGED <<clock, batch, threads>>

Tick ==
  /\ clock < MaxClock
  /\ clock' = clock + 1
  /\ UNCHANGED <<store, batch, threads>>

BatchNext ==
  \/ \E rows \in Batches, cached \in BOOLEAN : Submit(rows, cached)
  \/ \E t \in Threads : Take(t) \/ Look(t) \/ Compute(t) \/ Store(t)
  \/ Collect \/ TimeOut \/ Return \/ Clear \/ Tick

BatchSpec == BatchInit /\ [][BatchNext]_batchVars

-----------------------------------------------------------------------------
(* Properties.                                                             *)

\* No result is served that was worked out TTL or more before the thread that
\* is served asked for it, although the time is read, the cache looked at and
\* the entry stored in three steps that other threads come between.
ServedInTime ==
  \A future \in batch.finished :
    future.result # Default => future.asked - future.result.began < TTL

\* The cache never holds more than its limit, nor two entries for a row, when
\* several threads miss at once and all of them store.
CacheHolds ==
  /\ Len(store) <= MaxSize
  /\ \A i, j \in DOMAIN store : store[i].key = store[j].key => i = j

\* What the cache serves is within its age, and the cache within its size, in
\* the hands of several threads (get_or_compute).
ServedIsFresh == ServedInTime /\ CacheHolds

\* Every row gets its own result, or the defaults, and these only when its
\* assessment failed or the batch ran out of time, in whatever order the
\* threads finish.
RowsKeepTheirResult ==
  \A i \in RowIndices :
    /\ batch.results[i] # Default => batch.results[i].key = batch.rows[i]
    /\ (batch.phase = "done" /\ ~batch.late /\ batch.results[i] = Default)
         => batch.rows[i] \in Failing
=============================================================================
