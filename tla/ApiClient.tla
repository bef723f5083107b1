------------------------------ MODULE ApiClient ------------------------------
(***************************************************************************)
(* The HTTP base client (api/api_base.py) as several threads use one of    *)
(* its instances, and the two loops that call it page by page:             *)
(* CoinGecko's get_all_listings and CoinMarketCap's get_quotes_batched.    *)
(*                                                                         *)
(* One job of a thread is a sequence of requests; one request is up to     *)
(* MaxRetries attempts.  An attempt ends in one of the Answers, which the  *)
(* network chooses; the thread then ends the request or sleeps and tries   *)
(* again.  The metrics are shared by all threads and written under a lock, *)
(* once for a request that ends.                                           *)
(***************************************************************************)
EXTENDS Integers, Sequences, FiniteSets

CONSTANTS
    Threads,
    CoinIds,        \* the identifiers of coins
    MaxRetries,     \* the constructor's argument, which it raises to at least 1
    Kinds,          \* the kinds of job: subset of {"single", "listing", "quotes"}
    Ranking,        \* the coins in the order CoinGecko lists them
    Totals,         \* the totals get_all_listings is asked for
    Page,           \* its per_page (250 in the code)
    Chunks,         \* the identifier lists get_quotes_batched is asked for, chunked
    Answers,        \* what the network may do to an attempt
    MaxJobs         \* bound: jobs started

ASSUME ApiAssumption ==
    /\ Ranking \in Seq(CoinIds)
    /\ Chunks \subseteq Seq(Seq(CoinIds)) \ {<<>>}
    /\ Totals \subseteq Nat \ {0} /\ Page \in Nat \ {0}

VARIABLES
    threads,        \* thread -> its job, the attempt it is in and the job's result
    metrics,        \* ClientMetrics, shared
    tally           \* what really happened since the last reset: ended, crashed, delivered, garbled

clientVars == <<threads, metrics, tally>>

Attempts == IF MaxRetries < 1 THEN 1 ELSE MaxRetries

NoMetrics == [total |-> 0, ok |-> 0, failed |-> 0, retried |-> 0, statuses |-> 0]

\* Mistaken: a failed request that had been retried counted as retried instead.
Record_Once(m, success, hasStatus, retried) ==
    [total |-> m.total + 1,
     ok |-> m.ok + (IF success THEN 1 ELSE 0),
     failed |-> m.failed + (IF success \/ retried THEN 0 ELSE 1),
     retried |-> m.retried + (IF retried THEN 1 ELSE 0),
     statuses |-> m.statuses + (IF hasStatus THEN 1 ELSE 0)]

\* ClientMetrics.record: every ended request is counted once, as one of the two outcomes.
Recorded(m, success, hasStatus, retried) ==
    [total |-> m.total + 1,
     ok |-> m.ok + (IF success THEN 1 ELSE 0),
     failed |-> m.failed + (IF success THEN 0 ELSE 1),
     retried |-> m.retried + (IF retried THEN 1 ELSE 0),
     statuses |-> m.statuses + (IF hasStatus THEN 1 ELSE 0)]

Idle == [phase |-> "idle", kind |-> "single", raises |-> FALSE, total |-> 0, chunks |-> <<>>,
         next |-> 1, attempt |-> 0, retried |-> FALSE,
         got |-> <<>>, answered |-> {}, result |-> "none"]

ClientInit ==
    /\ threads = [t \in Threads |-> Idle]
    /\ metrics = NoMetrics
    /\ tally = [started |-> 0, ended |-> 0, crashed |-> 0, delivered |-> 0, garbled |-> 0]

-----------------------------------------------------------------------------
(* The answers.  A timeout, a lost connection, a 5xx and a 429 are retried  *)
(* after a sleep, whose length (the backoff, or the server's Retry-After in *)
(* full) is left out; every other failure ends the request at once.         *)

Retryable == {"timeout", "connection", "429", "5xx"}
HasStatus(answer) == answer \in {"ok", "badJson", "401", "403", "429", "5xx", "4xx"}

\* int() of a Retry-After that is an HTTP date raises ValueError out of the request.
Crashes(answer) == answer = "429 date"

MoreAttempts(thread) == thread.attempt < Attempts

\* Mistaken: a pause does not use up an attempt.
NextAttempt_Held(attempt) == attempt
NextAttempt(attempt) == attempt + 1

\* What the request returns or raises.  An auth error always says 401: a Response that is
\* not ok is false, so ApiAuthError never reads the status of the one it is given.
ResultOf(answer, raises) ==
    IF answer = "ok" THEN "data"
    ELSE IF ~raises THEN "none"
    ELSE IF answer \in {"401", "403"} THEN "error 401" ELSE "error " \o answer

-----------------------------------------------------------------------------
(* The jobs.                                                                *)

Pages(total) == (total + Page - 1) \div Page
Smaller(a, b) == IF a < b THEN a ELSE b

\* Mistaken: the page number counted from zero.
PageOf_FromZero(total, page, got) ==
    LET size == Smaller(Page, total - Len(got))
    IN  SubSeq(Ranking, page * size + 1, Smaller((page + 1) * size, Len(Ranking)))

\* get_all_listings asks the page-th page of the size it still needs.
PageOf(total, page, got) ==
    LET size == Smaller(Page, total - Len(got))
        from == (page - 1) * size
    IN  SubSeq(Ranking, from + 1, Smaller(from + size, Len(Ranking)))

Requests(thread) ==
    CASE thread.kind = "single" -> 1
      [] thread.kind = "listing" -> Pages(thread.total)
      [] thread.kind = "quotes" -> Len(thread.chunks)

\* What the answer adds to the job's result: a page, a chunk of quotes, or nothing.
Delivered(thread) ==
    CASE thread.kind = "single" -> <<>>
      [] thread.kind = "listing" -> PageOf(thread.total, thread.next, thread.got)
      [] thread.kind = "quotes" -> thread.chunks[thread.next]

\* An empty page ends a listing; a chunk that failed is skipped and the next one asked for.
Continues(thread, batch) ==
    /\ thread.next < Requests(thread)
    /\ thread.kind = "listing" => batch # <<>>

\* The request of the job has ended in `result`, a request that raised ends the whole job.
AfterRequest(thread, result) ==
    LET batch == IF result = "data" THEN Delivered(thread) ELSE <<>>
        more == Continues(thread, batch) /\ result \in {"data", "none"}
    IN  [thread EXCEPT
            !.phase = IF more THEN "sending" ELSE "idle",
            !.next = IF more THEN @ + 1 ELSE @,
            !.attempt = IF more THEN 1 ELSE @,
            !.retried = IF more THEN FALSE ELSE @,
            !.got = IF thread.kind = "listing" /\ ~more
                       THEN SubSeq(@ \o batch, 1, Smaller(thread.total, Len(@ \o batch)))
                       ELSE @ \o batch,
            !.answered = IF result = "data" THEN @ \cup {thread.next} ELSE @,
            !.result = result]

-----------------------------------------------------------------------------
(* A thread calls get_x, get_all_listings or get_quotes_batched.            *)
Start(t) ==
    /\ threads[t].phase = "idle"
    /\ tally.started < MaxJobs
    /\ \E kind \in Kinds :
       \E total \in (IF kind = "listing" THEN Totals ELSE {0}) :
       \E chunks \in (IF kind = "quotes" THEN Chunks ELSE {<<>>}) :
       \E raises \in (IF kind = "single" THEN BOOLEAN ELSE {FALSE}) :
          threads' = [threads EXCEPT ![t] =
              [Idle EXCEPT !.phase = "sending", !.kind = kind, !.raises = raises,
                           !.total = total, !.chunks = chunks, !.attempt = 1]]
    /\ tally' = [tally EXCEPT !.started = @ + 1]
    /\ UNCHANGED metrics

(* The attempt's answer arrives: sleep before another, or end the request.  *)
Retry(t, answer) ==
    /\ answer \in Retryable
    /\ MoreAttempts(threads[t])
    /\ threads' = [threads EXCEPT
          ![t].phase = "pausing",
          ![t].retried = TRUE]
    /\ UNCHANGED <<metrics, tally>>

EndRequest(t, answer) ==
    /\ answer \in Retryable => ~MoreAttempts(threads[t])
    /\ metrics' = Recorded(metrics, answer \in {"ok", "badJson"}, HasStatus(answer),
                         threads[t].retried)
    /\ threads' = [threads EXCEPT ![t] =
                      AfterRequest(@, ResultOf(answer, @.raises))]
    /\ tally' = [tally EXCEPT !.ended = @ + 1,
                              !.delivered = @ + (IF answer = "ok" THEN 1 ELSE 0),
                              !.garbled = @ + (IF answer = "badJson" THEN 1 ELSE 0)]

\* The error leaves the request, and the loop around it, without a record.
Crash(t) ==
    /\ threads' = [threads EXCEPT ![t] = [@ EXCEPT !.phase = "idle", !.result = "crash"]]
    /\ tally' = [tally EXCEPT !.ended = @ + 1, !.crashed = @ + 1]
    /\ UNCHANGED metrics

Answer(t) ==
    /\ threads[t].phase = "sending"
    /\ \E answer \in Answers :
          \/ Crashes(answer) /\ Crash(t)
          \/ ~Crashes(answer) /\ Retry(t, answer)
          \/ ~Crashes(answer) /\ EndRequest(t, answer)

(* time.sleep is over: the next attempt is sent.                            *)
Wake(t) ==
    /\ threads[t].phase = "pausing"
    /\ threads' = [threads EXCEPT ![t].phase = "sending", ![t].attempt = NextAttempt(@)]
    /\ UNCHANGED <<metrics, tally>>

(* metrics.reset(), while requests may be under way.                        *)
Reset ==
    /\ tally.ended > 0
    /\ metrics' = NoMetrics
    /\ tally' = [tally EXCEPT !.ended = 0, !.crashed = 0, !.delivered = 0, !.garbled = 0]
    /\ UNCHANGED threads

ClientNext ==
    \/ \E t \in Threads : Start(t) \/ Answer(t) \/ Wake(t)
    \/ Reset

ClientSpec == ClientInit /\ [][ClientNext]_clientVars

\* A request has a timeout and a sleep ends, so an attempt is always answered and a pause
\* always over; nothing obliges a caller to start a job or to reset the metrics.
ClientFairSpec ==
    ClientSpec /\ \A t \in Threads : WF_clientVars(Answer(t)) /\ WF_clientVars(Wake(t))

-----------------------------------------------------------------------------
(* The counters agree with one another and with what happened: every ended  *)
(* request but the ones a bad Retry-After blew up is counted once, and the  *)
(* successes are the answers delivered and those whose body was no JSON,    *)
(* whichever order the threads' requests and a reset come in               *)
(* (ClientMetrics, _record_metrics at each exit of _request).               *)
MetricsMatch ==
    /\ metrics.total = metrics.ok + metrics.failed
    /\ metrics.total + tally.crashed = tally.ended
    /\ metrics.ok = tally.delivered + tally.garbled
    /\ metrics.retried <= metrics.total
    /\ metrics.statuses <= metrics.total

(* A listing all of whose pages were answered is the first coins of the     *)
(* market, each once and in order, when the total fills whole pages (the    *)
(* last page is asked with the same size, so its number means the same      *)
(* place; CoinGeckoClient.get_all_listings).                                *)
Finished(thread) == thread.phase = "idle" /\ thread.result \in {"data", "none"}

WholePagesAreExact ==
    \A t \in Threads :
        LET th == threads[t]
        IN  Finished(th) /\ th.kind = "listing" /\ th.total % Page = 0
               /\ th.answered = 1..th.next
            => th.got = SubSeq(Ranking, 1, Smaller(th.total, Len(Ranking)))

(* A chunk of quotes that failed costs its own coins and no others: the     *)
(* result has the coins of every chunk that was answered, whatever became   *)
(* of the chunks before it (CoinMarketCapClient.get_quotes_batched).        *)
QuotesOfAnsweredChunks ==
    \A t \in Threads :
        LET th == threads[t]
            coins(s) == {s[k] : k \in DOMAIN s}
        IN  Finished(th) /\ th.kind = "quotes"
            => /\ th.next = Len(th.chunks)
               /\ coins(th.got) = UNION {coins(th.chunks[i]) : i \in th.answered}

(* A job ends: the attempts of a request are bounded and so are its pages,  *)
(* whatever the network answers (the for loop of _request).                 *)
JobsEnd == \A t \in Threads : threads[t].phase # "idle" ~> threads[t].phase = "idle"

=============================================================================
