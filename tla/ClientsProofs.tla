--------------------------- MODULE ClientsProofs ---------------------------
(***************************************************************************)
(* What the clients promise, for any threads, answers, markets, symbols,   *)
(* stored files and bounds, whatever the network does with the calls.      *)
(***************************************************************************)
EXTENDS Clients, FiniteSetTheorems, WellFoundedInduction, TLAPS

-----------------------------------------------------------------------------
(* What holds of no number below the least one: the form in which induction *)
(* over a bound is used here.                                               *)
LEMMA LeastNumber ==
  ASSUME NEW T \in SUBSET Nat, T # {}
  PROVE  \E x \in T : \A y \in T : x <= y
  <1> DEFINE R == {p \in Nat \X Nat : p[1] < p[2]}
  <1>1. IsWellFoundedOn(R, Nat)
    BY NatLessThanWellFounded DEF OpToRel
  <1>2. \A x, y \in Nat : x < y => <<x, y>> \in R
    OBVIOUS
  <1> HIDE DEF R
  <1>3. PICK x \in T : \A y \in T : <<y, x>> \notin R
    BY <1>1, WFMin
  <1>4. ASSUME NEW y \in T PROVE x <= y
    <2>1. x \in Nat /\ y \in Nat
      OBVIOUS
    <2>2. ~(y < x)
      BY <1>2, <1>3, <2>1
    <2>3. QED
      BY <2>1, <2>2
  <1>5. QED
    BY <1>4

(***************************************************************************)
(* The counters of ApiClient.                                              *)
(***************************************************************************)
Counters == [total : Nat, ok : Nat, failed : Nat, retried : Nat, statuses : Nat]
Tallies == [started : Nat, ended : Nat, crashed : Nat, delivered : Nat, garbled : Nat]

\* The counters are natural numbers; with them MetricsMatch is inductive, because every exit
\* of a request writes the counters and the tally in one step.
CountersInv == metrics \in Counters /\ tally \in Tallies /\ MetricsMatch

LEMMA TallyTyped ==
  ASSUME tally \in Tallies
  PROVE  /\ tally.started \in Nat /\ tally.ended \in Nat /\ tally.crashed \in Nat
         /\ tally.delivered \in Nat /\ tally.garbled \in Nat
  BY DEF Tallies

LEMMA CountersBegin == ASSUME ClientInit PROVE CountersInv
  BY DEF ClientInit, NoMetrics, CountersInv, Counters, Tallies, MetricsMatch

\* The end of a request: the counters and the tally move by the same answer.
LEMMA EndKeeps ==
  ASSUME CountersInv, NEW t \in Threads, NEW answer, EndRequest(t, answer)
  PROVE  CountersInv'
  <1> DEFINE one == IF answer \in {"ok", "badJson"} THEN 1 ELSE 0
  <1>1. /\ metrics' \in Counters
        /\ metrics'.total = metrics.total + 1
        /\ metrics'.ok = metrics.ok + one
        /\ metrics'.total = metrics'.ok + metrics'.failed
        /\ metrics'.retried <= metrics'.total
        /\ metrics'.statuses <= metrics'.total
    BY DEF EndRequest, Recorded, CountersInv, MetricsMatch, Counters
  <1>2. tally' = [started |-> tally.started, ended |-> tally.ended + 1, crashed |-> tally.crashed,
                  delivered |-> tally.delivered + (IF answer = "ok" THEN 1 ELSE 0),
                  garbled |-> tally.garbled + (IF answer = "badJson" THEN 1 ELSE 0)]
    BY DEF CountersInv, Tallies, EndRequest
  <1>3. /\ tally' \in Tallies
        /\ tally'.ended = tally.ended + 1
        /\ tally'.crashed = tally.crashed
        /\ tally'.delivered + tally'.garbled = tally.delivered + tally.garbled + one
    BY <1>2, TallyTyped DEF CountersInv, Tallies
  <1>4. metrics'.total + tally'.crashed = tally'.ended
    BY <1>1, <1>3 DEF CountersInv, MetricsMatch, Counters, Tallies
  <1>5. metrics'.ok = tally'.delivered + tally'.garbled
    BY <1>1, <1>3 DEF CountersInv, MetricsMatch, Counters, Tallies
  <1>6. QED
    BY <1>1, <1>3, <1>4, <1>5 DEF CountersInv, MetricsMatch

\* A request that blew up is in the tally and not in the counters.
LEMMA CrashKeeps ==
  ASSUME CountersInv, NEW t \in Threads, Crash(t)
  PROVE  CountersInv'
  <1>1. tally \in Tallies /\ tally.ended + 1 \in Nat /\ tally.crashed + 1 \in Nat
    BY TallyTyped DEF CountersInv
  <1>2. tally' = [started |-> tally.started, ended |-> tally.ended + 1,
                  crashed |-> tally.crashed + 1,
                  delivered |-> tally.delivered, garbled |-> tally.garbled]
    BY <1>1 DEF Tallies, Crash
  <1>3. metrics' = metrics
    BY DEF Crash
  <1>4. tally' \in Tallies
    BY <1>1, <1>2, TallyTyped DEF Tallies
  <1>5. MetricsMatch'
    BY <1>1, <1>2, <1>3, TallyTyped DEF CountersInv, MetricsMatch, Counters
  <1>6. QED
    BY <1>3, <1>4, <1>5 DEF CountersInv

LEMMA ResetKeeps ==
  ASSUME CountersInv, Reset
  PROVE  CountersInv'
  <1>1. tally' = [started |-> tally.started, ended |-> 0, crashed |-> 0,
                  delivered |-> 0, garbled |-> 0]
    BY DEF CountersInv, Tallies, Reset
  <1>2. tally' \in Tallies
    BY <1>1, TallyTyped DEF CountersInv, Tallies
  <1>3. QED
    BY <1>1, <1>2 DEF Reset, NoMetrics, CountersInv, MetricsMatch, Counters

LEMMA StepCounters ==
  ASSUME CountersInv, [ClientNext]_clientVars
  PROVE  CountersInv'
  <1>1. ASSUME NEW t \in Threads, Start(t) PROVE CountersInv'
    BY <1>1 DEF Start, CountersInv, MetricsMatch, Tallies
  <1>2. ASSUME NEW t \in Threads, Wake(t) PROVE CountersInv'
    BY <1>2 DEF Wake, CountersInv, MetricsMatch
  <1>3. ASSUME NEW t \in Threads, Answer(t) PROVE CountersInv'
    <2>1. PICK answer \in Answers : Crash(t) \/ Retry(t, answer) \/ EndRequest(t, answer)
      BY <1>3 DEF Answer
    <2>2. CASE Crash(t)
      BY <2>2, CrashKeeps
    <2>3. CASE Retry(t, answer)
      BY <2>3 DEF Retry, CountersInv, MetricsMatch
    <2>4. CASE EndRequest(t, answer)
      BY <2>4, EndKeeps
    <2>5. QED
      BY <2>1, <2>2, <2>3, <2>4
  <1>4. CASE Reset
    BY <1>4, ResetKeeps
  <1>5. CASE UNCHANGED clientVars
    BY <1>5 DEF clientVars, CountersInv, MetricsMatch
  <1>6. QED
    BY <1>1, <1>2, <1>3, <1>4, <1>5 DEF ClientNext

-----------------------------------------------------------------------------
(* ClientMetrics agrees with what happened to the requests, however many    *)
(* threads share a client, however often they retry, and whenever somebody  *)
(* resets it: every ended request is counted once, but for those that a     *)
(* Retry-After which is no number blew up (_request, _record_metrics).      *)
THEOREM Metrics == ClientSpec => []MetricsMatch
  <1>1. ClientInit => CountersInv
    BY CountersBegin
  <1>2. CountersInv /\ [ClientNext]_clientVars => CountersInv'
    BY StepCounters
  <1>3. CountersInv => MetricsMatch
    BY DEF CountersInv
  <1>4. QED
    BY <1>1, <1>2, <1>3, PTL DEF ClientSpec

-----------------------------------------------------------------------------
(***************************************************************************)
(* The orders of CcxtClient.                                               *)
(***************************************************************************)
Places == {Resolved(symbol) : symbol \in CallerSymbols}
Pairs == {symbol.meant : symbol \in CallerSymbols}
Ops == {"none", "place", "ticker", "cancel", "status", "balances", "history", "openOrders",
        "positions"}

Order == [market : Places, status : {"open", "filled", "cancelled"}, by : Nat, meant : Pairs]
Call == [op : Ops, form : Nat, attempt : Nat,
         market : Places \cup {NoMarket}, id : Nat, meant : Pairs \cup {<<>>}]
Client == [state : {"loading", "ready", "failed"}, markets : BOOLEAN, attempt : Nat, call : Call]
Caller == [known : SUBSET Nat, cancelled : SUBSET Nat, started : Nat,
           result : {"none", "error", "empty", "done"}]

\* What the operation under way is about: a market that was resolved, an order that exists.
CallOk(c, n) ==
  /\ c.op # "none" => c.form # 0 /\ c.attempt \in 1..CallAttempts
  /\ c.op \in {"place", "ticker"} => c.market \in Places /\ c.meant \in Pairs
  /\ c.op = "cancel" => c.id \in 1..n

CcxtTyped ==
  /\ client \in Client
  /\ orders \in Seq(Order)
  /\ caller \in Caller
  /\ CallOk(client.call, Len(orders))
  /\ caller.known \subseteq 1..Len(orders)
  /\ caller.cancelled \subseteq 1..Len(orders)

-----------------------------------------------------------------------------
(* The steps.                                                              *)

\* Orders are never removed, and one that was cancelled or filled is not open again.
Kept(later) ==
  /\ later \in Seq(Order)
  /\ Len(orders) <= Len(later)
  /\ \A id \in 1..Len(orders) :
        /\ later[id].by = orders[id].by
        /\ orders[id].status # "open" => later[id].status # "open"

LEMMA OrdersBegin == ASSUME CcxtInit PROVE CcxtTyped /\ CancelledIsNotOpen
  <1>1. NoCall \in Call
    BY DEF NoCall, Call, Ops, NoMarket
  <1>2. client \in Client
    BY <1>1 DEF CcxtInit, Client
  <1>3. caller \in Caller
    BY DEF CcxtInit, Caller
  <1>4. CallOk(client.call, Len(orders))
    BY DEF CcxtInit, CallOk, NoCall
  <1>5. caller.known = {} /\ caller.cancelled = {} /\ orders = <<>>
    BY DEF CcxtInit
  <1>6. QED
    BY <1>2, <1>3, <1>4, <1>5 DEF CcxtTyped, CancelledIsNotOpen

LEMMA CarriedTyped ==
  ASSUME CcxtTyped
  PROVE  /\ Kept(Carried)
         /\ call.op = "cancel" => Carried[call.id].status = "cancelled"
         /\ call.op # "place" => Len(Carried) = Len(orders)
         /\ call.op = "place" => /\ Len(Carried) = Len(orders) + 1
                                /\ Carried[Len(orders) + 1].by = caller.started
  <1>1. CASE call.op = "place"
    <2>1. [market |-> call.market, status |-> "open",
                         by |-> caller.started, meant |-> call.meant] \in Order
      BY <1>1 DEF CcxtTyped, CallOk, Order, Caller, call
    <2>2. QED
      BY <1>1, <2>1 DEF CcxtTyped, Carried, Kept
  <1>2. CASE call.op = "cancel"
    <2>1. call.id \in 1..Len(orders) /\ orders \in Seq(Order)
      BY <1>2 DEF CcxtTyped, CallOk, call
    <2>2. orders[call.id] \in Order
      BY <2>1
    <2>3. [orders[call.id] EXCEPT !.status = "cancelled"] \in Order
      BY <2>2 DEF Order
    <2>4. Carried = [orders EXCEPT ![call.id] = [orders[call.id] EXCEPT !.status = "cancelled"]]
      BY <1>2 DEF Carried
    <2>5. /\ Carried \in Seq(Order) /\ Len(Carried) = Len(orders)
          /\ \A id \in 1..Len(orders) : id # call.id => Carried[id] = orders[id]
          /\ Carried[call.id] = [orders[call.id] EXCEPT !.status = "cancelled"]
      BY <2>1, <2>3, <2>4
    <2>6. Carried[call.id].status = "cancelled" /\ Carried[call.id].by = orders[call.id].by
      BY <2>2, <2>5 DEF Order
    <2>7. \A id \in 1..Len(orders) : Carried[id].by = orders[id].by
      BY <2>5, <2>6
    <2>8. \A id \in 1..Len(orders) : orders[id].status # "open" => Carried[id].status # "open"
      BY <2>5, <2>6
    <2>9. QED
      BY <1>2, <2>1, <2>5, <2>6, <2>7, <2>8 DEF Kept
  <1>3. CASE call.op \notin {"place", "cancel"}
    BY <1>3 DEF CcxtTyped, Carried, Kept
  <1>4. QED
    BY <1>1, <1>2, <1>3
\* The end of an operation: what the caller is told is true of the orders.
LEMMA ReturnTyped ==
  ASSUME CcxtTyped, CancelledIsNotOpen, Kept(orders'), NEW answer,
         Return(answer), answer \in {"error", "empty", "done"},
         call.op = "place" /\ answer = "done" => Len(orders') # 0,
         call.op = "cancel" /\ answer # "error" =>
            call.id \in 1..Len(orders') /\ orders'[call.id].status = "cancelled"
  PROVE  CcxtTyped' /\ CancelledIsNotOpen'
  <1>1. client' \in Client /\ client'.call = NoCall
    <2>1. NoCall \in Call
      BY DEF NoCall, Call, Ops, NoMarket
    <2>2. QED
      BY <2>1 DEF Return, CcxtTyped, Client
  <1>2. CallOk(NoCall, Len(orders'))
    BY DEF CallOk, NoCall
  <1>3. Len(orders) \in Nat /\ Len(orders') \in Nat /\ Len(orders) <= Len(orders')
    BY DEF CcxtTyped, Kept
  <1>4. /\ caller'.known \subseteq caller.known \cup 1..Len(orders')
        /\ caller'.cancelled = IF call.op = "cancel" /\ answer # "error"
                               THEN caller.cancelled \cup {call.id} ELSE caller.cancelled
        /\ caller'.started = caller.started /\ caller'.result = answer
    BY <1>3 DEF Return, CcxtTyped, Caller
  <1>5. caller'.known \subseteq 1..Len(orders')
    BY <1>3, <1>4 DEF CcxtTyped
  <1>6. caller'.cancelled \subseteq 1..Len(orders')
    BY <1>3, <1>4 DEF CcxtTyped
  <1>7. caller' \in Caller
    <2>1. caller'.known \subseteq Nat /\ caller'.cancelled \subseteq Nat
      BY <1>3, <1>5, <1>6
    <2>2. QED
      BY <1>4, <2>1 DEF Return, CcxtTyped, Caller
  <1>8. CancelledIsNotOpen'
    BY <1>3, <1>4 DEF CancelledIsNotOpen, CcxtTyped, Kept
  <1>9. QED
    BY <1>1, <1>2, <1>5, <1>6, <1>7, <1>8 DEF CcxtTyped, Kept

\* Another attempt, another form, or the order behind the ticker.
LEMMA ContinueTyped ==
  ASSUME CcxtTyped, CancelledIsNotOpen, Kept(orders'), NEW next,
         Continue(next), next \in Call, CallOk(next, Len(orders))
  PROVE  CcxtTyped' /\ CancelledIsNotOpen'
  <1>1. client' \in Client /\ client'.call = next
    BY DEF Continue, CcxtTyped, Client
  <1>2. Len(orders) \in Nat /\ Len(orders') \in Nat /\ Len(orders) <= Len(orders')
    BY DEF CcxtTyped, Kept
  <1>3. CallOk(next, Len(orders'))
    BY <1>2 DEF CallOk
  <1>4. caller' = caller
    BY DEF Continue
  <1>5. caller.known \subseteq 1..Len(orders') /\ caller.cancelled \subseteq 1..Len(orders')
    BY <1>2 DEF CcxtTyped
  <1>6. CancelledIsNotOpen'
    BY <1>2, <1>4 DEF CancelledIsNotOpen, CcxtTyped, Kept
  <1>7. QED
    BY <1>1, <1>3, <1>4, <1>5, <1>6 DEF CcxtTyped, Kept

LEMMA GiveUpTyped ==
  ASSUME CcxtTyped, CancelledIsNotOpen, Kept(orders'), Sending, GiveUpForm
  PROVE  CcxtTyped' /\ CancelledIsNotOpen'
  <1>1. call \in Call /\ CallOk(call, Len(orders))
    BY DEF CcxtTyped, Client, call
  <1>2. CASE call.form < Forms(call.op)
    <2>1. PICK next : next = [call EXCEPT !.form = @ + 1, !.attempt = 1]
      OBVIOUS
    <2>2. next = [op |-> call.op, form |-> call.form + 1, attempt |-> 1, market |-> call.market,
                  id |-> call.id, meant |-> call.meant]
      BY <1>1, <2>1 DEF Call
    <2>3. next \in Call
      BY <1>1, <2>2 DEF Call
    <2>4. CallOk(next, Len(orders))
      BY <1>1, <2>2 DEF CallOk, Call, CallAttempts
    <2>5. Continue(next)
      BY <1>2, <2>1 DEF GiveUpForm
    <2>6. QED
      BY <2>3, <2>4, <2>5, ContinueTyped
  <1>3. CASE ~(call.form < Forms(call.op))
    <2>1. Return(IF Swallows(call.op) THEN "empty" ELSE "error")
      BY <1>3 DEF GiveUpForm
    <2>2. call.op = "cancel" => ~Swallows(call.op)
      BY DEF Swallows
    <2>3. QED
      BY <2>1, <2>2, ReturnTyped
  <1>4. QED
    BY <1>2, <1>3

LEMMA UnansweredTyped ==
  ASSUME CcxtTyped, CancelledIsNotOpen, Kept(orders'), Sending, Unanswered
  PROVE  CcxtTyped' /\ CancelledIsNotOpen'
  <1>1. call \in Call /\ CallOk(call, Len(orders))
    BY DEF CcxtTyped, Client, call
  <1>2. CASE call.attempt < CallAttempts
    <2>1. [call EXCEPT !.attempt = @ + 1] \in Call
      BY <1>1 DEF Call
    <2>2. CallOk([call EXCEPT !.attempt = @ + 1], Len(orders))
      BY <1>1, <1>2 DEF CallOk, Call, CallAttempts
    <2>3. Continue([call EXCEPT !.attempt = @ + 1])
      BY <1>2 DEF Unanswered
    <2>4. QED
      BY <2>1, <2>2, <2>3, ContinueTyped
  <1>3. CASE ~(call.attempt < CallAttempts)
    BY <1>3, GiveUpTyped DEF Unanswered
  <1>4. QED
    BY <1>2, <1>3

LEMMA TickerTyped ==
  ASSUME CcxtTyped, CancelledIsNotOpen, Kept(orders'), call.op = "ticker", TickerAnswered
  PROVE  CcxtTyped' /\ CancelledIsNotOpen'
  <1>1. call \in Call /\ call.market \in Places /\ call.meant \in Pairs
    BY DEF CcxtTyped, Client, call, CallOk
  <1>2. CASE Continue(CallOf("place", call.market, 0, call.meant))
    <2>1. CallOf("place", call.market, 0, call.meant) \in Call
      BY <1>1 DEF CallOf, Call, Ops
    <2>2. CallOk(CallOf("place", call.market, 0, call.meant), Len(orders))
      BY <1>1 DEF CallOf, CallOk, CallAttempts
    <2>3. QED
      BY <1>2, <2>1, <2>2, ContinueTyped
  <1>3. CASE Return("error")
    BY <1>3, ReturnTyped
  <1>4. QED
    BY <1>2, <1>3 DEF TickerAnswered

\* What leaves the operations and the caller's memory of orders alone.
LEMMA OrdersAlone == ASSUME CcxtTyped, orders' = orders PROVE Kept(orders')
  BY DEF CcxtTyped, Kept

-----------------------------------------------------------------------------
(* The actions.                                                            *)

LEMMA AnsweredTyped ==
  ASSUME CcxtTyped, CancelledIsNotOpen, Answered
  PROVE  CcxtTyped' /\ CancelledIsNotOpen'
  <1>1. /\ Kept(orders')
        /\ call.op = "cancel" => orders'[call.id].status = "cancelled"
        /\ call.op = "place" => Len(orders') = Len(orders) + 1
    BY CarriedTyped DEF Answered
  <1>2. CASE call.op = "ticker"
    BY <1>1, <1>2, TickerTyped DEF Answered
  <1>3. CASE call.op # "ticker"
    <2>1. Return("done")
      BY <1>3 DEF Answered
    <2>2. call.op = "cancel" => call.id \in 1..Len(orders')
      BY <1>1 DEF CcxtTyped, CallOk, Kept, call
    <2>3. call.op = "place" => Len(orders') # 0
      BY <1>1 DEF CcxtTyped
    <2>4. QED
      BY <1>1, <2>1, <2>2, <2>3, ReturnTyped
  <1>4. QED
    BY <1>2, <1>3

\* The start of an operation.
LEMMA BeginsTyped ==
  ASSUME CcxtTyped, CancelledIsNotOpen, client' \in Client, orders' = orders,
         CallOk(client'.call, Len(orders)),
         caller' = [caller EXCEPT !.started = @ + 1]
           \/ caller' = [caller EXCEPT !.started = @ + 1, !.result = "error"]
  PROVE  CcxtTyped' /\ CancelledIsNotOpen'
  <1>1. caller' \in Caller
    <2>1. CASE caller' = [caller EXCEPT !.started = @ + 1]
      BY <2>1 DEF CcxtTyped, Caller
    <2>2. CASE caller' = [caller EXCEPT !.started = @ + 1, !.result = "error"]
      <3>1. caller' = [known |-> caller.known, cancelled |-> caller.cancelled,
                       started |-> caller.started + 1, result |-> "error"]
        BY <2>2 DEF CcxtTyped, Caller
      <3>2. QED
        BY <3>1 DEF CcxtTyped, Caller
    <2>3. QED
      BY <2>1, <2>2
  <1>2. caller'.known = caller.known /\ caller'.cancelled = caller.cancelled
    BY DEF CcxtTyped, Caller
  <1>3. QED
    BY <1>1, <1>2 DEF CcxtTyped, CancelledIsNotOpen

LEMMA PlaceTyped ==
  ASSUME CcxtTyped, CancelledIsNotOpen, NEW symbol \in CallerSymbols, NEW marketBuy \in BOOLEAN,
         Place(symbol, marketBuy)
  PROVE  CcxtTyped' /\ CancelledIsNotOpen'
  <1>1. PICK loaded \in MarketsAfterResolve :
          IF loaded /\ Resolved(symbol) # NoMarket
          THEN /\ client' = [client EXCEPT
                     !.markets = TRUE,
                     !.call = CallOf(FirstCall(marketBuy), Resolved(symbol), 0, symbol.meant)]
               /\ caller' = [caller EXCEPT !.started = @ + 1]
               /\ UNCHANGED orders
          ELSE client' = [client EXCEPT !.markets = loaded] /\ Refuse
    BY DEF Place
  <1>2. CASE loaded /\ Resolved(symbol) # NoMarket
    <2> DEFINE c == CallOf(FirstCall(marketBuy), Resolved(symbol), 0, symbol.meant)
    <2>1. FirstCall(marketBuy) \in {"place", "ticker"}
      BY DEF FirstCall
    <2>2. Resolved(symbol) \in Places /\ symbol.meant \in Pairs
      BY DEF Places, Pairs
    <2>3. c \in Call /\ CallOk(c, Len(orders))
      BY <2>1, <2>2 DEF CallOf, Call, Ops, CallOk, CallAttempts
    <2> HIDE DEF c
    <2>4. client' = [client EXCEPT !.markets = TRUE, !.call = c]
      BY <1>1, <1>2 DEF c
    <2>5. client' = [state |-> client.state, markets |-> TRUE, attempt |-> client.attempt, call |-> c]
      BY <2>4 DEF CcxtTyped, Client
    <2>6. client' \in Client /\ client'.call = c
      BY <2>3, <2>5 DEF CcxtTyped, Client
    <2>7. QED
      BY <1>1, <1>2, <2>3, <2>6, BeginsTyped
  <1>3. CASE ~(loaded /\ Resolved(symbol) # NoMarket)
    <2>1. loaded \in BOOLEAN
      BY DEF MarketsAfterResolve
    <2>2. client' \in Client /\ client'.call = client.call
      BY <1>1, <1>3, <2>1 DEF CcxtTyped, Client
    <2>3. QED
      BY <1>1, <1>3, <2>2, BeginsTyped DEF Refuse, CcxtTyped
  <1>4. QED
    BY <1>2, <1>3

LEMMA CancelTyped ==
  ASSUME CcxtTyped, CancelledIsNotOpen, NEW id \in DOMAIN orders, Cancel(id)
  PROVE  CcxtTyped' /\ CancelledIsNotOpen'
  <1> DEFINE c == CallOf("cancel", orders[id].market, id, <<>>)
  <1>1. id \in 1..Len(orders) /\ orders[id] \in Order
    BY DEF CcxtTyped
  <1>2. c \in Call /\ CallOk(c, Len(orders))
    BY <1>1 DEF CallOf, Call, Ops, CallOk, CallAttempts, Order
  <1>3. client' \in Client /\ client'.call = c
    BY <1>2 DEF Cancel, CcxtTyped, Client
  <1>4. QED
    BY <1>2, <1>3, BeginsTyped DEF Cancel

LEMMA ReadTyped ==
  ASSUME CcxtTyped, CancelledIsNotOpen, NEW op \in Reads, Read(op)
  PROVE  CcxtTyped' /\ CancelledIsNotOpen'
  <1>1. PICK loaded \in MarketsAfterResolve :
          IF loaded \/ ~NeedsMarket(op)
          THEN /\ client' = [client EXCEPT !.markets = loaded,
                                           !.call = CallOf(op, NoMarket, 0, <<>>)]
               /\ caller' = [caller EXCEPT !.started = @ + 1]
               /\ UNCHANGED orders
          ELSE client' = [client EXCEPT !.markets = loaded] /\ Refuse
    BY DEF Read
  <1>2. loaded \in BOOLEAN
    BY DEF MarketsAfterResolve
  <1>3. CASE loaded \/ ~NeedsMarket(op)
    <2> DEFINE c == CallOf(op, NoMarket, 0, <<>>)
    <2>1. op \in Ops /\ op \notin {"none", "place", "ticker", "cancel"}
      BY DEF Reads, Ops
    <2>2. c \in Call /\ CallOk(c, Len(orders))
      BY <2>1 DEF CallOf, Call, CallOk, CallAttempts, NoMarket
    <2> HIDE DEF c
    <2>3. client' = [client EXCEPT !.markets = loaded, !.call = c]
      BY <1>1, <1>3 DEF c
    <2>4. client' = [state |-> client.state, markets |-> loaded, attempt |-> client.attempt, call |-> c]
      BY <2>3 DEF CcxtTyped, Client
    <2>5. client' \in Client /\ client'.call = c
      BY <1>2, <2>2, <2>4 DEF CcxtTyped, Client
    <2>6. QED
      BY <1>1, <1>3, <2>2, <2>5, BeginsTyped
  <1>4. CASE ~(loaded \/ ~NeedsMarket(op))
    <2>1. client' \in Client /\ client'.call = client.call
      BY <1>1, <1>2, <1>4 DEF CcxtTyped, Client
    <2>2. QED
      BY <1>1, <1>4, <2>1, BeginsTyped DEF Refuse, CcxtTyped
  <1>5. QED
    BY <1>3, <1>4

LEMMA LoadTyped ==
  ASSUME CcxtTyped, CancelledIsNotOpen, LoadMarkets
  PROVE  CcxtTyped' /\ CancelledIsNotOpen'
  <1>1. client' \in Client /\ client'.call = client.call
    <2>1. CASE \E some \in BOOLEAN : client' = [client EXCEPT !.state = "ready", !.markets = some]
      <3>1. PICK some \in BOOLEAN : client' = [client EXCEPT !.state = "ready", !.markets = some]
        BY <2>1
      <3>2. client' = [state |-> "ready", markets |-> some, attempt |-> client.attempt,
                       call |-> client.call]
        BY <3>1 DEF CcxtTyped, Client
      <3>3. QED
        BY <3>2 DEF CcxtTyped, Client
    <2>2. CASE client' = [client EXCEPT !.attempt = @ + 1]
      BY <2>2 DEF CcxtTyped, Client
    <2>3. CASE client' = [client EXCEPT !.state = "failed"]
      BY <2>3 DEF CcxtTyped, Client
    <2>4. QED
      BY <2>1, <2>2, <2>3 DEF LoadMarkets
  <1>2. QED
    BY <1>1 DEF LoadMarkets, CcxtTyped, CancelledIsNotOpen

\* The exchange's own step fills an open order.
LEMMA FillKeeps ==
  ASSUME CcxtTyped, NEW id \in DOMAIN orders, Fill(id)
  PROVE  Kept(orders') /\ Len(orders') = Len(orders)
  <1>1. id \in 1..Len(orders) /\ orders[id] \in Order /\ orders \in Seq(Order)
    BY DEF CcxtTyped
  <1>2. [orders[id] EXCEPT !.status = "filled"] \in Order
    BY <1>1 DEF Order
  <1>3. orders' = [orders EXCEPT ![id] = [orders[id] EXCEPT !.status = "filled"]]
    BY DEF Fill
  <1>4. /\ orders' \in Seq(Order) /\ Len(orders') = Len(orders)
        /\ \A n \in 1..Len(orders) : n # id => orders'[n] = orders[n]
        /\ orders'[id] = [orders[id] EXCEPT !.status = "filled"]
    BY <1>1, <1>2, <1>3
  <1>5. orders'[id].status = "filled" /\ orders'[id].by = orders[id].by
    BY <1>1, <1>4 DEF Order
  <1>6. \A n \in 1..Len(orders) : orders'[n].by = orders[n].by
    BY <1>4, <1>5
  <1>7. \A n \in 1..Len(orders) : orders[n].status # "open" => orders'[n].status # "open"
    BY <1>4, <1>5 DEF Fill
  <1>8. QED
    BY <1>1, <1>4, <1>6, <1>7 DEF Kept

LEMMA StepTyped ==
  ASSUME CcxtTyped, CancelledIsNotOpen, [CcxtNext]_ccxtVars
  PROVE  CcxtTyped' /\ CancelledIsNotOpen'
  <1>1. CASE LoadMarkets
    BY <1>1, LoadTyped
  <1>2. CASE \E symbol \in CallerSymbols, marketBuy \in BOOLEAN : Place(symbol, marketBuy)
    BY <1>2, PlaceTyped
  <1>3. CASE \E id \in DOMAIN orders : Cancel(id) \/ Fill(id)
    <2>1. ASSUME NEW id \in DOMAIN orders, Fill(id) PROVE CcxtTyped' /\ CancelledIsNotOpen'
      <3>1. Kept(orders') /\ Len(orders') = Len(orders)
        BY <2>1, FillKeeps
      <3>2. QED
        BY <2>1, <3>1 DEF Fill, CcxtTyped, CancelledIsNotOpen, Kept
    <2>2. QED
      BY <1>3, <2>1, CancelTyped
  <1>4. CASE \E op \in Reads : Read(op)
    BY <1>4, ReadTyped
  <1>5. CASE Answered
    BY <1>5, AnsweredTyped
  <1>6. CASE Lost
    BY <1>6, CarriedTyped, UnansweredTyped DEF Lost
  <1>7. CASE NotCarried
    BY <1>7, OrdersAlone, UnansweredTyped DEF NotCarried
  <1>8. CASE Fatal
    BY <1>8, OrdersAlone, GiveUpTyped DEF Fatal
  <1>9. CASE UNCHANGED ccxtVars
    BY <1>9 DEF ccxtVars, CcxtTyped, CancelledIsNotOpen
  <1>10. QED
    BY <1>1, <1>2, <1>3, <1>4, <1>5, <1>6, <1>7, <1>8, <1>9 DEF CcxtNext

(* An order that cancel_order said is cancelled is not open, however often  *)
(* the cancel was sent and carried out unanswered (cancel_order, _call).    *)
THEOREM Cancelled == CcxtSpec => []CancelledIsNotOpen
  <1>1. CcxtInit => CcxtTyped /\ CancelledIsNotOpen
    BY OrdersBegin
  <1>2. CcxtTyped /\ CancelledIsNotOpen /\ [CcxtNext]_ccxtVars
          => CcxtTyped' /\ CancelledIsNotOpen'
    BY StepTyped
  <1>3. QED
    BY <1>1, <1>2, PTL DEF CcxtSpec

-----------------------------------------------------------------------------
(* The orders of one placement.                                            *)

PlacedIn(os, n) == {id \in 1..Len(os) : os[id].by = n}

\* A placement has left fewer orders than it is in attempts, and none while it asks the price.
PlacementsCounted ==
  /\ \A id \in 1..Len(orders) : orders[id].by <= caller.started
  /\ \A n \in Nat : Cardinality(PlacedIn(orders, n)) <= CallAttempts
  /\ client.call.op = "ticker" => PlacedIn(orders, caller.started) = {} /\ client.call.form = 1
  /\ client.call.op = "place" => /\ Cardinality(PlacedIn(orders, caller.started)) < client.call.attempt
                                /\ client.call.form = 1

LEMMA PlacedFinite ==
  ASSUME CcxtTyped, NEW n
  PROVE  IsFiniteSet(PlacedIn(orders, n)) /\ Cardinality(PlacedIn(orders, n)) \in Nat
  <1>1. IsFiniteSet(1..Len(orders))
    BY FS_Interval DEF CcxtTyped
  <1>2. IsFiniteSet(PlacedIn(orders, n))
    BY <1>1, FS_Subset DEF PlacedIn
  <1>3. QED
    BY <1>2, FS_CardinalityType

\* A step that adds no order adds none to a placement.
LEMMA SamePlaced ==
  ASSUME CcxtTyped, Kept(orders'), Len(orders') = Len(orders), NEW n
  PROVE  PlacedIn(orders', n) = PlacedIn(orders, n)
  BY DEF PlacedIn, Kept

LEMMA OnePlaced ==
  ASSUME CcxtTyped, Kept(orders'), Len(orders') = Len(orders) + 1, NEW n,
         orders'[Len(orders) + 1].by = caller.started
  PROVE  IF n = caller.started
         THEN Cardinality(PlacedIn(orders', n)) <= Cardinality(PlacedIn(orders, n)) + 1
         ELSE PlacedIn(orders', n) = PlacedIn(orders, n)
  <1>1. Len(orders) \in Nat
    BY DEF CcxtTyped
  <1>2. CASE n = caller.started
    <2>1. PlacedIn(orders', n) = PlacedIn(orders, n) \cup {Len(orders) + 1}
      BY <1>1, <1>2 DEF PlacedIn, Kept
    <2>2. Len(orders) + 1 \notin PlacedIn(orders, n)
      BY <1>1 DEF PlacedIn
    <2>3. Cardinality(PlacedIn(orders, n) \cup {Len(orders) + 1}) = Cardinality(PlacedIn(orders, n)) + 1
      BY <2>2, PlacedFinite, FS_AddElement
    <2>4. QED
      BY <1>2, <2>1, <2>3, PlacedFinite
  <1>3. CASE n # caller.started
    BY <1>1, <1>3 DEF PlacedIn, Kept
  <1>4. QED
    BY <1>2, <1>3

\* The start of an operation, after which nothing is placed by its number yet.
LEMMA BeginsCounted ==
  ASSUME CcxtTyped, PlacementsCounted, orders' = orders, caller'.started = caller.started + 1,
         client'.call.op \in {"place", "ticker"} =>
            client'.call.form = 1 /\ client'.call.attempt = 1
  PROVE  PlacementsCounted'
  <1>1. caller.started \in Nat /\ Len(orders) \in Nat
    BY DEF CcxtTyped, Caller
  <1>2. \A id \in 1..Len(orders) : orders[id].by \in Nat
    <2>1. \A id \in 1..Len(orders) : orders[id] \in Order
      BY DEF CcxtTyped
    <2>2. QED
      BY <2>1 DEF Order
  <1>3. \A id \in 1..Len(orders) : orders[id].by <= caller.started + 1
    BY <1>1, <1>2 DEF PlacementsCounted
  <1>4. \A n \in Nat : Cardinality(PlacedIn(orders', n)) <= CallAttempts
    BY DEF PlacementsCounted
  <1>5. PlacedIn(orders', caller.started + 1) = {}
    BY <1>1, <1>2 DEF PlacementsCounted, PlacedIn
  <1>6. PlacedIn(orders', caller'.started) = {} /\ Cardinality(PlacedIn(orders', caller'.started)) = 0
    BY <1>5, FS_EmptySet DEF PlacedIn
  <1>7. QED
    BY <1>3, <1>4, <1>6 DEF PlacementsCounted

\* What is left of an attempt that was not answered: the same call again, or none of its kind.
LEMMA AgainOrOver ==
  ASSUME CcxtTyped, PlacementsCounted, Sending, Unanswered \/ GiveUpForm
  PROVE  /\ caller'.started = caller.started
         /\ \/ client'.call.op \notin {"place", "ticker"}
            \/ /\ client'.call.op = client.call.op
               /\ client'.call.form = client.call.form
               /\ client'.call.attempt = client.call.attempt + 1
               /\ client.call.attempt < CallAttempts
  <1>1. client \in Client /\ call \in Call /\ caller \in Caller
    BY DEF CcxtTyped, Client, call
  <1>2. ASSUME NEW answer, Return(answer)
        PROVE  caller'.started = caller.started /\ client'.call.op \notin {"place", "ticker"}
    BY <1>1, <1>2 DEF Return, NoCall, Client, Caller
  <1>3. CASE GiveUpForm
    <2>1. CASE call.form < Forms(call.op)
      <3>1. call.op \notin {"place", "ticker"}
        BY <2>1 DEF Forms, PlacementsCounted, call
      <3>2. PICK next : next = [call EXCEPT !.form = @ + 1, !.attempt = 1]
        OBVIOUS
      <3>3. next = [op |-> call.op, form |-> call.form + 1, attempt |-> 1, market |-> call.market,
                    id |-> call.id, meant |-> call.meant]
        BY <1>1, <3>2 DEF Call
      <3>4. client'.call = next /\ caller' = caller
        BY <1>1, <1>3, <2>1, <3>2 DEF GiveUpForm, Continue, Client
      <3>5. QED
        BY <3>1, <3>3, <3>4
    <2>2. CASE ~(call.form < Forms(call.op))
      BY <1>2, <1>3, <2>2 DEF GiveUpForm
    <2>3. QED
      BY <2>1, <2>2
  <1>4. CASE Unanswered /\ call.attempt < CallAttempts
    <2>1. Continue([call EXCEPT !.attempt = @ + 1])
      BY <1>4 DEF Unanswered
    <2>2. client'.call = [call EXCEPT !.attempt = @ + 1] /\ caller' = caller
      BY <1>1, <2>1 DEF Continue, Client
    <2>3. QED
      BY <1>1, <1>4, <2>2 DEF Call, call
  <1>5. CASE Unanswered /\ ~(call.attempt < CallAttempts)
    BY <1>3, <1>5 DEF Unanswered
  <1>6. QED
    BY <1>3, <1>4, <1>5

\* An attempt that the exchange did not carry out.
LEMMA UncarriedCounted ==
  ASSUME CcxtTyped, PlacementsCounted, Sending, orders' = orders, Unanswered \/ GiveUpForm
  PROVE  PlacementsCounted'
  <1>1. \A n : PlacedIn(orders', n) = PlacedIn(orders, n)
    OBVIOUS
  <1>2. Cardinality(PlacedIn(orders, caller.started)) \in Nat /\ client.call.attempt \in Nat
    BY PlacedFinite DEF CcxtTyped, Client, Call
  <1>3. QED
    BY <1>1, <1>2, AgainOrOver DEF PlacementsCounted

\* An attempt that the exchange carried out: an order more, where it was to place one.
LEMMA CarriedCounted ==
  ASSUME CcxtTyped, PlacementsCounted, Sending, orders' = Carried,
         caller'.started = caller.started,
         \/ client'.call.op \notin {"place", "ticker"}
         \/ /\ client'.call.op = client.call.op
            /\ client'.call.form = client.call.form
            /\ client'.call.attempt = client.call.attempt + 1
            /\ client.call.attempt < CallAttempts
         \/ /\ client.call.op = "ticker" /\ client'.call.op = "place"
            /\ client'.call.form = 1 /\ client'.call.attempt = 1
  PROVE  PlacementsCounted'
  <1>1. /\ Kept(orders') /\ client.call \in Call
        /\ client.call.op # "none" => client.call.attempt \in 1..3
        /\ Len(orders) \in Nat /\ caller.started \in Nat
        /\ \A n : Cardinality(PlacedIn(orders, n)) \in Nat
    BY CarriedTyped, PlacedFinite DEF CcxtTyped, Client, Caller, CallOk, CallAttempts
  <1>2. CASE client.call.op = "place"
    <2>1. Len(orders') = Len(orders) + 1 /\ orders'[Len(orders) + 1].by = caller.started
      BY <1>2, CarriedTyped DEF call
    <2>2. \A id \in 1..Len(orders') : orders'[id].by <= caller'.started
      <3>1. \A id \in 1..Len(orders) : orders'[id].by <= caller.started
        BY <1>1 DEF Kept, PlacementsCounted
      <3>2. \A id \in 1..Len(orders') : id \in 1..Len(orders) \/ id = Len(orders) + 1
        BY <1>1, <2>1
      <3>3. QED
        BY <1>1, <2>1, <3>1, <3>2
    <2>3. IsFiniteSet(PlacedIn(orders', caller.started))
      <3>1. IsFiniteSet(1..Len(orders')) /\ PlacedIn(orders', caller.started) \subseteq 1..Len(orders')
        BY <1>1, <2>1, FS_Interval DEF PlacedIn
      <3>2. QED
        BY <3>1, FS_Subset
    <2>4. Cardinality(PlacedIn(orders', caller.started)) \in Nat
      BY <2>3, FS_CardinalityType
    <2>5. Cardinality(PlacedIn(orders', caller.started)) <= client.call.attempt
      <3>1. Cardinality(PlacedIn(orders', caller.started))
               <= Cardinality(PlacedIn(orders, caller.started)) + 1
        BY <1>1, <2>1, OnePlaced
      <3>2. Cardinality(PlacedIn(orders, caller.started)) < client.call.attempt
        BY <1>2 DEF PlacementsCounted
      <3>3. QED
        BY <1>1, <1>2, <2>4, <3>1, <3>2
    <2>6. \A n \in Nat : n # caller.started => PlacedIn(orders', n) = PlacedIn(orders, n)
      BY <1>1, <2>1, OnePlaced
    <2>7. client.call.attempt \in 1..3
      BY <1>1, <1>2
    <2>8. \A n \in Nat : Cardinality(PlacedIn(orders', n)) <= CallAttempts
      <3>1. Cardinality(PlacedIn(orders', caller.started)) <= CallAttempts
        BY <2>4, <2>5, <2>7 DEF CallAttempts
      <3>2. QED
        BY <1>1, <2>6, <3>1 DEF PlacementsCounted
    <2>9. QED
      BY <1>2, <2>2, <2>4, <2>5, <2>7, <2>8 DEF PlacementsCounted
  <1>3. CASE client.call.op # "place"
    <2>1. Len(orders') = Len(orders)
      BY <1>3, CarriedTyped DEF call
    <2>2. \A n : PlacedIn(orders', n) = PlacedIn(orders, n)
      BY <1>1, <2>1, SamePlaced
    <2>3. \A id \in 1..Len(orders') : orders'[id].by <= caller'.started
      BY <1>1, <2>1 DEF Kept, PlacementsCounted
    <2>4. client.call.op = "ticker" => Cardinality(PlacedIn(orders', caller.started)) = 0
      BY <2>2, FS_EmptySet DEF PlacementsCounted
    <2>5. QED
      BY <1>1, <1>3, <2>2, <2>3, <2>4 DEF PlacementsCounted
  <1>4. QED
    BY <1>2, <1>3

LEMMA StepCounted ==
  ASSUME CcxtTyped, PlacementsCounted, [CcxtNext]_ccxtVars
  PROVE  PlacementsCounted'
  <1>1. client \in Client /\ caller \in Caller /\ client.call \in Call
    BY DEF CcxtTyped, Client
  <1>2. ASSUME client'.call = client.call, caller'.started = caller.started,
               Kept(orders'), Len(orders') = Len(orders)
        PROVE  PlacementsCounted'
    <2>1. \A n : PlacedIn(orders', n) = PlacedIn(orders, n)
      BY <1>2, SamePlaced
    <2>2. QED
      BY <1>2, <2>1 DEF PlacementsCounted, Kept
  <1>3. CASE LoadMarkets
    BY <1>1, <1>2, <1>3, OrdersAlone DEF LoadMarkets, Client
  <1>4. ASSUME NEW symbol \in CallerSymbols, NEW marketBuy \in BOOLEAN, Place(symbol, marketBuy)
        PROVE  PlacementsCounted'
    <2>1. caller'.started = caller.started + 1 /\ orders' = orders
      BY <1>1, <1>4 DEF Place, Refuse, Caller
    <2>2. \/ client'.call = client.call /\ client.call = NoCall
          \/ client'.call = CallOf(FirstCall(marketBuy), Resolved(symbol), 0, symbol.meant)
      BY <1>1, <1>4 DEF Place, Ready, Client
    <2>3. QED
      BY <2>1, <2>2, BeginsCounted DEF NoCall, CallOf
  <1>5. ASSUME NEW id \in DOMAIN orders, Cancel(id) PROVE PlacementsCounted'
    BY <1>1, <1>5, BeginsCounted DEF Cancel, CallOf, Client, Caller
  <1>6. ASSUME NEW id \in DOMAIN orders, Fill(id) PROVE PlacementsCounted'
    BY <1>2, <1>6, FillKeeps DEF Fill
  <1>7. ASSUME NEW op \in Reads, Read(op) PROVE PlacementsCounted'
    <2>1. caller'.started = caller.started + 1 /\ orders' = orders
      BY <1>1, <1>7 DEF Read, Refuse, Caller
    <2>2. \/ client'.call = client.call /\ client.call = NoCall
          \/ client'.call = CallOf(op, NoMarket, 0, <<>>)
      BY <1>1, <1>7 DEF Read, Ready, Client
    <2>3. op \notin {"place", "ticker"}
      BY DEF Reads
    <2>4. QED
      BY <2>1, <2>2, <2>3, BeginsCounted DEF NoCall, CallOf
  <1>8. CASE Answered
    <2>1. ASSUME NEW answer, Return(answer)
          PROVE  caller'.started = caller.started /\ client'.call.op = "none"
      BY <1>1, <2>1 DEF Return, NoCall, Client, Caller
    <2>2. CASE call.op = "ticker" /\ Continue(CallOf("place", call.market, 0, call.meant))
      BY <1>1, <1>8, <2>2, CarriedCounted DEF Answered, Continue, CallOf, Client, call
    <2>3. CASE call.op = "ticker" /\ Return("error")
      BY <1>8, <2>1, <2>3, CarriedCounted DEF Answered
    <2>4. CASE call.op # "ticker"
      BY <1>8, <2>1, <2>4, CarriedCounted DEF Answered
    <2>5. QED
      BY <1>8, <2>2, <2>3, <2>4 DEF Answered, TickerAnswered
  <1>9. CASE Lost
    BY <1>9, AgainOrOver, CarriedCounted DEF Lost
  <1>10. CASE NotCarried \/ Fatal
    BY <1>10, UncarriedCounted DEF NotCarried, Fatal
  <1>11. CASE UNCHANGED ccxtVars
    BY <1>2, <1>11, OrdersAlone DEF ccxtVars
  <1>12. QED
    BY <1>3, <1>4, <1>5, <1>6, <1>7, <1>8, <1>9, <1>10, <1>11 DEF CcxtNext

(* However many attempts are lost, a placement leaves at most one order per *)
(* attempt on the exchange (place_order, _call around create_order).        *)
THEOREM Placements == CcxtSpec => []OrdersPerPlacement
  <1>1. CcxtInit => CcxtTyped /\ CancelledIsNotOpen /\ PlacementsCounted
    <2> SUFFICES ASSUME CcxtInit PROVE PlacementsCounted
      BY OrdersBegin
    <2>1. orders = <<>> /\ client.call.op = "none"
      BY DEF CcxtInit, NoCall
    <2>2. \A n : PlacedIn(orders, n) = {}
      BY <2>1 DEF PlacedIn
    <2>3. QED
      BY <2>1, <2>2, FS_EmptySet DEF PlacementsCounted, CallAttempts
  <1>2. CcxtTyped /\ CancelledIsNotOpen /\ PlacementsCounted /\ [CcxtNext]_ccxtVars
          => CcxtTyped' /\ CancelledIsNotOpen' /\ PlacementsCounted'
    BY StepTyped, StepCounted
  <1>3. CcxtTyped /\ PlacementsCounted => OrdersPerPlacement
    <2> SUFFICES ASSUME CcxtTyped, PlacementsCounted, NEW n \in 1..caller.started
                 PROVE  Cardinality({id \in DOMAIN orders : orders[id].by = n}) <= CallAttempts
      BY DEF OrdersPerPlacement
    <2>1. {id \in DOMAIN orders : orders[id].by = n} = PlacedIn(orders, n)
      BY DEF CcxtTyped, PlacedIn
    <2>2. n \in Nat
      BY DEF CcxtTyped, Caller
    <2>3. QED
      BY <2>1, <2>2 DEF PlacementsCounted
  <1>4. QED
    BY <1>1, <1>2, <1>3, PTL DEF CcxtSpec

-----------------------------------------------------------------------------
(* The pair an order is on.                                                 *)

PairMeant(market, meant) == meant = <<ExchangeMarkets[market].base, ExchangeMarkets[market].quote>>

\* Every order is on a market of the pair that was meant, and so is one that is under way:
\* the ticker that is fetched before a market buy hands its market on.
MeantInv ==
  /\ \A id \in 1..Len(orders) : PairMeant(orders[id].market, orders[id].meant)
  /\ client.call.op \in {"place", "ticker"} => PairMeant(client.call.market, client.call.meant)

LEMMA EarliestIs ==
  ASSUME NEW places \in SUBSET (Nat \ {0}), Earliest(places) # NoMarket
  PROVE  Earliest(places) \in places
  <1>1. places # {}
    BY DEF Earliest
  <1>2. \E i \in places : \A j \in places : i <= j
    BY <1>1, LeastNumber
  <1>3. QED
    BY <1>1, <1>2 DEF Earliest

\* Whichever of the four steps finds the market, the symbol names it.
LEMMA ResolvedIsNamed ==
  ASSUME NEW symbol \in CallerSymbols, Resolved(symbol) # NoMarket
  PROVE  PairMeant(Resolved(symbol), symbol.meant)
  <1> DEFINE Texts == {i \in DOMAIN ExchangeMarkets : ExchangeMarkets[i].symbol = symbol.text}
             Pairing == {i \in DOMAIN ExchangeMarkets : Fits(ExchangeMarkets[i], Parsed(symbol))}
             Bares == {i \in DOMAIN ExchangeMarkets : ExchangeMarkets[i].bare = symbol.bare}
             steps == <<Earliest(Texts), Own[symbol.text], Earliest(Pairing), Earliest(Bares)>>
             found == {i \in DOMAIN steps : steps[i] # NoMarket}
  <1>1. DOMAIN ExchangeMarkets = 1..Len(ExchangeMarkets) /\ Len(ExchangeMarkets) \in Nat
    BY CcxtAssumption
  <1>2. Resolved(symbol) = FirstFound(steps)
    BY DEF Resolved
  <1>3. found # {} /\ Resolved(symbol) = steps[Earliest(found)]
    BY <1>2 DEF FirstFound
  <1>4. found \in SUBSET (Nat \ {0}) /\ \A i \in found : i # NoMarket
    <2>1. DOMAIN steps = 1..4
      OBVIOUS
    <2>2. QED
      BY <2>1 DEF NoMarket
  <1>5. Earliest(found) \in found
    <2> HIDE DEF found
    <2>1. \E i \in found : \A j \in found : i <= j
      BY <1>3, <1>4, LeastNumber
    <2>2. QED
      BY <1>3, <2>1 DEF Earliest
  <1>6. PICK k \in 1..4 : Resolved(symbol) = steps[k] /\ steps[k] # NoMarket
    BY <1>3, <1>5
  <1>7. Texts \in SUBSET (Nat \ {0}) /\ Pairing \in SUBSET (Nat \ {0}) /\ Bares \in SUBSET (Nat \ {0})
    BY <1>1
  <1>8. Resolved(symbol) \in 1..Len(ExchangeMarkets) /\ Names(symbol, Resolved(symbol))
    <2>1. CASE k = 1
      <3>1. Resolved(symbol) \in Texts
        BY <1>6, <1>7, <2>1, EarliestIs
      <3>2. QED
        BY <1>1, <3>1 DEF Names
    <2>2. CASE k = 2
      BY <1>6, <2>2, CcxtAssumption DEF Names
    <2>3. CASE k = 3
      <3>1. Resolved(symbol) \in Pairing
        BY <1>6, <1>7, <2>3, EarliestIs
      <3>2. QED
        BY <1>1, <3>1 DEF Names
    <2>4. CASE k = 4
      <3>1. Resolved(symbol) \in Bares
        BY <1>6, <1>7, <2>4, EarliestIs
      <3>2. QED
        BY <1>1, <3>1 DEF Names
    <2>5. QED
      BY <2>1, <2>2, <2>3, <2>4
  <1>9. QED
    BY <1>8, CcxtAssumption DEF PairMeant

\* The end of an attempt continues the same placement, or none.
LEMMA AgainIsMeant ==
  ASSUME CcxtTyped, MeantInv,
         \/ Unanswered
         \/ GiveUpForm
         \/ call.op = "ticker" /\ TickerAnswered
         \/ Return("done")
  PROVE  client'.call.op \in {"place", "ticker"} =>
           PairMeant(client'.call.market, client'.call.meant)
  <1>1. client \in Client /\ call = client.call /\ call \in Call
    BY DEF CcxtTyped, Client, call
  <1>2. ASSUME NEW result, Return(result)
        PROVE  client'.call.op \in {"place", "ticker"} =>
                 PairMeant(client'.call.market, client'.call.meant)
    BY <1>1, <1>2 DEF Return, NoCall, Client
  <1>3. ASSUME NEW next, Continue(next), next.op = call.op, next.market = call.market,
               next.meant = call.meant
        PROVE  client'.call.op \in {"place", "ticker"} =>
                 PairMeant(client'.call.market, client'.call.meant)
    BY <1>1, <1>3 DEF Continue, MeantInv, Client
  <1>4. ASSUME GiveUpForm
        PROVE  client'.call.op \in {"place", "ticker"} =>
                 PairMeant(client'.call.market, client'.call.meant)
    <2> DEFINE next == [call EXCEPT !.form = @ + 1, !.attempt = 1]
    <2>1. next.op = call.op /\ next.market = call.market /\ next.meant = call.meant
      BY <1>1 DEF Call
    <2>2. Continue(next) \/ \E result : Return(result)
      BY <1>4 DEF GiveUpForm
    <2> HIDE DEF next
    <2>3. QED
      BY <1>2, <1>3, <2>1, <2>2
  <1>5. ASSUME Unanswered
        PROVE  client'.call.op \in {"place", "ticker"} =>
                 PairMeant(client'.call.market, client'.call.meant)
    <2> DEFINE next == [call EXCEPT !.attempt = @ + 1]
    <2>1. next.op = call.op /\ next.market = call.market /\ next.meant = call.meant
      BY <1>1 DEF Call
    <2>2. Continue(next) \/ GiveUpForm
      BY <1>5 DEF Unanswered
    <2> HIDE DEF next
    <2>3. QED
      BY <1>3, <1>4, <2>1, <2>2
  <1>6. ASSUME TickerAnswered, call.op = "ticker"
        PROVE  client'.call.op \in {"place", "ticker"} =>
                 PairMeant(client'.call.market, client'.call.meant)
    <2> DEFINE next == CallOf("place", call.market, 0, call.meant)
    <2>1. next.market = call.market /\ next.meant = call.meant
      BY DEF CallOf
    <2>2. Continue(next) \/ Return("error")
      BY <1>6 DEF TickerAnswered
    <2>3. CASE Continue(next)
      <3> HIDE DEF next
      <3>1. client'.call = next
        BY <1>1, <2>3 DEF Continue, Client
      <3>2. QED
        BY <1>1, <1>6, <2>1, <3>1 DEF MeantInv
    <2>4. QED
      BY <1>2, <2>2, <2>3
  <1>7. QED
    BY <1>2, <1>4, <1>5, <1>6

LEMMA CarriedMeant ==
  ASSUME CcxtTyped, MeantInv
  PROVE  \A id \in 1..Len(Carried) : PairMeant(Carried[id].market, Carried[id].meant)
  <1>1. orders \in Seq(Order) /\ call = client.call /\ Len(orders) \in Nat
    BY DEF CcxtTyped, call
  <1>2. CASE call.op = "place"
    <2> DEFINE new == [market |-> call.market, status |-> "open",
                       by |-> caller.started, meant |-> call.meant]
    <2>1. Carried = Append(orders, new)
      BY <1>2 DEF Carried
    <2>2. new.market = call.market /\ new.meant = call.meant
      OBVIOUS
    <2> HIDE DEF new
    <2>3. Len(Carried) = Len(orders) + 1 /\ Carried[Len(orders) + 1] = new
            /\ \A id \in 1..Len(orders) : Carried[id] = orders[id]
      BY <1>1, <2>1
    <2>4. PairMeant(new.market, new.meant)
      BY <1>1, <1>2, <2>2 DEF MeantInv
    <2>5. \A id \in 1..(Len(orders) + 1) : id \in 1..Len(orders) \/ id = Len(orders) + 1
      BY <1>1
    <2>6. QED
      BY <2>3, <2>4, <2>5 DEF MeantInv
  <1>3. CASE call.op = "cancel"
    <2>1. call.id \in 1..Len(orders)
      BY <1>1, <1>3 DEF CcxtTyped, CallOk
    <2>2. Carried = [orders EXCEPT ![call.id] = [orders[call.id] EXCEPT !.status = "cancelled"]]
      BY <1>3 DEF Carried
    <2>3. Len(Carried) = Len(orders)
            /\ \A id \in 1..Len(orders) : id # call.id => Carried[id] = orders[id]
      BY <1>1, <2>1, <2>2
    <2>4. Carried[call.id].market = orders[call.id].market
            /\ Carried[call.id].meant = orders[call.id].meant
      BY <1>1, <2>1, <2>2 DEF Order
    <2>5. QED
      BY <2>3, <2>4 DEF MeantInv
  <1>4. CASE call.op \notin {"place", "cancel"}
    BY <1>4 DEF Carried, MeantInv
  <1>5. QED
    BY <1>2, <1>3, <1>4

LEMMA StepMeant ==
  ASSUME CcxtTyped, MeantInv, [CcxtNext]_ccxtVars
  PROVE  MeantInv'
  <1>1. CASE LoadMarkets
    BY <1>1 DEF LoadMarkets, MeantInv, CcxtTyped, Client
  <1>2. ASSUME NEW symbol \in CallerSymbols, NEW marketBuy \in BOOLEAN, Place(symbol, marketBuy)
        PROVE  MeantInv'
    <2>1. orders' = orders
      BY <1>2 DEF Place, Refuse
    <2>2. \/ /\ Resolved(symbol) # NoMarket
             /\ client'.call.market = Resolved(symbol) /\ client'.call.meant = symbol.meant
          \/ client'.call = client.call
      <3> DEFINE c == CallOf(FirstCall(marketBuy), Resolved(symbol), 0, symbol.meant)
      <3>1. c.market = Resolved(symbol) /\ c.meant = symbol.meant
        BY DEF CallOf
      <3>2. \/ Resolved(symbol) # NoMarket
                 /\ client' = [client EXCEPT !.markets = TRUE, !.call = c]
            \/ \E loaded : client' = [client EXCEPT !.markets = loaded]
        BY <1>2 DEF Place
      <3> HIDE DEF c
      <3>3. QED
        BY <3>1, <3>2 DEF CcxtTyped, Client
    <2>3. QED
      BY <2>1, <2>2, ResolvedIsNamed DEF MeantInv
  <1>3. ASSUME NEW id \in DOMAIN orders, Cancel(id) PROVE MeantInv'
    <2>1. orders' = orders /\ client'.call.op = "cancel"
      BY <1>3 DEF Cancel, CallOf, CcxtTyped, Client
    <2>2. QED
      BY <2>1 DEF MeantInv
  <1>4. ASSUME NEW id \in DOMAIN orders, Fill(id) PROVE MeantInv'
    <2>1. id \in 1..Len(orders) /\ orders \in Seq(Order)
      BY <1>4 DEF CcxtTyped
    <2>2. orders' = [orders EXCEPT ![id] = [orders[id] EXCEPT !.status = "filled"]]
      BY <1>4 DEF Fill
    <2>3. Len(orders') = Len(orders)
            /\ \A n \in 1..Len(orders) : n # id => orders'[n] = orders[n]
      BY <2>1, <2>2
    <2>4. orders'[id].market = orders[id].market /\ orders'[id].meant = orders[id].meant
      <3>1. orders[id] \in Order /\ orders'[id] = [orders[id] EXCEPT !.status = "filled"]
        BY <2>1, <2>2
      <3>2. QED
        BY <3>1 DEF Order
    <2>5. client' = client
      BY <1>4 DEF Fill
    <2>6. QED
      BY <2>3, <2>4, <2>5 DEF MeantInv
  <1>5. ASSUME NEW op \in Reads, Read(op) PROVE MeantInv'
    <2>1. orders' = orders
      BY <1>5 DEF Read, Refuse
    <2>2. op \notin {"place", "ticker"}
      BY DEF Reads
    <2>3. client'.call.op = op \/ client'.call = client.call
      <3> DEFINE c == CallOf(op, NoMarket, 0, <<>>)
      <3>1. c.op = op
        BY DEF CallOf
      <3>2. \/ \E loaded : client' = [client EXCEPT !.markets = loaded, !.call = c]
            \/ \E loaded : client' = [client EXCEPT !.markets = loaded]
        BY <1>5 DEF Read
      <3> HIDE DEF c
      <3>3. QED
        BY <3>1, <3>2 DEF CcxtTyped, Client
    <2>4. QED
      BY <2>1, <2>2, <2>3 DEF MeantInv
  <1>6. CASE Answered
    <2>1. orders' = Carried /\ ((call.op = "ticker" /\ TickerAnswered) \/ Return("done"))
      BY <1>6 DEF Answered
    <2>2. QED
      BY <2>1, AgainIsMeant, CarriedMeant DEF MeantInv
  <1>7. CASE Lost
    BY <1>7, AgainIsMeant, CarriedMeant DEF Lost, MeantInv
  <1>8. CASE NotCarried
    BY <1>8, AgainIsMeant DEF NotCarried, MeantInv
  <1>9. CASE Fatal
    BY <1>9, AgainIsMeant DEF Fatal, MeantInv
  <1>10. CASE UNCHANGED ccxtVars
    BY <1>10 DEF ccxtVars, MeantInv
  <1>11. QED
    BY <1>1, <1>2, <1>3, <1>4, <1>5, <1>6, <1>7, <1>8, <1>9, <1>10 DEF CcxtNext

(* A placement leaves at most one order per attempt, and each of them on a  *)
(* market of the pair its caller meant, for any markets and any texts that  *)
(* name them without ambiguity (place_order, resolve_symbol, _call).        *)
THEOREM OrdersMeant == CcxtSpec => []OrdersAreMeant
  <1>1. CcxtInit => CcxtTyped /\ CancelledIsNotOpen /\ MeantInv
    <2>1. CcxtInit => MeantInv
      BY DEF CcxtInit, NoCall, MeantInv
    <2>2. QED
      BY <2>1, OrdersBegin
  <1>2. CcxtTyped /\ CancelledIsNotOpen /\ MeantInv /\ [CcxtNext]_ccxtVars
          => CcxtTyped' /\ CancelledIsNotOpen' /\ MeantInv'
    BY StepTyped, StepMeant
  <1>3. CcxtTyped /\ MeantInv => OrdersOnTheMeantMarket
    BY DEF CcxtTyped, MeantInv, PairMeant, OrdersOnTheMeantMarket
  <1>4. CcxtSpec => []OrdersOnTheMeantMarket
    BY <1>1, <1>2, <1>3, PTL DEF CcxtSpec
  <1>5. QED
    BY <1>4, Placements, PTL DEF OrdersAreMeant

-----------------------------------------------------------------------------
(* The jobs of ApiClient.                                                   *)

Members(s) == {s[k] : k \in DOMAIN s}

LEMMA Joined ==
  ASSUME NEW s \in Seq(CoinIds), NEW b \in Seq(CoinIds)
  PROVE  s \o b \in Seq(CoinIds) /\ Members(s \o b) = Members(s) \cup Members(b)
  <1> DEFINE m == Len(s)
             n == Len(b)
  <1>1. /\ s \o b \in Seq(CoinIds) /\ Len(s \o b) = m + n /\ m \in Nat /\ n \in Nat
        /\ \A k \in 1..m : (s \o b)[k] = s[k]
        /\ \A k \in 1..n : (s \o b)[m + k] = b[k]
    OBVIOUS
  <1>2. Members(s \o b) \subseteq Members(s) \cup Members(b)
    <2> SUFFICES ASSUME NEW k \in 1..(m + n)
                 PROVE  (s \o b)[k] \in Members(s) \cup Members(b)
      BY <1>1 DEF Members
    <2>1. CASE k <= m
      BY <1>1, <2>1 DEF Members
    <2>2. CASE k > m
      <3>1. k - m \in 1..n /\ k = m + (k - m)
        BY <1>1, <2>2
      <3>2. (s \o b)[k] = b[k - m]
        BY <1>1, <3>1
      <3>3. QED
        BY <3>1, <3>2 DEF Members
    <2>3. QED
      BY <1>1, <2>1, <2>2
  <1>3. Members(s) \subseteq Members(s \o b)
    BY <1>1 DEF Members
  <1>4. Members(b) \subseteq Members(s \o b)
    <2> SUFFICES ASSUME NEW k \in 1..n PROVE b[k] \in Members(s \o b)
      BY DEF Members
    <2>1. m + k \in 1..(m + n) /\ (s \o b)[m + k] = b[k]
      BY <1>1
    <2>2. QED
      BY <1>1, <2>1 DEF Members
  <1>5. QED
    BY <1>1, <1>2, <1>3, <1>4

\* s is the first n coins of the market.
Front(s, n) == s \in Seq(CoinIds) /\ Len(s) = n /\ \A k \in 1..n : s[k] = Ranking[k]

LEMMA FrontIs ==
  ASSUME NEW n \in 0..Len(Ranking), NEW s, Front(s, n)
  PROVE  s = SubSeq(Ranking, 1, n) /\ SubSeq(s, 1, n) = s
  <1>1. SubSeq(Ranking, 1, n) \in Seq(CoinIds) /\ Len(SubSeq(Ranking, 1, n)) = n
    BY ApiAssumption
  <1>2. \A k \in 1..n : SubSeq(Ranking, 1, n)[k] = Ranking[k]
    BY ApiAssumption
  <1>3. SubSeq(s, 1, n) = s
    BY ApiAssumption DEF Front
  <1>4. QED
    BY <1>1, <1>2, <1>3 DEF Front

\* Whole pages: each is asked in its full size, and joins the ones before it.
LEMMA PagesFill ==
  ASSUME NEW total \in Totals, total % Page = 0, NEW n \in Nat \ {0}, n <= Pages(total)
  PROVE  /\ n * Page \in Nat /\ (n - 1) * Page \in Nat /\ n * Page = (n - 1) * Page + Page
         /\ n * Page <= total
         /\ n = Pages(total) => n * Page = total
  <1> DEFINE pages == total \div Page
  <1>1. total \in Nat \ {0} /\ Page \in Nat \ {0}
    BY ApiAssumption
  <1>2. pages \in Nat /\ total = pages * Page
    BY <1>1
  <1> HIDE DEF pages
  <1>3. Pages(total) = pages
    BY <1>1, <1>2 DEF Pages
  <1>4. n * Page \in Nat /\ (n - 1) * Page \in Nat /\ n * Page = (n - 1) * Page + Page
    BY <1>1
  <1>5. n * Page <= pages * Page
    BY <1>1, <1>2, <1>3
  <1>6. QED
    BY <1>2, <1>3, <1>4, <1>5

LEMMA PageJoins ==
  ASSUME NEW total \in Totals, total % Page = 0, NEW n \in Nat \ {0}, n <= Pages(total),
         NEW s, Front(s, Smaller((n - 1) * Page, Len(Ranking)))
  PROVE  /\ Front(s \o PageOf(total, n, s), Smaller(n * Page, Len(Ranking)))
         /\ PageOf(total, n, s) = <<>> => Len(Ranking) <= (n - 1) * Page
  <1> DEFINE from == (n - 1) * Page
             most == Len(Ranking)
             batch == PageOf(total, n, s)
             last == Smaller(from + Page, most)
  <1>1. /\ from \in Nat /\ n * Page = from + Page /\ from + Page <= total
        /\ Page \in Nat \ {0} /\ total \in Nat /\ most \in Nat
    BY PagesFill, ApiAssumption
  <1> HIDE DEF from
  <1>2. Len(s) = Smaller(from, most) /\ s \in Seq(CoinIds)
    BY DEF Front, from
  <1>3. Smaller(Page, total - Len(s)) = Page
    BY <1>1, <1>2 DEF Smaller
  <1>4. batch = SubSeq(Ranking, from + 1, last)
    BY <1>3 DEF PageOf, from
  <1>5. last \in Nat /\ last <= most
    BY <1>1 DEF Smaller
  <1>6. CASE from < most
    <2>1. Len(s) = from /\ from + 1 \in 1..most /\ last \in (from + 1)..most
      BY <1>1, <1>2, <1>6 DEF Smaller
    <2>2. /\ batch \in Seq(CoinIds) /\ Len(batch) = last - from
          /\ \A k \in 1..(last - from) : batch[k] = Ranking[from + k]
      <3>1. Ranking \in Seq(CoinIds)
        BY ApiAssumption
      <3> HIDE DEF last
      <3>2. QED
        BY <1>1, <1>4, <2>1, <3>1
    <2> HIDE DEF batch, last
    <2>3. s \o batch \in Seq(CoinIds) /\ Len(s \o batch) = last
      <3>1. s \in Seq(CoinIds) /\ batch \in Seq(CoinIds)
        BY <1>2, <2>2
      <3>2. s \o batch \in Seq(CoinIds) /\ Len(s \o batch) = Len(s) + Len(batch)
        BY <3>1
      <3>3. QED
        BY <1>1, <1>5, <2>1, <2>2, <3>2
    <2>4. ASSUME NEW k \in 1..last PROVE (s \o batch)[k] = Ranking[k]
      <3>1. CASE k <= from
        <4>1. (s \o batch)[k] = s[k]
          BY <1>1, <1>2, <2>1, <2>2, <3>1
        <4>2. k \in 1..Smaller(from, most)
          BY <1>1, <1>2, <2>1, <3>1
        <4>3. s[k] = Ranking[k]
          BY <4>2 DEF Front, from
        <4>4. QED
          BY <4>1, <4>3
      <3>2. CASE k > from
        <4>1. k - from \in 1..(last - from) /\ from + (k - from) = k
          BY <1>1, <1>5, <3>2
        <4>2. (s \o batch)[k] = batch[k - from]
          BY <1>1, <1>2, <1>5, <2>1, <2>2, <4>1
        <4>3. QED
          BY <2>2, <4>1, <4>2
      <3>3. k <= from \/ k > from
        BY <1>1, <1>5
      <3>4. QED
        BY <3>1, <3>2, <3>3
    <2>5. batch # <<>>
      BY <2>1, <2>2
    <2>6. Smaller(n * Page, Len(Ranking)) = last
      BY <1>1 DEF last
    <2>7. Front(s \o batch, last)
      BY <2>3, <2>4 DEF Front
    <2>8. QED
      BY <2>5, <2>6, <2>7 DEF batch
  <1>7. CASE from >= most
    <2>1. last = most /\ Smaller(from, most) = most
      BY <1>1, <1>7 DEF Smaller
    <2>2. batch = <<>>
      BY <1>1, <1>4, <1>7, <2>1, ApiAssumption
    <2>3. s \o batch = s
      BY <1>2, <2>2
    <2>4. Front(s, most)
      BY <2>1 DEF from
    <2>5. QED
      BY <1>1, <1>7, <2>1, <2>3, <2>4 DEF from
  <1>8. QED
    BY <1>1, <1>6, <1>7

Whole(th) == th.kind = "listing" /\ th.total % Page = 0

\* A listing of whole pages has the front of the market as long as every page is answered.
ListingOk(th) ==
  Whole(th) =>
    /\ th.total \in Totals /\ th.raises = FALSE
    /\ th.phase # "idle" =>
         /\ th.next <= Pages(th.total)
         /\ th.answered = 1..(th.next - 1)
         /\ Front(th.got, Smaller((th.next - 1) * Page, Len(Ranking)))
    /\ Finished(th) /\ th.answered = 1..th.next =>
         th.got = SubSeq(Ranking, 1, Smaller(th.total, Len(Ranking)))

\* A job for quotes has the coins of the chunks that were answered.
QuotesOk(th) ==
  th.kind = "quotes" =>
    /\ th.chunks \in Chunks /\ th.raises = FALSE
    /\ th.phase # "idle" => th.next <= Len(th.chunks)
    /\ th.phase # "idle" \/ Finished(th) =>
         /\ th.got \in Seq(CoinIds)
         /\ Members(th.got) = UNION {Members(th.chunks[i]) : i \in th.answered}
    /\ Finished(th) => th.next = Len(th.chunks)

JobShape(th) ==
  /\ th = [phase |-> th.phase, kind |-> th.kind, raises |-> th.raises, total |-> th.total,
           chunks |-> th.chunks, next |-> th.next, attempt |-> th.attempt,
           retried |-> th.retried, got |-> th.got, answered |-> th.answered,
           result |-> th.result]
  /\ th.next \in Nat \ {0}

JobOk(th) == JobShape(th) /\ ListingOk(th) /\ QuotesOk(th)

\* A request that does not raise ends in data or in nothing.
LEMMA QuietResult ==
  ASSUME NEW answer, NEW raises, raises = FALSE
  PROVE  ResultOf(answer, raises) = IF answer = "ok" THEN "data" ELSE "none"
  BY DEF ResultOf

LEMMA RequestEnds ==
  ASSUME NEW th, JobOk(th), th.phase = "sending", NEW answer
  PROVE  JobOk(AfterRequest(th, ResultOf(answer, th.raises)))
  <1> DEFINE result == ResultOf(answer, th.raises)
             batch == IF result = "data" THEN Delivered(th) ELSE <<>>
             more == Continues(th, batch) /\ result \in {"data", "none"}
             joined == th.got \o batch
             later == AfterRequest(th, result)
  <1>1. /\ later.phase = (IF more THEN "sending" ELSE "idle")
        /\ later.next = (IF more THEN th.next + 1 ELSE th.next)
        /\ later.got = (IF th.kind = "listing" /\ ~more
                        THEN SubSeq(joined, 1, Smaller(th.total, Len(joined))) ELSE joined)
        /\ later.answered = (IF result = "data" THEN th.answered \cup {th.next}
                             ELSE th.answered)
        /\ later.result = result
        /\ later.kind = th.kind /\ later.total = th.total /\ later.chunks = th.chunks
        /\ later.raises = th.raises
    BY DEF AfterRequest, JobOk, JobShape
  <1>2. JobShape(later)
    <2>1. th.next \in Nat \ {0}
      BY DEF JobOk, JobShape
    <2>2. later.next \in Nat \ {0}
      BY <1>1, <2>1
    <2>3. later = [phase |-> later.phase, kind |-> later.kind, raises |-> later.raises,
                   total |-> later.total, chunks |-> later.chunks, next |-> later.next,
                   attempt |-> later.attempt, retried |-> later.retried, got |-> later.got,
                   answered |-> later.answered, result |-> later.result]
      <3>1. later = [th EXCEPT
                       !.phase = later.phase, !.next = later.next, !.attempt = later.attempt,
                       !.retried = later.retried, !.got = later.got,
                       !.answered = later.answered, !.result = later.result]
        BY DEF AfterRequest, JobOk, JobShape
      <3> HIDE DEF later
      <3>2. QED
        BY <3>1 DEF JobOk, JobShape
    <2>4. QED
      BY <2>2, <2>3 DEF JobShape
  <1> HIDE DEF later
  <1>3. ListingOk(later)
    <2> SUFFICES ASSUME Whole(th) PROVE ListingOk(later)
      BY <1>1 DEF ListingOk, Whole
    <2> DEFINE n == th.next
               most == Len(Ranking)
    <2>1. /\ th.total \in Totals /\ th.raises = FALSE /\ n \in Nat \ {0}
          /\ n <= Pages(th.total) /\ th.answered = 1..(n - 1)
          /\ Front(th.got, Smaller((n - 1) * Page, most))
          /\ th.kind = "listing" /\ th.total % Page = 0
      BY DEF JobOk, JobShape, ListingOk, Whole
    <2>2. result = (IF answer = "ok" THEN "data" ELSE "none")
      BY <2>1, QuietResult
    <2> HIDE DEF result
    <2>3. Requests(th) = Pages(th.total) /\ Delivered(th) = PageOf(th.total, n, th.got)
      BY <2>1 DEF Requests, Delivered
    <2>4. /\ n * Page \in Nat /\ (n - 1) * Page \in Nat
          /\ n * Page = (n - 1) * Page + Page /\ n * Page <= th.total
          /\ n = Pages(th.total) => n * Page = th.total
      BY <2>1, PagesFill
    <2>5. th.total \in Nat /\ most \in Nat /\ Pages(th.total) \in Nat
      <3>1. th.total \in Nat /\ Page \in Nat \ {0}
        BY <2>1, ApiAssumption
      <3>2. most \in Nat
        BY ApiAssumption
      <3>3. (th.total + Page - 1) \div Page \in Nat
        BY <3>1
      <3>4. QED
        BY <3>1, <3>2, <3>3 DEF Pages
    <2>6. CASE result = "none"
      <3>1. ~more /\ later.phase = "idle" /\ later.next = n /\ later.answered = 1..(n - 1)
        BY <1>1, <2>1, <2>6 DEF Continues
      <3>2. later.answered # 1..later.next
        BY <2>1, <3>1
      <3>3. QED
        BY <1>1, <2>1, <3>1, <3>2 DEF ListingOk, Whole
    <2>7. CASE result = "data"
      <3>1. batch = PageOf(th.total, n, th.got)
        BY <2>3, <2>7
      <3>2. /\ Front(joined, Smaller(n * Page, most))
            /\ batch = <<>> => most <= (n - 1) * Page
        BY <2>1, <3>1, PageJoins
      <3>3. later.answered = 1..n
        BY <1>1, <2>1, <2>7
      <3> HIDE DEF batch
      <3>4. CASE more
        <4>1. n < Pages(th.total)
          BY <2>1, <2>3, <3>4 DEF Continues
        <4>2. later.phase = "sending" /\ later.next = n + 1 /\ later.got = joined
          BY <1>1, <3>4
        <4>3. later.next <= Pages(th.total) /\ later.next - 1 = n
          BY <2>1, <2>5, <4>1, <4>2
        <4>4. QED
          BY <1>1, <2>1, <3>2, <3>3, <4>2, <4>3 DEF ListingOk, Whole, Finished
      <3>5. CASE ~more
        <4>1. later.phase = "idle" /\ later.next = n
              /\ later.got = SubSeq(joined, 1, Smaller(th.total, Len(joined)))
          BY <1>1, <2>1, <3>5
        <4>2. n = Pages(th.total) \/ batch = <<>>
          BY <2>1, <2>3, <2>5, <2>7, <3>5 DEF Continues
        <4>3. Smaller(n * Page, most) = Smaller(th.total, most)
          BY <2>4, <2>5, <3>2, <4>2, ApiAssumption DEF Smaller
        <4> DEFINE k == Smaller(th.total, most)
        <4>4. k \in 0..most /\ k <= th.total
          BY <2>5 DEF Smaller
        <4>5. Front(joined, k) /\ Len(joined) = k
          BY <3>2, <4>3 DEF Front
        <4>6. Smaller(th.total, Len(joined)) = k
          BY <2>5, <4>4, <4>5 DEF Smaller
        <4> HIDE DEF k
        <4>7. later.got = SubSeq(Ranking, 1, k)
          BY <4>1, <4>4, <4>5, <4>6, FrontIs
        <4>8. QED
          BY <1>1, <2>1, <4>1, <4>7 DEF ListingOk, Whole, k
      <3>6. QED
        BY <3>4, <3>5
    <2>8. QED
      BY <2>2, <2>6, <2>7
  <1>4. QuotesOk(later)
    <2> SUFFICES ASSUME th.kind = "quotes" PROVE QuotesOk(later)
      BY <1>1 DEF QuotesOk
    <2>1. /\ th.chunks \in Chunks /\ th.raises = FALSE /\ th.next \in Nat \ {0}
          /\ th.next <= Len(th.chunks) /\ th.got \in Seq(CoinIds)
          /\ Members(th.got) = UNION {Members(th.chunks[i]) : i \in th.answered}
      BY DEF JobOk, JobShape, QuotesOk
    <2>2. result = (IF answer = "ok" THEN "data" ELSE "none")
      BY <2>1, QuietResult
    <2> HIDE DEF result
    <2>3. Requests(th) = Len(th.chunks) /\ Delivered(th) = th.chunks[th.next]
      BY DEF Requests, Delivered
    <2>4. th.chunks \in Seq(Seq(CoinIds)) /\ th.chunks[th.next] \in Seq(CoinIds)
      BY <2>1, ApiAssumption
    <2>5. batch \in Seq(CoinIds) /\ later.got = joined
      BY <1>1, <2>3, <2>4
    <2>6. joined \in Seq(CoinIds) /\ Members(joined) = Members(th.got) \cup Members(batch)
      BY <2>1, <2>5, Joined
    <2>7. Members(joined) = UNION {Members(th.chunks[i]) : i \in later.answered}
      <3>1. CASE result = "data"
        <4>1. batch = th.chunks[th.next] /\ later.answered = th.answered \cup {th.next}
          BY <1>1, <2>3, <3>1
        <4>2. QED
          BY <2>1, <2>6, <4>1
      <3>2. CASE result = "none"
        <4>1. batch = <<>> /\ later.answered = th.answered
          BY <1>1, <3>2
        <4>2. Members(batch) = {}
          BY <4>1 DEF Members
        <4>3. QED
          BY <2>1, <2>6, <4>1, <4>2
      <3>3. QED
        BY <2>2, <3>1, <3>2
    <2>8. more <=> th.next < Len(th.chunks)
      BY <2>2, <2>3 DEF Continues
    <2>9. th.next \in Nat /\ Len(th.chunks) \in Nat
      BY <2>1, <2>4
    <2> HIDE DEF more, batch, joined
    <2>10. /\ later.phase # "idle" => later.next <= Len(th.chunks)
           /\ Finished(later) => later.next = Len(th.chunks)
      BY <1>1, <2>1, <2>8, <2>9 DEF Finished
    <2>11. QED
      BY <1>1, <2>1, <2>5, <2>6, <2>7, <2>10 DEF QuotesOk
  <1>5. QED
    BY <1>2, <1>3, <1>4 DEF JobOk, later

JobsOk == threads = [t \in Threads |-> threads[t]] /\ \A t \in Threads : JobOk(threads[t])

LEMMA JobsBegin == ASSUME ClientInit PROVE JobsOk
  <1>1. JobOk(Idle)
    BY DEF Idle, JobOk, JobShape, ListingOk, QuotesOk, Whole
  <1>2. QED
    BY <1>1 DEF ClientInit, JobsOk

\* The first request of a job: nothing was answered and nothing is there yet.
LEMMA JobStarts ==
  ASSUME NEW t \in Threads, JobsOk, Start(t)
  PROVE  JobOk(threads'[t])
  <1>1. PICK kind \in Kinds :
        \E total \in (IF kind = "listing" THEN Totals ELSE {0}) :
        \E chunks \in (IF kind = "quotes" THEN Chunks ELSE {<<>>}) :
        \E raises \in (IF kind = "single" THEN BOOLEAN ELSE {FALSE}) :
          threads' = [threads EXCEPT ![t] =
              [Idle EXCEPT !.phase = "sending", !.kind = kind, !.raises = raises,
                           !.total = total, !.chunks = chunks, !.attempt = 1]]
    BY DEF Start
  <1>2. PICK total \in (IF kind = "listing" THEN Totals ELSE {0}),
             chunks \in (IF kind = "quotes" THEN Chunks ELSE {<<>>}),
             raises \in (IF kind = "single" THEN BOOLEAN ELSE {FALSE}) :
          threads' = [threads EXCEPT ![t] =
              [Idle EXCEPT !.phase = "sending", !.kind = kind, !.raises = raises,
                           !.total = total, !.chunks = chunks, !.attempt = 1]]
    BY <1>1
  <1> DEFINE th == [phase |-> "sending", kind |-> kind, raises |-> raises, total |-> total,
                    chunks |-> chunks, next |-> 1, attempt |-> 1, retried |-> FALSE,
                    got |-> <<>>, answered |-> {}, result |-> "none"]
  <1>3. threads'[t] = th
    BY <1>2 DEF JobsOk, Idle
  <1>4. JobShape(th)
    BY DEF JobShape
  <1>5. ListingOk(th)
    <2> SUFFICES ASSUME Whole(th) PROVE ListingOk(th)
      BY DEF ListingOk
    <2>1. kind = "listing" /\ total \in Totals /\ total % Page = 0 /\ raises = FALSE
      BY DEF Whole
    <2>2. 1 <= Pages(total)
      <3>1. total \in Nat \ {0} /\ Page \in Nat \ {0}
        BY <2>1, ApiAssumption
      <3>2. (total + Page - 1) \div Page >= 1
        BY <3>1
      <3>3. QED
        BY <3>2 DEF Pages
    <2>3. Front(<<>>, Smaller((1 - 1) * Page, Len(Ranking)))
      BY ApiAssumption DEF Front, Smaller
    <2>4. QED
      BY <2>1, <2>2, <2>3 DEF ListingOk, Finished
  <1>6. QuotesOk(th)
    <2> SUFFICES ASSUME kind = "quotes" PROVE QuotesOk(th)
      BY DEF QuotesOk
    <2>1. chunks \in Chunks /\ raises = FALSE
      OBVIOUS
    <2>2. 1 <= Len(chunks)
      BY <2>1, ApiAssumption
    <2>3. Members(<<>>) = {}
      BY DEF Members
    <2>4. QED
      BY <2>1, <2>2, <2>3 DEF QuotesOk, Finished
  <1>7. QED
    BY <1>3, <1>4, <1>5, <1>6 DEF JobOk

\* A pause, its end and a crash touch neither the pages nor what they brought.
LEMMA JobGoesOn ==
  ASSUME NEW th, JobOk(th), th.phase # "idle", NEW attempt
  PROVE  /\ JobOk([th EXCEPT !.phase = "sending", !.attempt = attempt])
         /\ JobOk([th EXCEPT !.phase = "pausing", !.retried = TRUE])
         /\ JobOk([th EXCEPT !.phase = "idle", !.result = "crash"])
  <1>1. ASSUME NEW later, JobShape(later),
               later.kind = th.kind, later.total = th.total, later.raises = th.raises,
               later.chunks = th.chunks, later.next = th.next, later.got = th.got,
               later.answered = th.answered,
               later.phase # "idle" \/ later.result = "crash"
        PROVE  JobOk(later)
    <2>1. ListingOk(later)
      BY <1>1 DEF JobOk, ListingOk, Whole, Finished
    <2>2. QuotesOk(later)
      BY <1>1 DEF JobOk, QuotesOk, Finished
    <2>3. QED
      BY <1>1, <2>1, <2>2 DEF JobOk
  <1>2. JobShape(th)
    BY DEF JobOk
  <1>3. JobOk([th EXCEPT !.phase = "sending", !.attempt = attempt])
    <2> DEFINE later == [th EXCEPT !.phase = "sending", !.attempt = attempt]
    <2>1. later = [th EXCEPT !.phase = "sending", !.attempt = attempt]
      OBVIOUS
    <2> HIDE DEF later
    <2>2. JobShape(later) /\ later.phase # "idle"
      BY <1>2, <2>1 DEF JobShape
    <2>3. /\ later.kind = th.kind /\ later.total = th.total /\ later.raises = th.raises
          /\ later.chunks = th.chunks /\ later.next = th.next /\ later.got = th.got
          /\ later.answered = th.answered
      BY <1>2, <2>1 DEF JobShape
    <2>4. JobOk(later)
      BY <1>1, <2>2, <2>3
    <2>5. QED
      BY <2>4 DEF later
  <1>4. JobOk([th EXCEPT !.phase = "pausing", !.retried = TRUE])
    <2> DEFINE later == [th EXCEPT !.phase = "pausing", !.retried = TRUE]
    <2>1. later = [th EXCEPT !.phase = "pausing", !.retried = TRUE]
      OBVIOUS
    <2> HIDE DEF later
    <2>2. JobShape(later) /\ later.phase # "idle"
      BY <1>2, <2>1 DEF JobShape
    <2>3. /\ later.kind = th.kind /\ later.total = th.total /\ later.raises = th.raises
          /\ later.chunks = th.chunks /\ later.next = th.next /\ later.got = th.got
          /\ later.answered = th.answered
      BY <1>2, <2>1 DEF JobShape
    <2>4. JobOk(later)
      BY <1>1, <2>2, <2>3
    <2>5. QED
      BY <2>4 DEF later
  <1>5. JobOk([th EXCEPT !.phase = "idle", !.result = "crash"])
    <2> DEFINE later == [th EXCEPT !.phase = "idle", !.result = "crash"]
    <2>1. later = [th EXCEPT !.phase = "idle", !.result = "crash"]
      OBVIOUS
    <2> HIDE DEF later
    <2>2. JobShape(later) /\ later.result = "crash"
      BY <1>2, <2>1 DEF JobShape
    <2>3. /\ later.kind = th.kind /\ later.total = th.total /\ later.raises = th.raises
          /\ later.chunks = th.chunks /\ later.next = th.next /\ later.got = th.got
          /\ later.answered = th.answered
      BY <1>2, <2>1 DEF JobShape
    <2>4. JobOk(later)
      BY <1>1, <2>2, <2>3
    <2>5. QED
      BY <2>4 DEF later
  <1>6. QED
    BY <1>3, <1>4, <1>5

LEMMA StepJobs ==
  ASSUME JobsOk, [ClientNext]_clientVars
  PROVE  JobsOk'
  <1>1. ASSUME NEW t \in Threads, NEW th, JobOk(th), threads' = [threads EXCEPT ![t] = th]
        PROVE  JobsOk'
    BY <1>1 DEF JobsOk
  <1>2. ASSUME NEW t \in Threads, Start(t) PROVE JobsOk'
    <2>1. threads' = [threads EXCEPT ![t] = threads'[t]]
      BY <1>2 DEF Start, JobsOk
    <2>2. QED
      BY <1>1, <1>2, <2>1, JobStarts
  <1>3. ASSUME NEW t \in Threads, Wake(t) PROVE JobsOk'
    <2> DEFINE th == threads[t]
    <2>1. /\ threads' = [threads EXCEPT ![t] =
                 [th EXCEPT !.phase = "sending", !.attempt = NextAttempt(th.attempt)]]
          /\ th.phase # "idle" /\ JobOk(th)
      BY <1>3 DEF Wake, JobsOk
    <2> HIDE DEF th
    <2>2. JobOk([th EXCEPT !.phase = "sending", !.attempt = NextAttempt(th.attempt)])
      BY <2>1, JobGoesOn
    <2>3. QED
      BY <1>1, <2>1, <2>2
  <1>4. ASSUME NEW t \in Threads, Answer(t) PROVE JobsOk'
    <2> DEFINE th == threads[t]
    <2>1. th.phase = "sending" /\ th.phase # "idle" /\ JobOk(th)
      BY <1>4 DEF Answer, JobsOk
    <2>2. PICK answer \in Answers : Crash(t) \/ Retry(t, answer) \/ EndRequest(t, answer)
      BY <1>4 DEF Answer
    <2>3. CASE Crash(t)
      <3>1. threads' = [threads EXCEPT ![t] = [th EXCEPT !.phase = "idle", !.result = "crash"]]
        BY <2>3 DEF Crash
      <3> HIDE DEF th
      <3>2. QED
        BY <1>1, <2>1, <3>1, JobGoesOn
    <2>4. CASE Retry(t, answer)
      <3>1. threads' = [threads EXCEPT ![t] = [th EXCEPT !.phase = "pausing", !.retried = TRUE]]
        BY <2>4 DEF Retry
      <3> HIDE DEF th
      <3>2. QED
        BY <1>1, <2>1, <3>1, JobGoesOn
    <2>5. CASE EndRequest(t, answer)
      <3>1. threads' = [threads EXCEPT ![t] =
                           AfterRequest(threads[t], ResultOf(answer, threads[t].raises))]
        BY <2>5 DEF EndRequest
      <3>2. QED
        BY <1>1, <2>1, <3>1, RequestEnds
    <2>6. QED
      BY <2>2, <2>3, <2>4, <2>5
  <1>5. CASE Reset \/ UNCHANGED clientVars
    BY <1>5 DEF Reset, clientVars, JobsOk
  <1>6. QED
    BY <1>2, <1>3, <1>4, <1>5 DEF ClientNext

(* A listing of whole pages that were all answered is the front of the      *)
(* market, and a job for quotes has the coins of exactly the chunks that    *)
(* were answered, for any market, page size, chunks and answers             *)
(* (get_all_listings, get_quotes_batched).                                  *)
THEOREM Complete == ClientSpec => []AnswersAreComplete
  <1>1. ClientInit => JobsOk
    BY JobsBegin
  <1>2. JobsOk /\ [ClientNext]_clientVars => JobsOk'
    BY StepJobs
  <1>3. JobsOk => AnswersAreComplete
    <2> SUFFICES ASSUME JobsOk, NEW t \in Threads
                 PROVE  LET th == threads[t]
                        IN  /\ Finished(th) /\ th.kind = "listing" /\ th.total % Page = 0
                                 /\ th.answered = 1..th.next
                               => th.got = SubSeq(Ranking, 1, Smaller(th.total, Len(Ranking)))
                            /\ Finished(th) /\ th.kind = "quotes"
                               => /\ th.next = Len(th.chunks)
                                  /\ Members(th.got) =
                                       UNION {Members(th.chunks[i]) : i \in th.answered}
      BY DEF AnswersAreComplete, WholePagesAreExact, QuotesOfAnsweredChunks, Members
    <2>1. ListingOk(threads[t]) /\ QuotesOk(threads[t])
      BY DEF JobsOk, JobOk
    <2>2. QED
      BY <2>1 DEF ListingOk, QuotesOk, Whole
  <1>4. QED
    BY <1>1, <1>2, <1>3, PTL DEF ClientSpec

-----------------------------------------------------------------------------
(***************************************************************************)
(* The stored configuration of ConfigStore.                                *)
(***************************************************************************)
Keeps(file, n) == StoredVersion(file) >= Migrations[n].below
After(file, data, n) ==
  IF Keeps(file, n) THEN data
  ELSE IF Migrations[n].replaces THEN Over(Migrations[n].patch, data)
  ELSE Over(data, Migrations[n].patch)

\* g lists what a file is after each of the first n steps.
Migrates(g, file, n) ==
  /\ DOMAIN g = 0..n /\ g = [k \in 0..n |-> g[k]] /\ g[0] = file
  /\ \A k \in 1..n : g[k] = After(file, g[k - 1], k)

LEMMA Steps == Len(Migrations) = 9
  BY DEF Migrations

LEMMA MigratesExists ==
  ASSUME NEW file
  PROVE  \E g : Migrates(g, file, 9)
  <1> DEFINE Without == {n \in 0..9 : ~\E g : Migrates(g, file, n)}
  <1> SUFFICES ASSUME Without # {} PROVE FALSE
    OBVIOUS
  <1>1. PICK m \in Without : \A n \in Without : m <= n
    <2>1. Without \in SUBSET Nat
      OBVIOUS
    <2> HIDE DEF Without
    <2>2. QED
      BY <2>1, LeastNumber
  <1>2. m \in 0..9
    OBVIOUS
  <1>3. m # 0
    <2>1. Migrates([k \in 0..0 |-> file], file, 0)
      BY DEF Migrates
    <2>2. QED
      BY <2>1
  <1>4. m - 1 \in 0..9 /\ m - 1 \notin Without
    BY <1>1, <1>2, <1>3
  <1>5. PICK g : Migrates(g, file, m - 1)
    BY <1>4
  <1> DEFINE last == After(file, g[m - 1], m)
             h == [k \in 0..m |-> IF k = m THEN last ELSE g[k]]
  <1>6. Migrates(h, file, m)
    <2> HIDE DEF last
    <2>1. h[0] = file
      BY <1>2, <1>3, <1>5 DEF Migrates
    <2>2. \A k \in 1..m : h[k] = After(file, h[k - 1], k)
      <3>1. ASSUME NEW k \in 1..m PROVE h[k] = After(file, h[k - 1], k)
        <4>1. h[k - 1] = g[k - 1]
          BY <1>2
        <4>2. CASE k = m
          BY <1>2, <4>1, <4>2 DEF last
        <4>3. CASE k # m
          <5>1. k \in 1..(m - 1) /\ h[k] = g[k]
            BY <1>2, <4>3
          <5>2. g[k] = After(file, g[k - 1], k)
            BY <1>5, <5>1 DEF Migrates
          <5>3. QED
            BY <4>1, <5>1, <5>2
        <4>4. QED
          BY <4>2, <4>3
      <3>2. QED
        BY <3>1
    <2>3. QED
      BY <2>1, <2>2 DEF Migrates
  <1>7. QED
    BY <1>6, <1>1

LEMMA MigratedIs ==
  ASSUME NEW file
  PROVE  \E g : Migrates(g, file, 9) /\ Migrated(file) = g[9]
  <1>1. PICK g : Migrates(g, file, 9)
    BY MigratesExists
  <1> DEFINE Line(f) == [n \in 0..Len(Migrations) |->
                IF n = 0 THEN file
                ELSE IF StoredVersion(file) >= Migrations[n].below THEN f[n - 1]
                ELSE IF Migrations[n].replaces THEN Over(Migrations[n].patch, f[n - 1])
                ELSE Over(f[n - 1], Migrations[n].patch)]
             data == CHOOSE f : f = Line(f)
  <1>2. g = Line(g)
    BY <1>1, Steps DEF Migrates, After, Keeps
  <1>3. data = Line(data)
    BY <1>2
  <1>4. Migrated(file) = data[9]
    BY Steps DEF Migrated
  <1> HIDE DEF data
  <1>5. Migrates(data, file, 9)
    BY <1>3, Steps DEF Migrates, After, Keeps
  <1>6. QED
    BY <1>4, <1>5

\* A file of the present version is taken as it is.
LEMMA PresentIsKept ==
  ASSUME NEW file, StoredVersion(file) \in Int, StoredVersion(file) >= 10
  PROVE  Migrated(file) = file
  <1>1. PICK g : Migrates(g, file, 9) /\ Migrated(file) = g[9]
    BY MigratedIs
  <1>2. \A n \in 1..9 : Keeps(file, n)
    BY DEF Keeps, Migrations, Step
  <1>3. \A n \in 1..9 : g[n] = g[n - 1]
    BY <1>1, <1>2 DEF Migrates, After
  <1>4. g[9] = g[0]
    BY <1>3
  <1>5. QED
    BY <1>1, <1>4 DEF Migrates

\* Any other has the present version after its last step.
LEMMA OlderIsRaised ==
  ASSUME NEW file, StoredVersion(file) \in Int, StoredVersion(file) < 10
  PROVE  "version" \in DOMAIN Migrated(file) /\ Migrated(file)["version"] = 10
  <1>1. PICK g : Migrates(g, file, 9) /\ Migrated(file) = g[9]
    BY MigratedIs
  <1>2. Migrations[9] = [below |-> 10, patch |-> [version |-> 10, stop |-> 3, maxPct |-> 90, exception |-> FALSE], replaces |-> TRUE]
    BY DEF Migrations, Step
  <1>3. g[9] = After(file, g[8], 9)
    BY <1>1 DEF Migrates
  <1>4. g[9] = Over([version |-> 10, stop |-> 3, maxPct |-> 90, exception |-> FALSE], g[8])
    BY <1>2, <1>3 DEF After, Keeps
  <1>5. QED
    BY <1>1, <1>4 DEF Over

-----------------------------------------------------------------------------
\* What a load gives and an edit keeps: a configuration of the present version, with every
\* setting, whose Nobitex market needs no correction.
SettingsOk(s) ==
  /\ s = [setting \in DOMAIN Defaults |-> s[setting]]
  /\ s.version \in Int /\ s.version >= 10
  /\ s.mode \in {"live", "paper"}
  /\ s.exchange = "nobitex" =>
        /\ s.market \notin {"", "RLS"}
        /\ s.market = "IRT" => s.currency = "IRT"
        /\ ~(s.market = "USDT" /\ s.currency = "USDT")

FileOk(file) == "version" \in DOMAIN file => file.version \in Int

LEMMA SettingNames ==
  DOMAIN Defaults = {"version", "exchange", "mode", "market", "currency", "toman", "rial",
                     "maxPct", "stop", "btcDump", "exception"}
  BY DEF Defaults

LEMMA DictOk ==
  ASSUME NEW data, "version" \in DOMAIN data
  PROVE  /\ FromDict(data) = [setting \in DOMAIN Defaults |-> FromDict(data)[setting]]
         /\ FromDict(data).version = data.version
         /\ FromDict(data).mode \in {"live", "paper"}
  <1> DEFINE named == IF "oldStop" \in DOMAIN data
                      THEN Over(data, [stop |-> data.oldStop]) ELSE data
             cfg == [setting \in DOMAIN Defaults |-> Over(named, Defaults)[setting]]
  <1>1. FromDict(data) = [cfg EXCEPT !.mode = NormalMode(@)]
    BY DEF FromDict
  <1>2. "version" \in DOMAIN named /\ named.version = data.version
    BY DEF Over
  <1> HIDE DEF named
  <1>3. cfg.version = data.version
    BY <1>2, SettingNames DEF Over
  <1>4. DOMAIN cfg = DOMAIN Defaults /\ cfg = [setting \in DOMAIN cfg |-> cfg[setting]]
    OBVIOUS
  <1> HIDE DEF cfg
  <1>5. QED
    BY <1>1, <1>3, <1>4, SettingNames DEF NormalMode

LEMMA LoadedOk ==
  ASSUME NEW file, FileOk(file)
  PROVE  SettingsOk(SettingsOf(file))
  <1>1. CASE file \in {Missing, Broken}
    <2>1. SettingsOf(file) = Defaults
      BY <1>1 DEF SettingsOf
    <2>2. QED
      BY <2>1 DEF SettingsOk, Defaults
  <1>2. CASE file \notin {Missing, Broken}
    <2> DEFINE data == Migrated(file)
               cfg == FromDict(data)
               local == NobitexMarket(cfg)
    <2>1. "version" \in DOMAIN data /\ data.version \in Int /\ data.version >= 10
      <3>1. StoredVersion(file) \in Int
        BY DEF StoredVersion, FileOk
      <3>2. CASE StoredVersion(file) < 10
        BY <3>1, <3>2, OlderIsRaised
      <3>3. CASE StoredVersion(file) >= 10
        BY <3>1, <3>3, PresentIsKept DEF StoredVersion, FileOk
      <3>4. QED
        BY <3>1, <3>2, <3>3
    <2>2. SettingsOf(file) = IF cfg.exchange # "nobitex" THEN cfg
                             ELSE IF "toman" \in DOMAIN data
                                  THEN [local EXCEPT !.rial = 10 * local.toman] ELSE local
      BY <1>2 DEF SettingsOf
    <2> HIDE DEF data
    <2>3. /\ cfg = [setting \in DOMAIN Defaults |-> cfg[setting]]
          /\ cfg.version \in Int /\ cfg.version >= 10
          /\ cfg.mode \in {"live", "paper"}
      BY <2>1, DictOk
    <2> HIDE DEF cfg
    <2>4. CASE cfg.exchange # "nobitex"
      BY <2>2, <2>3, <2>4 DEF SettingsOk
    <2>5. CASE cfg.exchange = "nobitex"
      <3>1. SettingsOk(local)
        BY <2>3, <2>5, SettingNames DEF SettingsOk, NobitexMarket
      <3> HIDE DEF local
      <3>2. SettingsOk([local EXCEPT !.rial = 10 * local.toman])
        BY <3>1, SettingNames DEF SettingsOk
      <3>3. QED
        BY <2>2, <2>5, <3>1, <3>2
    <2>6. QED
      BY <2>4, <2>5
  <1>3. QED
    BY <1>1, <1>2

\* What was saved is what is loaded.
LEMMA SavedIsLoaded ==
  ASSUME NEW s, SettingsOk(s)
  PROVE  FileOk(s) /\ s \notin {Missing, Broken} /\ SettingsOf(s) = Meant(s)
  <1>1. "version" \in DOMAIN s /\ "oldStop" \notin DOMAIN s /\ DOMAIN s = DOMAIN Defaults
    BY SettingNames DEF SettingsOk
  <1>2. s \notin {Missing, Broken}
    <2>1. DOMAIN Missing = {"absent"} /\ DOMAIN Broken = {"broken"}
      BY DEF Missing, Broken
    <2>2. QED
      BY <1>1, <2>1
  <1>3. Migrated(s) = s
    BY <1>1, PresentIsKept DEF SettingsOk, StoredVersion
  <1>4. FromDict(s) = s
    <2> DEFINE cfg == [setting \in DOMAIN Defaults |-> Over(s, Defaults)[setting]]
    <2>1. cfg = s
      BY <1>1 DEF SettingsOk, Over
    <2>2. FromDict(s) = [cfg EXCEPT !.mode = NormalMode(@)]
      BY <1>1 DEF FromDict
    <2>3. NormalMode(s.mode) = s.mode
      BY DEF SettingsOk, NormalMode
    <2> HIDE DEF cfg
    <2>4. [s EXCEPT !.mode = NormalMode(@)] = s
      BY <2>3 DEF SettingsOk
    <2>5. QED
      BY <2>1, <2>2, <2>4
  <1>5. s.exchange = "nobitex" => NobitexMarket(s) = s
    BY SettingNames DEF SettingsOk, NobitexMarket
  <1>6. "toman" \in DOMAIN s
    BY <1>1, SettingNames
  <1>7. SettingsOf(s) = Meant(s)
    BY <1>2, <1>3, <1>4, <1>5, <1>6 DEF SettingsOf, Meant
  <1>8. QED
    BY <1>2, <1>7 DEF SettingsOk, FileOk

-----------------------------------------------------------------------------
Saving == {"credentials", "key", "encrypt", "file", "replace"}

\* The variables are the records they are written as.
ConfigShape ==
  /\ disk = [file |-> disk.file, credentials |-> disk.credentials, key |-> disk.key]
  /\ program = [step |-> program.step, settings |-> program.settings, secret |-> program.secret]
  /\ program.step \in {"down", "idle"} \cup Saving
  /\ count = [keys |-> count.keys, saves |-> count.saves]
  /\ count.keys \in Nat /\ disk.key \in Int
  /\ FileOk(disk.file)
  /\ SettingsOk(program.settings)

\* The ghosts are as they are written.
ExpectedShape ==
  /\ expected = [settings |-> expected.settings, secrets |-> expected.secrets,
                 kept |-> expected.kept, keyLost |-> expected.keyLost]
  /\ expected.kept \in BOOLEAN /\ expected.keyLost \in BOOLEAN

\* Stored credentials are expected, and can be read unless the key they need was written over.
CredentialsOk ==
  /\ disk.credentials.secret \in expected.secrets
  /\ \/ disk.credentials = NoCredentials
     \/ disk.key > 0 /\ disk.credentials.under = disk.key
     \/ expected.keyLost

\* The credentials a save has written, or could not remove, are those of the configuration it
\* then writes.
SaveOk ==
  /\ program.step \in Saving => program.secret \in expected.secrets
  /\ program.step = "key" => disk.key = BadKey
  /\ program.step \in {"key", "encrypt"} => program.secret # NoSecret
  /\ program.step = "encrypt" => disk.key > 0
  /\ program.step \in {"file", "replace"} =>
       \/ disk.credentials.secret = program.secret
       \/ expected.kept

ConfigInv == ConfigShape /\ ExpectedShape /\ CredentialsOk /\ SaveOk /\ SettingsAreOldOrNew

LEMMA ConfigBegins == ASSUME ConfigInit PROVE ConfigInv
  <1>1. PICK file \in Files :
          disk = [file |-> file, credentials |-> NoCredentials, key |-> NoKey]
    BY DEF ConfigInit
  <1>2. SettingsOk(Defaults)
    BY DEF SettingsOk, Defaults
  <1>3. ConfigShape
    BY <1>1, <1>2, ConfigAssumption DEF ConfigInit, ConfigShape, FileOk, NoKey
  <1>4. ExpectedShape
    BY DEF ConfigInit, ExpectedShape
  <1>5. CredentialsOk /\ SaveOk
    BY <1>1 DEF ConfigInit, CredentialsOk, SaveOk, Saving, NoCredentials
  <1>6. SettingsAreOldOrNew
    BY DEF ConfigInit, SettingsAreOldOrNew
  <1>7. QED
    BY <1>3, <1>4, <1>5, <1>6 DEF ConfigInv

\* What a load finds of the credentials is expected, or nothing for a reason.
LEMMA SecretIsExpected == ASSUME CredentialsOk PROVE SecretIsOldOrNew
  <1>1. CASE disk.file \in {Missing, Broken}
    BY <1>1 DEF SecretOf, SecretIsOldOrNew
  <1>2. CASE disk.file \notin {Missing, Broken} /\ disk.credentials = NoCredentials
    BY <1>2 DEF SecretOf, SecretIsOldOrNew, CredentialsOk, NoCredentials
  <1>3. CASE disk.file \notin {Missing, Broken} /\ disk.credentials # NoCredentials
    BY <1>3 DEF SecretOf, SecretIsOldOrNew, CredentialsOk
  <1>4. QED
    BY <1>1, <1>2, <1>3

\* A key written over: what stays expected, and the stored credentials are then known to be lost.
LEMMA WrittenOver ==
  ASSUME ExpectedShape, CredentialsOk
  PROVE  LET e == KeyWrittenOver(disk)
         IN  /\ e = [settings |-> expected.settings, secrets |-> expected.secrets,
                     kept |-> expected.kept, keyLost |-> e.keyLost]
             /\ e.keyLost \in BOOLEAN
             /\ disk.credentials = NoCredentials \/ e.keyLost
  <1> DEFINE lost == expected.keyLost \/ (disk.key > 0 /\ disk.credentials # NoCredentials)
  <1>1. KeyWrittenOver(disk) = [expected EXCEPT !.keyLost = lost]
    BY DEF KeyWrittenOver
  <1>2. lost \in BOOLEAN
    BY DEF ExpectedShape
  <1>3. disk.credentials = NoCredentials \/ lost
    BY DEF CredentialsOk
  <1> HIDE DEF lost
  <1>4. QED
    BY <1>1, <1>2, <1>3 DEF ExpectedShape

\* A step of a save that leaves the configuration file and its settings alone.
LEMMA SaveStepShape ==
  ASSUME ConfigShape, NEW step \in {"down", "idle"} \cup Saving, NEW credentials,
         NEW key \in Int, NEW keys \in Nat,
         program' = [program EXCEPT !.step = step],
         disk' = [file |-> disk.file, credentials |-> credentials, key |-> key],
         count' = [count EXCEPT !.keys = keys]
  PROVE  /\ ConfigShape'
         /\ program'.step = step /\ program'.secret = program.secret
         /\ disk'.file = disk.file /\ disk'.credentials = credentials /\ disk'.key = key
  BY DEF ConfigShape

\* Every step keeps the invariant.
LEMMA StepConfig ==
  ASSUME ConfigInv, [ConfigNext]_configVars
  PROVE  ConfigInv'
  <1> USE DEF ConfigInv
  <1>1. CASE LoadConfig
    <2>1. PICK key \in KeysAfterLoad(disk) :
            /\ disk' = [disk EXCEPT !.key = key]
            /\ count' = [count EXCEPT !.keys = IF key > @ THEN key ELSE @]
            /\ expected' = IF key = disk.key THEN expected ELSE KeyWrittenOver(disk)
      BY <1>1 DEF LoadConfig
    <2>2. PICK secret :
            program' = [step |-> "idle", settings |-> SettingsOf(disk.file), secret |-> secret]
      BY <1>1 DEF LoadConfig
    <2>3. key \in Int /\ count.keys \in Nat
      BY DEF KeysAfterLoad, ConfigShape, BadKey
    <2>4. disk' = [file |-> disk.file, credentials |-> disk.credentials, key |-> key]
      BY <2>1 DEF ConfigShape
    <2>5. SettingsOk(SettingsOf(disk.file))
      BY LoadedOk DEF ConfigShape
    <2>6. count' = [keys |-> count'.keys, saves |-> count'.saves] /\ count'.keys \in Nat
      BY <2>1, <2>3 DEF ConfigShape
    <2>7. ConfigShape'
      BY <2>2, <2>3, <2>4, <2>5, <2>6 DEF ConfigShape
    <2>8. CASE key = disk.key
      BY <2>1, <2>2, <2>4, <2>7, <2>8
         DEF ExpectedShape, CredentialsOk, SaveOk, Saving, SettingsAreOldOrNew
    <2>9. CASE key # disk.key
      <3>1. expected' = KeyWrittenOver(disk)
        BY <2>1, <2>9
      <3>2. /\ expected' = [settings |-> expected.settings, secrets |-> expected.secrets,
                            kept |-> expected.kept, keyLost |-> expected'.keyLost]
            /\ expected'.keyLost \in BOOLEAN
            /\ disk.credentials = NoCredentials \/ expected'.keyLost
        BY <3>1, WrittenOver
      <3>3. ExpectedShape' /\ CredentialsOk' /\ SettingsAreOldOrNew'
        BY <2>4, <3>2 DEF ExpectedShape, CredentialsOk, SettingsAreOldOrNew
      <3>4. SaveOk'
        BY <2>2 DEF SaveOk, Saving
      <3>5. QED
        BY <2>7, <3>3, <3>4
    <2>10. QED
      BY <2>8, <2>9
  <1>2. CASE LoadFails
    <2>1. SettingsOk(Defaults)
      BY DEF SettingsOk, Defaults
    <2>2. QED
      BY <1>2, <2>1 DEF LoadFails, ConfigShape, ExpectedShape, CredentialsOk, SaveOk, Saving,
         SettingsAreOldOrNew
  <1>3. CASE Edit
    <2>1. PICK stop \in Stops, toman \in Tomans, secret \in Secrets \cup {NoSecret} :
            program' = [program EXCEPT !.settings.stop = stop, !.settings.toman = toman,
                                       !.secret = secret]
      BY <1>3 DEF Edit
    <2> DEFINE settings == [program.settings EXCEPT !.stop = stop, !.toman = toman]
    <2>2. program' = [step |-> "idle", settings |-> settings, secret |-> secret]
      BY <1>3, <2>1 DEF Edit, ConfigShape
    <2>3. SettingsOk(settings)
      BY SettingNames DEF ConfigShape, SettingsOk
    <2> HIDE DEF settings
    <2>4. UNCHANGED <<disk, expected, count>>
      BY <1>3 DEF Edit
    <2>5. QED
      BY <2>2, <2>3, <2>4
         DEF ConfigShape, ExpectedShape, CredentialsOk, SaveOk, Saving, SettingsAreOldOrNew
  <1>4. CASE BeginSave
    <2>1. /\ program' = [program EXCEPT !.step = "credentials"]
          /\ count' = [count EXCEPT !.saves = @ + 1] /\ disk' = disk
      BY <1>4 DEF BeginSave
    <2>2. expected' = [settings |-> expected.settings \cup {Meant(program.settings)},
                       secrets |-> expected.secrets \cup {program.secret},
                       kept |-> FALSE, keyLost |-> expected.keyLost]
      BY <1>4 DEF BeginSave, ExpectedShape
    <2>3. ConfigShape'
      BY <2>1 DEF ConfigShape, Saving
    <2>4. program'.step = "credentials" /\ program'.secret = program.secret
      BY <2>1 DEF ConfigShape
    <2>5. QED
      BY <2>1, <2>2, <2>3, <2>4
         DEF ExpectedShape, CredentialsOk, SaveOk, SettingsAreOldOrNew
  <1>5. CASE RemoveCredentials
    <2>1. /\ program' = [program EXCEPT !.step = "file"]
          /\ disk' = [file |-> disk.file, credentials |-> NoCredentials, key |-> disk.key]
          /\ count' = [count EXCEPT !.keys = count.keys]
          /\ disk.key \in Int /\ count.keys \in Nat /\ "file" \in {"down", "idle"} \cup Saving
          /\ program.secret = NoSecret /\ program.step = "credentials"
      BY <1>5 DEF RemoveCredentials, ConfigShape, Saving
    <2>2. expected' = [settings |-> expected.settings, secrets |-> expected.secrets,
                       kept |-> expected.kept, keyLost |-> FALSE]
      BY <1>5 DEF RemoveCredentials, ExpectedShape
    <2>3. /\ ConfigShape'
          /\ program'.step = "file" /\ program'.secret = program.secret
          /\ disk'.credentials = NoCredentials /\ disk'.file = disk.file
      BY <2>1, SaveStepShape
    <2>4. NoCredentials.secret = NoSecret
      BY DEF NoCredentials
    <2>5. QED
      BY <2>1, <2>2, <2>3, <2>4
         DEF ExpectedShape, CredentialsOk, SaveOk, Saving, SettingsAreOldOrNew
  <1>6. CASE RemovalFails
    <2>1. /\ program' = [program EXCEPT !.step = "file"] /\ disk' = disk /\ count' = count
          /\ program.step = "credentials"
      BY <1>6 DEF RemovalFails
    <2>2. expected' = [settings |-> expected.settings, secrets |-> expected.secrets,
                       kept |-> TRUE, keyLost |-> expected.keyLost]
      BY <1>6 DEF RemovalFails, ExpectedShape
    <2>3. ConfigShape' /\ program'.step = "file" /\ program'.secret = program.secret
      BY <2>1 DEF ConfigShape, Saving
    <2>4. QED
      BY <2>1, <2>2, <2>3
         DEF ExpectedShape, CredentialsOk, SaveOk, Saving, SettingsAreOldOrNew
  <1>7. CASE BeginKey
    <2>1. /\ program' = [program EXCEPT !.step = "key"]
          /\ disk' = [file |-> disk.file, credentials |-> disk.credentials, key |-> BadKey]
          /\ count' = [count EXCEPT !.keys = count.keys]
          /\ BadKey \in Int /\ count.keys \in Nat /\ "key" \in {"down", "idle"} \cup Saving
          /\ program.secret # NoSecret /\ program.step = "credentials"
          /\ expected' = KeyWrittenOver(disk)
      BY <1>7 DEF BeginKey, ConfigShape, Saving, BadKey
    <2>2. /\ ConfigShape'
          /\ program'.step = "key" /\ program'.secret = program.secret
          /\ disk'.credentials = disk.credentials /\ disk'.key = BadKey /\ disk'.file = disk.file
      BY <2>1, SaveStepShape
    <2>3. /\ expected' = [settings |-> expected.settings, secrets |-> expected.secrets,
                          kept |-> expected.kept, keyLost |-> expected'.keyLost]
          /\ expected'.keyLost \in BOOLEAN
          /\ disk.credentials = NoCredentials \/ expected'.keyLost
      BY <2>1, WrittenOver
    <2>4. QED
      BY <2>1, <2>2, <2>3
         DEF ExpectedShape, CredentialsOk, SaveOk, Saving, SettingsAreOldOrNew
  <1>8. CASE WriteKey
    <2> DEFINE fresh == count.keys + 1
    <2>1. /\ program' = [program EXCEPT !.step = "encrypt"]
          /\ disk' = [file |-> disk.file, credentials |-> disk.credentials, key |-> fresh]
          /\ count' = [count EXCEPT !.keys = fresh] /\ UNCHANGED expected
          /\ program.step = "key"
      BY <1>8 DEF WriteKey, ConfigShape
    <2>2. fresh \in Nat /\ fresh \in Int /\ fresh > 0 /\ "encrypt" \in {"down", "idle"} \cup Saving
      BY DEF ConfigShape, Saving
    <2>3. disk.credentials = NoCredentials \/ expected.keyLost
      BY <2>1 DEF SaveOk, CredentialsOk, BadKey
    <2> HIDE DEF fresh
    <2>4. /\ ConfigShape'
          /\ program'.step = "encrypt" /\ program'.secret = program.secret
          /\ disk'.credentials = disk.credentials /\ disk'.key = fresh /\ disk'.file = disk.file
      BY <2>1, <2>2, SaveStepShape
    <2>5. QED
      BY <2>1, <2>2, <2>3, <2>4
         DEF ExpectedShape, CredentialsOk, SaveOk, Saving, SettingsAreOldOrNew
  <1>9. CASE ReplaceCredentials
    <2> DEFINE new == [under |-> disk.key, secret |-> program.secret]
    <2>1. /\ program' = [program EXCEPT !.step = "file"]
          /\ disk' = [file |-> disk.file, credentials |-> new, key |-> disk.key]
          /\ count' = [count EXCEPT !.keys = count.keys]
          /\ disk.key \in Int /\ count.keys \in Nat /\ "file" \in {"down", "idle"} \cup Saving
          /\ program.step \in {"credentials", "encrypt"}
      BY <1>9 DEF ReplaceCredentials, ConfigShape, Saving
    <2>2. expected' = [settings |-> expected.settings, secrets |-> expected.secrets,
                       kept |-> expected.kept, keyLost |-> FALSE]
      BY <1>9 DEF ReplaceCredentials, ExpectedShape
    <2>3. disk.key > 0
      BY <1>9 DEF ReplaceCredentials, SaveOk
    <2>4. new.under = disk.key /\ new.secret = program.secret
      OBVIOUS
    <2> HIDE DEF new
    <2>5. /\ ConfigShape'
          /\ program'.step = "file" /\ program'.secret = program.secret
          /\ disk'.credentials = new /\ disk'.key = disk.key /\ disk'.file = disk.file
      BY <2>1, SaveStepShape
    <2>6. QED
      BY <2>1, <2>2, <2>3, <2>4, <2>5
         DEF ExpectedShape, CredentialsOk, SaveOk, Saving, SettingsAreOldOrNew
  <1>10. CASE WriteFile
    <2>1. /\ program' = [program EXCEPT !.step = "replace"]
          /\ disk' = disk /\ UNCHANGED <<expected, count>> /\ program.step = "file"
      BY <1>10 DEF WriteFile, WhileWriting, ConfigShape
    <2>2. ConfigShape' /\ program'.step = "replace" /\ program'.secret = program.secret
      BY <2>1 DEF ConfigShape, Saving
    <2>3. QED
      BY <2>1, <2>2 DEF ExpectedShape, CredentialsOk, SaveOk, Saving, SettingsAreOldOrNew
  <1>11. CASE ReplaceFile
    <2>1. /\ program' = [program EXCEPT !.step = "idle"]
          /\ disk' = [file |-> program.settings, credentials |-> disk.credentials,
                      key |-> disk.key]
          /\ count' = count /\ program.step = "replace"
      BY <1>11 DEF ReplaceFile, ConfigShape
    <2>2. PICK secrets : /\ secrets = IF expected.kept THEN expected.secrets ELSE {program.secret}
                         /\ expected' = [settings |-> {Meant(program.settings)},
                                         secrets |-> secrets, kept |-> expected.kept,
                                         keyLost |-> expected.keyLost]
      BY <1>11 DEF ReplaceFile, ExpectedShape
    <2>3. program'.step = "idle" /\ program'.settings = program.settings
      BY <2>1 DEF ConfigShape
    <2>4. /\ FileOk(program.settings)
          /\ SettingsOf(program.settings) = Meant(program.settings)
      BY SavedIsLoaded DEF ConfigShape
    <2>5. ConfigShape'
      BY <2>1, <2>3, <2>4 DEF ConfigShape
    <2>6. disk.credentials.secret \in secrets
      BY <2>1, <2>2 DEF CredentialsOk, SaveOk
    <2>7. QED
      BY <2>1, <2>2, <2>3, <2>4, <2>5, <2>6
         DEF ExpectedShape, CredentialsOk, SaveOk, Saving, SettingsAreOldOrNew
  <1>12. CASE Fail
    <2>1. /\ program' = [program EXCEPT !.step = "idle"] /\ UNCHANGED <<disk, expected, count>>
      BY <1>12 DEF Fail
    <2>2. ConfigShape' /\ program'.step = "idle"
      BY <2>1 DEF ConfigShape
    <2>3. QED
      BY <2>1, <2>2 DEF ExpectedShape, CredentialsOk, SaveOk, Saving, SettingsAreOldOrNew
  <1>13. CASE ProgramDies
    <2>1. /\ program' = [step |-> "down", settings |-> Defaults, secret |-> NoSecret]
          /\ UNCHANGED <<disk, expected, count>>
      BY <1>13 DEF ProgramDies
    <2>2. SettingsOk(Defaults)
      BY DEF SettingsOk, Defaults
    <2>3. QED
      BY <2>1, <2>2
         DEF ConfigShape, ExpectedShape, CredentialsOk, SaveOk, Saving, SettingsAreOldOrNew
  <1>14. CASE UNCHANGED configVars
    BY <1>14 DEF configVars, ConfigShape, ExpectedShape, CredentialsOk, SaveOk,
       SettingsAreOldOrNew
  <1>15. QED
    BY <1>1, <1>2, <1>3, <1>4, <1>5, <1>6, <1>7, <1>8, <1>9, <1>10, <1>11, <1>12, <1>13, <1>14
       DEF ConfigNext

(* Whatever step a save is cut short at, by a crash or an error of the disk, *)
(* a load that can read the configuration file finds the settings of the     *)
(* last save that succeeded or of one begun since, for any stored file and   *)
(* any edits; the credentials it finds are such as well, or those the last   *)
(* save failed to remove, or none because their key was written over after a *)
(* failed reading (save_config, _save_credentials, _credential_key,          *)
(* load_config).                                                             *)
THEOREM Restarts == ConfigSpec => []RestartFindsOldOrNew
  <1>1. ConfigInit => ConfigInv
    BY ConfigBegins
  <1>2. ConfigInv /\ [ConfigNext]_configVars => ConfigInv'
    BY StepConfig
  <1>3. ConfigInv => RestartFindsOldOrNew
    BY SecretIsExpected DEF ConfigInv, RestartFindsOldOrNew
  <1>4. QED
    BY <1>1, <1>2, <1>3, PTL DEF ConfigSpec
=============================================================================
