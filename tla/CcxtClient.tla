----------------------------- MODULE CcxtClient -----------------------------
(***************************************************************************)
(* The CCXT exchange adapter (trading/exchange_ccxt.py): how it resolves a *)
(* symbol, how its calls are retried, and which of them are tried again in *)
(* another form after the retries.  The exchange is modelled as what the   *)
(* adapter sees of it: its markets and its orders, and a call may be       *)
(* carried out and its answer lost.  The caller is one thread (the trader  *)
(* calls its exchange under a lock).                                       *)
(***************************************************************************)
EXTENDS Integers, Sequences, FiniteSets

CONSTANTS
    ExchangeMarkets, \* the exchange's markets in their order: [symbol, base, quote, settle, bare]
    CallerSymbols,  \* what callers pass: [text, parts, stems, bare, meant]
    Own,            \* text -> the place of the market ccxt's own resolver finds, or 0
    QuoteCurrency,
    Futures,
    PriceRequired,  \* createMarketBuyOrderRequiresPrice
    MaxOrders,      \* bound: orders the exchange holds
    MaxOperations   \* bound: operations the caller starts

CallAttempts == 3
NoMarket == 0

VARIABLES
    client,         \* the adapter: its markets and the operation under way
    orders,         \* the exchange's orders: a sequence of [market, status, by, meant]
    caller          \* what the caller was told: orders returned, orders cancelled, the last result

ccxtVars == <<client, orders, caller>>

-----------------------------------------------------------------------------
(* resolve_symbol: the symbol itself, ccxt's own resolver, the base and the *)
(* quote it reads out of the text, and last the text without separators.    *)

Earliest(places) == IF places = {} THEN NoMarket ELSE CHOOSE i \in places : \A j \in places : i <= j

CandidateQuotes == <<QuoteCurrency, "USDT", "USDC", "USD", "BTC", "ETH">>

\* A text with a slash names base and quote; otherwise the first candidate quote it ends
\* with is cut off (stems[q] is what is left), and a text with no such end is a base.
Parsed(symbol) ==
    IF symbol.parts # <<>>
    THEN [base |-> symbol.parts[1], quote |-> symbol.parts[2]]
    ELSE LET cuts == {i \in DOMAIN CandidateQuotes : CandidateQuotes[i] \in DOMAIN symbol.stems}
         IN  IF cuts = {} THEN [base |-> symbol.text, quote |-> QuoteCurrency]
             ELSE LET quote == CandidateQuotes[Earliest(cuts)]
                  IN  [base |-> symbol.stems[quote], quote |-> quote]

\* A futures client also wants a settlement currency that is the quote, or none at all.
Fits(market, pair) ==
    /\ market.base = pair.base
    /\ market.quote = pair.quote
    /\ Futures => market.settle \in {"", pair.quote}

FirstFound(steps) ==
    LET found == {i \in DOMAIN steps : steps[i] # NoMarket}
    IN  IF found = {} THEN NoMarket ELSE steps[Earliest(found)]

Resolved(symbol) ==
    FirstFound(<<
        Earliest({i \in DOMAIN ExchangeMarkets : ExchangeMarkets[i].symbol = symbol.text}),
        Own[symbol.text],
        Earliest({i \in DOMAIN ExchangeMarkets : Fits(ExchangeMarkets[i], Parsed(symbol))}),
        Earliest({i \in DOMAIN ExchangeMarkets : ExchangeMarkets[i].bare = symbol.bare})>>)

\* A symbol's ways to name a market, in resolve_symbol's order.
Names(symbol, i) ==
    \/ ExchangeMarkets[i].symbol = symbol.text
    \/ i = Own[symbol.text]
    \/ Fits(ExchangeMarkets[i], Parsed(symbol))
    \/ ExchangeMarkets[i].bare = symbol.bare

\* What callers pass is unambiguous: the markets a symbol names, in whichever way, are all of
\* the pair its caller means.  The texts of the configuration are: a coin, or a coin and a quote.
ASSUME CcxtAssumption ==
    /\ DOMAIN ExchangeMarkets = 1..Len(ExchangeMarkets) /\ Len(ExchangeMarkets) \in Nat
    /\ \A symbol \in CallerSymbols :
          /\ Own[symbol.text] \in {NoMarket} \cup (1..Len(ExchangeMarkets))
          /\ \A i \in 1..Len(ExchangeMarkets) :
                Names(symbol, i) =>
                    symbol.meant = <<ExchangeMarkets[i].base, ExchangeMarkets[i].quote>>

-----------------------------------------------------------------------------
(* The operations.  A call is tried CallAttempts times, except after a fatal  *)
(* error; then, in the operations that have another form of the call, that  *)
(* form is tried in the same way, after a fatal error too.                  *)

\* Mistaken: an order is tried in another form as well, as the other calls are.
Forms_PlaceToo(op) == IF op = "openOrders" THEN 3 ELSE 2

Forms(op) == IF op \in {"place", "ticker"} THEN 1 ELSE IF op = "openOrders" THEN 3 ELSE 2

\* Mistaken: a cancel that failed is answered as the history is, with an empty reply.
Swallows_Cancel(op) == op \in {"history", "cancel"}

\* get_order_history answers an empty list when every form has failed.
Swallows(op) == op = "history"

\* The reads that need a market; the lists pass the caller's text on when there is none.
NeedsMarket(op) == op \in {"place", "cancel", "status"}
Reads == {"status", "balances", "history", "openOrders"}
            \cup (IF Futures THEN {"positions"} ELSE {})

NoCall == [op |-> "none", form |-> 0, attempt |-> 0, market |-> NoMarket, id |-> 0, meant |-> <<>>]

CcxtInit ==
    /\ client = [state |-> "loading", markets |-> FALSE, attempt |-> 1, call |-> NoCall]
    /\ orders = <<>>
    /\ caller = [known |-> {}, cancelled |-> {}, started |-> 0, result |-> "none"]

(* The constructor: load_markets is tried three times, a time that cannot   *)
(* be synchronised is put off.  The exchange may list no market at all.     *)
LoadMarkets ==
    /\ client.state = "loading"
    /\ \/ \E some \in BOOLEAN :
             client' = [client EXCEPT !.state = "ready", !.markets = some]
       \/ /\ client.attempt < CallAttempts
          /\ client' = [client EXCEPT !.attempt = @ + 1]
       \/ /\ client.attempt = CallAttempts
          /\ client' = [client EXCEPT !.state = "failed"]
    /\ UNCHANGED <<orders, caller>>

Ready == client.state = "ready" /\ client.call = NoCall /\ caller.started < MaxOperations

\* resolve_symbol loads markets it does not have; that may fail, or find none again.
MarketsAfterResolve == IF client.markets THEN {TRUE} ELSE BOOLEAN

Refuse ==
    /\ caller' = [caller EXCEPT !.started = @ + 1, !.result = "error"]
    /\ UNCHANGED orders

CallOf(op, market, id, meant) ==
    [op |-> op, form |-> 1, attempt |-> 1, market |-> market, id |-> id, meant |-> meant]

\* A market buy without a price fetches the ticker first where the exchange wants a price.
FirstCall(marketBuy) == IF marketBuy /\ PriceRequired THEN "ticker" ELSE "place"

(* place_order of a symbol.                                                 *)
Place(symbol, marketBuy) ==
    /\ Ready
    /\ Len(orders) + CallAttempts <= MaxOrders
    /\ \E loaded \in MarketsAfterResolve :
          IF loaded /\ Resolved(symbol) # NoMarket
          THEN /\ client' = [client EXCEPT
                     !.markets = TRUE,
                     !.call = CallOf(FirstCall(marketBuy), Resolved(symbol), 0, symbol.meant)]
               /\ caller' = [caller EXCEPT !.started = @ + 1]
               /\ UNCHANGED orders
          ELSE client' = [client EXCEPT !.markets = loaded] /\ Refuse

(* cancel_order of an order the caller knows.                               *)
Cancel(id) ==
    /\ Ready
    /\ id \in caller.known
    /\ client' = [client EXCEPT !.call = CallOf("cancel", orders[id].market, id, <<>>)]
    /\ caller' = [caller EXCEPT !.started = @ + 1]
    /\ UNCHANGED orders

(* The reads.                                                               *)
Read(op) ==
    /\ Ready
    /\ op \in Reads
    /\ \E loaded \in MarketsAfterResolve :
          IF loaded \/ ~NeedsMarket(op)
          THEN /\ client' = [client EXCEPT !.markets = loaded,
                                           !.call = CallOf(op, NoMarket, 0, <<>>)]
               /\ caller' = [caller EXCEPT !.started = @ + 1]
               /\ UNCHANGED orders
          ELSE client' = [client EXCEPT !.markets = loaded] /\ Refuse

-----------------------------------------------------------------------------
(* One attempt.  The exchange carries the call out or not, and the answer   *)
(* arrives or not; a cancel of an order that is not open is refused (ccxt's *)
(* OrderNotFound is an InvalidOrder, one of the FATAL_ERRORS).              *)

call == client.call
Sending == client.state = "ready" /\ call.op # "none"

Carried ==
    IF call.op = "place"
    THEN Append(orders, [market |-> call.market, status |-> "open",
                         by |-> caller.started, meant |-> call.meant])
    ELSE IF call.op = "cancel" THEN [orders EXCEPT ![call.id].status = "cancelled"]
    ELSE orders

Refusable == call.op = "cancel" /\ orders[call.id].status # "open"

\* cancel_order says so of every cancel that did not raise, whatever the reply.
Return(result) ==
    /\ client' = [client EXCEPT !.call = NoCall]
    /\ caller' = [caller EXCEPT
          !.known = IF call.op = "place" /\ result = "done" THEN @ \cup {Len(orders')} ELSE @,
          !.cancelled = IF call.op = "cancel" /\ result # "error" THEN @ \cup {call.id} ELSE @,
          !.result = result]

Continue(next) == client' = [client EXCEPT !.call = next] /\ UNCHANGED caller

\* The call has failed in this form: the next form, the empty answer, or the error.
GiveUpForm ==
    IF call.form < Forms(call.op)
    THEN Continue([call EXCEPT !.form = @ + 1, !.attempt = 1])
    ELSE Return(IF Swallows(call.op) THEN "empty" ELSE "error")

Unanswered ==
    IF call.attempt < CallAttempts THEN Continue([call EXCEPT !.attempt = @ + 1]) ELSE GiveUpForm

\* The ticker gives a price and the order is sent; with neither ask, last nor close it is not.
TickerAnswered ==
    \/ Continue(CallOf("place", call.market, 0, call.meant))
    \/ Return("error")

Answered ==
    /\ Sending /\ ~Refusable
    /\ orders' = Carried
    /\ IF call.op = "ticker" THEN TickerAnswered ELSE Return("done")

Lost == Sending /\ ~Refusable /\ orders' = Carried /\ Unanswered

NotCarried == Sending /\ Unanswered /\ UNCHANGED orders

Fatal == Sending /\ GiveUpForm /\ UNCHANGED orders

(* The exchange fills an open order.                                        *)
Fill(id) ==
    /\ orders[id].status = "open"
    /\ orders' = [orders EXCEPT ![id].status = "filled"]
    /\ UNCHANGED <<client, caller>>

CcxtNext ==
    \/ LoadMarkets
    \/ \E symbol \in CallerSymbols, marketBuy \in BOOLEAN : Place(symbol, marketBuy)
    \/ \E id \in DOMAIN orders : Cancel(id) \/ Fill(id)
    \/ \E op \in Reads : Read(op)
    \/ Answered \/ Lost \/ NotCarried \/ Fatal

CcxtSpec == CcxtInit /\ [][CcxtNext]_ccxtVars

-----------------------------------------------------------------------------
(* An order the caller was told is cancelled is not open, though the cancel *)
(* was sent up to six times, some of them carried out unanswered, while the *)
(* exchange went on filling orders (cancel_order answers "canceled" without *)
(* reading the reply).                                                      *)
CancelledIsNotOpen == \A id \in caller.cancelled : orders[id].status # "open"

(* A placement leaves at most one order per attempt on the exchange.  It    *)
(* can leave that many: an order whose answer was lost is sent again        *)
(* (_call around create_order, with no client order id).                    *)
OrdersPerPlacement ==
    \A n \in 1..caller.started : Cardinality({id \in DOMAIN orders : orders[id].by = n}) <= CallAttempts

(* An order is on a market of the base and the quote its caller named, by   *)
(* whichever of its four steps resolve_symbol found the market.             *)
OrdersOnTheMeantMarket ==
    \A id \in DOMAIN orders :
        LET market == ExchangeMarkets[orders[id].market]
        IN  orders[id].meant = <<market.base, market.quote>>
=============================================================================
