----------------------------- MODULE SimExchange -----------------------------
(***************************************************************************)
(* The matching engine of trading/exchange_simulator.py, the exchange the  *)
(* bot trades on in paper mode.  Everything it does to orders and balances *)
(* is done under one lock; the engine's two loops are modelled turn by     *)
(* turn, with busy standing for the lock, because balances and order books *)
(* are also read without it.                                               *)
(*                                                                         *)
(* A symbol is its base asset; all are quoted in one asset.  The top of an *)
(* order book follows from the mid price, which is all of a book that the  *)
(* engine looks at.  Candles, tickers and timestamps are left out.         *)
(***************************************************************************)
EXTENDS Integers, Sequences, FiniteSets

CONSTANTS Bases, Quote,   \* the base asset of each symbol, and the quote asset
          FeePct,         \* fee_rate, in percent
          Deposit,        \* initial_balances
          Mids,           \* mid prices the random walk may produce
          HalfSpread,     \* half of the spread around the mid price
          Quantities, LimitPrices,   \* what orders may ask for
          MaxOrders,      \* bound: orders placed
          NoOrder, None

Assets == Bases \cup {Quote}
Ids    == 1..MaxOrders

ASSUME SimAssumption ==
  /\ Quote \notin Bases
  /\ FeePct \in 0..100
  /\ Deposit \in [Assets -> Nat]
  /\ MaxOrders \in Nat
  /\ Quantities \subseteq Nat \ {0} /\ LimitPrices \subseteq Nat \ {0}
  /\ HalfSpread \in Nat
  /\ \A m \in Mids : m \in Nat /\ m > HalfSpread
  /\ None \notin Mids
  /\ NoOrder \notin [base : Bases, side : {"buy", "sell"},
                     type : {"market", "limit"}, qty : Quantities,
                     price : LimitPrices \cup {None},
                     status : {"open", "filled", "canceled"}, exec : Nat]

VARIABLES mid,       \* mid[b]: price of symbol b, None if not known yet
          balances,
          order,     \* order[i]: the record of order i, or NoOrder
          orders,    \* self.orders: ids the engine still looks at
          history,   \* self.order_history
          nextId,    \* self.next_order_id
          busy,      \* _match_orders is running
          queue,     \* orders it has still to look at
          settled    \* to_remove

engine == <<busy, queue, settled>>
vars   == <<mid, balances, order, orders, history, nextId, engine>>

Order == [base : Bases, side : {"buy", "sell"}, type : {"market", "limit"},
          qty : Quantities, price : LimitPrices \cup {None},
          status : {"open", "filled", "canceled"}, exec : Nat]

\* Types: no balance is ever negative, and the engine only queues and settles
\* orders that are in its book (_settle_buy, _settle_sell, _match_orders).
TypeOK ==
  /\ mid \in [Bases -> Mids \cup {None}]
  /\ balances \in [Assets -> Nat]
  /\ order \in [Ids -> Order \cup {NoOrder}]
  /\ orders \subseteq Ids /\ queue \subseteq orders /\ settled \subseteq orders
  /\ history \in Seq(Ids)
  /\ nextId \in 1..(MaxOrders + 1)
  /\ busy \in BOOLEAN

Init ==
  /\ mid \in [Bases -> Mids \cup {None}]
  /\ balances = Deposit
  /\ order = [i \in Ids |-> NoOrder]
  /\ orders = {} /\ history = <<>> /\ nextId = 1
  /\ busy = FALSE /\ queue = {} /\ settled = {}

-----------------------------------------------------------------------------
(***************************************************************************)
(* _settle_buy and _settle_sell: the order is filled at price p with the   *)
(* balances it needs, or canceled.                                         *)
(***************************************************************************)
Worth(o, p) == o.qty * p
Fee(o, p)   == (Worth(o, p) * FeePct) \div 100

Funded(o, p) ==
  IF o.side = "buy" THEN balances[Quote] >= Worth(o, p) + Fee(o, p)
                    ELSE balances[o.base] >= o.qty

\* Mutant: a sale is paid without the fee.
AfterFill_FreeSale(o, p) ==
  IF o.side = "buy"
  THEN [balances EXCEPT ![Quote]  = @ - (Worth(o, p) + Fee(o, p)),
                        ![o.base] = @ + o.qty]
  ELSE [balances EXCEPT ![o.base] = @ - o.qty, ![Quote]  = @ + Worth(o, p)]

AfterFill(o, p) ==
  IF o.side = "buy"
  THEN [balances EXCEPT ![Quote]  = @ - (Worth(o, p) + Fee(o, p)),
                        ![o.base] = @ + o.qty]
  ELSE [balances EXCEPT ![o.base] = @ - o.qty,
                        ![Quote]  = @ + (Worth(o, p) - Fee(o, p))]

Ended(o, status, p) ==
  [base |-> o.base, side |-> o.side, type |-> o.type, qty |-> o.qty,
   price |-> o.price, status |-> status, exec |-> p]

Settle(i, o, p) ==
  IF Funded(o, p)
  THEN /\ balances' = AfterFill(o, p)
       /\ order' = [order EXCEPT ![i] = Ended(o, "filled", p)]
  ELSE /\ order' = [order EXCEPT ![i] = Ended(o, "canceled", 0)]
       /\ UNCHANGED balances

\* The price a taker pays or gets: the best ask or the best bid.
Best(side, m) == IF side = "buy" THEN m + HalfSpread ELSE m - HalfSpread

\* Mutant: the limit of a sale is read like that of a purchase.
Marketable_OneSided(o) == o.price >= Best(o.side, mid[o.base])

Marketable(o) ==
  LET p == Best(o.side, mid[o.base])
  IN IF o.side = "buy" THEN o.price >= p ELSE o.price <= p

-----------------------------------------------------------------------------
(***************************************************************************)
(* place_order.  resolve_symbol adds an unknown symbol at a random price,  *)
(* also for an order that is then refused with ValueError.                 *)
(***************************************************************************)
Resolved(b, m) ==
  /\ m \in IF mid[b] = None THEN Mids ELSE {mid[b]}
  /\ mid' = [mid EXCEPT ![b] = m]

AddSymbol(b) ==
  /\ ~busy
  /\ mid[b] = None
  /\ \E m \in Mids : Resolved(b, m)
  /\ UNCHANGED <<balances, order, orders, history, nextId, engine>>

NewOrder(b, side, type, q, price) ==
  [base |-> b, side |-> side, type |-> type, qty |-> q, price |-> price,
   status |-> "open", exec |-> 0]

PlaceMarket(b, side, q) ==
  /\ ~busy
  /\ nextId <= MaxOrders
  /\ \E m \in Mids :
       /\ Resolved(b, m)
       /\ Settle(nextId, NewOrder(b, side, "market", q, None), Best(side, m))
  /\ history' = Append(history, nextId)
  /\ nextId' = nextId + 1
  /\ UNCHANGED <<orders, engine>>

\* A limit order joins the book, and the engine runs over all of it.
PlaceLimit(b, side, q, price) ==
  /\ ~busy
  /\ nextId <= MaxOrders
  /\ \E m \in Mids : Resolved(b, m)
  /\ order' = [order EXCEPT ![nextId] = NewOrder(b, side, "limit", q, price)]
  /\ orders' = orders \cup {nextId}
  /\ nextId' = nextId + 1
  /\ busy' = TRUE /\ queue' = orders'
  /\ UNCHANGED <<balances, history, settled>>

\* cancel_order; an id that is not in self.orders is "not found".
CancelOrder(i) ==
  /\ ~busy
  /\ i \in orders
  /\ order' = [order EXCEPT ![i].status = "canceled"]
  /\ orders' = orders \ {i}
  /\ history' = Append(history, i)
  /\ UNCHANGED <<mid, balances, nextId, engine>>

\* Mutant: prices move and the engine does not run.
UpdatePrices_Unmatched ==
  /\ ~busy
  /\ mid' \in [Bases -> Mids \cup {None}]
  /\ \A b \in Bases : mid'[b] = None <=> mid[b] = None
  /\ UNCHANGED <<balances, order, orders, history, nextId, engine>>

\* update_prices and force_update_prices: any of the known symbols move.
UpdatePrices ==
  /\ ~busy
  /\ mid' \in [Bases -> Mids \cup {None}]
  /\ \A b \in Bases : mid'[b] = None <=> mid[b] = None
  /\ busy' = TRUE /\ queue' = orders
  /\ UNCHANGED <<balances, order, orders, history, nextId, settled>>

-----------------------------------------------------------------------------
(***************************************************************************)
(* _match_orders: the orders are looked at in the order they were placed,  *)
(* then those that were settled are moved to the history.                  *)
(***************************************************************************)
IsFirst(i, S) == i \in S /\ \A j \in S : i <= j

MatchNext(i) ==
  LET o == order[i]
  IN /\ busy
     /\ IsFirst(i, queue)
     /\ queue' = queue \ {i}
     /\ IF o.status = "open" /\ o.type = "limit" /\ Marketable(o)
        THEN /\ Settle(i, o, Best(o.side, mid[o.base]))
             /\ settled' = settled \cup {i}
        ELSE UNCHANGED <<balances, order, settled>>
     /\ UNCHANGED <<mid, orders, history, nextId, busy>>

MatchRemove(i) ==
  /\ busy
  /\ queue = {} /\ IsFirst(i, settled)
  /\ orders' = orders \ {i}
  /\ history' = Append(history, i)
  /\ settled' = settled \ {i}
  /\ UNCHANGED <<mid, balances, order, nextId, busy, queue>>

MatchEnd ==
  /\ busy
  /\ queue = {} /\ settled = {}
  /\ busy' = FALSE
  /\ UNCHANGED <<mid, balances, order, orders, history, nextId, queue, settled>>

-----------------------------------------------------------------------------
Next ==
  \/ UpdatePrices \/ MatchEnd
  \/ \E b \in Bases :
       \/ AddSymbol(b)
       \/ \E side \in {"buy", "sell"}, q \in Quantities :
            \/ PlaceMarket(b, side, q)
            \/ \E price \in LimitPrices : PlaceLimit(b, side, q, price)
  \/ \E i \in Ids : CancelOrder(i) \/ MatchNext(i) \/ MatchRemove(i)

Spec == Init /\ [][Next]_vars

-----------------------------------------------------------------------------
(***************************************************************************)
(* Properties.                                                             *)
(***************************************************************************)
Filled == {i \in Ids : order[i] # NoOrder /\ order[i].status = "filled"}

InHistory == {history[k] : k \in 1..Len(history)}

\* When the engine rests no order in the book could be executed at the top of
\* its order book: neither a new order, a price update nor a new symbol leaves
\* a crossed order behind.
NoCrossedOrder ==
  ~busy => \A i \in orders : order[i].status = "open" /\ ~Marketable(order[i])

\* Every order issued is found by get_order_status in exactly one place, the
\* book or the history, and enters the history once and finished.
OneRecord ==
  /\ orders \cap InHistory = {}
  /\ orders \cup InHistory = {i \in Ids : order[i] # NoOrder}
  /\ Cardinality(InHistory) = Len(history)
  /\ \A i \in InHistory : order[i].status # "open"

\* What a filled order moved of asset a, the fee included.
Moved(o, a) ==
  LET sign == IF o.side = "buy" THEN 1 ELSE -1
  IN IF a = o.base THEN sign * o.qty
     ELSE IF a = Quote THEN -(sign * Worth(o, o.exec)) - Fee(o, o.exec)
     ELSE 0

Movements(a) == [i \in Ids |-> IF i \in Filled THEN Moved(order[i], a) ELSE 0]

\* The last line of a statement that begins with start and lists the movements.
Statement(start, movement) ==
  LET total[n \in 0..MaxOrders] ==
        IF n = 0 THEN start ELSE total[n - 1] + movement[n]
  IN total[MaxOrders]

\* Money is conserved: the balances are the deposit and what the filled orders
\* on record have moved, fees included, at any point inside the engine's loop.
LedgerBalances ==
  \A a \in Assets : balances[a] = Statement(Deposit[a], Movements(a))

\* The records explain the account: no order is lost, counted twice or moved
\* money without a record of it.
RecordsBalance == OneRecord /\ LedgerBalances

\* The engine implements the promise of an exchange.
Exchange == INSTANCE Settlement WITH bal <- balances

ImplementsSettlement == Exchange!Spec
=============================================================================
