------------------------- MODULE SimExchangeProofs -------------------------
(***************************************************************************)
(* SimExchange implements Settlement, for every set of symbols, every      *)
(* deposit, fee and spread, and any number of orders.  The refinement      *)
(* needs the invariant IInv, which says which orders the engine may still  *)
(* settle; NoCrossedOrder follows from it too.                             *)
(***************************************************************************)
EXTENDS SimExchange, FiniteSetTheorems, WellFoundedInduction, TLAPS

\* An id has a record exactly if it has been issued.
IssuedIds == \A i \in Ids : order[i] = NoOrder <=> i >= nextId

\* What is in the book has been issued as a limit order on a known symbol, and
\* is open unless the running engine has just settled it.
BookOrders ==
  \A i \in orders :
    /\ order[i] # NoOrder
    /\ order[i].type = "limit"
    /\ order[i].price \in LimitPrices
    /\ mid[order[i].base] # None
    /\ order[i].status = "open" <=> i \notin settled

\* The engine has settled every crossed order it has looked at.
EngineState ==
  /\ ~busy => queue = {} /\ settled = {}
  /\ queue \cap settled = {}
  /\ \A i \in orders \ (queue \cup settled) : ~Marketable(order[i])

IInv == TypeOK /\ IssuedIds /\ BookOrders /\ EngineState

-----------------------------------------------------------------------------
\* The fee on a sale never exceeds its worth, and no fee is negative.
LEMMA FeeBounds ==
  ASSUME NEW o \in Order, NEW p \in Nat
  PROVE  /\ Worth(o, p) \in Nat
         /\ Fee(o, p) \in Nat
         /\ Fee(o, p) <= Worth(o, p)
  <1> DEFINE w == o.qty * p
  <1>1. o.qty \in Nat
    BY SimAssumption DEF Order
  <1>2. w \in Nat
    BY <1>1
  <1> HIDE DEF w
  <1>3. FeePct \in Nat /\ FeePct <= 100
    BY SimAssumption
  <1>4. w * FeePct \in Nat /\ w * FeePct <= w * 100
    BY <1>2, <1>3
  <1>5. (w * FeePct) \div 100 \in Nat /\ (w * FeePct) \div 100 <= w
    <2> DEFINE n == w * FeePct
    <2>1. n \in Nat /\ n <= w * 100
      BY <1>4
    <2> HIDE DEF n
    <2>2. n \div 100 \in Nat /\ n \div 100 <= w
      BY <1>2, <2>1
    <2>3. QED
      BY <2>2 DEF n
  <1>6. QED
    BY <1>2, <1>5 DEF Worth, Fee, w

\* Best prices of a known symbol are natural numbers.
LEMMA BestIsNat ==
  ASSUME NEW m \in Mids, NEW side \in {"buy", "sell"}
  PROVE  Best(side, m) \in Nat
  BY SimAssumption DEF Best

(***************************************************************************)
(* Settling an order that is new, or open and unchanged, at a price its    *)
(* limit accepts keeps the balances natural numbers, and is a Fill or a    *)
(* Cancel of the abstract exchange.                                        *)
(***************************************************************************)
LEMMA SettleTyped ==
  ASSUME TypeOK, NEW i \in Ids, NEW o \in Order, NEW p \in Nat, Settle(i, o, p)
  PROVE  /\ balances' \in [Assets -> Nat]
         /\ order' \in [Ids -> Order \cup {NoOrder}]
         /\ order' = [order EXCEPT ![i] = order'[i]]
         /\ order'[i] \in Order
         /\ order'[i].status # "open"
         /\ Exchange!SameRequest(o, order'[i])
  <1> USE DEF TypeOK
  <1>1. CASE Funded(o, p)
    <2>1. order' = [order EXCEPT ![i] = Ended(o, "filled", p)]
      BY <1>1 DEF Settle
    <2>2. balances' = AfterFill(o, p)
      BY <1>1 DEF Settle
    <2>3. Worth(o, p) \in Nat /\ Fee(o, p) \in Nat /\ Fee(o, p) <= Worth(o, p)
      BY FeeBounds
    <2>4. o.base \in Assets /\ Quote \in Assets /\ o.base # Quote /\ o.qty \in Nat
      BY SimAssumption DEF Order, Assets
    <2>5. AfterFill(o, p) \in [Assets -> Nat]
      <3> DEFINE w == Worth(o, p)
                 f == Fee(o, p)
      <3>1. w \in Nat /\ f \in Nat /\ f <= w
        BY <2>3
      <3> HIDE DEF w, f
      <3>2. CASE o.side = "buy"
        <4>1. balances[Quote] - (w + f) \in Nat /\ balances[o.base] + o.qty \in Nat
          BY <1>1, <2>4, <3>1, <3>2 DEF Funded, w, f
        <4>2. AfterFill(o, p) = [balances EXCEPT ![Quote]  = @ - (w + f),
                                                 ![o.base] = @ + o.qty]
          BY <3>2 DEF AfterFill, w, f
        <4>3. QED
          BY <2>4, <4>1, <4>2
      <3>3. CASE o.side # "buy"
        <4>1. balances[o.base] - o.qty \in Nat /\ balances[Quote] + (w - f) \in Nat
          BY <1>1, <2>4, <3>1, <3>3 DEF Funded
        <4>2. AfterFill(o, p) = [balances EXCEPT ![o.base] = @ - o.qty,
                                                 ![Quote]  = @ + (w - f)]
          BY <3>3 DEF AfterFill, w, f
        <4>3. QED
          BY <2>4, <4>1, <4>2
      <3>4. QED
        BY <3>2, <3>3
    <2>6. QED
      BY <2>1, <2>2, <2>5 DEF Order, Ended, Exchange!SameRequest
  <1>2. CASE ~Funded(o, p)
    BY <1>2 DEF Settle, Order, Ended, Exchange!SameRequest
  <1>3. QED
    BY <1>1, <1>2

LEMMA SettleImplements ==
  ASSUME TypeOK, NEW i \in Ids, NEW o \in Order, NEW p \in Nat, Settle(i, o, p),
         order[i] = NoOrder \/ order[i] = o,
         o.status = "open",
         o.type = "limit" => IF o.side = "buy" THEN p <= o.price ELSE p >= o.price
  PROVE  Exchange!Fill(i) \/ Exchange!Cancel(i)
  <1>1. Exchange!Touches(i)
    <2>1. order'[i] # NoOrder
      BY SettleTyped, SimAssumption DEF Order
    <2>2. QED
      BY <2>1, SettleTyped DEF Exchange!Touches
  <1>2. CASE Funded(o, p)
    <2>1. order'[i] = Ended(o, "filled", p)
      BY <1>2 DEF Settle, TypeOK
    <2>2. /\ order'[i].status = "filled" /\ order'[i].exec = p
          /\ order'[i].base = o.base /\ order'[i].side = o.side
          /\ order'[i].type = o.type /\ order'[i].qty = o.qty
          /\ order'[i].price = o.price
      BY <2>1 DEF Ended
    <2>3. Exchange!Acceptable(order'[i])
      BY <2>2 DEF Exchange!Acceptable
    <2>4. balances' = AfterFill(o, p)
      BY <1>2 DEF Settle
    <2>5. ASSUME NEW a \in Assets
          PROVE  AfterFill(o, p)[a] = balances[a] + Exchange!Flow(order'[i], a)
      <3>1. Worth(o, p) \in Nat /\ Fee(o, p) \in Nat
        BY FeeBounds
      <3>2. /\ o.base \in Assets /\ Quote \in Assets /\ o.base # Quote
            /\ o.qty \in Nat /\ o.side \in {"buy", "sell"}
        BY SimAssumption DEF Order, Assets
      <3>3. Exchange!Flow(order'[i], a) =
              LET sign == IF o.side = "buy" THEN 1 ELSE -1
              IN IF a = o.base THEN sign * o.qty
                 ELSE IF a = Quote THEN -(sign * Worth(o, p)) - Fee(o, p) ELSE 0
        BY <2>2 DEF Exchange!Flow, Worth, Fee
      <3>4. QED
        BY <3>1, <3>2, <3>3 DEF AfterFill, TypeOK
    <2>6. balances' = [a \in Assets |-> balances[a] + Exchange!Flow(order'[i], a)]
      BY <2>4, <2>5, SettleTyped
    <2>7. \A a \in Assets : balances'[a] >= 0
      BY SettleTyped
    <2>8. QED
      BY <1>1, <2>2, <2>3, <2>6, <2>7 DEF Exchange!Fill, Exchange!Assets, Assets
  <1>3. CASE ~Funded(o, p)
    <2>1. order'[i].status = "canceled" /\ UNCHANGED balances
      BY <1>3 DEF Settle, TypeOK, Ended
    <2>2. QED
      BY <1>1, <2>1 DEF Exchange!Cancel
  <1>4. QED
    BY <1>2, <1>3

-----------------------------------------------------------------------------
LEMMA InitIInv == Init => IInv
  <1> SUFFICES ASSUME Init PROVE IInv
    OBVIOUS
  <1> USE DEF Init
  <1>1. TypeOK
    <2>1. /\ balances \in [Assets -> Nat]
          /\ nextId \in 1..(MaxOrders + 1)
      BY SimAssumption
    <2>2. /\ order \in [Ids -> Order \cup {NoOrder}]
          /\ history \in Seq(Ids)
      OBVIOUS
    <2>3. QED
      BY <2>1, <2>2 DEF TypeOK
  <1>2. IssuedIds /\ BookOrders /\ EngineState
    BY SimAssumption DEF IssuedIds, BookOrders, EngineState, Ids
  <1>3. QED
    BY <1>1, <1>2 DEF IInv

\* Prices of known symbols are in Mids, before and after an order names one.
LEMMA ResolvedMid ==
  ASSUME TypeOK, NEW b \in Bases, NEW m \in Mids, Resolved(b, m)
  PROVE  /\ mid' \in [Bases -> Mids \cup {None}]
         /\ mid'[b] = m /\ mid'[b] # None
         /\ \A c \in Bases : mid[c] # None => mid'[c] = mid[c]
  BY SimAssumption DEF TypeOK, Resolved

\* A step of the simulator keeps the invariant.
LEMMA StepIInv == IInv /\ [Next]_vars => IInv'
  <1> SUFFICES ASSUME IInv, [Next]_vars PROVE IInv'
    OBVIOUS
  <1> USE DEF IInv
  <1>1. CASE UpdatePrices
    <2> USE <1>1 DEF UpdatePrices
    <2>1. TypeOK'
      BY DEF TypeOK
    <2>2. IssuedIds'
      BY DEF IssuedIds
    <2>3. BookOrders'
      BY DEF BookOrders, TypeOK, Order, EngineState
    <2>4. EngineState'
      BY DEF EngineState
    <2>5. QED
      BY <2>1, <2>2, <2>3, <2>4
  <1>2. CASE MatchEnd
    <2> USE <1>2 DEF MatchEnd
    <2>1. TypeOK' /\ IssuedIds' /\ BookOrders'
      BY DEF TypeOK, IssuedIds, BookOrders
    <2>2. EngineState'
      BY DEF EngineState, Marketable
    <2>3. QED
      BY <2>1, <2>2
  <1>3. ASSUME NEW b \in Bases, AddSymbol(b) PROVE IInv'
    <2> USE <1>3 DEF AddSymbol, engine
    <2>1. TypeOK'
      BY ResolvedMid DEF TypeOK
    <2>2. \A c \in Bases : mid[c] # None => mid'[c] = mid[c]
      BY ResolvedMid
    <2>3. IssuedIds' /\ BookOrders'
      BY <2>2 DEF IssuedIds, BookOrders, TypeOK, Order
    <2>4. EngineState'
      BY <2>2 DEF EngineState, Marketable, BookOrders, TypeOK, Order
    <2>5. QED
      BY <2>1, <2>3, <2>4
  <1>4. ASSUME NEW b \in Bases, NEW side \in {"buy", "sell"}, NEW q \in Quantities,
               PlaceMarket(b, side, q)
        PROVE  IInv'
    <2> DEFINE o == NewOrder(b, side, "market", q, None)
    <2>1. PICK m \in Mids : Resolved(b, m) /\ Settle(nextId, o, Best(side, m))
      BY <1>4 DEF PlaceMarket
    <2>2. o \in Order /\ nextId \in Ids /\ Best(side, m) \in Nat
      BY <1>4, BestIsNat DEF NewOrder, Order, PlaceMarket, TypeOK, Ids
    <2> HIDE DEF o
    <2>3. /\ balances' \in [Assets -> Nat]
          /\ order' \in [Ids -> Order \cup {NoOrder}]
          /\ order' = [order EXCEPT ![nextId] = order'[nextId]]
          /\ order'[nextId] \in Order
      BY <2>1, <2>2, SettleTyped
    <2>4. \A c \in Bases : mid[c] # None => mid'[c] = mid[c]
      BY <2>1, ResolvedMid
    <2> USE <1>4 DEF PlaceMarket, engine
    <2>5. Append(history, nextId) \in Seq(Ids)
      BY <2>2 DEF TypeOK
    <2>6. TypeOK'
      BY <2>1, <2>2, <2>3, <2>5, ResolvedMid, SimAssumption DEF TypeOK, Ids
    <2>7. order'[nextId] # NoOrder
      BY <2>3, SimAssumption DEF Order
    <2>8. IssuedIds'
      BY <2>2, <2>3, <2>7 DEF IssuedIds, TypeOK, Ids
    <2>9. nextId \notin orders
      BY <2>2 DEF IssuedIds, BookOrders, TypeOK, Ids
    <2>10. \A i \in orders : order'[i] = order[i]
      BY <2>3, <2>9 DEF TypeOK
    <2>11. BookOrders'
      BY <2>4, <2>10 DEF BookOrders, TypeOK, Order
    <2>12. EngineState'
      BY <2>4, <2>10 DEF EngineState, Marketable, BookOrders, TypeOK, Order
    <2>13. QED
      BY <2>6, <2>8, <2>11, <2>12
  <1>5. ASSUME NEW b \in Bases, NEW side \in {"buy", "sell"}, NEW q \in Quantities,
               NEW price \in LimitPrices, PlaceLimit(b, side, q, price)
        PROVE  IInv'
    <2> DEFINE o == NewOrder(b, side, "limit", q, price)
    <2> USE <1>5 DEF PlaceLimit
    <2>1. PICK m \in Mids : Resolved(b, m)
      OBVIOUS
    <2>2. /\ o \in Order /\ nextId \in Ids
          /\ o.type = "limit" /\ o.price = price /\ o.base = b /\ o.status = "open"
      BY DEF NewOrder, Order, TypeOK, Ids
    <2>3. order' = [order EXCEPT ![nextId] = o]
      OBVIOUS
    <2> HIDE DEF o
    <2>4. TypeOK'
      <3>1. order' \in [Ids -> Order \cup {NoOrder}]
        BY <2>2, <2>3 DEF TypeOK
      <3>2. nextId' \in 1..(MaxOrders + 1)
        BY <2>2, SimAssumption DEF TypeOK, Ids
      <3>3. mid' \in [Bases -> Mids \cup {None}]
        BY <2>1, ResolvedMid
      <3>4. QED
        BY <2>2, <3>1, <3>2, <3>3 DEF TypeOK
    <2>5. o # NoOrder
      BY <2>2, SimAssumption DEF Order
    <2>6. IssuedIds'
      BY <2>2, <2>3, <2>5 DEF IssuedIds, TypeOK, Ids
    <2>7. mid'[b] # None /\ \A c \in Bases : mid[c] # None => mid'[c] = mid[c]
      BY <2>1, ResolvedMid
    <2>8. nextId \notin orders /\ nextId \notin settled
      BY <2>2 DEF IssuedIds, BookOrders, TypeOK, Ids
    <2>9. BookOrders'
      BY <2>2, <2>3, <2>5, <2>7, <2>8 DEF BookOrders, TypeOK, Order
    <2>10. EngineState'
      BY DEF EngineState
    <2>11. QED
      BY <2>4, <2>6, <2>9, <2>10
  <1>6. ASSUME NEW i \in Ids, CancelOrder(i) PROVE IInv'
    <2> USE <1>6 DEF CancelOrder, engine
    <2>1. order[i] \in Order
      BY DEF BookOrders, TypeOK
    <2>2. order'[i] \in Order /\ \A j \in Ids \ {i} : order'[j] = order[j]
      BY <2>1 DEF TypeOK, Order
    <2>3. TypeOK'
      BY <2>2 DEF TypeOK, EngineState
    <2>4. IssuedIds'
      BY <2>1, <2>2, SimAssumption DEF IssuedIds, TypeOK, Order
    <2>5. BookOrders' /\ EngineState'
      BY <2>2 DEF BookOrders, EngineState, Marketable, TypeOK
    <2>6. QED
      BY <2>3, <2>4, <2>5
  <1>7. ASSUME NEW i \in Ids, MatchNext(i) PROVE IInv'
    <2> DEFINE o == order[i]
               p == Best(o.side, mid[o.base])
    <2> USE <1>7 DEF MatchNext, IsFirst
    <2>1. o \in Order /\ i \in orders
      BY DEF BookOrders, TypeOK
    <2>2. CASE o.status = "open" /\ o.type = "limit" /\ Marketable(o)
      <3>1. p \in Nat
        BY <2>1, BestIsNat DEF BookOrders, TypeOK, Order
      <3>2. Settle(i, o, p) /\ settled' = settled \cup {i}
        BY <2>2
      <3>3. /\ balances' \in [Assets -> Nat]
            /\ order' \in [Ids -> Order \cup {NoOrder}]
            /\ order' = [order EXCEPT ![i] = order'[i]]
            /\ order'[i] \in Order
            /\ order'[i].status # "open"
            /\ Exchange!SameRequest(o, order'[i])
        BY <2>1, <3>1, <3>2, SettleTyped
      <3> HIDE DEF p
      <3>4. \A j \in Ids \ {i} : order'[j] = order[j]
        BY <3>3 DEF TypeOK
      <3>5. TypeOK'
        BY <2>1, <3>2, <3>3 DEF TypeOK
      <3>6. order'[i] # NoOrder
        BY <3>3, SimAssumption DEF Order
      <3>7. IssuedIds'
        BY <2>1, <3>4, <3>6 DEF IssuedIds, BookOrders, TypeOK
      <3>8. BookOrders'
        BY <2>1, <3>2, <3>3, <3>4, <3>6 DEF BookOrders, TypeOK, Exchange!SameRequest
      <3>9. EngineState'
        BY <2>1, <3>2, <3>4 DEF EngineState, Marketable, TypeOK
      <3>10. QED
        BY <3>5, <3>7, <3>8, <3>9
    <2>3. CASE ~(o.status = "open" /\ o.type = "limit" /\ Marketable(o))
      <3>1. UNCHANGED <<balances, order, settled>>
        BY <2>3
      <3>2. ~Marketable(o)
        BY <2>1, <2>3 DEF BookOrders, EngineState
      <3>3. TypeOK' /\ IssuedIds' /\ BookOrders'
        BY <3>1 DEF TypeOK, IssuedIds, BookOrders
      <3>4. EngineState'
        BY <3>1, <3>2 DEF EngineState, Marketable
      <3>5. QED
        BY <3>3, <3>4
    <2>4. QED
      BY <2>2, <2>3
  <1>8. ASSUME NEW i \in Ids, MatchRemove(i) PROVE IInv'
    <2> USE <1>8 DEF MatchRemove, IsFirst
    <2>1. TypeOK' /\ IssuedIds' /\ BookOrders'
      BY DEF TypeOK, IssuedIds, BookOrders, EngineState
    <2>2. EngineState'
      BY DEF EngineState, Marketable
    <2>3. QED
      BY <2>1, <2>2
  <1>9. CASE UNCHANGED vars
    BY <1>9 DEF vars, engine, TypeOK, IssuedIds, BookOrders, EngineState, Marketable
  <1>10. QED
    BY <1>1, <1>2, <1>3, <1>4, <1>5, <1>6, <1>7, <1>8, <1>9 DEF Next

\* The invariant holds in every reachable state.
THEOREM Invariance == Spec => []IInv
  <1>1. QED
    BY InitIInv, StepIInv, PTL DEF Spec

\* No reachable state has a negative balance or a malformed order.
THEOREM Typing == Spec => []TypeOK
  <1>1. IInv => TypeOK
    BY DEF IInv
  <1>2. QED
    BY <1>1, Invariance, PTL

\* When the engine rests, no order in the book is crossed.
THEOREM NoCrossed == Spec => []NoCrossedOrder
  <1>1. IInv => NoCrossedOrder
    BY DEF IInv, EngineState, BookOrders, NoCrossedOrder
  <1>2. QED
    BY <1>1, Invariance, PTL

-----------------------------------------------------------------------------
\* The simulator starts with the deposit and without orders, as the abstract
\* exchange does.
LEMMA InitImplements == Init => Exchange!Init
  BY DEF Init, Exchange!Init

\* Each step of the simulator is one of the abstract exchange, or changes
\* neither a balance nor an order.
LEMMA StepImplements ==
  IInv /\ [Next]_vars => [Exchange!Next]_<<balances, order>>
  <1> SUFFICES ASSUME IInv, [Next]_vars
               PROVE  [Exchange!Next]_<<balances, order>>
    OBVIOUS
  <1> USE DEF IInv
  <1>1. ASSUME UpdatePrices \/ MatchEnd \/ UNCHANGED vars
        PROVE  UNCHANGED <<balances, order>>
    BY <1>1 DEF UpdatePrices, MatchEnd, vars
  <1>2. ASSUME NEW b \in Bases, AddSymbol(b) PROVE UNCHANGED <<balances, order>>
    BY <1>2 DEF AddSymbol
  <1>3. ASSUME NEW b \in Bases, NEW side \in {"buy", "sell"}, NEW q \in Quantities,
               PlaceMarket(b, side, q)
        PROVE  Exchange!Next
    <2> DEFINE o == NewOrder(b, side, "market", q, None)
    <2>1. PICK m \in Mids : Settle(nextId, o, Best(side, m))
      BY <1>3 DEF PlaceMarket
    <2>2. /\ o \in Order /\ o.status = "open" /\ o.type # "limit"
          /\ nextId \in Ids /\ Best(side, m) \in Nat
      BY <1>3, BestIsNat DEF NewOrder, Order, PlaceMarket, TypeOK, Ids
    <2>3. order[nextId] = NoOrder
      BY <2>2 DEF IssuedIds, Ids, TypeOK
    <2> HIDE DEF o
    <2>4. Exchange!Fill(nextId) \/ Exchange!Cancel(nextId)
      BY <2>1, <2>2, <2>3, SettleImplements
    <2>5. QED
      BY <2>2, <2>4 DEF Exchange!Next
  <1>4. ASSUME NEW b \in Bases, NEW side \in {"buy", "sell"}, NEW q \in Quantities,
               NEW price \in LimitPrices, PlaceLimit(b, side, q, price)
        PROVE  Exchange!Next
    <2> DEFINE o == NewOrder(b, side, "limit", q, price)
    <2>1. o \in Order /\ o.status = "open" /\ nextId \in Ids
      BY <1>4 DEF NewOrder, Order, PlaceLimit, TypeOK, Ids
    <2>2. order' = [order EXCEPT ![nextId] = o] /\ UNCHANGED balances
      BY <1>4 DEF PlaceLimit
    <2> HIDE DEF o
    <2>3. order[nextId] = NoOrder
      BY <2>1 DEF IssuedIds, Ids, TypeOK
    <2>4. order'[nextId] = o /\ o # NoOrder
      BY <2>1, <2>2, SimAssumption DEF TypeOK, Order
    <2>5. Exchange!Rest(nextId)
      BY <2>1, <2>2, <2>3, <2>4 DEF Exchange!Rest, Exchange!Touches
    <2>6. QED
      BY <2>1, <2>5 DEF Exchange!Next
  <1>5. ASSUME NEW i \in Ids, CancelOrder(i) PROVE Exchange!Next
    <2>1. order[i] \in Order /\ order[i].status = "open"
      BY <1>5 DEF CancelOrder, BookOrders, EngineState, TypeOK
    <2>2. /\ order' = [order EXCEPT ![i] = order'[i]]
          /\ order'[i] \in Order
          /\ order'[i].status = "canceled"
          /\ Exchange!SameRequest(order[i], order'[i])
      BY <1>5, <2>1 DEF CancelOrder, TypeOK, Order, Exchange!SameRequest
    <2>3. order'[i] # NoOrder
      BY <2>2, SimAssumption DEF Order
    <2>4. Exchange!Cancel(i)
      BY <1>5, <2>1, <2>2, <2>3 DEF CancelOrder, Exchange!Cancel, Exchange!Touches
    <2>5. QED
      BY <2>4 DEF Exchange!Next
  <1>6. ASSUME NEW i \in Ids, MatchNext(i) PROVE [Exchange!Next]_<<balances, order>>
    <2> DEFINE o == order[i]
               p == Best(o.side, mid[o.base])
    <2>1. o \in Order /\ i \in orders
      BY <1>6 DEF MatchNext, IsFirst, BookOrders, TypeOK
    <2>2. CASE o.status = "open" /\ o.type = "limit" /\ Marketable(o)
      <3>1. p \in Nat
        BY <2>1, BestIsNat DEF BookOrders, TypeOK, Order
      <3>2. Settle(i, o, p)
        BY <1>6, <2>2 DEF MatchNext
      <3>3. o.price \in Nat
        BY <2>1, SimAssumption DEF BookOrders
      <3>4. IF o.side = "buy" THEN p <= o.price ELSE p >= o.price
        BY <2>2, <3>1, <3>3 DEF Marketable
      <3> HIDE DEF p
      <3>5. Exchange!Fill(i) \/ Exchange!Cancel(i)
        BY <2>1, <2>2, <3>1, <3>2, <3>4, SettleImplements
      <3>6. QED
        BY <3>5 DEF Exchange!Next
    <2>3. CASE ~(o.status = "open" /\ o.type = "limit" /\ Marketable(o))
      BY <1>6, <2>3 DEF MatchNext
    <2>4. QED
      BY <2>2, <2>3
  <1>7. ASSUME NEW i \in Ids, MatchRemove(i) PROVE UNCHANGED <<balances, order>>
    BY <1>7 DEF MatchRemove
  <1>8. QED
    BY <1>1, <1>2, <1>3, <1>4, <1>5, <1>6, <1>7 DEF Next

\* The matching engine implements the abstract exchange: every order ends at
\* most once, at a price it accepts, with the balances changed by exactly its
\* amounts in the same step and never below zero.
THEOREM Refinement == Spec => ImplementsSettlement
  <1>1. QED
    BY Invariance, InitImplements, StepImplements, PTL
       DEF Spec, ImplementsSettlement, Exchange!Spec

-----------------------------------------------------------------------------
(* The account statement.                                                  *)

\* Every set of natural numbers has a least member: induction, as the provers take it.
LEMMA Least ==
  ASSUME NEW T \in SUBSET Nat, T # {}
  PROVE  \E x \in T : \A y \in T : x <= y
  <1> DEFINE R == {p \in Nat \X Nat : p[1] < p[2]}
  <1>1. IsWellFoundedOn(R, Nat)
    BY NatLessThanWellFounded DEF OpToRel
  <1>2. \A x, y \in Nat : x < y => <<x, y>> \in R
    OBVIOUS
  <1> HIDE DEF R
  <1>3. PICK x \in T : \A y \in T : <<y, x>> \notin R
    BY <1>1, WFMin
  <1>4. ASSUME NEW y \in T PROVE x <= y
    <2>1. x \in Nat /\ y \in Nat
      OBVIOUS
    <2>2. ~(y < x)
      BY <1>2, <1>3, <2>1
    <2>3. QED
      BY <2>1, <2>2
  <1>5. QED
    BY <1>4

\* g lists the balance after each of the first n orders.
Runs(g, n, start, movement) ==
  /\ g \in [0..n -> Int] /\ g[0] = start
  /\ \A k \in 1..n : g[k] = g[k - 1] + movement[k]

\* Any movements have such a list, and it is the only one the recursion of Statement means.
LEMMA RunExists ==
  ASSUME NEW start \in Int, NEW movement \in [Ids -> Int]
  PROVE  \E g : Runs(g, MaxOrders, start, movement)
  <1> DEFINE Missing == {n \in 0..MaxOrders : ~\E g : Runs(g, n, start, movement)}
  <1> SUFFICES ASSUME Missing # {} PROVE FALSE
    BY SimAssumption
  <1>1. PICK m \in Missing : \A n \in Missing : m <= n
    <2>1. Missing \in SUBSET Nat
      BY SimAssumption
    <2> HIDE DEF Missing
    <2>2. QED
      BY <2>1, Least
  <1>2. m \in 0..MaxOrders
    OBVIOUS
  <1>3. m # 0
    <2>1. Runs([k \in 0..0 |-> start], 0, start, movement)
      BY DEF Runs
    <2>2. QED
      BY <2>1
  <1>4. m - 1 \in 0..MaxOrders /\ m - 1 \notin Missing
    BY <1>1, <1>2, <1>3, SimAssumption
  <1>5. PICK g : Runs(g, m - 1, start, movement)
    BY <1>4
  <1> DEFINE h == [k \in 0..m |-> IF k = m THEN g[m - 1] + movement[m] ELSE g[k]]
  <1>6. Runs(h, m, start, movement)
    <2>1. g[m - 1] \in Int /\ movement[m] \in Int
      BY <1>2, <1>3, <1>5 DEF Runs, Ids
    <2>2. h \in [0..m -> Int]
      BY <1>2, <2>1, <1>5 DEF Runs
    <2>3. h[0] = start
      BY <1>2, <1>3, <1>5 DEF Runs
    <2>4. \A k \in 1..m : h[k] = h[k-1] + movement[k]
      BY <1>2, <1>3, <1>5 DEF Runs
    <2>5. QED
      BY <2>2, <2>3, <2>4 DEF Runs
  <1>7. QED
    BY <1>6, <1>1

LEMMA StatementIs ==
  ASSUME NEW start \in Int, NEW movement \in [Ids -> Int],
         NEW g, Runs(g, MaxOrders, start, movement)
  PROVE  Statement(start, movement) = g[MaxOrders]
  <1> DEFINE Line(f) == [n \in 0..MaxOrders |-> IF n = 0 THEN start ELSE f[n - 1] + movement[n]]
             total == CHOOSE f : f = Line(f)
  <1>1. g = Line(g)
    BY SimAssumption DEF Runs
  <1>2. total = Line(total)
    BY <1>1
  <1>3. Statement(start, movement) = total[MaxOrders]
    BY DEF Statement
  <1> HIDE DEF total
  <1> DEFINE Apart == {n \in 0..MaxOrders : total[n] # g[n]}
  <1>4. Apart = {}
    <2> SUFFICES ASSUME Apart # {} PROVE FALSE
      OBVIOUS
    <2>1. PICK m \in Apart : \A n \in Apart : m <= n
      <3>1. Apart \in SUBSET Nat
        BY SimAssumption
      <3> HIDE DEF Apart
      <3>2. QED
        BY <3>1, Least
    <2>2. m \in 0..MaxOrders
      OBVIOUS
    <2>3. CASE m = 0
      BY <1>1, <1>2, <2>2, <2>3
    <2>4. CASE m # 0
      <3>1. m - 1 \in 0..MaxOrders /\ m - 1 \notin Apart
        BY <2>1, <2>2, <2>4, SimAssumption
      <3>2. total[m - 1] = g[m - 1]
        BY <3>1
      <3>3. total[m] = g[m]
        BY <1>1, <1>2, <2>2, <2>4, <3>2
      <3>4. QED
        BY <3>3
    <2>5. QED
      BY <2>3, <2>4
  <1>5. QED
    BY <1>3, <1>4, SimAssumption

\* One more movement is one more on the last line.
LEMMA StatementMoves ==
  ASSUME NEW start \in Int, NEW movement \in [Ids -> Int], NEW later \in [Ids -> Int],
         NEW i \in Ids, NEW d \in Int,
         \A k \in Ids : later[k] = IF k = i THEN movement[k] + d ELSE movement[k]
  PROVE  Statement(start, later) = Statement(start, movement) + d
  <1>1. PICK g : Runs(g, MaxOrders, start, movement)
    BY RunExists
  <1> DEFINE h == [n \in 0..MaxOrders |-> IF n >= i THEN g[n] + d ELSE g[n]]
  <1>2. Runs(h, MaxOrders, start, later)
    <2>1. h \in [0..MaxOrders -> Int] /\ h[0] = start
      BY <1>1, SimAssumption DEF Runs, Ids
    <2>2. ASSUME NEW k \in 1..MaxOrders PROVE h[k] = h[k - 1] + later[k]
      <3>1. /\ g[k] \in Int /\ g[k - 1] \in Int /\ movement[k] \in Int
            /\ g[k] = g[k - 1] + movement[k]
        BY <1>1, SimAssumption DEF Runs, Ids
      <3>2. /\ later[k] = IF k = i THEN movement[k] + d ELSE movement[k]
            /\ h[k] = IF k >= i THEN g[k] + d ELSE g[k]
            /\ h[k - 1] = IF k - 1 >= i THEN g[k - 1] + d ELSE g[k - 1]
        BY SimAssumption DEF Ids
      <3> HIDE DEF h
      <3>3. QED
        BY <3>1, <3>2 DEF Ids
    <2>3. QED
      BY <2>1, <2>2 DEF Runs
  <1>3. Statement(start, movement) = g[MaxOrders] /\ Statement(start, later) = h[MaxOrders]
    BY <1>1, <1>2, StatementIs
  <1>4. QED
    BY <1>1, <1>3, SimAssumption DEF Runs, Ids

-----------------------------------------------------------------------------
(* The ledger.                                                             *)

\* A fill changes each balance by what the record of the order says.
LEMMA FillMoves ==
  ASSUME TypeOK, NEW o \in Order, NEW p \in Nat, NEW a \in Assets
  PROVE  /\ Moved(Ended(o, "filled", p), a) \in Int
         /\ AfterFill(o, p)[a] = balances[a] + Moved(Ended(o, "filled", p), a)
  <1>1. Worth(o, p) \in Nat /\ Fee(o, p) \in Nat
    BY FeeBounds
  <1>2. /\ o.base \in Assets /\ Quote \in Assets /\ o.base # Quote
        /\ o.qty \in Nat /\ o.side \in {"buy", "sell"}
    BY SimAssumption DEF Order, Assets
  <1>3. Moved(Ended(o, "filled", p), a) =
          LET sign == IF o.side = "buy" THEN 1 ELSE -1
          IN IF a = o.base THEN sign * o.qty
             ELSE IF a = Quote THEN -(sign * Worth(o, p)) - Fee(o, p) ELSE 0
    BY DEF Moved, Ended, Worth, Fee
  <1>4. QED
    BY <1>1, <1>2, <1>3 DEF AfterFill, TypeOK

\* Movements are integers: an order on record has a base asset, a quantity and a price.
LEMMA MovementsTyped ==
  ASSUME TypeOK, NEW a \in Assets
  PROVE  Movements(a) \in [Ids -> Int] /\ Deposit[a] \in Int
  <1>1. ASSUME NEW i \in Filled PROVE Moved(order[i], a) \in Int
    <2>1. order[i] \in Order /\ i \in Ids
      BY DEF Filled, TypeOK
    <2>2. order[i] = Ended(order[i], order[i].status, order[i].exec) /\ order[i].exec \in Nat
      BY <2>1 DEF Ended, Order
    <2>3. order[i].status = "filled"
      BY DEF Filled
    <2>4. QED
      BY <2>1, <2>2, <2>3, FillMoves
  <1>2. QED
    BY <1>1, SimAssumption DEF Movements, Assets

LEMMA LedgerRests ==
  ASSUME LedgerBalances, balances' = balances, Filled' = Filled,
         \A i \in Filled : order'[i] = order[i]
  PROVE  LedgerBalances'
  <1> SUFFICES ASSUME NEW a \in Assets
               PROVE  balances'[a] = Statement(Deposit[a], Movements(a)')
    BY DEF LedgerBalances, Statement
  <1>1. \A i \in Filled : Moved(order[i], a)' = Moved(order[i], a)
    BY DEF Moved, Worth, Fee
  <1>2. Movements(a)' = Movements(a)
    BY <1>1 DEF Movements
  <1>3. QED
    BY <1>2 DEF LedgerBalances

LEMMA LedgerSettles ==
  ASSUME TypeOK, LedgerBalances, NEW i \in Ids, NEW o \in Order, NEW p \in Nat,
         Settle(i, o, p), i \notin Filled
  PROVE  LedgerBalances'
  <1>1. CASE Funded(o, p)
    <2> SUFFICES ASSUME NEW a \in Assets
                 PROVE  balances'[a] = Statement(Deposit[a], Movements(a)')
      BY DEF LedgerBalances, Statement
    <2> DEFINE new == Ended(o, "filled", p)
               d == Moved(new, a)
    <2>1. order' = [order EXCEPT ![i] = new] /\ balances' = AfterFill(o, p)
      BY <1>1 DEF Settle
    <2>2. new \in Order /\ new.status = "filled" /\ new # NoOrder
      BY SimAssumption DEF Ended, Order
    <2>3. d \in Int /\ balances'[a] = balances[a] + d
      BY <2>1, FillMoves
    <2> HIDE DEF new
    <2>4. order'[i] = new /\ \A j \in Ids \ {i} : order'[j] = order[j]
      BY <2>1 DEF TypeOK
    <2>5. Filled' = Filled \cup {i}
      BY <2>2, <2>4 DEF Filled
    <2>6. \A j \in Ids \ {i} : Moved(order[j], a)' = Moved(order[j], a)
      BY <2>4 DEF Moved, Worth, Fee
    <2>7. Moved(order[i], a)' = d
      BY <2>4 DEF Moved, Worth, Fee
    <2> HIDE DEF d
    <2>8. Movements(a) \in [Ids -> Int] /\ Movements(a)[i] = 0
      BY MovementsTyped DEF Movements
    <2> DEFINE before == Movements(a)
               after  == Movements(a)'
    <2>9. \A j \in Ids : after[j] = IF j = i THEN d ELSE before[j]
      BY <2>5, <2>6, <2>7 DEF Movements
    <2>10. before \in [Ids -> Int] /\ before[i] = 0
      BY <2>8
    <2>11. after \in [Ids -> Int]
      BY <2>3, <2>8, <2>9 DEF Movements
    <2>12. Statement(Deposit[a], before) = balances[a] /\ Deposit[a] \in Int
      BY MovementsTyped DEF LedgerBalances
    <2> HIDE DEF before, after
    <2>13. \A j \in Ids : after[j] = IF j = i THEN before[j] + d ELSE before[j]
      BY <2>3, <2>9, <2>10
    <2>14. Statement(Deposit[a], after) = Statement(Deposit[a], before) + d
      BY <2>3, <2>10, <2>11, <2>12, <2>13, StatementMoves
    <2>15. QED
      BY <2>3, <2>12, <2>14 DEF after
  <1>2. CASE ~Funded(o, p)
    <2>1. order' = [order EXCEPT ![i] = Ended(o, "canceled", 0)] /\ balances' = balances
      BY <1>2 DEF Settle
    <2>2. order'[i].status = "canceled" /\ \A j \in Ids \ {i} : order'[j] = order[j]
      BY <2>1 DEF TypeOK, Ended
    <2>3. Filled' = Filled /\ \A j \in Filled : order'[j] = order[j]
      BY <2>2 DEF Filled
    <2>4. QED
      BY <2>1, <2>3, LedgerRests
  <1>3. QED
    BY <1>1, <1>2
-----------------------------------------------------------------------------
(* The records.                                                            *)

\* An order that enters the history for the first time is one record more.
LEMMA HistoryGrows ==
  ASSUME TypeOK, NEW i \in Ids, i \notin InHistory,
         Cardinality(InHistory) = Len(history),
         history' = Append(history, i)
  PROVE  /\ InHistory' = InHistory \cup {i}
         /\ Cardinality(InHistory') = Len(history')
  <1>1. /\ history \in Seq(Ids) /\ Len(history) \in Nat
        /\ Len(history') = Len(history) + 1
        /\ \A k \in 1..Len(history) : history'[k] = history[k] /\ history[k] \in Ids
        /\ history'[Len(history) + 1] = i
    BY DEF TypeOK
  <1>2. InHistory' = InHistory \cup {i}
    <2> DEFINE n == Len(history)
    <2>1. n \in Nat /\ Len(history') = n + 1
      BY <1>1
    <2>2. 1..(n + 1) = (1..n) \cup {n + 1}
      BY <2>1
    <2>3. InHistory' = {history'[k] : k \in 1..(n + 1)}
      BY <2>1 DEF InHistory
    <2> HIDE DEF n
    <2>4. {history'[k] : k \in 1..(n + 1)} = {history'[k] : k \in 1..n} \cup {history'[n + 1]}
      BY <2>2
    <2>5. {history'[k] : k \in 1..n} = {history[k] : k \in 1..n}
      BY <1>1 DEF n
    <2>6. QED
      BY <1>1, <2>3, <2>4, <2>5 DEF InHistory, n
  <1>3. IsFiniteSet(InHistory)
    <2>1. InHistory \subseteq Ids
      <3>1. \A k \in 1..Len(history) : history[k] \in Ids
        BY <1>1
      <3>2. QED
        BY <3>1 DEF InHistory
    <2>2. IsFiniteSet(Ids)
      BY FS_Interval, SimAssumption DEF Ids
    <2>3. QED
      BY <2>1, <2>2, FS_Subset
  <1>4. Cardinality(InHistory \cup {i}) = Cardinality(InHistory) + 1
    BY <1>3, FS_AddElement
  <1>5. QED
    BY <1>1, <1>2, <1>4

RecordInv == IInv /\ RecordsBalance

LEMMA StepRecords == RecordInv /\ [Next]_vars => RecordsBalance'
  <1> SUFFICES ASSUME RecordInv, [Next]_vars PROVE RecordsBalance'
    OBVIOUS
  <1> USE DEF RecordInv, IInv, RecordsBalance
  <1>1. ASSUME UNCHANGED <<balances, order, orders, history>> PROVE RecordsBalance'
    <2>1. OneRecord' /\ Filled' = Filled
      BY <1>1 DEF OneRecord, InHistory, Filled
    <2>2. LedgerBalances'
      BY <1>1, <2>1, LedgerRests
    <2>3. QED
      BY <2>1, <2>2
  <1>2. CASE UpdatePrices \/ MatchEnd \/ UNCHANGED vars
    BY <1>1, <1>2 DEF UpdatePrices, MatchEnd, vars
  <1>3. ASSUME NEW b \in Bases, AddSymbol(b) PROVE RecordsBalance'
    BY <1>1, <1>3 DEF AddSymbol
  <1>4. ASSUME NEW b \in Bases, NEW side \in {"buy", "sell"}, NEW q \in Quantities,
               PlaceMarket(b, side, q)
        PROVE  RecordsBalance'
    <2> DEFINE o == NewOrder(b, side, "market", q, None)
    <2>1. PICK m \in Mids : Settle(nextId, o, Best(side, m))
      BY <1>4 DEF PlaceMarket
    <2>2. o \in Order /\ nextId \in Ids /\ Best(side, m) \in Nat
      BY <1>4, BestIsNat DEF NewOrder, Order, PlaceMarket, TypeOK, Ids
    <2>3. order[nextId] = NoOrder
      BY <2>2 DEF IssuedIds, TypeOK, Ids
    <2> HIDE DEF o
    <2>4. /\ order' = [order EXCEPT ![nextId] = order'[nextId]]
          /\ order'[nextId] \in Order /\ order'[nextId].status # "open"
      BY <2>1, <2>2, SettleTyped
    <2>5. order'[nextId] # NoOrder /\ \A i \in Ids \ {nextId} : order'[i] = order[i]
      BY <2>4, SimAssumption DEF Order, TypeOK
    <2>6. nextId \notin InHistory /\ nextId \notin orders
      BY <2>3 DEF OneRecord
    <2>7. /\ InHistory' = InHistory \cup {nextId}
          /\ Cardinality(InHistory') = Len(history')
      BY <1>4, <2>2, <2>6, HistoryGrows DEF PlaceMarket, OneRecord
    <2>8. OneRecord'
      <3>1. orders' = orders
        BY <1>4 DEF PlaceMarket
      <3>2. QED
        BY <2>2, <2>4, <2>5, <2>6, <2>7, <3>1 DEF OneRecord
    <2>9. LedgerBalances'
      BY <2>1, <2>2, <2>3, LedgerSettles DEF Filled
    <2>10. QED
      BY <2>8, <2>9
  <1>5. ASSUME NEW b \in Bases, NEW side \in {"buy", "sell"}, NEW q \in Quantities,
               NEW price \in LimitPrices, PlaceLimit(b, side, q, price)
        PROVE  RecordsBalance'
    <2> DEFINE o == NewOrder(b, side, "limit", q, price)
    <2>1. o \in Order /\ o.status = "open" /\ nextId \in Ids
      BY <1>5 DEF NewOrder, Order, PlaceLimit, TypeOK, Ids
    <2>2. order[nextId] = NoOrder
      BY <2>1 DEF IssuedIds, TypeOK, Ids
    <2>3. /\ order' = [order EXCEPT ![nextId] = o]
          /\ UNCHANGED <<balances, history>> /\ orders' = orders \cup {nextId}
      BY <1>5 DEF PlaceLimit
    <2> HIDE DEF o
    <2>4. /\ order'[nextId] = o /\ o # NoOrder
          /\ \A i \in Ids \ {nextId} : order'[i] = order[i]
      BY <2>1, <2>3, SimAssumption DEF Order, TypeOK
    <2>5. nextId \notin InHistory
      BY <2>2 DEF OneRecord
    <2>6. InHistory' = InHistory
      BY <2>3 DEF InHistory
    <2>7. OneRecord'
      BY <2>1, <2>3, <2>4, <2>5, <2>6 DEF OneRecord
    <2>8. Filled' = Filled /\ \A i \in Filled : order'[i] = order[i]
      BY <2>1, <2>2, <2>4 DEF Filled
    <2>9. QED
      BY <2>3, <2>7, <2>8, LedgerRests
  <1>6. ASSUME NEW i \in Ids, CancelOrder(i) PROVE RecordsBalance'
    <2>1. order[i] \in Order /\ order[i].status = "open" /\ i \notin InHistory
      BY <1>6 DEF CancelOrder, BookOrders, EngineState, TypeOK, OneRecord
    <2>2. /\ order'[i] \in Order /\ order'[i].status = "canceled"
          /\ \A j \in Ids \ {i} : order'[j] = order[j]
      BY <1>6, <2>1 DEF CancelOrder, TypeOK, Order
    <2>3. order'[i] # NoOrder /\ order[i] # NoOrder
      BY <2>1, <2>2, SimAssumption DEF Order
    <2>4. /\ InHistory' = InHistory \cup {i}
          /\ Cardinality(InHistory') = Len(history')
      BY <1>6, <2>1, HistoryGrows DEF CancelOrder, OneRecord
    <2>5. OneRecord'
      <3>1. i \in orders /\ orders' = orders \ {i}
        BY <1>6 DEF CancelOrder
      <3>2. QED
        BY <2>1, <2>2, <2>3, <2>4, <3>1 DEF OneRecord
    <2>6. Filled' = Filled /\ \A j \in Filled : order'[j] = order[j]
      BY <2>1, <2>2 DEF Filled
    <2>7. balances' = balances
      BY <1>6 DEF CancelOrder
    <2>8. QED
      BY <2>5, <2>6, <2>7, LedgerRests
  <1>7. ASSUME NEW i \in Ids, MatchNext(i) PROVE RecordsBalance'
    <2> DEFINE o == order[i]
               p == Best(o.side, mid[o.base])
    <2>1. o \in Order /\ i \in orders
      BY <1>7 DEF MatchNext, IsFirst, BookOrders, TypeOK
    <2>2. CASE o.status = "open" /\ o.type = "limit" /\ Marketable(o)
      <3>1. p \in Nat
        BY <2>1, BestIsNat DEF BookOrders, TypeOK, Order
      <3>2. Settle(i, o, p) /\ UNCHANGED <<orders, history>>
        BY <1>7, <2>2 DEF MatchNext
      <3>3. /\ order' = [order EXCEPT ![i] = order'[i]]
            /\ order'[i] \in Order /\ order'[i].status # "open"
        BY <2>1, <3>1, <3>2, SettleTyped
      <3> HIDE DEF p
      <3>4. order'[i] # NoOrder /\ \A j \in Ids \ {i} : order'[j] = order[j]
        BY <3>3, SimAssumption DEF Order, TypeOK
      <3>5. InHistory' = InHistory /\ o # NoOrder
        BY <2>1, <3>2, SimAssumption DEF InHistory, Order
      <3>6. OneRecord'
        BY <2>1, <3>2, <3>3, <3>4, <3>5 DEF OneRecord
      <3>7. LedgerBalances'
        BY <2>1, <2>2, <3>1, <3>2, LedgerSettles DEF Filled
      <3>8. QED
        BY <3>6, <3>7
    <2>3. CASE ~(o.status = "open" /\ o.type = "limit" /\ Marketable(o))
      BY <1>1, <1>7, <2>3 DEF MatchNext
    <2>4. QED
      BY <2>2, <2>3
  <1>8. ASSUME NEW i \in Ids, MatchRemove(i) PROVE RecordsBalance'
    <2>1. i \in settled /\ i \in orders /\ i \notin InHistory
      BY <1>8 DEF MatchRemove, IsFirst, TypeOK, OneRecord
    <2>2. order[i].status # "open"
      BY <2>1 DEF BookOrders
    <2>3. /\ InHistory' = InHistory \cup {i}
          /\ Cardinality(InHistory') = Len(history')
      BY <1>8, <2>1, HistoryGrows DEF MatchRemove, OneRecord
    <2>4. UNCHANGED <<balances, order>> /\ orders' = orders \ {i}
      BY <1>8 DEF MatchRemove
    <2>5. OneRecord'
      BY <2>1, <2>2, <2>3, <2>4 DEF OneRecord
    <2>6. Filled' = Filled
      BY <2>4 DEF Filled
    <2>7. QED
      BY <2>4, <2>5, <2>6, LedgerRests
  <1>9. QED
    BY <1>2, <1>3, <1>4, <1>5, <1>6, <1>7, <1>8 DEF Next

\* With no order the statement of an asset ends with its deposit.
LEMMA InitRecords == Init => RecordsBalance
  <1> SUFFICES ASSUME Init PROVE RecordsBalance
    OBVIOUS
  <1>1. InHistory = {} /\ Len(history) = 0
    BY DEF Init, InHistory
  <1>2. OneRecord
    <2>1. Cardinality(InHistory) = 0
      BY <1>1, FS_EmptySet
    <2>2. QED
      BY <1>1, <2>1 DEF Init, OneRecord
  <1>3. ASSUME NEW a \in Assets PROVE balances[a] = Statement(Deposit[a], Movements(a))
    <2>1. Filled = {}
      BY DEF Init, Filled
    <2>2. Movements(a) = [i \in Ids |-> 0]
      BY <2>1 DEF Movements
    <2> DEFINE g == [n \in 0..MaxOrders |-> Deposit[a]]
               none == [i \in Ids |-> 0]
    <2>3. Deposit[a] \in Int /\ none \in [Ids -> Int]
      BY SimAssumption
    <2>4. Runs(g, MaxOrders, Deposit[a], none)
      BY <2>3, SimAssumption DEF Runs, Ids
    <2>5. Statement(Deposit[a], none) = g[MaxOrders]
      BY <2>3, <2>4, StatementIs
    <2>6. QED
      BY <2>2, <2>5, SimAssumption DEF Init
  <1>4. QED
    BY <1>2, <1>3 DEF RecordsBalance, LedgerBalances

\* The records explain the account: every order is in the book or the history,
\* once, and the balances are the deposit and what the filled orders moved.
THEOREM Records == Spec => []RecordsBalance
  <1>1. Init => RecordInv
    BY InitIInv, InitRecords DEF RecordInv
  <1>2. RecordInv /\ [Next]_vars => RecordInv'
    BY StepIInv, StepRecords DEF RecordInv
  <1>3. RecordInv => RecordsBalance
    BY DEF RecordInv
  <1>4. QED
    BY <1>1, <1>2, <1>3, PTL DEF Spec
=============================================================================
