----------------------------- MODULE Settlement -----------------------------
(***************************************************************************)
(* What an exchange promises the trader who keeps an account with it: an   *)
(* order ends at most once, and when it is filled the balances change in   *)
(* the same step, by the amounts of that order at a price it accepts, and  *)
(* never below zero.  SimExchange is shown to implement this.              *)
(***************************************************************************)
EXTENDS Integers

CONSTANTS Ids,          \* order ids
          Bases, Quote, \* the traded assets and the asset they are paid in
          FeePct,       \* the fee, in percent of what a fill is worth
          Deposit,      \* Deposit[a]: initial balance of asset a
          NoOrder       \* an order that has not been issued

VARIABLES bal,    \* bal[a]: balance of asset a
          order   \* order[i]: the order with id i, or NoOrder

Assets == Bases \cup {Quote}

Init == bal = Deposit /\ order = [i \in Ids |-> NoOrder]

\* What a fill of o at its execution price adds to the balance of asset a.
Flow(o, a) ==
  LET worth == o.qty * o.exec
      fee   == (worth * FeePct) \div 100
      sign  == IF o.side = "buy" THEN 1 ELSE -1
  IN IF a = o.base THEN sign * o.qty
     ELSE IF a = Quote THEN -(sign * worth) - fee ELSE 0

Acceptable(o) ==
  o.type = "limit" => IF o.side = "buy" THEN o.exec <= o.price
                                        ELSE o.exec >= o.price

SameRequest(o, p) == /\ o.base = p.base /\ o.side = p.side /\ o.type = p.type
                     /\ o.qty = p.qty /\ o.price = p.price

\* Only order i changes; it is new, or open and keeps its request.
Touches(i) ==
  /\ order' = [order EXCEPT ![i] = order'[i]]
  /\ order'[i] # NoOrder
  /\ order[i] # NoOrder =>
       order[i].status = "open" /\ SameRequest(order[i], order'[i])

Rest(i) == /\ order[i] = NoOrder
           /\ Touches(i)
           /\ order'[i].status = "open"
           /\ UNCHANGED bal

Fill(i) == /\ Touches(i)
           /\ order'[i].status = "filled"
           /\ Acceptable(order'[i])
           /\ bal' = [a \in Assets |-> bal[a] + Flow(order'[i], a)]
           /\ \A a \in Assets : bal'[a] >= 0

Cancel(i) == /\ Touches(i)
             /\ order'[i].status = "canceled"
             /\ UNCHANGED bal

Next == \E i \in Ids : Rest(i) \/ Fill(i) \/ Cancel(i)

Spec == Init /\ [][Next]_<<bal, order>>
=============================================================================
