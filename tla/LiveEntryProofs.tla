-------------------------- MODULE LiveEntryProofs ---------------------------
(***************************************************************************)
(* The safety of LiveEntry, proved for any requests, settings, limits,     *)
(* deposits and prices: first the arithmetic of a sizing, then the         *)
(* inductive invariant, then that every bot follows TradingBot.            *)
(***************************************************************************)
EXTENDS LiveEntry, TLAPS

-----------------------------------------------------------------------------
\* Euclidean division of naturals.
LEMMA Division ==
  ASSUME NEW a \in Nat, NEW b \in Nat \ {0}
  PROVE  /\ a \div b \in Nat
         /\ (a \div b) * b <= a
         /\ a < (a \div b + 1) * b
<1> DEFINE q == a \div b
<1>1. a \in Int /\ b \in Int /\ b > 0
  OBVIOUS
<1>2. a = b * q + (a % b) /\ 0 <= a % b /\ a % b < b /\ q \in Int
  BY <1>1, Z3
<1>3. q >= 0
  BY <1>1, Z3
<1>4. b * q = q * b /\ (q + 1) * b = q * b + b
  BY <1>2, Z3
<1>5. QED
  BY <1>2, <1>3, <1>4

\* The limits are numbers, as BotConfig validates them.
LEMMA LimitsTyped ==
  /\ Limits.usage \in Nat /\ Limits.position \in Nat
  /\ Limits.exposure \in Nat /\ 10000 - Limits.feeBuffer \in Nat
  /\ Limits.minNotional \in Nat \ {0} /\ Limits.maxNotional \in Nat \ {0}
<1>1. Limits \in LimitsType
  BY EntryAssumption
<1>2. Limits.minNotional \in Nat \ {0} /\ Limits.maxNotional \in Nat \ {0}
  BY <1>1 DEF LimitsType
<1> DEFINE u == Limits.usage
           q == Limits.position
           e == Limits.exposure
           f == Limits.feeBuffer
<1>3. u \in 1..10000 /\ q \in 1..10000
  BY <1>1 DEF LimitsType
<1>4. e \in 1..10000 /\ f \in 0..999
  BY <1>1 DEF LimitsType
<1> HIDE DEF u, q, e, f
<1>5. u \in Nat /\ q \in Nat /\ e \in Nat /\ 10000 - f \in Nat
  BY <1>3, <1>4
<1>6. QED
  BY <1>2, <1>5 DEF u, q, e, f

\* What a share is, and how it compares with the worth of some steps.
LEMMA ShareWorth ==
  ASSUME NEW n \in Nat, NEW funds \in Nat, NEW pct \in Nat
  PROVE  /\ Share(funds, pct) \in Nat
         /\ n * Parts <= Share(funds, pct) <=> n * 10000 <= funds * pct
<1> DEFINE m == funds * pct
<1>1. m \in Nat
  OBVIOUS
<1>2. Share(funds, pct) = m * 10
  BY DEF Share
<1> HIDE DEF m
<1>3. m * 10 \in Nat /\ (n * 100000 <= m * 10 <=> n * 10000 <= m)
  BY <1>1
<1>4. QED
  BY <1>2, <1>3 DEF m, Parts

\* The two conversions of a request cancel out: the bot asks for its share of
\* the balance in Toman, and the sizing turns it back into Rial.
LEMMA RequestInRial ==
  ASSUME NEW funds \in Nat
  PROVE  Convert(CapitalRequest(Limits, funds, 0), "TOMAN", "RIAL")
           = Share(funds, Limits.usage)
<1> DEFINE w == funds * Limits.usage
<1>1. w \in Nat
  BY LimitsTyped
<1>2. (IF funds > 0 THEN funds - 0 ELSE 0) = funds
  OBVIOUS
<1>3. Share(funds, Limits.usage) = w * 10
  BY DEF Share
<1> HIDE DEF w
<1>4. (w * 10) \div 10 = w
  BY <1>1
<1>5. CapitalRequest(Limits, funds, 0) = w
  BY <1>2, <1>3, <1>4 DEF CapitalRequest, Convert
<1>6. QED
  BY <1>5, <1>3 DEF Convert

\* What is approved is one of five amounts and exceeds none of them.
LEMMA ApprovedBounds ==
  ASSUME NEW funds \in Nat
  PROVE  LET a == Approved(Limits, funds, 0, CapitalRequest(Limits, funds, 0))
             bounds == {Share(funds, Limits.usage),
                        Share(funds, 10000 - Limits.feeBuffer),
                        Share(funds, Limits.position),
                        Share(funds, Limits.exposure),
                        Limits.maxNotional * Parts}
         IN  /\ bounds \subseteq Nat
             /\ a \in bounds
             /\ \A b \in bounds : a <= b
<1> DEFINE u == Limits.usage
           q == Limits.position
           e == Limits.exposure
           f == 10000 - Limits.feeBuffer
           b1 == Share(funds, Limits.usage)
           b2 == Share(funds, 10000 - Limits.feeBuffer)
           b3 == Share(funds, Limits.position)
           b4 == Share(funds, Limits.exposure)
           b5 == Limits.maxNotional * Parts
<1>1. b1 \in Nat /\ b2 \in Nat /\ b3 \in Nat /\ b4 \in Nat
  <2>1. u \in Nat /\ q \in Nat /\ e \in Nat /\ f \in Nat
    BY LimitsTyped
  <2> HIDE DEF u, q, e, f
  <2>2. /\ Share(funds, u) \in Nat /\ Share(funds, q) \in Nat
        /\ Share(funds, e) \in Nat /\ Share(funds, f) \in Nat
    BY <2>1 DEF Share
  <2>3. QED
    BY <2>2 DEF u, q, e, f
<1>2. b5 \in Nat
  BY LimitsTyped DEF Parts
<1>3. b4 - 0 * Parts = b4
  BY <1>1 DEF Parts
<1>4. Approved(Limits, funds, 0, CapitalRequest(Limits, funds, 0))
        = Least(Least(Least(b1, b2), Least(b3, b4)), b5)
  BY <1>3, RequestInRial
     DEF Approved, MaxByBalance, MaxByPosition, MaxByExposure
<1> HIDE DEF b1, b2, b3, b4, b5
<1>5. LET a == Least(Least(Least(b1, b2), Least(b3, b4)), b5)
      IN  /\ a \in {b1, b2, b3, b4, b5}
          /\ \A b \in {b1, b2, b3, b4, b5} : a <= b
  BY <1>1, <1>2 DEF Least
<1>6. QED
  BY <1>1, <1>2, <1>4, <1>5 DEF b1, b2, b3, b4, b5

\* The quantity of an entry is the largest one the limits allow.
LEMMA SizeIsLargest ==
  ASSUME NEW p \in Prices, NEW funds \in Nat
  PROVE  LET q == EntrySize(p, funds) IN
           /\ q \in Nat
           /\ q > 0 => /\ Allowed(q, p, funds)
                       /\ ~Allowed(q + 1, p, funds)
                       /\ (q + 1) * p > Limits.minNotional
<1> DEFINE a == Approved(Limits, funds, 0, CapitalRequest(Limits, funds, 0))
           q == a \div (p * Parts)
           m == Limits.maxNotional
           caps == {Limits.usage, Limits.position, Limits.exposure,
                    10000 - Limits.feeBuffer}
<1>1. p \in Nat \ {0}
  BY EntryAssumption
<1>2. a \in Nat
  BY ApprovedBounds
<1>3. \A pct \in caps : pct \in Nat
  BY LimitsTyped
<1>4. m \in Nat
  BY LimitsTyped
<1> HIDE DEF m, caps
<1>5. CASE a < Limits.minNotional * Parts
  <2>1. EntrySize(p, funds) = 0
    BY <1>2, <1>5, LimitsTyped DEF EntrySize, PositionSize, Parts
  <2>2. QED
    BY <2>1
<1>6. CASE a >= Limits.minNotional * Parts
  <2>1. EntrySize(p, funds) \in {0, q}
    BY DEF EntrySize, PositionSize
  <2>2. p * Parts \in Nat \ {0}
    BY <1>1 DEF Parts
  <2>3. q \in Nat /\ q * (p * Parts) <= a /\ a < (q + 1) * (p * Parts)
    <3> HIDE DEF a
    <3>1. QED
      BY <1>2, <2>2, Division
  <2> HIDE DEF q, a
  <2>4. /\ q * (p * Parts) = (q * p) * Parts
        /\ (q + 1) * (p * Parts) = ((q + 1) * p) * Parts
        /\ q * p \in Nat /\ (q + 1) * p \in Nat
    BY <1>1, <2>3, Z3 DEF Parts
  <2>5. /\ \A pct \in caps : a <= Share(funds, pct)
        /\ a <= Limits.maxNotional * Parts
    BY ApprovedBounds DEF a, caps
  <2>6. Allowed(q, p, funds)
    <3>1. ASSUME NEW pct \in caps
          PROVE  q * p * 10000 <= funds * pct
      <4>1. (q * p) * Parts <= Share(funds, pct)
        BY <2>3, <2>4, <2>5, <1>2, <1>3, ShareWorth DEF Parts
      <4>2. QED
        BY <4>1, <1>3, <2>4, ShareWorth
    <3>2. q * p <= m
      BY <2>3, <2>4, <2>5, <1>2, <1>4 DEF Parts, m
    <3>3. QED
      BY <3>1, <3>2 DEF Allowed, caps, m
  <2>7. ~Allowed(q + 1, p, funds)
    <3> SUFFICES ASSUME Allowed(q + 1, p, funds) PROVE FALSE
      OBVIOUS
    <3>1. \A pct \in caps : (q + 1) * p * 10000 <= funds * pct
      BY DEF Allowed, caps
    <3>2. \A pct \in caps : ((q + 1) * p) * Parts <= Share(funds, pct)
      BY <3>1, <1>3, <2>4, ShareWorth
    <3>3. ((q + 1) * p) * Parts <= Limits.maxNotional * Parts
      <4>1. (q + 1) * p <= m
        BY DEF Allowed, m
      <4>2. ((q + 1) * p) * Parts <= m * Parts
        BY <4>1, <1>4, <2>4 DEF Parts
      <4>3. QED
        BY <4>2 DEF m
    <3>4. ((q + 1) * p) * Parts <= a
      BY <3>2, <3>3, ApprovedBounds DEF a, caps
    <3>5. QED
      BY <3>4, <2>3, <2>4, <1>2 DEF Parts
  <2>8. (q + 1) * p > Limits.minNotional
    BY <1>6, <1>2, <2>3, <2>4, LimitsTyped DEF Parts
  <2>9. QED
    BY <2>1, <2>3, <2>6, <2>7, <2>8
<1>7. QED
  BY <1>2, <1>5, <1>6, LimitsTyped DEF Parts

-----------------------------------------------------------------------------
\* The request that builds a bot holds the lock, and the class has no bot.
LockHeld ==
  \A r \in Requests : pc[r] = "building" => lock = r /\ instance = None

\* Before the balance has arrived nothing is sized, but a price was read.
NotSizedYet ==
  \A r \in Requests :
    /\ pc[r] \in {"idle", "locking", "building", "built", "priceForOrder",
                  "priceForSize", "balance"} => size[r].qty = 0
    /\ pc[r] = "balance" => size[r].price \in Prices

IInv ==
  TypeOK /\ LockHeld /\ NotSizedYet /\ OnlyNewestIsOpen
  /\ EntryIsLargestAllowed

\* A bot that is open and built exactly when b is.
Keeps(c, b) == c \in Bot /\ c.closed = b.closed /\ c.built = b.built

\* What the lock sections do to a bot keeps its flags in their types, and
\* only close makes it closed.
LEMMA BotSections ==
  ASSUME NEW b \in Bot
  PROVE  /\ Keeps(Started(b), b) /\ Keeps(Authenticated(b), b)
         /\ \A kind \in Failures : Keeps(Rejected(b, kind), b)
                                   /\ Keeps(BalanceFailed(b, kind), b)
         /\ \A late \in BOOLEAN : Closed(b, late) \in Bot
                                  /\ Closed(b, late).closed
                                  /\ Closed(b, late).built = b.built
<1> USE DEF Bot, AuthFailures, Failures
<1>1. Keeps(Started(b), b) /\ Keeps(Authenticated(b), b)
  BY DEF Keeps, Started, Authenticated
<1>2. \A late \in BOOLEAN : Closed(b, late) \in Bot /\ Closed(b, late).closed
                            /\ Closed(b, late).built = b.built
  BY DEF Closed
<1>3. \A kind \in Failures : Keeps(Rejected(b, kind), b)
  BY DEF Keeps, Rejected
<1>4. ASSUME NEW kind \in Failures PROVE Keeps(BalanceFailed(b, kind), b)
  <2> DEFINE seen == IF kind \in {"auth", "authz"} THEN Rejected(b, kind)
                                                   ELSE b
             blocked == b.retryBlocked \/ kind = "transient"
  <2>1. seen \in Bot /\ seen.closed = b.closed /\ seen.built = b.built
    <3>1. CASE kind \in {"auth", "authz"}
      BY <3>1, <1>3 DEF Keeps
    <3>2. CASE kind \notin {"auth", "authz"}
      BY <3>2
    <3>3. QED
      BY <3>1, <3>2
  <2>2. blocked \in BOOLEAN
    OBVIOUS
  <2>3. BalanceFailed(b, kind) = [seen EXCEPT !.balStatus = "UNAVAILABLE",
                                              !.retryBlocked = blocked]
    BY DEF BalanceFailed
  <2> HIDE DEF seen, blocked
  <2>4. QED
    BY <2>1, <2>2, <2>3 DEF Keeps
<1>5. QED
  BY <1>1, <1>2, <1>3, <1>4

\* A bot under construction is open.
LEMMA NewBotTyped == NewBot \in Bot /\ ~NewBot.built /\ ~NewBot.closed
BY DEF NewBot, Bot

\* A step that changes the flags of one bot, and neither its closing nor its
\* having been built, nor the instance, keeps the newest bot the only open one.
LEMMA FlagsOnly ==
  ASSUME TypeOK, OnlyNewestIsOpen, NEW r \in Requests, NEW b,
         Keeps(b, bot[r]),
         bot' = [bot EXCEPT ![r] = b], instance' = instance
  PROVE  OnlyNewestIsOpen' /\ bot' \in [Requests -> Bot]
BY DEF TypeOK, OnlyNewestIsOpen, Keeps

-----------------------------------------------------------------------------
\* The initial states satisfy the inductive invariant.
LEMMA InitIInv == Init => IInv
<1> SUFFICES ASSUME Init PROVE IInv
  OBVIOUS
<1> USE DEF Init
<1>1. TypeOK
  BY EntryAssumption, NewBotTyped DEF TypeOK, NoSize, PCs, Answers
<1>2. LockHeld /\ NotSizedYet
  BY DEF LockHeld, NotSizedYet, NoSize
<1>3. OnlyNewestIsOpen
  BY NewBotTyped DEF OnlyNewestIsOpen
<1>4. EntryIsLargestAllowed
  BY DEF EntryIsLargestAllowed, NoSize
<1>5. QED
  BY <1>1, <1>2, <1>3, <1>4 DEF IInv

\* The actions of a request, by what they leave alone.
LEMMA ContinueCases ==
  ASSUME NEW r \in Requests, EntryRequest(r) \/ Continue(r)
  PROVE  \/ ReplaceInstance(r)
         \/ BuildBot(r)
         \/ PriceForSize(r)
         \/ BalanceArrives(r)
         \/ /\ UNCHANGED <<lock, instance, size>>
            /\ StartBot(r) \/ BalanceLost(r) \/ OrderRefused(r)
               \/ RefreshArrives(r)
         \/ /\ UNCHANGED <<instance, bot, size>>
            /\ EntryRequest(r) \/ BuildFails(r) \/ PriceForOrder(r)
               \/ PlaceOrder(r) \/ MarketRejected(r) \/ SendOrder(r)
               \/ OrderAnswered(r) \/ OrderFailed(r)
BY DEF Continue, StartBot, BalanceLost, OrderRefused, RefreshArrives,
       EntryRequest, BuildFails, PriceForOrder, PlaceOrder, MarketRejected,
       SendOrder, OrderAnswered, OrderFailed, classVars

SizeType == [Requests -> [price : Prices \cup {0}, funds : Nat, qty : Nat]]

\* Every step keeps the variables in their types.
LEMMA TypeStep ==
  ASSUME IInv, [Next]_vars
  PROVE  TypeOK'
<1> USE DEF IInv, TypeOK, Goto, Answer, account, classVars, requestVars, vars,
            PCs, Answers
<1>1. CASE UNCHANGED vars
  BY <1>1
<1>2. CASE MarketMoves
  BY <1>2 DEF MarketMoves
<1>3. ASSUME NEW r \in Requests, EntryRequest(r) \/ Continue(r)
      PROVE  TypeOK'
  <2>1. CASE EntryRequest(r)
    BY <2>1 DEF EntryRequest
  <2>2. CASE ReplaceInstance(r)
    BY <2>2, BotSections DEF ReplaceInstance
  <2>3. CASE BuildFails(r)
    BY <2>3 DEF BuildFails
  <2>4. CASE BuildBot(r)
    <3>1. PICK b \in {Authenticated(NewBot)}
                     \cup {BalanceFailed(NewBot, kind) : kind \in Failures} :
            bot' = [bot EXCEPT ![r] = [b EXCEPT !.built = TRUE]]
      BY <2>4 DEF BuildBot
    <3>2. b \in Bot
      BY BotSections, NewBotTyped DEF Keeps
    <3>3. [b EXCEPT !.built = TRUE] \in Bot
      BY <3>2 DEF Bot
    <3>4. QED
      BY <2>4, <3>1, <3>3 DEF BuildBot
  <2>5. CASE StartBot(r)
    BY <2>5, BotSections DEF StartBot, Keeps
  <2>6. CASE PriceForOrder(r)
    BY <2>6 DEF PriceForOrder
  <2>7. CASE PriceForSize(r)
    <3>1. size' \in {size, [size EXCEPT ![r].price = price]}
      BY <2>7 DEF PriceForSize
    <3>2. size' \in SizeType
      BY <3>1 DEF SizeType
    <3>3. QED
      BY <2>7, <3>2 DEF PriceForSize, SizeType
  <2>8. CASE BalanceArrives(r)
    <3>1. PICK funds \in {free, 0} :
            LET qty == EntrySize(size[r].price, funds)
            IN  /\ size' = [size EXCEPT ![r].funds = funds, ![r].qty = qty]
                /\ IF qty > 0 THEN Goto(r, "sized") /\ UNCHANGED answer
                              ELSE Answer(r, "unsized")
      BY <2>8 DEF BalanceArrives
    <3>2. EntrySize(size[r].price, funds) \in Nat /\ funds \in Nat
      BY <2>8, SizeIsLargest DEF BalanceArrives, NotSizedYet
    <3> DEFINE qty == EntrySize(size[r].price, funds)
    <3>3. size' = [size EXCEPT ![r].funds = funds, ![r].qty = qty]
      BY <3>1
    <3>4. pc' \in [Requests -> PCs] /\ answer' \in [Requests -> Answers]
      BY <3>1
    <3> HIDE DEF qty
    <3>5. size' \in SizeType
      BY <3>2, <3>3 DEF SizeType, qty
    <3>6. bot' \in [Requests -> Bot]
      BY <2>8, BotSections DEF BalanceArrives, Keeps
    <3>7. QED
      BY <2>8, <3>4, <3>5, <3>6 DEF BalanceArrives, SizeType
  <2>9. CASE BalanceLost(r)
    <3>1. PICK kind \in Failures :
            bot' = [bot EXCEPT ![r] = BalanceFailed(bot[r], kind)]
      BY <2>9 DEF BalanceLost
    <3>2. BalanceFailed(bot[r], kind) \in Bot
      BY BotSections DEF Keeps
    <3>3. bot' \in [Requests -> Bot]
      BY <3>1, <3>2
    <3>4. QED
      BY <2>9, <3>3 DEF BalanceLost
  <2>10. CASE PlaceOrder(r) \/ MarketRejected(r)
    BY <2>10 DEF PlaceOrder, MarketRejected
  <2>11. CASE SendOrder(r)
    <3>1. PICK accepted \in BOOLEAN :
            /\ accepted => size[r].qty * price <= free
            /\ placed' = [placed EXCEPT ![r] = accepted]
            /\ free' = IF accepted THEN free - size[r].qty * price ELSE free
      BY <2>11 DEF SendOrder
    <3> DEFINE cost == size[r].qty * price
    <3>2. cost \in Nat
      BY EntryAssumption
    <3>3. accepted => cost <= free
      BY <3>1
    <3>4. free' = IF accepted THEN free - cost ELSE free
      BY <3>1
    <3> HIDE DEF cost
    <3>5. free' \in Nat
      BY <3>2, <3>3, <3>4
    <3>6. QED
      BY <2>11, <3>1, <3>5 DEF SendOrder
  <2>12. CASE OrderAnswered(r) \/ OrderFailed(r)
    BY <2>12 DEF OrderAnswered, OrderFailed
  <2>13. CASE OrderRefused(r)
    BY <2>13, BotSections DEF OrderRefused, Keeps, Failures
  <2>14. CASE RefreshArrives(r)
    BY <2>14, BotSections DEF RefreshArrives, Keeps
  <2>15. QED
    BY <1>3, <2>1, <2>2, <2>3, <2>4, <2>5, <2>6, <2>7, <2>8, <2>9, <2>10,
       <2>11, <2>12, <2>13, <2>14 DEF Continue
<1>4. QED
  BY <1>1, <1>2, <1>3 DEF Next

\* Only one request at a time is building its bot.
LEMMA LockStep ==
  ASSUME IInv, [Next]_vars
  PROVE  LockHeld'
<1> USE DEF IInv, TypeOK, LockHeld, Goto, Answer, account, classVars,
            requestVars, vars
<1>1. CASE UNCHANGED vars
  BY <1>1
<1>2. CASE MarketMoves
  BY <1>2 DEF MarketMoves
<1>3. ASSUME NEW r \in Requests, EntryRequest(r) \/ Continue(r)
      PROVE  LockHeld'
  <2>1. CASE ReplaceInstance(r)
    BY <2>1, EntryAssumption DEF ReplaceInstance
  <2>2. CASE BuildFails(r) \/ BuildBot(r)
    BY <2>2 DEF BuildFails, BuildBot
  <2>3. CASE EntryRequest(r) \/ StartBot(r) \/ PriceForOrder(r)
             \/ PriceForSize(r)
    BY <2>3 DEF EntryRequest, StartBot, PriceForOrder, PriceForSize
  <2>4. CASE BalanceArrives(r) \/ BalanceLost(r)
    BY <2>4 DEF BalanceArrives, BalanceLost
  <2>5. CASE PlaceOrder(r) \/ MarketRejected(r) \/ SendOrder(r)
    BY <2>5 DEF PlaceOrder, MarketRejected, SendOrder
  <2>6. CASE OrderAnswered(r) \/ OrderRefused(r) \/ OrderFailed(r)
             \/ RefreshArrives(r)
    BY <2>6 DEF OrderAnswered, OrderRefused, OrderFailed, RefreshArrives
  <2>7. QED
    BY <1>3, <2>1, <2>2, <2>3, <2>4, <2>5, <2>6 DEF Continue
<1>4. QED
  BY <1>1, <1>2, <1>3 DEF Next

\* The size of an entry is set once, when the balance arrives.
LEMMA SizeStep ==
  ASSUME IInv, [Next]_vars
  PROVE  NotSizedYet' /\ EntryIsLargestAllowed'
<1> USE DEF IInv, TypeOK, NotSizedYet, EntryIsLargestAllowed, Goto, Answer,
            account, classVars, requestVars, vars
<1>1. CASE UNCHANGED vars
  BY <1>1
<1>2. CASE MarketMoves
  BY <1>2 DEF MarketMoves
<1>3. ASSUME NEW r \in Requests, EntryRequest(r) \/ Continue(r)
      PROVE  NotSizedYet' /\ EntryIsLargestAllowed'
  <2>1. CASE PriceForSize(r)
    <3>1. size' \in {size, [size EXCEPT ![r].price = price]}
      BY <2>1 DEF PriceForSize
    <3>2. size[r].qty = 0
      BY <2>1 DEF PriceForSize
    <3>3. \A s \in Requests : size'[s].qty = size[s].qty
                              /\ (s # r => size'[s] = size[s])
      BY <3>1
    <3>4. EntryIsLargestAllowed'
      BY <3>2, <3>3
    <3>5. pc'[r] = "balance" => size'[r].price \in Prices
      BY <2>1 DEF PriceForSize
    <3>6. QED
      BY <2>1, <3>2, <3>3, <3>4, <3>5 DEF PriceForSize
  <2>2. CASE BalanceArrives(r)
    <3>1. PICK funds \in {free, 0} :
            LET qty == EntrySize(size[r].price, funds)
            IN  /\ size' = [size EXCEPT ![r].funds = funds, ![r].qty = qty]
                /\ IF qty > 0 THEN Goto(r, "sized") /\ UNCHANGED answer
                              ELSE Answer(r, "unsized")
      BY <2>2 DEF BalanceArrives
    <3> DEFINE p == size[r].price
               q == EntrySize(p, funds)
    <3>2. p \in Prices /\ funds \in Nat
      BY <2>2 DEF BalanceArrives
    <3>3. /\ q \in Nat
          /\ q > 0 => /\ Allowed(q, p, funds)
                      /\ ~Allowed(q + 1, p, funds)
                      /\ (q + 1) * p > Limits.minNotional
      BY <3>2, SizeIsLargest
    <3>4. /\ size'[r].price = p /\ size'[r].funds = funds /\ size'[r].qty = q
          /\ \A s \in Requests : s # r => size'[s] = size[s]
      BY <3>1
    <3>5. pc' \in {[pc EXCEPT ![r] = "sized"], [pc EXCEPT ![r] = "answered"]}
      BY <3>1
    <3> HIDE DEF p, q
    <3>6. EntryIsLargestAllowed'
      BY <3>3, <3>4
    <3>7. NotSizedYet'
      BY <3>4, <3>5
    <3>8. QED
      BY <3>6, <3>7
  <2>3. CASE UNCHANGED size
    <3>1. EntryIsLargestAllowed'
      BY <2>3
    <3>2. ASSUME ~PriceForSize(r), ~BalanceArrives(r)
          PROVE  NotSizedYet'
      <4>1. CASE EntryRequest(r) \/ ReplaceInstance(r) \/ BuildFails(r)
                 \/ BuildBot(r) \/ StartBot(r) \/ PriceForOrder(r)
        BY <2>3, <4>1 DEF EntryRequest, ReplaceInstance, BuildFails, BuildBot,
                          StartBot, PriceForOrder
      <4>2. CASE BalanceLost(r) \/ PlaceOrder(r) \/ MarketRejected(r)
                 \/ SendOrder(r)
        BY <2>3, <4>2 DEF BalanceLost, PlaceOrder, MarketRejected, SendOrder
      <4>3. CASE OrderAnswered(r) \/ OrderRefused(r) \/ OrderFailed(r)
                 \/ RefreshArrives(r)
        BY <2>3, <4>3 DEF OrderAnswered, OrderRefused, OrderFailed,
                          RefreshArrives
      <4>4. QED
        BY <1>3, <3>2, <4>1, <4>2, <4>3 DEF Continue
    <3>3. QED
      BY <2>1, <2>2, <3>1, <3>2
  <2>4. QED
    BY <1>3, <2>1, <2>2, <2>3, ContinueCases
       DEF ReplaceInstance, BuildBot, StartBot
<1>4. QED
  BY <1>1, <1>2, <1>3 DEF Next

\* The newest bot stays the only open one.
LEMMA OpenStep ==
  ASSUME IInv, [Next]_vars
  PROVE  OnlyNewestIsOpen'
<1> USE DEF IInv, TypeOK, OnlyNewestIsOpen, Goto, Answer, account, classVars,
            requestVars, vars
<1>1. CASE UNCHANGED vars
  BY <1>1
<1>2. CASE MarketMoves
  BY <1>2 DEF MarketMoves
<1>3. ASSUME NEW r \in Requests, EntryRequest(r) \/ Continue(r)
      PROVE  OnlyNewestIsOpen'
  <2>1. CASE ReplaceInstance(r)
    <3>1. CASE instance = None
      BY <2>1, <3>1, EntryAssumption DEF ReplaceInstance
    <3>2. CASE instance # None
      <4> DEFINE past == pc[instance] = "gated"
                 c == Closed(bot[instance], past)
      <4>1. instance \in Requests /\ past \in BOOLEAN
        BY <3>2
      <4>2. c.closed /\ c.built = bot[instance].built
        BY <4>1, BotSections
      <4>3. bot' = [bot EXCEPT ![instance] = c]
        BY <2>1, <3>2 DEF ReplaceInstance
      <4> HIDE DEF c
      <4>4. QED
        BY <4>1, <4>2, <4>3
    <3>3. QED
      BY <3>1, <3>2
  <2>2. CASE BuildBot(r)
    <3>1. instance = None /\ instance' = r
      BY <2>2 DEF BuildBot, LockHeld
    <3>2. \A s \in Requests : s # r => bot'[s] = bot[s]
      BY <2>2 DEF BuildBot
    <3>3. QED
      BY <3>1, <3>2, EntryAssumption
  <2>3. CASE PriceForSize(r)
    BY <2>3 DEF PriceForSize
  <2>4. CASE BalanceArrives(r) \/ StartBot(r)
    <3>1. \E b \in {Authenticated(bot[r]), Started(bot[r])} :
            bot' = [bot EXCEPT ![r] = b]
      BY <2>4 DEF BalanceArrives, StartBot
    <3>2. instance' = instance
      BY <2>4 DEF BalanceArrives, StartBot
    <3>3. QED
      BY <3>1, <3>2, BotSections, FlagsOnly
  <2>5. CASE BalanceLost(r) \/ OrderRefused(r) \/ RefreshArrives(r)
    <3>1. \/ bot' = bot
          \/ bot' = [bot EXCEPT ![r] = Authenticated(bot[r])]
          \/ \E kind \in Failures :
               \/ bot' = [bot EXCEPT ![r] = Rejected(bot[r], kind)]
               \/ bot' = [bot EXCEPT ![r] = BalanceFailed(bot[r], kind)]
      BY <2>5 DEF BalanceLost, OrderRefused, RefreshArrives, Failures
    <3>2. instance' = instance
      BY <2>5 DEF BalanceLost, OrderRefused, RefreshArrives
    <3>3. bot[r] \in Bot
      OBVIOUS
    <3>4. /\ Keeps(Authenticated(bot[r]), bot[r])
          /\ \A kind \in Failures :
               /\ Keeps(Rejected(bot[r], kind), bot[r])
               /\ Keeps(BalanceFailed(bot[r], kind), bot[r])
      BY <3>3, BotSections
    <3>5. bot' = bot \/ \E b : Keeps(b, bot[r]) /\ bot' = [bot EXCEPT ![r] = b]
      BY <3>1, <3>4
    <3>6. QED
      BY <3>2, <3>5, FlagsOnly
  <2>6. CASE UNCHANGED <<instance, bot>>
    BY <2>6
  <2>7. QED
    BY <1>3, <2>1, <2>2, <2>3, <2>4, <2>5, <2>6, ContinueCases
<1>4. QED
  BY <1>1, <1>2, <1>3 DEF Next

\* The inductive invariant holds.
LEMMA Invariant == Spec => []IInv
<1>1. IInv /\ [Next]_vars => IInv'
  BY TypeStep, LockStep, SizeStep, OpenStep DEF IInv
<1>2. QED
  BY InitIInv, <1>1, PTL DEF Spec

-----------------------------------------------------------------------------
\* The invariant TypeOK.
THEOREM Typing == Spec => []TypeOK
<1>1. IInv => TypeOK
  BY DEF IInv
<1>2. QED
  BY Invariant, <1>1, PTL

\* The invariant OnlyNewestIsOpen: get_instance leaves no bot but the newest
\* open, however many requests replace it.
THEOREM NewestOpen == Spec => []OnlyNewestIsOpen
<1>1. IInv => OnlyNewestIsOpen
  BY DEF IInv
<1>2. QED
  BY Invariant, <1>1, PTL

\* The invariant EntryIsLargestAllowed: for every limit, price and balance,
\* calculate_position_size asks for the largest quantity the limits admit.
THEOREM LargestAllowed == Spec => []EntryIsLargestAllowed
<1>1. IInv => EntryIsLargestAllowed
  BY DEF IInv
<1>2. QED
  BY Invariant, <1>1, PTL

-----------------------------------------------------------------------------
(* The bots follow the gate.                                               *)

\* Where a request is says what has become of its order, and a bot is built
\* by its own request only.
CallState ==
  \A r \in Requests :
    /\ pc[r] \in {"idle", "locking", "building"} => ~bot[r].built
    /\ pc[r] # "answered" => answer[r] = "none"
    /\ pc[r] \notin {"sent", "refreshing", "answered"} => ~placed[r] /\ ~sent[r]

\* Every step keeps the call states.
LEMMA CallStateStep ==
  ASSUME IInv, CallState, [Next]_vars
  PROVE  CallState'
<1> USE DEF IInv, TypeOK, CallState, Goto, Answer, account, classVars,
            requestVars, vars
<1>1. CASE UNCHANGED vars
  BY <1>1
<1>2. CASE MarketMoves
  BY <1>2 DEF MarketMoves
<1>3. ASSUME NEW r \in Requests, EntryRequest(r) \/ Continue(r)
      PROVE  CallState'
  <2>1. CASE EntryRequest(r) \/ BuildFails(r)
    BY <2>1 DEF EntryRequest, BuildFails
  <2>2. CASE ReplaceInstance(r)
    <3>1. \A s \in Requests : bot'[s].built = bot[s].built
      BY <2>2, BotSections DEF ReplaceInstance
    <3>2. QED
      BY <2>2, <3>1 DEF ReplaceInstance
  <2>3. CASE BuildBot(r)
    BY <2>3 DEF BuildBot
  <2>4. CASE StartBot(r) \/ PriceForOrder(r) \/ PriceForSize(r)
    BY <2>4 DEF StartBot, PriceForOrder, PriceForSize
  <2>5. CASE BalanceArrives(r)
    BY <2>5 DEF BalanceArrives
  <2>6. CASE BalanceLost(r)
    BY <2>6 DEF BalanceLost
  <2>7. CASE PlaceOrder(r) \/ MarketRejected(r)
    BY <2>7 DEF PlaceOrder, MarketRejected
  <2>8. CASE SendOrder(r)
    BY <2>8 DEF SendOrder
  <2>9. CASE OrderAnswered(r) \/ OrderFailed(r)
    BY <2>9 DEF OrderAnswered, OrderFailed
  <2>10. CASE OrderRefused(r)
    BY <2>10 DEF OrderRefused
  <2>11. CASE RefreshArrives(r)
    BY <2>11 DEF RefreshArrives
  <2>12. QED
    BY <1>3, <2>1, <2>2, <2>3, <2>4, <2>5, <2>6, <2>7, <2>8, <2>9, <2>10,
       <2>11 DEF Continue
<1>4. QED
  BY <1>1, <1>2, <1>3 DEF Next

\* What the gate of bot r is made of.
GateUnchanged(r) == UNCHANGED <<pc[r], answer[r], placed[r], sent[r]>>

\* A step that leaves bot r and its request alone is a stutter of its gate.
LEMMA Stutter ==
  ASSUME NEW r \in Requests, GateUnchanged(r), bot'[r] = bot[r]
  PROVE  UNCHANGED Gate(r)!vars
BY DEF GateUnchanged, Gate!vars, Gate!gateVars, Gate!callVars, Gate!ghosts,
       GatePC, GateResult

\* Closing bot r is a step of its gate, wherever its thread is.
LEMMA CloseFollows ==
  ASSUME NEW r \in Requests, bot[r] \in Bot, GateUnchanged(r),
         bot'[r] = Closed(bot[r], pc[r] = "gated")
  PROVE  Gate(r)!Close \/ UNCHANGED Gate(r)!vars
<1>1. CASE bot[r].closed
  BY <1>1, Stutter DEF Closed
<1>2. CASE ~bot[r].closed
  <2>1. GatePC(r) = "gated" <=> pc[r] = "gated"
    BY DEF GatePC
  <2>2. QED
    BY <1>2, <2>1
       DEF Closed, Bot, GateUnchanged, GatePC, GateResult,
           Gate!Close, Gate!PastGate, Gate!callVars
<1>3. QED
  BY <1>1, <1>2

\* A request closes the bot of another one and does nothing else to it.
LEMMA OthersFollow ==
  ASSUME IInv, NEW r \in Requests, NEW s \in Requests \ {r},
         EntryRequest(s) \/ Continue(s)
  PROVE  Gate(r)!Close \/ UNCHANGED Gate(r)!vars
<1> USE DEF IInv, TypeOK, Goto, Answer
<1>1. CASE ReplaceInstance(s)
  <2>1. GateUnchanged(r)
    BY <1>1 DEF ReplaceInstance, GateUnchanged
  <2>2. bot'[r] \in {bot[r], Closed(bot[r], pc[r] = "gated")}
    BY <1>1 DEF ReplaceInstance
  <2>3. QED
    BY <2>1, <2>2, Stutter, CloseFollows
<1>2. CASE ~ReplaceInstance(s)
  <2>1. GateUnchanged(r) /\ bot'[r] = bot[r]
    <3>1. CASE EntryRequest(s) \/ BuildFails(s) \/ BuildBot(s) \/ StartBot(s)
      BY <3>1 DEF EntryRequest, BuildFails, BuildBot, StartBot, GateUnchanged
    <3>2. CASE PriceForOrder(s) \/ PriceForSize(s) \/ BalanceArrives(s)
               \/ BalanceLost(s)
      BY <3>2 DEF PriceForOrder, PriceForSize, BalanceArrives, BalanceLost,
                  GateUnchanged
    <3>3. CASE PlaceOrder(s) \/ MarketRejected(s) \/ SendOrder(s)
      BY <3>3 DEF PlaceOrder, MarketRejected, SendOrder, GateUnchanged
    <3>4. CASE OrderAnswered(s) \/ OrderRefused(s) \/ OrderFailed(s)
               \/ RefreshArrives(s)
      BY <3>4 DEF OrderAnswered, OrderRefused, OrderFailed, RefreshArrives,
                  GateUnchanged
    <3>5. QED
      BY <1>2, <3>1, <3>2, <3>3, <3>4 DEF Continue
  <2>2. QED
    BY <2>1, Stutter
<1>3. QED
  BY <1>1, <1>2

\* The flags of a bot after the wallet read of its constructor.
Begins(b) ==
  /\ b.running = FALSE /\ b.closed = FALSE /\ b.execEnabled = FALSE
  /\ b.late = FALSE /\ b.retryBlocked \in BOOLEAN
  /\ \/ /\ b.auth = "AUTHENTICATED" /\ b.liveAvailable = TRUE
        /\ b.balStatus = "AVAILABLE"
        /\ b.retryBlocked = FALSE /\ b.funded = TRUE
     \/ /\ b.auth \in AuthFailures /\ b.liveAvailable = FALSE
        /\ b.balStatus = "UNAVAILABLE"
        /\ b.retryBlocked = FALSE /\ b.funded = FALSE
     \/ /\ b.auth = "UNKNOWN" /\ b.liveAvailable = TRUE
        /\ b.balStatus = "UNAVAILABLE" /\ b.funded = FALSE

\* A request builds its bot as TradingBot says a bot begins.
LEMMA BuiltAsGateBegins ==
  ASSUME IInv, CallState, NEW r \in Requests, BuildBot(r)
  PROVE  Gate(r)!Init'
<1> USE DEF IInv, TypeOK, Goto
<1>1. PICK b \in {Authenticated(NewBot)}
                 \cup {BalanceFailed(NewBot, kind) : kind \in Failures} :
        bot' = [bot EXCEPT ![r] = [b EXCEPT !.built = TRUE]]
  BY DEF BuildBot
<1>2. bot'[r] = [b EXCEPT !.built = TRUE]
  BY <1>1
<1>3. pc'[r] = "built" /\ answer'[r] = "none" /\ ~placed'[r] /\ ~sent'[r]
      /\ placed'[r] = FALSE /\ sent'[r] = FALSE
  BY DEF BuildBot, CallState
<1>4. Begins(bot'[r])
  <2>1. CASE b = Authenticated(NewBot)
    BY <1>2, <2>1 DEF Authenticated, NewBot, Begins
  <2>2. ASSUME NEW kind \in Failures, b = BalanceFailed(NewBot, kind)
        PROVE  Begins(bot'[r])
    BY <1>2, <2>2
       DEF BalanceFailed, Rejected, NewBot, Begins, Failures, AuthFailures
  <2>3. QED
    BY <2>1, <2>2
<1>5. QED
  BY <1>3, <1>4
     DEF Begins, Gate!Init, Gate!InitReal, Gate!InitSimulator, Gate!IsReal,
         LiveConfig, Gate!AuthStatus, Gate!AuthFailures, Gate!BalanceStatus,
         AuthFailures,
         GatePC, GateResult

\* The thread of the request takes the steps of its bot.
LEMMA OwnFollow ==
  ASSUME IInv, CallState, NEW r \in Requests, bot[r].built,
         EntryRequest(r) \/ Continue(r)
  PROVE  Gate(r)!Next \/ UNCHANGED Gate(r)!vars
<1> USE DEF IInv, TypeOK, Goto, Answer, GatePC, GateResult
<1>0. /\ pc[r] \notin {"idle", "locking", "building"}
      /\ pc[r] # "answered" => answer[r] = "none"
      /\ pc[r] \notin {"sent", "refreshing", "answered"} =>
           placed[r] = FALSE /\ sent[r] = FALSE
      /\ bot[r] \in Bot
  BY DEF CallState
<1>1. CASE EntryRequest(r) \/ ReplaceInstance(r) \/ BuildFails(r)
           \/ BuildBot(r)
  BY <1>0, <1>1 DEF EntryRequest, ReplaceInstance, BuildFails, BuildBot
<1>2. CASE StartBot(r)
  <2>1. CASE bot[r].running
    <3>1. bot'[r] = bot[r]
      BY <1>2, <2>1 DEF StartBot, Started
    <3>2. QED
      BY <1>0, <1>2, <3>1
         DEF StartBot, Gate!vars, Gate!gateVars, Gate!callVars, Gate!ghosts
  <2>2. CASE ~bot[r].running
    <3>1. Gate(r)!Start
      BY <1>0, <1>2, <2>2
         DEF StartBot, Started, Bot, Gate!Start, Gate!IsReal, LiveConfig,
             Gate!callVars, Gate!ghosts
    <3>2. QED
      BY <3>1 DEF Gate!Next
  <2>3. QED
    BY <2>1, <2>2
<1>3. CASE PriceForOrder(r)
  BY <1>0, <1>3
     DEF PriceForOrder, Gate!vars, Gate!gateVars, Gate!callVars, Gate!ghosts
<1>4. CASE PriceForSize(r)
  <2>1. CASE pc'[r] = "balance"
    <3>1. Gate(r)!GetBalanceFresh(r, "quote")
      BY <1>0, <1>4, <2>1
         DEF PriceForSize, Gate!GetBalanceFresh, Gate!Goto, Gate!gateVars,
             Gate!ghosts
    <3>2. QED
      BY <3>1 DEF Gate!Next, Gate!Begin, Gate!Assets
  <2>2. CASE pc'[r] # "balance"
    BY <1>0, <1>4, <2>2
       DEF PriceForSize, Gate!vars, Gate!gateVars, Gate!callVars, Gate!ghosts
  <2>3. QED
    BY <2>1, <2>2
<1>5. CASE BalanceArrives(r)
  BY <1>0, <1>5
     DEF BalanceArrives, Authenticated, Bot, Gate!Next, Gate!Finish,
         Gate!BalanceArrives, Gate!RecordSuccessfulAuth, Gate!Goto,
         Gate!IsReal, LiveConfig
<1>6. CASE BalanceLost(r)
  <2>1. PICK kind \in Failures :
          bot' = [bot EXCEPT ![r] = BalanceFailed(bot[r], kind)]
    BY <1>6 DEF BalanceLost
  <2>2. Gate(r)!HandleBalanceException(kind)
    BY <1>0, <2>1
       DEF Gate!HandleBalanceException, Gate!MarkFailed, BalanceFailed,
           Rejected, Failures, Bot
  <2>3. QED
    BY <1>0, <1>6, <2>1, <2>2
       DEF BalanceLost, Gate!Next, Gate!Finish, Gate!BalanceArrives,
           Gate!CanFail, Gate!Goto, Gate!IsReal, LiveConfig, Failures,
           Gate!Failures, BalanceFailed, Rejected, Bot
<1>7. CASE PlaceOrder(r)
  <2>1. Gate(r)!CanPlaceOrder <=> CanPlaceOrder(bot[r])
    BY DEF Gate!CanPlaceOrder, CanPlaceOrder, Gate!IsReal, LiveConfig,
           Gate!AuthFailures, AuthFailures
  <2>2. QED
    BY <1>0, <1>7, <2>1
       DEF PlaceOrder, Gate!Next, Gate!Begin, Gate!PlaceOrder, Gate!Return,
           Gate!Goto, Gate!gateVars, Gate!ghosts
<1>8. CASE MarketRejected(r)
  BY <1>0, <1>8
     DEF MarketRejected, Gate!Next, Gate!Finish, Gate!MarketRejected,
         Gate!Return, Gate!Goto, Gate!gateVars, Gate!ghosts, Gate!IsReal,
         LiveConfig
<1>9. CASE SendOrder(r)
  BY <1>0, <1>9
     DEF SendOrder, Gate!Next, Gate!Finish, Gate!SendOrder, Gate!Goto,
         Gate!gateVars
<1>10. CASE OrderAnswered(r)
  BY <1>0, <1>10
     DEF OrderAnswered, Gate!Next, Gate!Finish, Gate!OrderAnswered,
         Gate!Return, Gate!Goto, Gate!gateVars, Gate!ghosts
<1>11. CASE OrderRefused(r)
  <2>1. /\ pc[r] = "sent" /\ ~placed[r] /\ pc'[r] = "answered"
        /\ answer'[r] = "rejected" /\ placed' = placed /\ sent' = sent
    BY <1>11 DEF OrderRefused
  <2>2. CASE bot' = bot
    BY <2>1, <2>2
       DEF Gate!Next, Gate!Finish, Gate!OrderRefused, Gate!Return, Gate!Goto,
           Gate!ghosts
  <2>3. ASSUME NEW kind \in {"auth", "authz"},
               bot' = [bot EXCEPT ![r] = Rejected(@, kind)]
        PROVE  Gate(r)!Next
    <3>1. bot'[r] = Rejected(bot[r], kind)
      BY <2>3
    <3>2. Gate(r)!MarkFailed("AUTH_FAILED")
          \/ Gate(r)!MarkFailed("AUTHORIZATION_FAILED")
      BY <1>0, <3>1 DEF Gate!MarkFailed, Rejected, Bot
    <3>3. /\ bot'[r].running = bot[r].running /\ bot'[r].closed = bot[r].closed
          /\ bot'[r].balStatus = bot[r].balStatus
          /\ bot'[r].retryBlocked = bot[r].retryBlocked
          /\ bot'[r].funded = bot[r].funded /\ bot'[r].late = bot[r].late
      BY <1>0, <3>1 DEF Rejected, Bot
    <3>4. Gate(r)!Return(r, "rejected")
      BY <2>1 DEF Gate!Return, Gate!Goto
    <3>5. Gate(r)!OrderRefused(r)
      BY <2>1, <3>2, <3>3, <3>4
         DEF Gate!OrderRefused, Gate!ghosts, Gate!IsReal, LiveConfig
    <3>6. QED
      BY <3>5 DEF Gate!Next, Gate!Finish
  <2>4. QED
    BY <1>11, <2>2, <2>3 DEF OrderRefused
<1>12. CASE OrderFailed(r)
  BY <1>0, <1>12
     DEF OrderFailed, Gate!Next, Gate!Finish, Gate!OrderFailed, Gate!Return,
         Gate!Goto, Gate!gateVars, Gate!ghosts, Gate!IsReal, LiveConfig
<1>13. CASE RefreshArrives(r)
  <2>1. /\ pc[r] = "refreshing" /\ pc'[r] = "answered"
        /\ answer'[r] = "ok" /\ placed' = placed /\ sent' = sent
    BY <1>13 DEF RefreshArrives
  <2>2. CASE bot'[r] = Authenticated(bot[r])
    <3>1. Gate(r)!RecordSuccessfulAuth("quote")
      BY <1>0, <2>2
         DEF Gate!RecordSuccessfulAuth, Authenticated, Bot, Gate!IsReal,
             LiveConfig
    <3>2. bot'[r].late = bot[r].late
      BY <1>0, <2>2 DEF Authenticated, Bot
    <3>3. Gate(r)!Return(r, "ok")
      BY <2>1 DEF Gate!Return, Gate!Goto
    <3>4. Gate(r)!RefreshArrives(r)
      BY <2>1, <3>1, <3>2, <3>3 DEF Gate!RefreshArrives
    <3>5. QED
      BY <3>4 DEF Gate!Next, Gate!Finish
  <2>3. ASSUME NEW kind \in Failures,
               bot'[r] = BalanceFailed(bot[r], kind)
        PROVE  Gate(r)!Next
    <3>1. Gate(r)!HandleBalanceException(kind)
      BY <1>0, <2>3
         DEF Gate!HandleBalanceException, Gate!MarkFailed, BalanceFailed,
             Rejected, Failures, Bot
    <3>2. bot'[r].late = bot[r].late
      BY <1>0, <2>3 DEF BalanceFailed, Rejected, Bot
    <3>3. Gate(r)!Return(r, "ok")
      BY <2>1 DEF Gate!Return, Gate!Goto
    <3>4. Gate(r)!CanFail(kind) /\ kind \in Gate(r)!Failures
      BY DEF Gate!CanFail, Gate!IsReal, LiveConfig, Failures, Gate!Failures
    <3>5. Gate(r)!RefreshArrives(r)
      BY <2>1, <3>1, <3>2, <3>3, <3>4 DEF Gate!RefreshArrives
    <3>6. QED
      BY <3>5 DEF Gate!Next, Gate!Finish
  <2>4. QED
    BY <1>13, <2>2, <2>3 DEF RefreshArrives
<1>14. QED
  BY <1>1, <1>2, <1>3, <1>4, <1>5, <1>6, <1>7, <1>8, <1>9, <1>10, <1>11,
     <1>12, <1>13 DEF Continue

\* BotsFollowTheGate: TradingBotProofs' theorems hold of every bot.

\* Only its own request builds a bot.
LEMMA OthersBuildNothing ==
  ASSUME IInv, NEW r \in Requests, NEW s \in Requests,
         EntryRequest(s) \/ Continue(s), ~bot[r].built, bot'[r].built
  PROVE  s = r /\ BuildBot(r)
<1> USE DEF IInv, TypeOK
<1>1. CASE EntryRequest(s) \/ BuildFails(s) \/ PriceForOrder(s)
           \/ PriceForSize(s) \/ PlaceOrder(s) \/ MarketRejected(s)
           \/ SendOrder(s) \/ OrderAnswered(s) \/ OrderFailed(s)
  BY <1>1 DEF EntryRequest, BuildFails, PriceForOrder, PriceForSize,
              PlaceOrder, MarketRejected, SendOrder, OrderAnswered, OrderFailed
<1>2. CASE ReplaceInstance(s)
  BY <1>2, BotSections DEF ReplaceInstance
<1>3. CASE StartBot(s) \/ BalanceArrives(s)
  BY <1>3, BotSections DEF StartBot, BalanceArrives, Keeps
<1>4. \A kind \in Failures : BalanceFailed(bot[s], kind).built = bot[s].built
  BY BotSections DEF Keeps
<1>5. CASE BalanceLost(s)
  BY <1>4, <1>5 DEF BalanceLost
<1>6. CASE OrderRefused(s)
  BY <1>6, BotSections DEF OrderRefused, Keeps, Failures
<1>7. CASE RefreshArrives(s)
  <2>1. Authenticated(bot[s]).built = bot[s].built
    BY BotSections DEF Keeps
  <2>2. QED
    BY <1>4, <1>7, <2>1 DEF RefreshArrives
<1>8. CASE BuildBot(s)
  BY <1>8 DEF BuildBot
<1>9. QED
  BY <1>1, <1>2, <1>3, <1>5, <1>6, <1>7, <1>8 DEF Continue

\* BotsFollowTheGate: get_instance builds every bot as the gate begins, and
\* whatever the requests do to it, each of its steps is a step of the gate, so
\* that the theorems about TradingBot hold of each bot in turn.
THEOREM FollowTheGate == Spec => BotsFollowTheGate
<1>1. Init => CallState
  BY NewBotTyped DEF Init, CallState
<1>2. IInv /\ CallState /\ [Next]_vars => CallState'
  BY CallStateStep
<1>3. IInv /\ CallState /\ Next =>
        \A r \in Requests :
          /\ ~bot[r].built /\ bot'[r].built => Gate(r)!Init'
          /\ bot[r].built => [Gate(r)!Next]_(Gate(r)!vars)
  <2> SUFFICES ASSUME IInv, CallState, Next, NEW r \in Requests
               PROVE  /\ ~bot[r].built /\ bot'[r].built => Gate(r)!Init'
                      /\ bot[r].built => Gate(r)!Next \/ UNCHANGED Gate(r)!vars
    OBVIOUS
  <2>1. CASE MarketMoves
    <3>1. GateUnchanged(r) /\ bot' = bot
      BY <2>1 DEF MarketMoves, GateUnchanged, requestVars
    <3>2. QED
      BY <3>1, Stutter
  <2>2. ASSUME NEW s \in Requests, EntryRequest(s) \/ Continue(s)
        PROVE  /\ ~bot[r].built /\ bot'[r].built => Gate(r)!Init'
               /\ bot[r].built => Gate(r)!Next \/ UNCHANGED Gate(r)!vars
    <3>1. ~bot[r].built /\ bot'[r].built => Gate(r)!Init'
      BY <2>2, OthersBuildNothing, BuiltAsGateBegins
    <3>2. ASSUME bot[r].built
          PROVE  Gate(r)!Next \/ UNCHANGED Gate(r)!vars
      <4>1. CASE s = r
        BY <2>2, <3>2, <4>1, OwnFollow
      <4>2. CASE s # r
        BY <2>2, <4>2, OthersFollow DEF Gate!Next
      <4>3. QED
        BY <4>1, <4>2
    <3>3. QED
      BY <3>1, <3>2
  <2>3. QED
    BY <2>1, <2>2 DEF Next
<1>4. QED
  BY Invariant, <1>1, <1>2, <1>3, PTL DEF Spec, BotsFollowTheGate
=============================================================================
