--------------------------- MODULE TradingProofs ---------------------------
(***************************************************************************)
(* What the trading bot and paper trading promise, for every set of        *)
(* threads and of configurations, and for every set of users, requests,    *)
(* prices and percentages.  The two share no state.                        *)
(***************************************************************************)
EXTENDS TradingBot, PaperTrading, WellFoundedInduction, TLAPS

-----------------------------------------------------------------------------
(***************************************************************************)
(* The trading bot.  Its invariants are proved together: IInv is           *)
(* inductive, and each invariant follows from it.                          *)
(***************************************************************************)
\* No thread of a paper bot on a real exchange is ever past the gate.
PaperNeverPastGate ==
  (IsReal /\ config.mode = "paper") => ~sent /\ PastGate = {}

\* What the flags of a real exchange say of each other: live trading is not
\* available with rejected credentials; an AVAILABLE balance was once read,
\* and so was one by every thread about to apply an enable.
RealFlags ==
  IsReal => /\ execEnabled => liveAvailable /\ funded
            /\ liveAvailable => auth \notin AuthFailures
            /\ balStatus = "AVAILABLE" => funded
            /\ \A t \in Threads : pc[t] = "enableApply" => funded

\* An order call in progress has reported nothing yet, and before the request
\* leaves, the exchange has accepted nothing.
CallInProgress ==
  \A t \in Threads :
    /\ pc[t] = "gated" => ~placed[t]
    /\ pc[t] \in {"gated", "sent", "refreshing"} => result[t] # "rejected"

IInv ==
  /\ TypeOK
  /\ PaperNeverPastGate
  /\ ExecutionOnlyWhileRunning
  /\ RealFlags
  /\ CallInProgress
  /\ RejectedIsNotPlaced
  /\ StopAdmitsNoNewOrder

-----------------------------------------------------------------------------
\* The constructor leaves the bot in a state that satisfies the invariant.
LEMMA InitIInv == Init => IInv
  <1> SUFFICES ASSUME Init PROVE IInv
    OBVIOUS
  <1> USE DEF Init
  <1>1. TypeOK
    BY DEF TypeOK, PCs, Assets
  <1>2. PaperNeverPastGate /\ ExecutionOnlyWhileRunning
    BY DEF PaperNeverPastGate, PastGate, ExecutionOnlyWhileRunning
  <1>3. RealFlags
    BY DEF RealFlags, InitSimulator, InitReal, AuthFailures
  <1>4. CallInProgress /\ RejectedIsNotPlaced /\ StopAdmitsNoNewOrder
    BY DEF CallInProgress, RejectedIsNotPlaced, StopAdmitsNoNewOrder, PastGate
  <1>5. QED
    BY <1>1, <1>2, <1>3, <1>4 DEF IInv

\* Every step keeps the variables in their types.
LEMMA TypeStep == TypeOK /\ [Next]_vars => TypeOK'
  <1> SUFFICES ASSUME TypeOK, [Next]_vars PROVE TypeOK'
    OBVIOUS
  <1> USE DEF TypeOK, callVars, ghosts, gateVars, AuthFailures, AuthStatus,
              BalanceStatus
  <1>1. CASE Start
    BY <1>1 DEF Start
  <1>2. CASE Stop
    BY <1>2 DEF Stop, PastGate
  <1>3. CASE Close
    BY <1>3 DEF Close, PastGate
  <1>4. CASE DisableLiveTrading
    BY <1>4 DEF DisableLiveTrading
  <1>5. CASE BackoffExpires
    BY <1>5 DEF BackoffExpires
  <1>6. ASSUME NEW t \in Threads, Begin(t) PROVE TypeOK'
    <2>1. ASSUME NEW a \in Assets, GetBalance(t, a) PROVE TypeOK'
      BY <2>1 DEF GetBalance, Goto, PCs
    <2>2. ASSUME NEW a \in Assets, GetBalanceFresh(t, a) PROVE TypeOK'
      BY <2>2 DEF GetBalanceFresh, Goto, PCs
    <2>3. CASE EnableSimulator(t)
      BY <2>3 DEF EnableSimulator
    <2>4. CASE EnableLiveTrading(t)
      BY <2>4 DEF EnableLiveTrading, Goto, PCs
    <2>5. CASE PlaceOrder(t)
      BY <2>5 DEF PlaceOrder, Return, Goto, PCs
    <2>6. QED
      BY <1>6, <2>1, <2>2, <2>3, <2>4, <2>5 DEF Begin
  <1>7. ASSUME NEW t \in Threads, Finish(t) PROVE TypeOK'
    <2> USE DEF Goto, Return, PCs
    <2>1. CASE BalanceArrives(t)
      BY <2>1 DEF BalanceArrives, RecordSuccessfulAuth,
                  HandleBalanceException, MarkFailed
    <2>2. CASE EnableBalanceArrives(t)
      BY <2>2 DEF EnableBalanceArrives, RecordSuccessfulAuth,
                  HandleBalanceException, MarkFailed
    <2>3. CASE EnableApply(t)
      BY <2>3 DEF EnableApply
    <2>4. CASE MarketRejected(t)
      BY <2>4 DEF MarketRejected
    <2>5. CASE SendOrder(t)
      BY <2>5 DEF SendOrder
    <2>6. CASE OrderAnswered(t)
      BY <2>6 DEF OrderAnswered
    <2>7. CASE OrderRefused(t)
      BY <2>7 DEF OrderRefused, MarkFailed
    <2>8. CASE OrderFailed(t)
      BY <2>8 DEF OrderFailed
    <2>9. CASE RefreshArrives(t)
      BY <2>9 DEF RefreshArrives, RecordSuccessfulAuth,
                  HandleBalanceException, MarkFailed
    <2>10. QED
      BY <1>7, <2>1, <2>2, <2>3, <2>4, <2>5, <2>6, <2>7, <2>8, <2>9 DEF Finish
  <1>8. CASE UNCHANGED vars
    BY <1>8 DEF vars
  <1>9. QED
    BY <1>1, <1>2, <1>3, <1>4, <1>5, <1>6, <1>7, <1>8 DEF Next

\* Every reachable state is well typed.
THEOREM Typing == Spec => []TypeOK
  <1>1. Init => TypeOK
    BY InitIInv DEF IInv
  <1>2. QED
    BY <1>1, TypeStep, PTL DEF Spec

-----------------------------------------------------------------------------
(***************************************************************************)
(* The inductive step, one lemma per conjunct of IInv.                     *)
(***************************************************************************)
\* Only place_order moves a thread past the gate, and only while it holds.
LEMMA PastGateStep ==
  TypeOK /\ [Next]_vars =>
    \/ PastGate' \subseteq PastGate
    \/ CanPlaceOrder /\ UNCHANGED <<config, running>>
  <1> SUFFICES ASSUME TypeOK, [Next]_vars,
                      ~(CanPlaceOrder /\ UNCHANGED <<config, running>>)
               PROVE  PastGate' \subseteq PastGate
    OBVIOUS
  <1>1. ASSUME NEW t \in Threads, NEW l \in PCs \ {"gated"}, Goto(t, l)
        PROVE  PastGate' \subseteq PastGate
    BY <1>1 DEF PastGate, Goto, TypeOK, PCs
  <1>2. ASSUME UNCHANGED pc PROVE PastGate' \subseteq PastGate
    BY <1>2 DEF PastGate
  <1>3. CASE Start \/ Stop \/ Close \/ DisableLiveTrading \/ BackoffExpires
    BY <1>2, <1>3 DEF Start, Stop, Close, DisableLiveTrading, BackoffExpires,
                      callVars
  <1>4. ASSUME NEW t \in Threads, Begin(t)
        PROVE  PastGate' \subseteq PastGate
    <2>1. CASE EnableSimulator(t)
      BY <1>2, <2>1 DEF EnableSimulator, callVars
    <2>2. CASE PlaceOrder(t)
      BY <1>1, <2>2 DEF PlaceOrder, Return, PCs, gateVars
    <2>3. QED
      BY <1>1, <1>4, <2>1, <2>2 DEF Begin, GetBalance, GetBalanceFresh,
                                    EnableLiveTrading, PCs
  <1>5. ASSUME NEW t \in Threads, Finish(t)
        PROVE  PastGate' \subseteq PastGate
    BY <1>1, <1>5 DEF Finish, BalanceArrives, EnableBalanceArrives,
         EnableApply, MarketRejected, SendOrder, OrderAnswered, OrderRefused,
         OrderFailed, RefreshArrives, Return, PCs
  <1>6. CASE UNCHANGED vars
    BY <1>2, <1>6 DEF vars, callVars
  <1>7. QED
    BY <1>3, <1>4, <1>5, <1>6 DEF Next

\* An order request leaves only from a thread past the gate.
LEMMA SentStep == TypeOK /\ [Next]_vars => sent' = sent \/ PastGate # {}
  <1> SUFFICES ASSUME TypeOK, [Next]_vars PROVE sent' = sent \/ PastGate # {}
    OBVIOUS
  <1>1. ASSUME NEW t \in Threads, SendOrder(t) PROVE PastGate # {}
    BY <1>1 DEF SendOrder, PastGate
  <1>2. ASSUME NEW t \in Threads, Finish(t), ~SendOrder(t) PROVE sent' = sent
    BY <1>2 DEF Finish, BalanceArrives, EnableBalanceArrives, EnableApply,
         MarketRejected, OrderAnswered, OrderRefused, OrderFailed,
         RefreshArrives, ghosts
  <1>3. ASSUME NEW t \in Threads, Begin(t) PROVE sent' = sent
    BY <1>3 DEF Begin, GetBalance, GetBalanceFresh, EnableSimulator,
         EnableLiveTrading, PlaceOrder, ghosts
  <1>4. QED
    BY <1>1, <1>2, <1>3 DEF Next, Start, Stop, Close, DisableLiveTrading,
         BackoffExpires, vars, ghosts

\* The configuration never changes.
LEMMA ConfigStep == [Next]_vars => config' = config
  BY DEF Next, Begin, Finish, Start, Stop, Close, DisableLiveTrading,
     BackoffExpires, GetBalance, GetBalanceFresh, EnableSimulator,
     EnableLiveTrading, PlaceOrder, BalanceArrives, EnableBalanceArrives,
     EnableApply, MarketRejected, SendOrder, OrderAnswered, OrderRefused,
     OrderFailed, RefreshArrives, vars

LEMMA PaperStep ==
  TypeOK /\ PaperNeverPastGate /\ [Next]_vars => PaperNeverPastGate'
  <1> SUFFICES ASSUME TypeOK, PaperNeverPastGate, [Next]_vars,
                      IsReal, config.mode = "paper"
               PROVE  ~sent' /\ PastGate' = {}
    BY ConfigStep DEF PaperNeverPastGate, IsReal
  <1>1. ~sent /\ PastGate = {}
    BY DEF PaperNeverPastGate
  <1>2. ~CanPlaceOrder
    BY DEF CanPlaceOrder
  <1>3. QED
    BY <1>1, <1>2, SentStep, PastGateStep DEF TypeOK

LEMMA StopStep ==
  TypeOK /\ StopAdmitsNoNewOrder /\ [Next]_vars => StopAdmitsNoNewOrder'
  <1> SUFFICES ASSUME TypeOK, StopAdmitsNoNewOrder, [Next]_vars, ~running'
               PROVE  PastGate' \subseteq late'
    BY DEF StopAdmitsNoNewOrder
  <1>1. CASE Stop \/ Close
    BY <1>1 DEF Stop, Close, PastGate, callVars, StopAdmitsNoNewOrder
  <1>2. CASE ~(Stop \/ Close)
    <2>1. late' = late /\ (running => running')
      <3>1. CASE Start
        BY <3>1 DEF Start, ghosts
      <3>2. CASE DisableLiveTrading \/ BackoffExpires
        BY <3>2 DEF DisableLiveTrading, BackoffExpires, ghosts
      <3>3. ASSUME NEW t \in Threads, Begin(t)
            PROVE  late' = late /\ running' = running
        BY <3>3 DEF Begin, GetBalance, GetBalanceFresh, EnableSimulator,
             EnableLiveTrading, PlaceOrder, ghosts, gateVars
      <3>4. ASSUME NEW t \in Threads, Finish(t)
            PROVE  late' = late /\ running' = running
        BY <3>4 DEF Finish, BalanceArrives, EnableBalanceArrives,
             EnableApply, MarketRejected, SendOrder, OrderAnswered,
             OrderRefused, OrderFailed, RefreshArrives, ghosts, gateVars,
             RecordSuccessfulAuth, HandleBalanceException
      <3>5. CASE UNCHANGED vars
        BY <3>5 DEF vars, ghosts, gateVars
      <3>6. QED
        BY <1>2, <3>1, <3>2, <3>3, <3>4, <3>5 DEF Next
    <2>2. ~CanPlaceOrder /\ ~running
      BY <2>1 DEF CanPlaceOrder
    <2>3. QED
      BY <2>1, <2>2, PastGateStep DEF StopAdmitsNoNewOrder
  <1>3. QED
    BY <1>1, <1>2

\* The two ends of a balance read keep the flags consistent.
LEMMA ReadKeepsFlags ==
  ASSUME TypeOK, ExecutionOnlyWhileRunning, RealFlags, config' = config,
         NEW a \in Assets,
         \/ RecordSuccessfulAuth(a)
         \/ \E kind \in Failures : HandleBalanceException(kind)
  PROVE  /\ ExecutionOnlyWhileRunning'
         /\ funded => funded'
         /\ IsReal => /\ execEnabled' => liveAvailable' /\ funded'
                      /\ liveAvailable' => auth' \notin AuthFailures
                      /\ balStatus' = "AVAILABLE" => funded'
  <1> USE DEF ExecutionOnlyWhileRunning, RealFlags, AuthFailures
  <1>1. CASE RecordSuccessfulAuth(a)
    <2>1. CASE a = "quote"
      BY <1>1, <2>1 DEF RecordSuccessfulAuth
    <2>2. CASE a # "quote"
      BY <1>1, <2>2 DEF RecordSuccessfulAuth
    <2>3. QED
      BY <2>1, <2>2
  <1>2. ASSUME NEW kind \in Failures, HandleBalanceException(kind)
        PROVE  /\ ExecutionOnlyWhileRunning'
               /\ funded => funded'
               /\ IsReal => /\ execEnabled' => liveAvailable' /\ funded'
                            /\ liveAvailable' => auth' \notin AuthFailures
                            /\ balStatus' = "AVAILABLE" => funded'
    BY <1>2 DEF HandleBalanceException, MarkFailed, TypeOK
  <1>3. QED
    BY <1>1, <1>2

LEMMA FlagsStep ==
  TypeOK /\ ExecutionOnlyWhileRunning /\ RealFlags /\ [Next]_vars
    => ExecutionOnlyWhileRunning' /\ RealFlags'
  <1> SUFFICES ASSUME TypeOK, ExecutionOnlyWhileRunning, RealFlags,
                      [Next]_vars
               PROVE  ExecutionOnlyWhileRunning' /\ RealFlags'
    OBVIOUS
  <1>0. config' = config /\ (IsReal' <=> IsReal)
    BY ConfigStep DEF IsReal
  <1> USE DEF ExecutionOnlyWhileRunning, RealFlags, callVars, ghosts, gateVars
  <1>1. CASE Start
    BY <1>0, <1>1 DEF Start
  <1>2. CASE Stop \/ Close
    BY <1>0, <1>2 DEF Stop, Close
  <1>3. CASE DisableLiveTrading \/ BackoffExpires
    BY <1>0, <1>3 DEF DisableLiveTrading, BackoffExpires
  <1>4. ASSUME NEW t \in Threads, NEW l \in PCs \ {"enableApply"},
               Goto(t, l), UNCHANGED gateVars, funded' = funded
        PROVE  ExecutionOnlyWhileRunning' /\ RealFlags'
    BY <1>0, <1>4 DEF Goto, TypeOK
  <1>5. ASSUME NEW t \in Threads, NEW l \in PCs, Goto(t, l),
               l = "enableApply" => funded',
               NEW a \in Assets,
               \/ RecordSuccessfulAuth(a)
               \/ \E kind \in Failures : HandleBalanceException(kind)
        PROVE  ExecutionOnlyWhileRunning' /\ RealFlags'
    <2>1. /\ ExecutionOnlyWhileRunning'
          /\ funded => funded'
          /\ IsReal => /\ execEnabled' => liveAvailable' /\ funded'
                       /\ liveAvailable' => auth' \notin AuthFailures
                       /\ balStatus' = "AVAILABLE" => funded'
      BY <1>0, <1>5, ReadKeepsFlags
    <2>2. ASSUME NEW u \in Threads, IsReal, pc'[u] = "enableApply"
          PROVE  funded'
      BY <1>5, <2>1, <2>2 DEF Goto, TypeOK
    <2>3. QED
      BY <1>0, <2>1, <2>2
  <1>6. ASSUME NEW t \in Threads, Begin(t)
        PROVE  ExecutionOnlyWhileRunning' /\ RealFlags'
    <2>1. CASE EnableSimulator(t)
      BY <1>0, <2>1 DEF EnableSimulator
    <2>2. CASE PlaceOrder(t)
      BY <1>4, <2>2 DEF PlaceOrder, Return, PCs
    <2>3. CASE EnableLiveTrading(t)
      BY <1>4, <2>3 DEF EnableLiveTrading, PCs
    <2>4. ASSUME NEW a \in Assets, GetBalance(t, a) \/ GetBalanceFresh(t, a)
          PROVE  ExecutionOnlyWhileRunning' /\ RealFlags'
      BY <1>4, <2>4 DEF GetBalance, GetBalanceFresh, PCs
    <2>5. QED
      BY <1>6, <2>1, <2>2, <2>3, <2>4 DEF Begin
  <1>7. ASSUME NEW t \in Threads, Finish(t)
        PROVE  ExecutionOnlyWhileRunning' /\ RealFlags'
    <2>1. CASE BalanceArrives(t)
      <3>1. asset[t] \in Assets /\ "idle" \in PCs
        BY DEF TypeOK, PCs
      <3>2. QED
        BY <1>5, <2>1, <3>1 DEF BalanceArrives
    <2>2. CASE EnableBalanceArrives(t)
      <3>1. CASE RecordSuccessfulAuth("quote") /\ Goto(t, "enableApply")
        BY <1>5, <3>1 DEF RecordSuccessfulAuth, PCs, Assets
      <3>2. CASE /\ \E kind \in Failures : HandleBalanceException(kind)
                 /\ Goto(t, "idle")
        BY <1>5, <3>2 DEF PCs, Assets
      <3>3. QED
        BY <2>2, <3>1, <3>2 DEF EnableBalanceArrives
    <2>3. CASE EnableApply(t)
      BY <1>0, <2>3 DEF EnableApply, Goto, TypeOK
    <2>4. CASE MarketRejected(t) \/ OrderAnswered(t) \/ OrderFailed(t)
      BY <1>4, <2>4 DEF MarketRejected, OrderAnswered, OrderFailed, Return,
                        PCs
    <2>5. CASE SendOrder(t)
      BY <1>4, <2>5 DEF SendOrder, PCs
    <2>6. CASE OrderRefused(t)
      BY <1>0, <2>6 DEF OrderRefused, MarkFailed, Return, Goto, TypeOK
    <2>7. CASE RefreshArrives(t)
      BY <1>5, <2>7 DEF RefreshArrives, Return, PCs, Assets
    <2>8. QED
      BY <1>7, <2>1, <2>2, <2>3, <2>4, <2>5, <2>6, <2>7 DEF Finish
  <1>8. CASE UNCHANGED vars
    BY <1>8 DEF vars, IsReal
  <1>9. QED
    BY <1>1, <1>2, <1>3, <1>6, <1>7, <1>8 DEF Next

\* Reports agree with what the exchange accepted.
LEMMA ResultStep ==
  TypeOK /\ CallInProgress /\ RejectedIsNotPlaced /\ [Next]_vars
    => CallInProgress' /\ RejectedIsNotPlaced'
  <1> SUFFICES ASSUME TypeOK, CallInProgress, RejectedIsNotPlaced,
                      [Next]_vars
               PROVE  CallInProgress' /\ RejectedIsNotPlaced'
    OBVIOUS
  <1> USE DEF CallInProgress, RejectedIsNotPlaced, TypeOK, callVars
  <1>1. ASSUME UNCHANGED <<result, placed>>,
               \/ UNCHANGED pc
               \/ \E t \in Threads, l \in PCs :
                    l \notin {"gated", "sent", "refreshing"} /\ Goto(t, l)
        PROVE  CallInProgress' /\ RejectedIsNotPlaced'
    BY <1>1 DEF Goto
  <1>2. CASE Start \/ Stop \/ Close \/ DisableLiveTrading \/ BackoffExpires
    BY <1>1, <1>2 DEF Start, Stop, Close, DisableLiveTrading, BackoffExpires
  <1>3. ASSUME NEW t \in Threads, Begin(t)
        PROVE  CallInProgress' /\ RejectedIsNotPlaced'
    <2>1. CASE PlaceOrder(t)
      BY <2>1 DEF PlaceOrder, Return, Goto
    <2>2. CASE ~PlaceOrder(t)
      BY <1>1, <1>3, <2>2 DEF Begin, GetBalance, GetBalanceFresh,
           EnableSimulator, EnableLiveTrading, PCs
    <2>3. QED
      BY <2>1, <2>2
  <1>4. ASSUME NEW t \in Threads, Finish(t)
        PROVE  CallInProgress' /\ RejectedIsNotPlaced'
    <2> USE DEF Goto, Return
    <2>1. CASE BalanceArrives(t) \/ EnableBalanceArrives(t) \/ EnableApply(t)
      BY <1>1, <2>1 DEF BalanceArrives, EnableBalanceArrives, EnableApply, PCs
    <2>2. CASE MarketRejected(t)
      BY <2>2 DEF MarketRejected
    <2>3. CASE SendOrder(t)
      BY <2>3 DEF SendOrder
    <2>4. CASE OrderAnswered(t)
      BY <2>4 DEF OrderAnswered
    <2>5. CASE OrderRefused(t)
      BY <2>5 DEF OrderRefused
    <2>6. CASE OrderFailed(t)
      BY <2>6 DEF OrderFailed
    <2>7. CASE RefreshArrives(t)
      BY <2>7 DEF RefreshArrives
    <2>8. QED
      BY <1>4, <2>1, <2>2, <2>3, <2>4, <2>5, <2>6, <2>7 DEF Finish
  <1>5. CASE UNCHANGED vars
    BY <1>1, <1>5 DEF vars
  <1>6. QED
    BY <1>2, <1>3, <1>4, <1>5 DEF Next

-----------------------------------------------------------------------------
\* IInv is an invariant of every bot.
THEOREM Invariance == Spec => []IInv
  <1>1. IInv /\ [Next]_vars => IInv'
    BY TypeStep, PaperStep, FlagsStep, ResultStep, StopStep DEF IInv
  <1>2. QED
    BY <1>1, InitIInv, PTL DEF Spec

\* A real account receives no order while execution_mode is paper, however
\* many threads read balances, enable trading and place orders.
THEOREM PaperSafety == Spec => []PaperSendsNothing
  <1>1. IInv => PaperSendsNothing
    BY DEF IInv, PaperNeverPastGate, PaperSendsNothing
  <1>2. QED
    BY <1>1, Invariance, PTL

\* Execution is on only while the bot runs, and on a real exchange only with
\* accepted credentials and after a quote balance has been read.
THEOREM ExecutionSafety ==
  Spec => [](ExecutionOnlyWhileRunning /\ ExecutionIsAuthorised)
  <1>1. IInv => ExecutionOnlyWhileRunning /\ ExecutionIsAuthorised
    BY DEF IInv, RealFlags, ExecutionIsAuthorised
  <1>2. QED
    BY <1>1, Invariance, PTL

\* An order reported as rejected is not at the exchange.
THEOREM RejectionSafety == Spec => []RejectedIsNotPlaced
  <1>1. IInv => RejectedIsNotPlaced
    BY DEF IInv
  <1>2. QED
    BY <1>1, Invariance, PTL

\* After a stop only threads already past the gate can still send an order.
THEOREM StopSafety == Spec => []StopAdmitsNoNewOrder
  <1>1. IInv => StopAdmitsNoNewOrder
    BY DEF IInv
  <1>2. QED
    BY <1>1, Invariance, PTL

-----------------------------------------------------------------------------
(***************************************************************************)
(* Paper trading.  A number below which nothing holds is how induction     *)
(* over a bound is done here.                                              *)
(***************************************************************************)
LEMMA LeastNumber ==
  ASSUME NEW T \in SUBSET Nat, T # {}
  PROVE  \E x \in T : \A y \in T : x <= y
  <1> DEFINE R == {p \in Nat \X Nat : p[1] < p[2]}
  <1>1. IsWellFoundedOn(R, Nat)
    BY NatLessThanWellFounded DEF OpToRel
  <1>2. \A x, y \in Nat : x < y => <<x, y>> \in R
    OBVIOUS
  <1> HIDE DEF R
  <1>3. PICK x \in T : \A y \in T : <<y, x>> \notin R
    BY <1>1, WFMin
  <1>4. ASSUME NEW y \in T PROVE x <= y
    <2>1. x \in Nat /\ y \in Nat
      OBVIOUS
    <2>2. ~(y < x)
      BY <1>2, <1>3, <2>1
    <2>3. QED
      BY <2>1, <2>2
  <1>5. QED
    BY <1>4

\* g lists the sums of the first n rows.
Sums(g, n, column) ==
  /\ g \in [0..n -> Int] /\ g[0] = 0
  /\ \A k \in 1..n : g[k] = g[k - 1] + column[k]

LEMMA SumsExist ==
  ASSUME NEW column \in [Ids -> Int]
  PROVE  \E g : Sums(g, MaxTrades, column)
  <1> DEFINE Without == {n \in 0..MaxTrades : ~\E g : Sums(g, n, column)}
  <1> SUFFICES ASSUME Without # {} PROVE FALSE
    BY PaperAssumption
  <1>1. PICK m \in Without : \A n \in Without : m <= n
    <2>1. Without \in SUBSET Nat
      BY PaperAssumption
    <2> HIDE DEF Without
    <2>2. QED
      BY <2>1, LeastNumber
  <1>2. m \in 0..MaxTrades
    OBVIOUS
  <1>3. m # 0
    <2>1. Sums([k \in 0..0 |-> 0], 0, column)
      BY DEF Sums
    <2>2. QED
      BY <2>1
  <1>4. m - 1 \in 0..MaxTrades /\ m - 1 \notin Without
    BY <1>1, <1>2, <1>3, PaperAssumption
  <1>5. PICK g : Sums(g, m - 1, column)
    BY <1>4
  <1> DEFINE h == [k \in 0..m |-> IF k = m THEN g[m - 1] + column[m] ELSE g[k]]
  <1>6. Sums(h, m, column)
    <2>1. g[m - 1] \in Int /\ column[m] \in Int
      BY <1>2, <1>3, <1>5 DEF Sums, Ids
    <2>2. h \in [0..m -> Int]
      BY <1>2, <2>1, <1>5 DEF Sums
    <2>3. h[0] = 0
      BY <1>2, <1>3, <1>5 DEF Sums
    <2>4. \A k \in 1..m : h[k] = h[k-1] + column[k]
      BY <1>2, <1>3, <1>5 DEF Sums
    <2>5. QED
      BY <2>2, <2>3, <2>4 DEF Sums
  <1>7. QED
    BY <1>6, <1>1

\* Total is such a sum.
LEMMA TotalIs ==
  ASSUME NEW column \in [Ids -> Int]
  PROVE  \E g : Sums(g, MaxTrades, column) /\ Total(column) = g[MaxTrades]
  <1> DEFINE Line(f) == [n \in 0..MaxTrades |-> IF n = 0 THEN 0 ELSE f[n - 1] + column[n]]
             sum == CHOOSE f : f = Line(f)
  <1>1. PICK g : Sums(g, MaxTrades, column)
    BY SumsExist
  <1>2. g = Line(g)
    BY <1>1, PaperAssumption DEF Sums
  <1>3. sum = Line(sum)
    BY <1>2
  <1>4. Total(column) = sum[MaxTrades]
    BY DEF Total
  <1> HIDE DEF sum
  <1> DEFINE Odd == {n \in 0..MaxTrades : sum[n] \notin Int}
  <1>5. Odd = {}
    <2> SUFFICES ASSUME Odd # {} PROVE FALSE
      OBVIOUS
    <2>1. PICK m \in Odd : \A n \in Odd : m <= n
      <3>1. Odd \in SUBSET Nat
        BY PaperAssumption
      <3> HIDE DEF Odd
      <3>2. QED
        BY <3>1, LeastNumber
    <2>2. m \in 0..MaxTrades
      OBVIOUS
    <2>3. CASE m = 0
      BY <1>3, <2>2, <2>3
    <2>4. CASE m # 0
      <3>1. m - 1 \in 0..MaxTrades /\ m - 1 \notin Odd
        BY <2>1, <2>2, <2>4, PaperAssumption
      <3>2. sum[m - 1] \in Int /\ column[m] \in Int
        BY <2>2, <2>4, <3>1 DEF Ids
      <3>3. sum[m] = sum[m - 1] + column[m]
        BY <1>3, <2>2, <2>4
      <3>4. QED
        BY <3>2, <3>3
    <2>5. QED
      BY <2>3, <2>4
  <1>6. Sums(sum, MaxTrades, column)
    <2>1. \A n \in 0..MaxTrades : sum[n] \in Int
      BY <1>5
    <2> HIDE DEF Odd
    <2>2. sum \in [0..MaxTrades -> Int]
      BY <1>3, <2>1
    <2>3. sum[0] = 0
      BY <1>3, PaperAssumption
    <2>4. ASSUME NEW n \in 1..MaxTrades PROVE sum[n] = sum[n - 1] + column[n]
      BY <1>3, PaperAssumption
    <2>5. QED
      BY <2>2, <2>3, <2>4 DEF Sums
  <1>7. QED
    BY <1>4, <1>6

\* Whatever the rows hold, a column of integers has an integer sum.
LEMMA TotalTyped ==
  ASSUME NEW column \in [Ids -> Int]
  PROVE  Total(column) \in Int
  <1>1. PICK g : Sums(g, MaxTrades, column) /\ Total(column) = g[MaxTrades]
    BY TotalIs
  <1>2. QED
    BY <1>1, PaperAssumption DEF Sums

\* One entry of a column moves its sum by as much as it moved itself.
LEMMA TotalMoves ==
  ASSUME NEW column \in [Ids -> Int], NEW moved \in [Ids -> Int], NEW n \in Ids,
         \A i \in Ids \ {n} : moved[i] = column[i]
  PROVE  Total(moved) = Total(column) + moved[n] - column[n]
  <1>1. PICK g : Sums(g, MaxTrades, column) /\ Total(column) = g[MaxTrades]
    BY TotalIs
  <1>2. PICK h : Sums(h, MaxTrades, moved) /\ Total(moved) = h[MaxTrades]
    BY TotalIs
  <1>3. n \in 1..MaxTrades /\ MaxTrades \in Nat /\ moved[n] \in Int /\ column[n] \in Int
    BY PaperAssumption DEF Ids
  <1> DEFINE by == moved[n] - column[n]
             Odd == {k \in 0..MaxTrades : h[k] # g[k] + (IF k >= n THEN by ELSE 0)}
  <1>4. Odd = {}
    <2> SUFFICES ASSUME Odd # {} PROVE FALSE
      OBVIOUS
    <2>1. PICK m \in Odd : \A k \in Odd : m <= k
      <3>1. Odd \in SUBSET Nat
        BY <1>3
      <3> HIDE DEF Odd
      <3>2. QED
        BY <3>1, LeastNumber
    <2>2. m \in 0..MaxTrades
      OBVIOUS
    <2>3. m # 0
      BY <1>1, <1>2, <1>3, <2>1 DEF Sums
    <2>4. m - 1 \in 0..MaxTrades /\ m - 1 \notin Odd /\ m \in 1..MaxTrades
      BY <1>3, <2>1, <2>2, <2>3
    <2>5. h[m - 1] = g[m - 1] + (IF m - 1 >= n THEN by ELSE 0)
      BY <2>4
    <2>6. g[m] = g[m - 1] + column[m] /\ h[m] = h[m - 1] + moved[m]
      BY <1>1, <1>2, <2>4 DEF Sums
    <2>7. g[m - 1] \in Int /\ h[m - 1] \in Int /\ column[m] \in Int /\ moved[m] \in Int
      BY <1>1, <1>2, <2>4 DEF Sums, Ids
    <2>8. m # n => moved[m] = column[m]
      BY <2>4 DEF Ids
    <2>9. h[m] = g[m] + (IF m >= n THEN by ELSE 0)
      <3>1. CASE m = n
        BY <1>3, <2>4, <2>5, <2>6, <2>7, <3>1
      <3>2. CASE m # n
        <4>1. (m >= n) <=> (m - 1 >= n)
          BY <1>3, <2>4, <3>2
        <4>2. by \in Int
          BY <1>3
        <4> HIDE DEF by
        <4>3. QED
          BY <2>5, <2>6, <2>7, <2>8, <3>2, <4>1, <4>2
      <3>3. QED
        BY <3>1, <3>2
    <2>10. QED
      BY <2>9, <2>1
  <1>5. h[MaxTrades] = g[MaxTrades] + by
    BY <1>3, <1>4
  <1>6. g[MaxTrades] \in Int
    BY <1>1, <1>3 DEF Sums
  <1>7. QED
    BY <1>1, <1>2, <1>3, <1>5, <1>6

-----------------------------------------------------------------------------
(* A row's levels.                                                          *)

LEMMA PriceTyped ==
  ASSUME NEW p \in Nat, NEW side, NEW pct \in 0..100
  PROVE  Up(side, p, pct) \in Nat /\ Down(side, p, pct) \in Nat
  <1>1. ASSUME NEW q \in Nat PROVE (p * q) \div 100 \in Nat
    <2>1. p * q \in Nat
      OBVIOUS
    <2>2. QED
      BY <2>1
  <1>2. Up(side, p, pct) = (p * (100 + pct)) \div 100 \/ Up(side, p, pct) = (p * (100 - pct)) \div 100
    BY DEF Up
  <1>3. \/ Down(side, p, pct) = (p * (100 + (-pct))) \div 100
        \/ Down(side, p, pct) = (p * (100 - (-pct))) \div 100
    BY DEF Down, Up
  <1>4. /\ 100 + pct \in Nat /\ 100 - pct \in Nat
        /\ 100 + (-pct) \in Nat /\ 100 - (-pct) \in Nat
    OBVIOUS
  <1>5. QED
    BY <1>1, <1>2, <1>3, <1>4

\* A closed row ended at the level its reason names.
ClosedWell(row) ==
  row.status = "closed" =>
    /\ row.exit \in Nat /\ row.pnl \in Int /\ row.reason \in Reasons
    /\ row.reason = "Take Profit" => row.exit = row.take
    /\ row.reason = "Stop Loss" => row.exit = row.stop /\ ~row.active
    /\ row.reason = "Trailing Stop" => row.exit = row.stop /\ row.active

RowOk(row) == row \in Trade /\ row.side \in Sides[row.user] /\ ClosedWell(row)

\* What a trade keeps while it lives.
SameTrade(a, b) ==
  /\ a.user = b.user /\ a.side = b.side /\ a.entry = b.entry
  /\ a.notional = b.notional /\ a.take = b.take

\* The stop of a is at least as tight as that of b.
Tighter(a, b) == SameTrade(a, b) /\ AtLeast(a.side, a.stop, b.stop)

LEMMA TrailedOk ==
  ASSUME NEW row \in Trade, NEW p \in Prices
  PROVE  LET new == Trailed(row, p)
         IN  /\ new \in Trade /\ Tighter(new, row)
             /\ new.status = row.status /\ new.exit = row.exit /\ new.pnl = row.pnl
             /\ new.reason = row.reason
  <1> DEFINE best == Best(row.side, row.best, p)
             cand == Down(row.side, best, DistancePct)
             trail == IF row.trail = None THEN cand ELSE Best(row.side, row.trail, cand)
             stop == Best(row.side, row.stop, trail)
  <1>1. best \in Prices /\ best \in Nat
    BY PaperAssumption DEF Best, Trade
  <1>2. cand \in Nat
    BY <1>1, PriceTyped, PaperAssumption
  <1>3. trail \in Nat
    BY <1>2 DEF Best, Trade
  <1>4. stop \in Nat /\ row.stop \in Nat /\ AtLeast(row.side, stop, row.stop)
             /\ AtLeast(row.side, row.stop, row.stop)
    <2>1. row.stop \in Nat
      BY DEF Trade
    <2> HIDE DEF trail
    <2>2. QED
      BY <1>3, <2>1 DEF Best, AtLeast
  <1>5. \/ Trailed(row, p) = [row EXCEPT !.best = best, !.active = TRUE, !.trail = trail,
                                         !.stop = stop]
        \/ Trailed(row, p) = [row EXCEPT !.best = best]
    BY DEF Trailed
  <1> HIDE DEF best, trail, stop
  <1>6. CASE Trailed(row, p) = [row EXCEPT !.best = best, !.active = TRUE, !.trail = trail,
                                           !.stop = stop]
    BY <1>1, <1>3, <1>4, <1>6 DEF Trade, Tighter, SameTrade
  <1>7. CASE Trailed(row, p) = [row EXCEPT !.best = best]
    BY <1>1, <1>4, <1>7 DEF Trade, Tighter, SameTrade
  <1>8. QED
    BY <1>5, <1>6, <1>7

LEMMA PnlTyped ==
  ASSUME NEW row \in Trade, NEW price \in Nat
  PROVE  Pnl(row, price) \in Int
  <1>1. row.entry \in Nat \ {0} /\ row.notional \in Nat
    BY PaperAssumption DEF Trade
  <1>2. Gain(row.side, row.entry, price) \in Int
    BY <1>1 DEF Gain
  <1>3. Gain(row.side, row.entry, price) * row.notional \in Int
    BY <1>1, <1>2
  <1>4. \A a \in Int, b \in Nat \ {0} : a \div b \in Int
    OBVIOUS
  <1>5. QED
    BY <1>1, <1>3, <1>4 DEF Pnl

LEMMA ClosedOk ==
  ASSUME NEW row \in Trade, NEW price \in Nat, NEW reason \in Reasons
  PROVE  LET new == Closed(row, price, reason)
         IN  /\ new \in Trade /\ SameTrade(new, row)
             /\ new.status = "closed" /\ new.exit = price /\ new.pnl \in Int
             /\ new.reason = reason /\ new.stop = row.stop /\ new.active = row.active
  <1>1. Pnl(row, price) \in Int
    BY PnlTyped
  <1> DEFINE pnl == Pnl(row, price)
  <1>2. Closed(row, price, reason) =
          [row EXCEPT !.status = "closed", !.exit = price, !.reason = reason, !.pnl = pnl]
    BY DEF Closed
  <1> HIDE DEF pnl
  <1>3. QED
    BY <1>1, <1>2 DEF Trade, SameTrade, pnl

LEMMA LevelsOk ==
  ASSUME NEW row \in Trade, NEW obj \in Trade
  PROVE  LET new == WithLevels(row, obj)
         IN  /\ new \in Trade /\ SameTrade(new, row)
             /\ new.status = row.status /\ new.exit = row.exit /\ new.pnl = row.pnl
             /\ new.reason = row.reason /\ new.stop = obj.stop /\ new.active = obj.active
  BY DEF WithLevels, Trade, SameTrade

LEMMA TighterStill ==
  ASSUME NEW a \in Trade, NEW b \in Trade, NEW c \in Trade, Tighter(a, b), Tighter(b, c)
  PROVE  Tighter(a, c)
  BY DEF Tighter, SameTrade, AtLeast, Trade

\* A row is at an exit only when a row with a tighter stop is.
LEMMA LooserIsNotHit ==
  ASSUME NEW a \in Trade, NEW b \in Trade, NEW p \in Prices, Tighter(a, b),
         ~StopHit(a, p), ~TakeHit(a, p)
  PROVE  ~StopHit(b, p) /\ ~TakeHit(b, p)
  <1>1. p \in Nat
    BY PaperAssumption
  <1>2. QED
    BY <1>1 DEF Tighter, SameTrade, AtLeast, Trade, StopHit, TakeHit

-----------------------------------------------------------------------------
(***************************************************************************)
(* The inductive invariant.                                                *)
(***************************************************************************)
RowsOk ==
  /\ db = [i \in Ids |-> db[i]]
  /\ nextId \in 1..(MaxTrades + 1) /\ market \in Prices
  /\ \A i \in Ids : db[i] # NoRow => RowOk(db[i]) /\ i < nextId

Opening == [pc : {"open", "insert"}, user : Users, side : {"long", "short"}, price : Prices,
            cash : Int, free : Int, missed : Int]
Closing == [pc : {"close"}, id : Ids, row : Trade, price : Prices]
Deleting == [pc : {"delete"}, id : Ids]

\* A request opens no more than was free at its second read and it overstated at its first;
\* its copy of a row is of the trade that is in the row still, if it is there.
RequestOk(q) ==
  \/ q = Idle
  \/ q \in Opening /\ q.side \in Sides[q.user] /\ (q.pc = "insert" => q.cash \in Nat /\ q.cash <= q.free + q.missed)
  \/ /\ q \in Closing /\ q.row.side \in Sides[q.row.user] /\ q.id < nextId
     /\ db[q.id] # NoRow => SameTrade(q.row, db[q.id])
  \/ q \in Deleting

RequestsOk == req = [r \in Requests |-> req[r]] /\ \A r \in Requests : RequestOk(req[r])

JobOk ==
  /\ wpc \in {"idle", "fetch", "select", "check", "closing", "refresh"}
  /\ wprice \in Prices \cup {None}
  /\ wpc \in {"select", "check", "closing", "refresh"} => wprice \in Prices
  /\ wusers \subseteq Users
  /\ wtodo \subseteq Ids /\ pend \subseteq Ids /\ evaluated \subseteq Ids
  /\ wid \in Ids \cup {None}
  /\ wpc \in {"idle", "fetch", "select"} => wtodo = {} /\ pend = {} /\ evaluated = {}
  /\ wpc = "closing" => wid \in Ids \ wtodo /\ wobj[wid] \in Trade
  /\ wpc = "refresh" => pend = {}

\* The job's copy of a row is of the same trade, with a stop that is as tight or tighter.
ObjectsOk ==
  /\ wobj = [i \in Ids |-> wobj[i]]
  /\ \A i \in Ids :
        wobj[i] \notin {NoRow, Expired} =>
          /\ wobj[i] \in Trade /\ wobj[i].side \in Sides[wobj[i].user] /\ i < nextId
          /\ db[i] # NoRow => Tighter(wobj[i], db[i])

Being(i) == wpc = "closing" /\ i = wid

\* A row with changes that are not committed was evaluated, is there, and not at an exit unless it is being closed.
PendingOk ==
  \A i \in pend :
    /\ i \in evaluated /\ db[i] # NoRow /\ wobj[i] \in Trade
    /\ IsOpen(db[i]) /\ ~Being(i) => ~StopHit(wobj[i], wprice) /\ ~TakeHit(wobj[i], wprice)

\* Of the rows the job has in hand, a request has closed those that are closed.
ByHand == \A i \in wtodo \cup pend : IsClosed(db[i]) => db[i].reason = "Manual"

\* No row that was evaluated is open at an exit, unless it is being closed.
NotMissed ==
  \A i \in evaluated :
    /\ i < nextId
    /\ IsOpen(db[i]) /\ ~Being(i) => ~StopHit(db[i], wprice) /\ ~TakeHit(db[i], wprice)

PaperInv == RowsOk /\ RequestsOk /\ JobOk /\ ObjectsOk /\ PendingOk /\ ByHand /\ NotMissed

LEMMA PaperBegins == ASSUME PaperInit PROVE PaperInv
  <1>1. RowsOk
    BY PaperAssumption DEF PaperInit, RowsOk, Ids
  <1>2. RequestsOk
    BY DEF PaperInit, RequestsOk, RequestOk
  <1>3. JobOk /\ PendingOk /\ ByHand /\ NotMissed
    BY DEF PaperInit, JobOk, PendingOk, ByHand, NotMissed
  <1>4. ObjectsOk
    BY DEF PaperInit, ObjectsOk
  <1>5. QED
    BY <1>1, <1>2, <1>3, <1>4 DEF PaperInv

\* What is in a row is a trade: neither of the two markers.
LEMMA RowIs ==
  ASSUME RowsOk, NEW i \in Ids
  PROVE  /\ IsRow(db[i]) <=> db[i] # NoRow
         /\ IsRow(db[i]) => RowOk(db[i]) /\ db[i] \in Trade /\ i < nextId
         /\ db[i] # Expired
  BY PaperAssumption DEF RowsOk, RowOk, IsRow

LEMMA RowStays ==
  ASSUME RowsOk, NEW i \in Ids, db'[i] = db[i] \/ ~IsOpen(db[i]) \/ ~IsOpen(db'[i])
  PROVE  StopTightens(i)
  <1> SUFFICES ASSUME IsOpen(db[i]), db'[i] = db[i]
               PROVE  AtLeast(db[i].side, db[i].stop, db[i].stop)
    BY DEF StopTightens
  <1>1. db[i] \in Trade
    BY RowIs DEF IsOpen
  <1>2. QED
    BY <1>1 DEF AtLeast, Trade

-----------------------------------------------------------------------------
(* The requests.                                                            *)

LEMMA RequestAlone ==
  ASSUME PaperInv, NEW r \in Requests, NEW rec, SetReq(r, rec), RequestOk(rec),
         UNCHANGED <<db, nextId, market, watcher>>
  PROVE  PaperInv'
  <1>1. RequestsOk'
    BY DEF PaperInv, RequestsOk, RequestOk, SetReq
  <1>2. QED
    BY <1>1 DEF PaperInv, RowsOk, JobOk, ObjectsOk, PendingOk, ByHand, NotMissed, Being, watcher

\* The sums over a user's rows are integers.
LEMMA AccountTyped ==
  ASSUME PaperInv, NEW u \in Users
  PROVE  ClosedPnl(u) \in Int /\ OpenNotional(u) \in Int /\ Free(u) \in Int
  <1> DEFINE pnls == [i \in Ids |-> IF i \in ClosedIds(u) THEN db[i].pnl ELSE 0]
             notionals == [i \in Ids |-> IF i \in OpenIds(u) THEN db[i].notional ELSE 0]
  <1>1. pnls \in [Ids -> Int]
    <2> SUFFICES ASSUME NEW i \in Ids, i \in ClosedIds(u) PROVE db[i].pnl \in Int
      OBVIOUS
    <2>1. IsRow(db[i]) /\ db[i].status = "closed"
      BY DEF ClosedIds, IsClosed
    <2>2. RowOk(db[i])
      BY <2>1, RowIs DEF PaperInv
    <2>3. QED
      BY <2>1, <2>2 DEF RowOk, ClosedWell
  <1>2. notionals \in [Ids -> Int]
    <2> SUFFICES ASSUME NEW i \in Ids, i \in OpenIds(u) PROVE db[i].notional \in Int
      OBVIOUS
    <2>1. IsRow(db[i])
      BY DEF OpenIds, IsOpen
    <2>2. db[i] \in Trade
      BY <2>1, RowIs DEF PaperInv
    <2>3. QED
      BY <2>2 DEF Trade
  <1>3. ClosedPnl(u) = Total(pnls) /\ OpenNotional(u) = Total(notionals)
    BY DEF ClosedPnl, OpenNotional
  <1> HIDE DEF pnls, notionals
  <1>4. ClosedPnl(u) \in Int /\ OpenNotional(u) \in Int
    BY <1>1, <1>2, <1>3, TotalTyped
  <1>5. QED
    BY <1>4, PaperAssumption DEF Free

LEMMA OpenTradeKeeps ==
  ASSUME PaperInv, NEW r \in Requests, NEW u \in Users, NEW price \in Prices,
         NEW side \in Sides[u], OpenTrade(r, u, side, price)
  PROVE  PaperInv'
  <1> DEFINE rec == [pc |-> "open", user |-> u, side |-> side, price |-> price,
                     cash |-> InitialCash + ClosedPnl(u), free |-> 0, missed |-> 0]
  <1>1. InitialCash + ClosedPnl(u) \in Int /\ side \in {"long", "short"}
    BY AccountTyped, PaperAssumption
  <1>2. RequestOk(rec)
    BY <1>1 DEF RequestOk, Opening
  <1>3. QED
    BY <1>2, RequestAlone DEF OpenTrade

LEMMA SizedOk ==
  ASSUME PaperInv, NEW q \in Opening, q.side \in Sides[q.user], NEW notional \in Nat,
         notional <= q.cash - OpenNotional(q.user)
  PROVE  RequestOk(Sized(q, notional))
  <1> DEFINE free == Free(q.user)
             missed == Excess(q.cash - (InitialCash + ClosedPnl(q.user)))
             rec == [pc |-> "insert", user |-> q.user, side |-> q.side, price |-> q.price,
                     cash |-> notional, free |-> free, missed |-> missed]
  <1>1. q.user \in Users /\ q.cash \in Int
    BY DEF Opening
  <1>2. free \in Int /\ ClosedPnl(q.user) \in Int /\ OpenNotional(q.user) \in Int
    BY <1>1, AccountTyped
  <1>3. missed \in Int /\ notional <= free + missed
    BY <1>1, <1>2, PaperAssumption DEF Excess, Free
  <1>4. Sized(q, notional) = rec
    BY DEF Sized
  <1> HIDE DEF free, missed
  <1>5. rec \in Opening /\ rec.side \in Sides[rec.user] /\ rec.cash \in Nat
          /\ rec.cash <= rec.free + rec.missed
    BY <1>2, <1>3 DEF Opening
  <1>6. QED
    BY <1>4, <1>5 DEF RequestOk

LEMMA OpenSizedKeeps ==
  ASSUME PaperInv, NEW r \in Requests, OpenSized(r)
  PROVE  PaperInv'
  <1>1. req[r] \in Opening /\ req[r].side \in Sides[req[r].user]
    <2>1. req[r].pc = "open" /\ RequestOk(req[r])
      BY DEF OpenSized, PaperInv, RequestsOk
    <2>2. QED
      BY <2>1 DEF RequestOk, Idle, Closing, Deleting
  <1> DEFINE left == req[r].cash - OpenNotional(req[r].user)
             notional == (left * UsagePct) \div 100
             rec == IF notional <= 0 THEN Idle ELSE Sized(req[r], notional)
  <1>2. SetReq(r, rec) /\ UNCHANGED <<db, nextId, market, watcher>>
    BY DEF OpenSized
  <1>3. left \in Int
    BY <1>1, AccountTyped DEF Opening
  <1>4. notional \in Int /\ (notional > 0 => notional <= left)
    <2> HIDE DEF left
    <2> DEFINE part == left * UsagePct
    <2>1. part \in Int /\ (left >= 0 => part <= left * 100) /\ (left < 0 => part <= 0)
      BY <1>3, PaperAssumption
    <2> HIDE DEF part
    <2>2. part \div 100 \in Int /\ (left >= 0 => part \div 100 <= left)
            /\ (left < 0 => part \div 100 <= 0)
      BY <1>3, <2>1
    <2>3. QED
      BY <1>3, <2>2 DEF part
  <1> HIDE DEF notional
  <1>5. RequestOk(rec)
    <2>1. CASE notional <= 0
      BY <2>1 DEF RequestOk
    <2>2. CASE ~(notional <= 0)
      BY <1>1, <1>4, <2>2, SizedOk
    <2>3. QED
      BY <2>1, <2>2
  <1> HIDE DEF rec
  <1>6. QED
    BY <1>2, <1>5, RequestAlone

LEMMA CloseTradeKeeps ==
  ASSUME PaperInv, NEW r \in Requests, NEW i \in Ids, NEW price \in Prices,
         CloseTrade(r, i, price)
  PROVE  PaperInv'
  <1> DEFINE rec == [pc |-> "close", id |-> i, row |-> db[i], price |-> price]
  <1>1. RowOk(db[i]) /\ db[i] \in Trade /\ i < nextId
    BY RowIs DEF CloseTrade, IsOpen, PaperInv
  <1>2. RequestOk(rec)
    BY <1>1 DEF RequestOk, RowOk, Closing, SameTrade
  <1>3. QED
    BY <1>2, RequestAlone DEF CloseTrade

LEMMA DeleteTradeKeeps ==
  ASSUME PaperInv, NEW r \in Requests, NEW i \in Ids, DeleteTrade(r, i)
  PROVE  PaperInv'
  <1>1. RequestOk([pc |-> "delete", id |-> i])
    BY DEF RequestOk, Deleting
  <1>2. QED
    BY <1>1, RequestAlone DEF DeleteTrade

\* A request writes one row that the job holds no change of: it goes, or it is closed by hand.
LEMMA OneRow ==
  ASSUME PaperInv, NEW r \in Requests, NEW i \in Ids, NEW row, SetReq(r, Idle),
         i \notin pend, db' = [db EXCEPT ![i] = row],
         \/ row = NoRow
         \/ /\ db[i] # NoRow /\ RowOk(row) /\ SameTrade(row, db[i]) /\ row.stop = db[i].stop
            /\ row.status = "closed" /\ row.reason = "Manual",
         UNCHANGED <<nextId, market, watcher>>
  PROVE  PaperInv' /\ ~(IsOpen(db[i]) /\ IsOpen(db'[i]))
  <1>1. /\ db' = [j \in Ids |-> db'[j]] /\ db'[i] = row
        /\ \A j \in Ids : j # i => db'[j] = db[j]
    BY DEF PaperInv, RowsOk
  <1>2. RowsOk'
    BY <1>1 DEF PaperInv, RowsOk
  <1>3. ~IsOpen(db'[i])
    BY <1>1 DEF IsOpen, IsRow
  <1>4. IsClosed(db'[i]) => db'[i].reason = "Manual"
    BY <1>1 DEF IsClosed, IsRow
  <1>5. db'[i] # NoRow => db[i] # NoRow /\ SameTrade(db'[i], db[i]) /\ db'[i].stop = db[i].stop
    BY <1>1
  <1>6. RequestsOk'
    <2>1. req' = [s \in Requests |-> req'[s]] /\ req'[r] = Idle
            /\ \A s \in Requests : s # r => req'[s] = req[s]
      BY DEF SetReq, PaperInv, RequestsOk
    <2>2. RequestOk(req[r])'
      BY <2>1 DEF RequestOk
    <2>3. ASSUME NEW s \in Requests, s # r PROVE RequestOk(req[s])'
      <3>1. RequestOk(req[s]) /\ req'[s] = req[s]
        BY <2>1, <2>3 DEF PaperInv, RequestsOk
      <3>2. QED
        BY <3>1, <1>1, <1>5 DEF RequestOk, SameTrade, Closing
    <2>4. QED
      BY <2>1, <2>2, <2>3 DEF RequestsOk
  <1>7. JobOk'
    BY DEF PaperInv, JobOk, watcher
  <1>8. ObjectsOk'
    <2>1. ASSUME NEW j \in Ids, wobj[j] \notin {NoRow, Expired}, db'[j] # NoRow
          PROVE  Tighter(wobj[j], db'[j])
      <3>1. db[j] # NoRow /\ Tighter(wobj[j], db[j])
        BY <1>1, <1>5, <2>1 DEF PaperInv, ObjectsOk
      <3>2. QED
        BY <1>1, <1>5, <2>1, <3>1 DEF Tighter, SameTrade
    <2>2. QED
      BY <2>1 DEF PaperInv, ObjectsOk, watcher
  <1>9. PendingOk' /\ NotMissed' /\ ByHand'
    <2>1. \A j \in pend : db'[j] = db[j]
      BY <1>1 DEF PaperInv, JobOk
    <2>2. PendingOk'
      BY <2>1 DEF PaperInv, PendingOk, Being, watcher
    <2>3. NotMissed'
      BY <1>1, <1>3 DEF PaperInv, JobOk, NotMissed, Being, watcher
    <2>4. ByHand'
      BY <1>1, <1>4 DEF PaperInv, JobOk, ByHand, watcher
    <2>5. QED
      BY <2>2, <2>3, <2>4
  <1>10. QED
    BY <1>2, <1>3, <1>6, <1>7, <1>8, <1>9 DEF PaperInv

LEMMA CloseCommittedKeeps ==
  ASSUME PaperInv, NEW r \in Requests, CloseCommitted(r)
  PROVE  PaperInv' /\ \A i \in Ids : StopTightens(i)
  <1> DEFINE i == req[r].id
             done == Closed(req[r].row, req[r].price, "Manual")
             row == WithLevels(done, db[i])
  <1>1. /\ req[r] \in Closing /\ req[r].row.side \in Sides[req[r].row.user]
        /\ db[i] # NoRow => SameTrade(req[r].row, db[i])
    <2>1. req[r].pc = "close" /\ RequestOk(req[r])
      BY DEF CloseCommitted, PaperInv, RequestsOk
    <2>2. QED
      BY <2>1 DEF RequestOk, Idle, Opening, Deleting
  <1>2. i \in Ids /\ req[r].row \in Trade /\ req[r].price \in Nat
    BY <1>1, PaperAssumption DEF Closing
  <1>3. CASE db[i] # NoRow
    <2>1. IsRow(db[i]) /\ db[i] \in Trade
      BY <1>2, <1>3, RowIs DEF PaperInv
    <2>2. /\ done \in Trade /\ SameTrade(done, req[r].row) /\ done.status = "closed"
          /\ done.exit \in Nat /\ done.pnl \in Int /\ done.reason = "Manual"
      <3>1. "Manual" \in Reasons
        BY DEF Reasons
      <3>2. QED
        BY <1>2, <3>1, ClosedOk
    <2> HIDE DEF done
    <2>3. /\ row \in Trade /\ SameTrade(row, done) /\ row.status = "closed"
          /\ row.exit \in Nat /\ row.pnl \in Int /\ row.reason = "Manual" /\ row.stop = db[i].stop
      BY <2>1, <2>2, LevelsOk
    <2> HIDE DEF row
    <2>4. SameTrade(row, db[i]) /\ row.side \in Sides[row.user]
      BY <1>1, <1>3, <2>2, <2>3 DEF SameTrade
    <2>5. RowOk(row)
      BY <2>3, <2>4 DEF RowOk, ClosedWell, Reasons
    <2>6. db' = [db EXCEPT ![i] = row] /\ i \notin pend
      BY <2>1 DEF CloseCommitted, row, done, Unlocked
    <2> HIDE DEF i
    <2>7. PaperInv' /\ ~(IsOpen(db[i]) /\ IsOpen(db'[i]))
      BY <1>2, <1>3, <2>3, <2>4, <2>5, <2>6, OneRow DEF CloseCommitted
    <2>8. ASSUME NEW j \in Ids PROVE StopTightens(j)
      BY <2>6, <2>7, RowStays DEF PaperInv, RowsOk
    <2>9. QED
      BY <2>7, <2>8
  <1>4. CASE db[i] = NoRow
    <2>1. db' = db
      BY <1>4 DEF CloseCommitted, IsRow
    <2>2. PaperInv'
      BY <2>1, RequestAlone DEF CloseCommitted, RequestOk
    <2>3. QED
      BY <2>1, <2>2, RowStays DEF PaperInv
  <1>5. QED
    BY <1>3, <1>4

LEMMA DeleteCommittedKeeps ==
  ASSUME PaperInv, NEW r \in Requests, DeleteCommitted(r)
  PROVE  PaperInv' /\ \A i \in Ids : StopTightens(i)
  <1> DEFINE i == req[r].id
  <1>1. i \in Ids
    <2>1. req[r].pc = "delete" /\ RequestOk(req[r])
      BY DEF DeleteCommitted, PaperInv, RequestsOk
    <2>2. QED
      BY <2>1 DEF RequestOk, Idle, Opening, Closing, Deleting
  <1>2. db' = [db EXCEPT ![i] = NoRow] /\ i \notin pend
    BY DEF DeleteCommitted, Unlocked
  <1> HIDE DEF i
  <1>3. PaperInv' /\ ~(IsOpen(db[i]) /\ IsOpen(db'[i]))
    BY <1>1, <1>2, OneRow DEF DeleteCommitted
  <1>4. ASSUME NEW j \in Ids PROVE StopTightens(j)
    BY <1>2, <1>3, RowStays DEF PaperInv, RowsOk
  <1>5. QED
    BY <1>3, <1>4

LEMMA NewRowOk ==
  ASSUME NEW q \in Opening, q.cash \in Nat
  PROVE  /\ NewRow(q) \in Trade /\ NewRow(q).status = "open"
         /\ NewRow(q).side = q.side /\ NewRow(q).user = q.user /\ NewRow(q).notional = q.cash
  <1>1. q.price \in Nat /\ q.price \in Prices /\ q.user \in Users /\ q.side \in {"long", "short"}
    BY PaperAssumption DEF Opening
  <1> DEFINE stop == Down(q.side, q.price, StopPct)
             take == Up(q.side, q.price, TakePct)
  <1>2. stop \in Nat /\ take \in Nat
    BY <1>1, PriceTyped, PaperAssumption
  <1>3. PICK row : /\ row = NewRow(q)
                   /\ row = [user |-> q.user, side |-> q.side, entry |-> q.price,
                             notional |-> q.cash, stop |-> stop, take |-> take,
                             best |-> q.price, trail |-> None, active |-> FALSE,
                             status |-> "open", exit |-> None, pnl |-> None, reason |-> None]
    BY DEF NewRow
  <1> HIDE DEF stop, take
  <1>4. QED
    BY <1>1, <1>2, <1>3 DEF Trade

LEMMA OpenInsertedKeeps ==
  ASSUME PaperInv, NEW r \in Requests, OpenInserted(r)
  PROVE  PaperInv' /\ \A i \in Ids : StopTightens(i)
  <1> DEFINE row == NewRow(req[r])
  <1>1. /\ req[r] \in Opening /\ req[r].side \in Sides[req[r].user] /\ req[r].cash \in Nat
    <2>1. req[r].pc = "insert" /\ RequestOk(req[r])
      BY DEF OpenInserted, PaperInv, RequestsOk
    <2>2. QED
      BY <2>1 DEF RequestOk, Idle, Closing, Deleting
  <1>2. nextId \in Nat /\ nextId \in 1..(MaxTrades + 1) /\ MaxTrades \in Nat
    BY PaperAssumption DEF PaperInv, RowsOk
  <1>3. CASE nextId > MaxTrades
    <2>1. UNCHANGED <<db, nextId, market, watcher>> /\ SetReq(r, Idle)
      BY <1>2, <1>3 DEF OpenInserted, watcher
    <2>2. PaperInv'
      BY <2>1, RequestAlone DEF RequestOk
    <2>3. QED
      BY <2>1, <2>2, RowStays DEF PaperInv
  <1>4. CASE nextId <= MaxTrades
    <2>1. nextId \in Ids
      BY <1>2, <1>4 DEF Ids
    <2>2. row \in Trade /\ row.status = "open" /\ row.side = req[r].side
            /\ row.user = req[r].user
      BY <1>1, NewRowOk
    <2>3. RowOk(row)
      BY <1>1, <2>2 DEF RowOk, ClosedWell
    <2>4. /\ db' = [j \in Ids |-> db'[j]] /\ db'[nextId] = row
          /\ \A j \in Ids : j # nextId => db'[j] = db[j]
      BY <1>4, <2>1 DEF OpenInserted, PaperInv, RowsOk
    <2> HIDE DEF row
    <2>5. db[nextId] = NoRow
      BY <1>2, <2>1 DEF PaperInv, RowsOk
    <2>6. nextId' = nextId + 1 /\ nextId' \in 1..(MaxTrades + 1)
      BY <1>2, <1>4 DEF OpenInserted
    <2>7. UNCHANGED <<market, wpc, wprice, wusers, wtodo, wobj, pend, wid, evaluated>>
      BY DEF OpenInserted
    <2>8. RowsOk'
      <3>1. ASSUME NEW i \in Ids, db'[i] # NoRow PROVE RowOk(db'[i]) /\ i < nextId'
        <4>1. CASE i = nextId
          BY <1>2, <2>3, <2>4, <2>6, <4>1
        <4>2. CASE i # nextId
          <5>1. i < nextId /\ RowOk(db[i]) /\ i \in Nat
            BY <2>4, <3>1, <4>2, PaperAssumption DEF PaperInv, RowsOk, Ids
          <5>2. QED
            BY <1>2, <2>4, <2>6, <4>2, <5>1
        <4>3. QED
          BY <4>1, <4>2
      <3>2. QED
        BY <2>4, <2>6, <2>7, <3>1 DEF PaperInv, RowsOk
    <2>9. RequestsOk'
      <3>1. req' = [s \in Requests |-> req'[s]] /\ req'[r] = Idle
              /\ \A s \in Requests : s # r => req'[s] = req[s]
        BY DEF SetReq, OpenInserted, PaperInv, RequestsOk
      <3>2. ASSUME NEW s \in Requests, s # r PROVE RequestOk(req[s])'
        <4>1. RequestOk(req[s]) /\ req'[s] = req[s]
          BY <3>1, <3>2 DEF PaperInv, RequestsOk
        <4>2. CASE req[s] \in Closing
          <5>1. req[s].id \in Ids /\ req[s].id < nextId /\ req[s].id \in Nat
                  /\ req[s].row.side \in Sides[req[s].row.user]
                  /\ (db[req[s].id] # NoRow => SameTrade(req[s].row, db[req[s].id]))
            BY <4>1, <4>2, PaperAssumption DEF RequestOk, Idle, Opening, Closing, Deleting, Ids
          <5>2. db'[req[s].id] = db[req[s].id] /\ req[s].id < nextId'
            BY <1>2, <2>4, <2>6, <5>1
          <5>3. QED
            BY <4>1, <4>2, <5>1, <5>2 DEF RequestOk
        <4>3. CASE req[s] \notin Closing
          BY <4>1, <4>3 DEF RequestOk
        <4>4. QED
          BY <4>2, <4>3
      <3>3. RequestOk(req[r])'
        BY <3>1 DEF RequestOk
      <3>4. QED
        BY <3>1, <3>2, <3>3 DEF RequestsOk
    <2>10. JobOk'
      BY <2>7 DEF PaperInv, JobOk
    <2>11. ObjectsOk'
      <3>1. ASSUME NEW j \in Ids, wobj[j] \notin {NoRow, Expired}
            PROVE  j < nextId' /\ db'[j] = db[j]
        <4>1. j < nextId /\ j \in Nat
          BY <3>1, PaperAssumption DEF PaperInv, ObjectsOk, Ids
        <4>2. QED
          BY <1>2, <2>4, <2>6, <4>1
      <3>2. QED
        BY <2>7, <3>1 DEF PaperInv, ObjectsOk
    <2>12. PendingOk' /\ NotMissed' /\ ByHand'
      <3>1. \A j \in pend : j # nextId /\ db'[j] = db[j]
        BY <2>4, <2>5 DEF PaperInv, JobOk, PendingOk
      <3>2. PendingOk'
        BY <2>7, <3>1 DEF PaperInv, PendingOk, Being
      <3>3. ByHand'
        BY <2>2, <2>4, <2>7 DEF PaperInv, JobOk, ByHand, IsClosed
      <3>4. NotMissed'
        <4>1. ASSUME NEW j \in evaluated PROVE j < nextId' /\ db'[j] = db[j]
          <5>1. j < nextId /\ j \in Ids /\ j \in Nat
            BY PaperAssumption DEF PaperInv, JobOk, NotMissed, Ids
          <5>2. QED
            BY <1>2, <2>4, <2>6, <5>1
        <4>2. QED
          BY <2>7, <4>1 DEF PaperInv, NotMissed, Being
      <3>5. QED
        BY <3>2, <3>3, <3>4
    <2>13. PaperInv'
      BY <2>8, <2>9, <2>10, <2>11, <2>12 DEF PaperInv
    <2>14. ASSUME NEW j \in Ids PROVE StopTightens(j)
      BY <2>4, <2>5, RowStays DEF PaperInv, IsOpen, IsRow
    <2>15. QED
      BY <2>13, <2>14
  <1>5. QED
    BY <1>2, <1>3, <1>4

-----------------------------------------------------------------------------
(* The job.                                                                 *)

LEMMA EndJobKeeps ==
  ASSUME PaperInv, EndJob, UNCHANGED <<db, nextId, market, req>>
  PROVE  PaperInv'
  <1>1. RowsOk' /\ RequestsOk'
    BY DEF PaperInv, RowsOk, RequestsOk, RequestOk
  <1>2. JobOk' /\ PendingOk' /\ ByHand' /\ NotMissed'
    BY DEF EndJob, JobOk, PendingOk, ByHand, NotMissed
  <1>3. ObjectsOk'
    BY DEF EndJob, ObjectsOk
  <1>4. QED
    BY <1>1, <1>2, <1>3 DEF PaperInv

\* The steps up to the first user.
LEMMA JobOpens ==
  ASSUME PaperInv, JobStarts \/ PricesArrive \/ SelectUsers
  PROVE  PaperInv'
  <1>1. UNCHANGED <<db, nextId, market, req, wtodo, wobj, pend, wid, evaluated>>
    BY DEF JobStarts, PricesArrive, SelectUsers, JobVars
  <1>2. RowsOk' /\ RequestsOk' /\ ObjectsOk'
    BY <1>1 DEF PaperInv, RowsOk, RequestsOk, RequestOk, ObjectsOk
  <1>3. /\ wpc \in {"idle", "fetch", "select"} /\ wpc' \in {"fetch", "select", "check"}
        /\ wpc' \notin {"closing", "refresh"}
    BY DEF JobStarts, PricesArrive, SelectUsers
  <1>4. wtodo = {} /\ pend = {} /\ evaluated = {}
    BY <1>3 DEF PaperInv, JobOk
  <1>5. JobOk'
    BY <1>1, <1>3, <1>4 DEF PaperInv, JobOk, RowsOk, JobStarts, PricesArrive, SelectUsers
  <1>6. PendingOk' /\ ByHand' /\ NotMissed'
    BY <1>1, <1>4 DEF PendingOk, ByHand, NotMissed
  <1>7. QED
    BY <1>2, <1>5, <1>6 DEF PaperInv

LEMMA LoadTradesKeeps ==
  ASSUME PaperInv, NEW u \in Users, LoadTrades(u)
  PROVE  PaperInv'
  <1>1. UNCHANGED <<db, nextId, market, req, wpc, wprice, pend, wid, evaluated>>
    BY DEF LoadTrades, JobVars
  <1>2. RowsOk' /\ RequestsOk'
    BY <1>1 DEF PaperInv, RowsOk, RequestsOk, RequestOk
  <1>3. ASSUME NEW i \in OpenIds(u)
        PROVE  /\ i \in Ids /\ IsOpen(db[i]) /\ db[i] \in Trade /\ RowOk(db[i]) /\ i < nextId
               /\ db[i] # NoRow /\ Tighter(db[i], db[i])
    <2>1. i \in Ids /\ IsOpen(db[i])
      BY <1>3 DEF OpenIds
    <2>2. db[i] \in Trade /\ RowOk(db[i]) /\ i < nextId /\ db[i] # NoRow
      BY <2>1, RowIs DEF IsOpen, PaperInv
    <2>3. QED
      BY <2>1, <2>2 DEF Tighter, SameTrade, AtLeast, Trade
  <1>4. /\ wpc = "check" /\ wpc' = "check"
        /\ wobj' = [i \in Ids |-> IF i \in OpenIds(u) THEN db[i] ELSE wobj[i]]
        /\ wtodo' = OpenIds(u) /\ wusers' \subseteq wusers
    BY DEF LoadTrades
  <1>5. JobOk'
    BY <1>1, <1>3, <1>4 DEF PaperInv, JobOk
  <1>6. ObjectsOk'
    <2>1. ASSUME NEW i \in Ids, wobj'[i] \notin {NoRow, Expired}
          PROVE  /\ wobj'[i] \in Trade /\ wobj'[i].side \in Sides[wobj'[i].user] /\ i < nextId
                 /\ db[i] # NoRow => Tighter(wobj'[i], db[i])
      <3>1. CASE i \in OpenIds(u)
        BY <1>3, <1>4, <3>1 DEF RowOk
      <3>2. CASE i \notin OpenIds(u)
        BY <1>4, <2>1, <3>2 DEF PaperInv, ObjectsOk
      <3>3. QED
        BY <3>1, <3>2
    <2>2. QED
      BY <1>1, <1>4, <2>1 DEF ObjectsOk
  <1>7. PendingOk'
    <2>1. ASSUME NEW i \in pend
          PROVE  /\ i \in evaluated /\ db[i] # NoRow /\ wobj'[i] \in Trade
                 /\ IsOpen(db[i]) => ~StopHit(wobj'[i], wprice) /\ ~TakeHit(wobj'[i], wprice)
      <3>1. i \in Ids /\ i \in evaluated
        BY DEF PaperInv, JobOk, PendingOk
      <3>2. CASE i \in OpenIds(u)
        <4>1. wobj'[i] = db[i]
          BY <1>4, <3>1, <3>2
        <4>2. QED
          BY <1>3, <1>4, <3>1, <3>2, <4>1 DEF PaperInv, NotMissed, Being
      <3>3. CASE i \notin OpenIds(u)
        <4>1. wobj'[i] = wobj[i]
          BY <1>4, <3>1, <3>3
        <4>2. QED
          BY <1>4, <4>1 DEF PaperInv, PendingOk, Being
      <3>4. QED
        BY <3>2, <3>3
    <2>2. QED
      BY <1>1, <2>1 DEF PendingOk
  <1>8. ByHand'
    BY <1>1, <1>3, <1>4 DEF PaperInv, ByHand, IsClosed, IsOpen
  <1>9. NotMissed'
    BY <1>1 DEF PaperInv, NotMissed, Being
  <1>10. QED
    BY <1>2, <1>5, <1>6, <1>7, <1>8, <1>9 DEF PaperInv

LEMMA ReloadKeeps ==
  ASSUME PaperInv, NEW i \in Ids, ReloadFails(i)
  PROVE  PaperInv'
  <1>1. UNCHANGED <<db, nextId, market, req, wpc, wprice, wusers, wobj, pend, wid, evaluated>>
          /\ wtodo' = {}
    BY DEF ReloadFails, JobVars
  <1>2. RowsOk' /\ RequestsOk' /\ ObjectsOk'
    BY <1>1 DEF PaperInv, RowsOk, RequestsOk, RequestOk, ObjectsOk
  <1>3. JobOk'
    BY <1>1 DEF PaperInv, JobOk
  <1>4. PendingOk' /\ ByHand' /\ NotMissed'
    BY <1>1 DEF PaperInv, PendingOk, ByHand, NotMissed, Being
  <1>5. QED
    BY <1>2, <1>3, <1>4 DEF PaperInv

\* One turn of the loop: the job's copy is moved on, flushed, and looked at.
LEMMA EvaluateKeeps ==
  ASSUME PaperInv, NEW i \in Ids, Evaluate(i)
  PROVE  PaperInv'
  <1> DEFINE old == Object(i)
             new == Trailed(old, wprice)
             out == (StopHit(new, wprice) \/ TakeHit(new, wprice)) /\ IsOpen(db[i])
  <1>1. /\ wpc = "check" /\ i \in wtodo /\ IsRow(old) /\ (new = old \/ IsRow(db[i]))
        /\ wobj' = [wobj EXCEPT ![i] = new]
        /\ pend' = IF new = old THEN pend ELSE pend \cup {i}
        /\ wtodo' = wtodo \ {i} /\ evaluated' = evaluated \cup {i}
        /\ IF out THEN wpc' = "closing" /\ wid' = i ELSE wpc' = wpc /\ wid' = wid
        /\ UNCHANGED <<db, nextId, market, req, wprice, wusers>>
    BY DEF Evaluate, JobVars
  <1>2. wprice \in Prices
    BY <1>1 DEF PaperInv, JobOk
  <1>3. db[i] # NoRow => RowOk(db[i]) /\ db[i] \in Trade /\ i < nextId /\ IsRow(db[i])
    BY RowIs DEF PaperInv
  <1>4. /\ old \in Trade /\ old.side \in Sides[old.user] /\ i < nextId
        /\ db[i] # NoRow => Tighter(old, db[i])
    <2>1. CASE wobj[i] = Expired
      <3>1. old = db[i] /\ db[i] # NoRow
        BY <1>1, <2>1 DEF Object, IsRow
      <3>2. Tighter(db[i], db[i])
        BY <1>3, <3>1 DEF Tighter, SameTrade, AtLeast, Trade
      <3>3. QED
        BY <1>3, <3>1, <3>2 DEF RowOk
    <2>2. CASE wobj[i] # Expired
      <3>1. old = wobj[i] /\ wobj[i] \notin {NoRow, Expired}
        BY <1>1, <2>2 DEF Object, IsRow
      <3>2. QED
        BY <3>1 DEF PaperInv, ObjectsOk
    <2>3. QED
      BY <2>1, <2>2
  <1>5. new \in Trade /\ Tighter(new, old)
    BY <1>2, <1>4, TrailedOk
  <1> HIDE DEF old, new
  <1>6. new.side \in Sides[new.user]
    BY <1>4, <1>5 DEF Tighter, SameTrade
  <1>7. db[i] # NoRow => Tighter(new, db[i])
    BY <1>3, <1>4, <1>5, TighterStill
  <1>8. wobj' = [j \in Ids |-> wobj'[j]] /\ wobj'[i] = new
          /\ \A j \in Ids : j # i => wobj'[j] = wobj[j]
    BY <1>1 DEF PaperInv, ObjectsOk
  <1>9. RowsOk' /\ RequestsOk'
    BY <1>1 DEF PaperInv, RowsOk, RequestsOk, RequestOk
  <1>10. wpc' = "closing" => wid' = i /\ out
    BY <1>1
  <1>11. JobOk'
    <2>1. wpc' \in {"check", "closing"} /\ wid' \in Ids \cup {None}
      BY <1>1 DEF PaperInv, JobOk
    <2>2. wpc' = "closing" => wid' \in Ids \ wtodo' /\ wobj'[wid'] \in Trade
      BY <1>1, <1>5, <1>8, <1>10
    <2>3. wtodo' \subseteq Ids /\ pend' \subseteq Ids /\ evaluated' \subseteq Ids
      BY <1>1 DEF PaperInv, JobOk
    <2>4. wprice' \in Prices /\ wusers' \subseteq Users
      BY <1>1, <1>2 DEF PaperInv, JobOk
    <2>5. QED
      BY <2>1, <2>2, <2>3, <2>4 DEF JobOk
  <1>12. ObjectsOk'
    <2>1. ASSUME NEW j \in Ids, wobj'[j] \notin {NoRow, Expired}
          PROVE  /\ wobj'[j] \in Trade /\ wobj'[j].side \in Sides[wobj'[j].user] /\ j < nextId
                 /\ db[j] # NoRow => Tighter(wobj'[j], db[j])
      <3>1. CASE j = i
        BY <1>4, <1>5, <1>6, <1>7, <1>8, <3>1
      <3>2. CASE j # i
        BY <1>8, <2>1, <3>2 DEF PaperInv, ObjectsOk
      <3>3. QED
        BY <3>1, <3>2
    <2>2. QED
      BY <1>1, <1>8, <2>1 DEF ObjectsOk
  <1>13. IsOpen(db[i]) /\ ~Being(i)' => ~StopHit(new, wprice) /\ ~TakeHit(new, wprice)
    BY <1>1 DEF Being
  <1>14. \A j \in Ids : j # i => ~Being(j) /\ ~Being(j)'
    BY <1>1, <1>10 DEF Being
  <1>15. PendingOk'
    <2>1. ASSUME NEW j \in pend'
          PROVE  /\ j \in evaluated' /\ db[j] # NoRow /\ wobj'[j] \in Trade
                 /\ IsOpen(db[j]) /\ ~Being(j)'
                      => ~StopHit(wobj'[j], wprice) /\ ~TakeHit(wobj'[j], wprice)
      <3>1. CASE j = i
        <4>1. db[i] # NoRow
          <5>1. CASE new = old
            BY <1>1, <2>1, <3>1, <5>1 DEF PaperInv, PendingOk
          <5>2. CASE new # old
            BY <1>1, <5>2 DEF IsRow
          <5>3. QED
            BY <5>1, <5>2
        <4>2. QED
          BY <1>1, <1>5, <1>8, <1>13, <3>1, <4>1
      <3>2. CASE j # i
        <4>1. j \in pend /\ j \in Ids
          BY <1>1, <2>1, <3>2 DEF PaperInv, JobOk
        <4>2. wobj'[j] = wobj[j] /\ ~Being(j)
          BY <1>8, <1>14, <3>2, <4>1
        <4>3. QED
          BY <1>1, <4>1, <4>2 DEF PaperInv, PendingOk
      <3>3. QED
        BY <3>1, <3>2
    <2>2. QED
      BY <1>1, <2>1 DEF PendingOk
  <1>16. ByHand'
    BY <1>1 DEF PaperInv, ByHand
  <1>17. NotMissed'
    <2>1. ASSUME NEW j \in evaluated'
          PROVE  /\ j < nextId
                 /\ IsOpen(db[j]) /\ ~Being(j)' => ~StopHit(db[j], wprice) /\ ~TakeHit(db[j], wprice)
      <3>1. CASE j = i
        <4>1. ASSUME IsOpen(db[i]), ~Being(i)'
              PROVE  ~StopHit(db[i], wprice) /\ ~TakeHit(db[i], wprice)
          <5>1. db[i] \in Trade /\ Tighter(new, db[i])
            BY <1>3, <1>7, <4>1 DEF IsOpen, IsRow
          <5>2. QED
            BY <1>2, <1>5, <1>13, <4>1, <5>1, LooserIsNotHit
        <4>2. QED
          BY <1>4, <3>1, <4>1
      <3>2. CASE j # i
        <4>1. j \in evaluated /\ j \in Ids
          BY <1>1, <2>1, <3>2 DEF PaperInv, JobOk
        <4>2. QED
          BY <1>14, <3>2, <4>1 DEF PaperInv, NotMissed
      <3>3. QED
        BY <3>1, <3>2
    <2>2. QED
      BY <1>1, <2>1 DEF NotMissed
  <1>18. QED
    BY <1>9, <1>11, <1>12, <1>15, <1>16, <1>17 DEF PaperInv

\* The commit writes the levels of every pending row, and closes one at a level it has.
LEMMA CommitKeeps ==
  ASSUME PaperInv, WatcherCommits
  PROVE  PaperInv' /\ \A i \in Ids : StopTightens(i)
  <1> DEFINE level == ExitLevel(wobj[wid], wprice)
             end == Closed(wobj[wid], level.exit, level.reason)
             write(i) == IF i = wid THEN end ELSE WithLevels(db[i], wobj[i])
  <1>1. /\ wpc = "closing" /\ IsRow(db[wid]) /\ pend' = {} /\ wpc' = "refresh" /\ wid' = wid
        /\ db' = [i \in Ids |-> IF i \in pend \cup {wid} THEN write(i) ELSE db[i]]
        /\ UNCHANGED <<nextId, market, req, wprice, wusers, wtodo, wobj, evaluated>>
    BY DEF WatcherCommits, JobVars
  <1>2. wid \in Ids /\ wid \notin wtodo /\ wobj[wid] \in Trade /\ wprice \in Prices
    BY <1>1 DEF PaperInv, JobOk
  <1>3. /\ wobj[wid].side \in Sides[wobj[wid].user] /\ wid < nextId
        /\ Tighter(wobj[wid], db[wid]) /\ db[wid] \in Trade
    <2>1. wobj[wid] \notin {NoRow, Expired}
      BY <1>2, PaperAssumption
    <2>2. db[wid] # NoRow /\ db[wid] \in Trade
      BY <1>1, <1>2, RowIs DEF PaperInv
    <2>3. QED
      BY <1>2, <2>1, <2>2 DEF PaperInv, ObjectsOk
  <1>4. /\ level.exit \in Nat /\ level.reason \in Reasons \ {"Manual"}
        /\ level.reason = "Take Profit" => level.exit = wobj[wid].take
        /\ level.reason = "Stop Loss" => level.exit = wobj[wid].stop /\ ~wobj[wid].active
        /\ level.reason = "Trailing Stop" => level.exit = wobj[wid].stop /\ wobj[wid].active
    BY <1>2 DEF ExitLevel, Trade, Reasons
  <1> HIDE DEF level
  <1>5. /\ end \in Trade /\ SameTrade(end, wobj[wid]) /\ end.status = "closed"
        /\ end.exit = level.exit /\ end.pnl \in Int /\ end.reason = level.reason
        /\ end.stop = wobj[wid].stop /\ end.active = wobj[wid].active
    <2> DEFINE row == wobj[wid]
               price == level.exit
               reason == level.reason
    <2>1. row \in Trade /\ price \in Nat /\ reason \in Reasons
      BY <1>2, <1>4
    <2>2. end = Closed(row, price, reason)
      OBVIOUS
    <2> HIDE DEF row, price, reason, end
    <2>3. /\ end \in Trade /\ SameTrade(end, row) /\ end.status = "closed"
          /\ end.exit = price /\ end.pnl \in Int /\ end.reason = reason
          /\ end.stop = row.stop /\ end.active = row.active
      BY <2>1, <2>2, ClosedOk
    <2>4. QED
      BY <2>3 DEF row, price, reason
  <1> HIDE DEF end
  <1>6. RowOk(end)
    BY <1>3, <1>4, <1>5 DEF RowOk, ClosedWell, SameTrade
  <1>7. ASSUME NEW i \in pend, i # wid
        PROVE  /\ i \in Ids /\ i < nextId /\ db[i] # NoRow /\ db[i] \in Trade /\ wobj[i] \in Trade
               /\ db'[i] \in Trade /\ SameTrade(db'[i], db[i]) /\ RowOk(db'[i])
               /\ db'[i].status = db[i].status /\ db'[i].reason = db[i].reason
               /\ db'[i].stop = wobj[i].stop /\ Tighter(db'[i], db[i])
               /\ Tighter(wobj[i], db'[i])
    <2>1. i \in Ids /\ db[i] # NoRow /\ wobj[i] \in Trade
      BY DEF PaperInv, JobOk, PendingOk
    <2>2. db[i] \in Trade /\ RowOk(db[i]) /\ i < nextId /\ IsRow(db[i])
      BY <2>1, RowIs DEF PaperInv
    <2>3. Tighter(wobj[i], db[i])
      BY <2>1, PaperAssumption DEF PaperInv, ObjectsOk
    <2>4. db'[i] = WithLevels(db[i], wobj[i])
      BY <1>1, <1>7, <2>1
    <2>5. /\ db'[i] \in Trade /\ SameTrade(db'[i], db[i])
          /\ db'[i].status = db[i].status /\ db'[i].exit = db[i].exit /\ db'[i].pnl = db[i].pnl
          /\ db'[i].reason = db[i].reason /\ db'[i].stop = wobj[i].stop
      BY <2>1, <2>2, <2>4, LevelsOk
    <2>6. db[i].status = "closed" => db[i].reason = "Manual"
      BY <1>7, <2>2 DEF PaperInv, ByHand, IsClosed
    <2>7. RowOk(db'[i])
      BY <2>2, <2>5, <2>6 DEF RowOk, ClosedWell, SameTrade
    <2>8. Tighter(db'[i], db[i]) /\ Tighter(wobj[i], db'[i])
      BY <2>1, <2>2, <2>3, <2>5 DEF Tighter, SameTrade, AtLeast, Trade
    <2>9. QED
      BY <2>1, <2>2, <2>5, <2>7, <2>8
  <1>8. db' = [i \in Ids |-> db'[i]] /\ db'[wid] = end
          /\ \A i \in Ids \ (pend \cup {wid}) : db'[i] = db[i]
    BY <1>1, <1>2
  <1>9. RowsOk'
    <2>1. ASSUME NEW i \in Ids, db'[i] # NoRow PROVE RowOk(db'[i]) /\ i < nextId
      BY <1>3, <1>6, <1>7, <1>8, <2>1 DEF PaperInv, RowsOk
    <2>2. QED
      BY <1>1, <1>8, <2>1 DEF PaperInv, RowsOk
  <1>10. ASSUME NEW i \in Ids, db'[i] # NoRow
         PROVE  db[i] # NoRow /\ SameTrade(db'[i], db[i])
    <2>1. SameTrade(end, db[wid])
      BY <1>3, <1>5 DEF SameTrade, Tighter
    <2>2. QED
      BY <1>1, <1>7, <1>8, <1>10, <2>1 DEF IsRow, SameTrade
  <1>11. RequestsOk'
    <2>1. ASSUME NEW r \in Requests PROVE RequestOk(req[r])'
      <3>1. RequestOk(req[r]) /\ req'[r] = req[r] /\ nextId' = nextId
        BY <1>1 DEF PaperInv, RequestsOk
      <3>2. QED
        BY <3>1, <1>10 DEF RequestOk, SameTrade, Closing
    <2>2. QED
      BY <1>1, <2>1 DEF PaperInv, RequestsOk
  <1>12. JobOk'
    BY <1>1 DEF PaperInv, JobOk
  <1>13. ObjectsOk'
    <2>1. ASSUME NEW i \in Ids, wobj[i] \notin {NoRow, Expired}, db'[i] # NoRow
          PROVE  Tighter(wobj[i], db'[i])
      <3>1. CASE i = wid
        BY <1>2, <1>5, <1>8, <3>1 DEF Tighter, SameTrade, AtLeast, Trade
      <3>2. CASE i \in pend /\ i # wid
        BY <1>7, <3>2
      <3>3. CASE i \notin pend \cup {wid}
        BY <1>8, <2>1, <3>3 DEF PaperInv, ObjectsOk
      <3>4. QED
        BY <3>1, <3>2, <3>3
    <2>2. QED
      BY <1>1, <2>1 DEF PaperInv, ObjectsOk
  <1>14. PendingOk'
    BY <1>1 DEF PendingOk
  <1>15. ByHand'
    <2>1. ASSUME NEW i \in wtodo, IsClosed(db'[i]) PROVE db'[i].reason = "Manual"
      <3>1. i \in Ids /\ i # wid
        BY <1>2 DEF PaperInv, JobOk
      <3>2. db[i] # NoRow /\ db'[i].status = db[i].status /\ db'[i].reason = db[i].reason
        BY <1>7, <1>8, <1>10, <2>1, <3>1 DEF IsClosed, IsRow
      <3>3. IsClosed(db[i])
        BY <2>1, <3>1, <3>2, RowIs DEF IsClosed, PaperInv
      <3>4. QED
        BY <3>2, <3>3 DEF PaperInv, ByHand
    <2>2. QED
      BY <1>1, <2>1 DEF ByHand
  <1>16. NotMissed'
    <2>1. ASSUME NEW i \in evaluated, IsOpen(db'[i])
          PROVE  ~StopHit(db'[i], wprice) /\ ~TakeHit(db'[i], wprice)
      <3>1. i \in Ids /\ i # wid
        BY <1>5, <1>8, <2>1 DEF PaperInv, JobOk, IsOpen
      <3>2. ~Being(i)
        BY <3>1 DEF Being
      <3>3. CASE i \in pend
        <4>1. IsOpen(db[i])
          BY <1>7, <2>1, <3>1, <3>3, RowIs DEF IsOpen, PaperInv
        <4>2. ~StopHit(wobj[i], wprice) /\ ~TakeHit(wobj[i], wprice)
          BY <3>2, <3>3, <4>1 DEF PaperInv, PendingOk
        <4>3. QED
          BY <1>2, <1>7, <3>1, <3>3, <4>2, LooserIsNotHit
      <3>4. CASE i \notin pend
        BY <1>8, <2>1, <3>1, <3>2, <3>4 DEF PaperInv, NotMissed
      <3>5. QED
        BY <3>3, <3>4
    <2>2. QED
      BY <1>1, <2>1 DEF PaperInv, NotMissed
  <1>17. ASSUME NEW i \in Ids PROVE StopTightens(i)
    <2>1. CASE i = wid
      BY <1>5, <1>8, <2>1, RowStays DEF PaperInv, IsOpen
    <2>2. CASE i \in pend /\ i # wid
      <3>1. Tighter(db'[i], db[i])
        BY <1>7, <2>2
      <3>2. QED
        BY <3>1 DEF StopTightens, Tighter, SameTrade
    <2>3. CASE i \notin pend \cup {wid}
      BY <1>8, <2>3, RowStays DEF PaperInv
    <2>4. QED
      BY <2>1, <2>2, <2>3
  <1>18. QED
    BY <1>9, <1>11, <1>12, <1>13, <1>14, <1>15, <1>16, <1>17 DEF PaperInv

\* After the commit of a close the job holds nothing that is not committed, and goes on.
LEMMA RefreshKeeps ==
  ASSUME PaperInv, Refreshed \/ RefreshFails
  PROVE  PaperInv'
  <1>1. /\ wpc = "refresh" /\ wpc' = "check" /\ wid' = None /\ wtodo' \subseteq wtodo
        /\ UNCHANGED <<db, nextId, market, req, wprice, wusers, wobj, pend, evaluated>>
    BY DEF Refreshed, RefreshFails, JobVars
  <1>2. RowsOk' /\ RequestsOk' /\ ObjectsOk'
    BY <1>1 DEF PaperInv, RowsOk, RequestsOk, RequestOk, ObjectsOk
  <1>3. JobOk'
    BY <1>1 DEF PaperInv, JobOk
  <1>4. PendingOk' /\ ByHand' /\ NotMissed'
    BY <1>1 DEF PaperInv, PendingOk, ByHand, NotMissed, Being
  <1>5. QED
    BY <1>2, <1>3, <1>4 DEF PaperInv

LEMMA AuditFailsKeeps ==
  ASSUME PaperInv, AuditFails
  PROVE  PaperInv'
  <1>1. /\ wpc = "refresh" /\ wpc' = "check" /\ wid' = None
        /\ wobj' = [i \in Ids |-> IF wobj[i] = NoRow THEN NoRow ELSE Expired]
        /\ UNCHANGED <<db, nextId, market, req, wprice, wusers, wtodo, pend, evaluated>>
    BY DEF AuditFails, JobVars
  <1>2. RowsOk' /\ RequestsOk'
    BY <1>1 DEF PaperInv, RowsOk, RequestsOk, RequestOk
  <1>3. JobOk' /\ ObjectsOk'
    BY <1>1 DEF PaperInv, JobOk, ObjectsOk
  <1>4. pend = {}
    BY <1>1 DEF PaperInv, JobOk
  <1>5. PendingOk' /\ ByHand' /\ NotMissed'
    BY <1>1, <1>4 DEF PaperInv, PendingOk, ByHand, NotMissed, Being
  <1>6. QED
    BY <1>2, <1>3, <1>5 DEF PaperInv

-----------------------------------------------------------------------------
LEMMA PaperKeeps ==
  ASSUME PaperInv, [PaperNext]_paperVars
  PROVE  PaperInv' /\ \A i \in Ids : StopTightens(i)
  <1>1. ASSUME PaperInv', db' = db PROVE PaperInv' /\ \A i \in Ids : StopTightens(i)
    BY <1>1, RowStays DEF PaperInv
  <1>2. CASE MarketMoves
    <2>1. db' = db /\ RowsOk' /\ RequestsOk'
      BY <1>2 DEF MarketMoves, PaperInv, RowsOk, RequestsOk, RequestOk
    <2>2. JobOk' /\ ObjectsOk' /\ PendingOk' /\ ByHand' /\ NotMissed'
      BY <1>2 DEF MarketMoves, watcher, PaperInv, JobOk, ObjectsOk, PendingOk, ByHand,
         NotMissed, Being
    <2>3. QED
      BY <1>1, <2>1, <2>2 DEF PaperInv
  <1>3. ASSUME NEW r \in Requests, Request(r)
        PROVE  PaperInv' /\ \A i \in Ids : StopTightens(i)
    <2>1. ASSUME NEW u \in Users, NEW p \in Prices, NEW side \in Sides[u],
                 OpenTrade(r, u, side, p)
          PROVE  PaperInv' /\ \A i \in Ids : StopTightens(i)
      BY <1>1, <2>1, OpenTradeKeeps DEF OpenTrade
    <2>2. CASE OpenSized(r)
      BY <1>1, <2>2, OpenSizedKeeps DEF OpenSized
    <2>3. ASSUME NEW i \in Ids, NEW p \in Prices, CloseTrade(r, i, p)
          PROVE  PaperInv' /\ \A j \in Ids : StopTightens(j)
      BY <1>1, <2>3, CloseTradeKeeps DEF CloseTrade
    <2>4. ASSUME NEW i \in Ids, DeleteTrade(r, i)
          PROVE  PaperInv' /\ \A j \in Ids : StopTightens(j)
      BY <1>1, <2>4, DeleteTradeKeeps DEF DeleteTrade
    <2>5. CASE RequestFails(r)
      <3>1. RequestOk(Idle)
        BY DEF RequestOk
      <3>2. QED
        BY <1>1, <2>5, <3>1, RequestAlone DEF RequestFails
    <2>6. QED
      BY <1>3, <2>1, <2>2, <2>3, <2>4, <2>5, OpenInsertedKeeps, CloseCommittedKeeps,
         DeleteCommittedKeeps DEF Request
  <1>4. CASE JobStarts \/ PricesArrive \/ SelectUsers
    BY <1>1, <1>4, JobOpens DEF JobStarts, PricesArrive, SelectUsers
  <1>5. CASE NoPrices \/ WatcherCommitFails \/ JobEnds
    BY <1>1, <1>5, EndJobKeeps DEF NoPrices, WatcherCommitFails, JobEnds, JobVars
  <1>6. ASSUME NEW u \in Users, LoadTrades(u)
        PROVE  PaperInv' /\ \A i \in Ids : StopTightens(i)
    BY <1>1, <1>6, LoadTradesKeeps DEF LoadTrades
  <1>7. ASSUME NEW i \in Ids, ReloadFails(i) \/ FlushFails(i) \/ Evaluate(i)
        PROVE  PaperInv' /\ \A j \in Ids : StopTightens(j)
    <2>1. CASE ReloadFails(i)
      BY <1>1, <2>1, ReloadKeeps DEF ReloadFails
    <2>2. CASE FlushFails(i)
      BY <1>1, <2>2, EndJobKeeps DEF FlushFails, JobVars
    <2>3. CASE Evaluate(i)
      BY <1>1, <2>3, EvaluateKeeps DEF Evaluate
    <2>4. QED
      BY <1>7, <2>1, <2>2, <2>3
  <1>8. CASE Refreshed \/ AuditFails \/ RefreshFails
    BY <1>1, <1>8, RefreshKeeps, AuditFailsKeeps DEF Refreshed, AuditFails, RefreshFails
  <1>9. CASE UNCHANGED paperVars
    <2>1. db' = db /\ RowsOk' /\ RequestsOk'
      BY <1>9 DEF paperVars, PaperInv, RowsOk, RequestsOk, RequestOk
    <2>2. JobOk' /\ ObjectsOk' /\ PendingOk' /\ ByHand' /\ NotMissed'
      BY <1>9 DEF paperVars, watcher, PaperInv, JobOk, ObjectsOk, PendingOk, ByHand,
         NotMissed, Being
    <2>3. QED
      BY <1>1, <2>1, <2>2 DEF PaperInv
  <1>10. QED
    BY <1>2, <1>3, <1>4, <1>5, <1>6, <1>7, <1>8, <1>9, CommitKeeps
       DEF PaperNext, Watcher, JobStep

LEMMA PaperInvariance == PaperSpec => []PaperInv
  <1>1. PaperInit => PaperInv
    BY PaperBegins
  <1>2. PaperInv /\ [PaperNext]_paperVars => PaperInv'
    BY PaperKeeps
  <1>3. QED
    BY <1>1, <1>2, PTL DEF PaperSpec

(* Rows keep their types, the committed stop of an open trade never moves   *)
(* against the trader, and a trade that was closed automatically ended at   *)
(* the level its reason names, for any users, prices and percentages and    *)
(* any number of requests, whichever closes, deletions and rollbacks raced  *)
(* (check_exits, close_trade).                                              *)
THEOREM LevelsKept == PaperSpec => LevelsAreKept
  <1>1. PaperInv => PaperTypes /\ ExitMatchesReason
    <2> SUFFICES ASSUME PaperInv PROVE PaperTypes /\ ExitMatchesReason
      OBVIOUS
    <2>1. ASSUME NEW i \in Ids, IsRow(db[i]) PROVE RowOk(db[i])
      BY <2>1, RowIs DEF PaperInv
    <2>2. DOMAIN db = Ids /\ nextId \in 1..(MaxTrades + 1) /\ market \in Prices
      BY DEF PaperInv, RowsOk
    <2>3. ASSUME NEW r \in Requests
          PROVE  req[r].pc \in {"idle", "open", "insert", "close", "delete"}
      <3>1. RequestOk(req[r])
        BY DEF PaperInv, RequestsOk
      <3>2. QED
        BY <3>1 DEF RequestOk, Idle, Opening, Closing, Deleting
    <2>4. PaperTypes
      BY <2>1, <2>2, <2>3 DEF PaperTypes, RowOk, ClosedWell, PaperInv, JobOk
    <2>5. ASSUME NEW i \in Ids, IsClosed(db[i])
          PROVE  CASE db[i].reason = "Take Profit"   -> db[i].exit = db[i].take
                   [] db[i].reason = "Stop Loss"     -> db[i].exit = db[i].stop /\ ~db[i].active
                   [] db[i].reason = "Trailing Stop" -> /\ db[i].exit = db[i].stop
                                                        /\ db[i].active
                   [] OTHER -> TRUE
      <3>1. ClosedWell(db[i]) /\ db[i].status = "closed"
        BY <2>1, <2>5 DEF IsClosed, RowOk
      <3>2. QED
        BY <3>1 DEF ClosedWell
    <2>6. QED
      BY <2>4, <2>5 DEF ExitMatchesReason
  <1>2. PaperInv /\ [PaperNext]_paperVars
          => [PaperTypes' /\ ExitMatchesReason' /\ \A i \in Ids : StopTightens(i)]_db
    <2>1. PaperInv' => PaperTypes' /\ ExitMatchesReason'
      BY <1>1, PTL
    <2>2. QED
      BY <2>1, PaperKeeps
  <1>3. QED
    BY <1>2, PaperInvariance, PTL DEF PaperSpec, LevelsAreKept

\* The insert of a row takes its notional from what is free, and from nothing else.
LEMMA InsertTakes ==
  ASSUME PaperInv, NEW r \in Requests, OpenInserted(r), nextId' # nextId,
         NEW u \in Users, req[r].user = u
  PROVE  Free(u)' = Free(u) - req[r].cash
  <1> DEFINE row == NewRow(req[r])
             pnls == [i \in Ids |-> IF i \in ClosedIds(u) THEN db[i].pnl ELSE 0]
             notionals == [i \in Ids |-> IF i \in OpenIds(u) THEN db[i].notional ELSE 0]
  <1>1. /\ db' = [db EXCEPT ![nextId] = row]
        /\ nextId \in Ids /\ nextId <= MaxTrades
    BY PaperAssumption DEF OpenInserted, PaperInv, RowsOk, Ids
  <1>2. row \in Trade /\ row.user = u /\ row.status = "open" /\ row.notional = req[r].cash
    <2>1. req[r].pc = "insert" /\ RequestOk(req[r])
      BY DEF OpenInserted, PaperInv, RequestsOk
    <2>2. req[r] \in Opening /\ req[r].cash \in Nat
      BY <2>1 DEF RequestOk, Idle, Closing, Deleting
    <2>3. QED
      BY <2>2, NewRowOk
  <1>3. db[nextId] = NoRow
    BY <1>1, PaperAssumption DEF PaperInv, RowsOk, Ids
  <1> HIDE DEF row
  <1>4. db'[nextId] = row /\ \A i \in Ids : i # nextId => db'[i] = db[i]
    BY <1>1 DEF PaperInv, RowsOk
  <1>5. req[r].cash \in Int
    <2>1. req[r].pc = "insert" /\ RequestOk(req[r])
      BY DEF OpenInserted, PaperInv, RequestsOk
    <2>2. QED
      BY <2>1 DEF RequestOk, Idle, Opening, Closing, Deleting
  <1>6. IsRow(row)
    BY <1>2, PaperAssumption DEF IsRow
  <1>7. nextId \notin ClosedIds(u) /\ nextId \notin OpenIds(u)
    BY <1>3 DEF ClosedIds, OpenIds, IsClosed, IsOpen, IsRow
  <1>8. ClosedIds(u)' = ClosedIds(u) /\ OpenIds(u)' = OpenIds(u) \cup {nextId}
    BY <1>1, <1>2, <1>4, <1>6, <1>7 DEF ClosedIds, OpenIds, IsClosed, IsOpen, IsRow
  <1>9. ClosedPnl(u)' = ClosedPnl(u)
    <2>1. pnls' = pnls
      BY <1>4, <1>7, <1>8
    <2>2. ClosedPnl(u) = Total(pnls)
      BY DEF ClosedPnl
    <2>3. ClosedPnl(u)' = Total(pnls')
      BY DEF ClosedPnl, Total
    <2>4. QED
      BY <2>1, <2>2, <2>3
  <1>10. OpenNotional(u)' = OpenNotional(u) + req[r].cash
    <2> DEFINE moved == [i \in Ids |-> IF i \in OpenIds(u)' THEN db'[i].notional ELSE 0]
    <2>1. notionals \in [Ids -> Int]
      <3> SUFFICES ASSUME NEW i \in Ids, i \in OpenIds(u) PROVE db[i].notional \in Int
        OBVIOUS
      <3>1. IsRow(db[i])
        BY DEF OpenIds, IsOpen
      <3>2. QED
        BY <3>1, RowIs DEF PaperInv, Trade
    <2>2. moved[nextId] = req[r].cash /\ notionals[nextId] = 0
      BY <1>1, <1>2, <1>4, <1>7, <1>8
    <2>3. \A i \in Ids \ {nextId} : moved[i] = notionals[i]
      BY <1>4, <1>8
    <2>4. moved \in [Ids -> Int]
      <3>1. \A i \in Ids : moved[i] \in Int
        BY <1>5, <2>1, <2>2, <2>3
      <3>2. QED
        BY <3>1
    <2>5. OpenNotional(u) = Total(notionals)
      BY DEF OpenNotional
    <2>6. OpenNotional(u)' = Total(moved)
      BY DEF OpenNotional, Total
    <2> HIDE DEF moved, notionals
    <2>7. Total(moved) = Total(notionals) + moved[nextId] - notionals[nextId]
      BY <1>1, <2>1, <2>3, <2>4, TotalMoves
    <2>8. Total(notionals) \in Int
      BY <2>1, TotalTyped
    <2>9. QED
      BY <1>5, <2>2, <2>5, <2>6, <2>7, <2>8
  <1>11. ClosedPnl(u) \in Int /\ OpenNotional(u) \in Int
    BY AccountTyped
  <1>12. Free(u) = InitialCash + ClosedPnl(u) - OpenNotional(u)
           /\ Free(u)' = InitialCash + ClosedPnl(u)' - OpenNotional(u)'
    BY DEF Free
  <1>13. QED
    BY <1>5, <1>9, <1>10, <1>11, <1>12, PaperAssumption

(* However closes, deletions and other opens fall between the two sums an    *)
(* open is sized by and its insert, it overdraws the account by no more than *)
(* the losses booked between the sums and what was taken from the account    *)
(* after them, for any number of requests (open_trade).                      *)
THEOREM Overdrafts == PaperSpec => OverdraftIsExplained
  <1>1. ASSUME PaperInv, PaperNext, NEW r \in Requests, NEW u \in Users,
               req[r].pc = "insert", req[r].user = u, nextId' # nextId, req'[r] # req[r]
        PROVE  Free(u)' + req[r].missed + Excess(req[r].free - Free(u)) >= 0
    <2>1. OpenInserted(r)
      <3>1. PICK s \in Requests : OpenInserted(s)
        BY <1>1 DEF PaperNext, MarketMoves, Watcher, JobStep, JobVars, Request, OpenTrade,
           OpenSized, CloseTrade, CloseCommitted, DeleteTrade, DeleteCommitted, RequestFails,
           JobStarts, PricesArrive, NoPrices, SelectUsers, LoadTrades, ReloadFails, FlushFails,
           Evaluate, WatcherCommits, WatcherCommitFails, Refreshed, AuditFails, RefreshFails,
           JobEnds
      <3>2. s = r
        BY <1>1, <3>1 DEF OpenInserted, SetReq, PaperInv, RequestsOk
      <3>3. QED
        BY <3>1, <3>2
    <2>2. Free(u)' = Free(u) - req[r].cash
      BY <1>1, <2>1, InsertTakes
    <2>3. /\ req[r].cash \in Int /\ req[r].free \in Int /\ req[r].missed \in Int
          /\ req[r].cash <= req[r].free + req[r].missed
      <3>1. RequestOk(req[r])
        BY <1>1 DEF PaperInv, RequestsOk
      <3>2. QED
        BY <1>1, <3>1 DEF RequestOk, Idle, Opening, Closing, Deleting
    <2>4. Free(u) \in Int
      BY <1>1, AccountTyped
    <2>5. QED
      BY <2>2, <2>3, <2>4 DEF Excess
  <1>2. ASSUME PaperInv, [PaperNext]_paperVars
        PROVE  [\A r \in Requests, u \in Users :
                  req[r].pc = "insert" /\ req[r].user = u /\ nextId' # nextId /\ req'[r] # req[r] =>
                    (Free(u)' + req[r].missed + Excess(req[r].free - Free(u)) >= 0)]_<<nextId, req>>
    BY <1>1, <1>2 DEF paperVars
  <1>3. QED
    BY <1>2, PaperInvariance, PTL DEF PaperSpec, OverdraftIsExplained

(* When a job ends, normally or because a flush or a commit failed, no      *)
(* trade it evaluated is still open with its committed stop or target on    *)
(* the wrong side of the price the job used, except the one whose commit    *)
(* failed (check_exits and its session).                                    *)
THEOREM NoneMissed == PaperSpec => NoMissedExit
  <1>1. PaperInv =>
          \A i \in evaluated \ {wid} : IsOpen(db[i]) =>
            ~StopHit(db[i], wprice) /\ ~TakeHit(db[i], wprice)
    BY DEF PaperInv, NotMissed, Being
  <1>2. PaperInv /\ [PaperNext]_paperVars
          => [(wpc \in {"check", "closing"}) /\ wpc' = "idle" =>
                \A i \in evaluated \ {wid} : IsOpen(db[i]) =>
                  ~StopHit(db[i], wprice) /\ ~TakeHit(db[i], wprice)]_paperVars
    BY <1>1
  <1>3. QED
    BY <1>2, PaperInvariance, PTL DEF PaperSpec, NoMissedExit
=============================================================================
