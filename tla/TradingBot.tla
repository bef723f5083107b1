----------------------------- MODULE TradingBot -----------------------------
(***************************************************************************)
(* The execution gate of trading/trader.py: one TradingBot object shared   *)
(* by several request threads.  Everything the class does under self.lock  *)
(* is one action; every exchange HTTP call is made outside the lock, so a  *)
(* balance read, an order and enable_live_trading are split at each call.  *)
(*                                                                         *)
(* Balances are abstracted to what the gate tells apart: whether a read of *)
(* the quote asset succeeded, failed, or is unknown.  A retry deadline in  *)
(* the future is the flag retryBlocked, which expires at any time.         *)
(***************************************************************************)
EXTENDS Naturals

CONSTANTS Threads,    \* request threads that share the bot
          Configs     \* the configurations the bot may be built with

\* A configuration is what the gate reads of BotConfig.  "nobitex" stands for
\* every real exchange: CCXT differs only in skipping the market validation.
Config == [exchange : {"simulator", "nobitex"}, mode : {"paper", "live"}]

ASSUME ConfigsAssumption == Configs \subseteq Config

AuthFailures  == {"AUTH_FAILED", "AUTHORIZATION_FAILED"}
AuthStatus    == {"UNKNOWN", "AUTHENTICATED"} \cup AuthFailures
BalanceStatus == {"UNKNOWN", "AVAILABLE", "UNAVAILABLE"}
Assets        == {"quote", "base"}

\* What an exchange call can end in, besides success.
Failures == {"auth", "authz", "transient", "other"}

VARIABLES config, running, closed, execEnabled, liveAvailable, auth,
          balStatus, retryBlocked,
          pc,        \* pc[t]: where thread t is inside its call, or "idle"
          asset,     \* asset[t]: the asset thread t's balance read asks for
          result,    \* result[t]: status the last place_order of t returned
          placed,    \* placed[t]: the exchange accepted the order of t's call
          sent,      \* some order request has left for the exchange
          funded,    \* some read of the quote balance has succeeded
          late       \* threads that were past the gate at the last stop/close

gateVars == <<running, closed, execEnabled, liveAvailable, auth, balStatus,
              retryBlocked>>
callVars == <<pc, asset, result, placed>>
ghosts   == <<sent, funded, late>>
vars     == <<config, gateVars, callVars, ghosts>>

IsReal == config.exchange # "simulator"

PCs == {"idle", "reading", "enabling", "enableApply", "gated", "sent",
        "refreshing"}

\* Types: the flags and statuses stay within the values TradingBot declares,
\* and no HTTP status gets into them (_mark_auth_failed and its siblings).
TypeOK ==
  /\ config \in Configs
  /\ running \in BOOLEAN /\ closed \in BOOLEAN /\ execEnabled \in BOOLEAN
  /\ liveAvailable \in BOOLEAN /\ retryBlocked \in BOOLEAN
  /\ auth \in AuthStatus /\ balStatus \in BalanceStatus
  /\ pc \in [Threads -> PCs]
  /\ asset \in [Threads -> Assets]
  /\ result \in [Threads -> {"none", "ok", "unknown", "rejected", "error"}]
  /\ placed \in [Threads -> BOOLEAN]
  /\ sent \in BOOLEAN /\ funded \in BOOLEAN
  /\ late \subseteq Threads

-----------------------------------------------------------------------------
(***************************************************************************)
(* Construction: _init_exchange, _sync_exchange_state and the first        *)
(* balance read happen in __init__, before any other thread sees the bot.  *)
(***************************************************************************)
InitSimulator ==
  /\ ~IsReal
  /\ auth = "AUTHENTICATED" /\ liveAvailable /\ balStatus = "AVAILABLE"
  /\ ~retryBlocked /\ funded

InitReal ==
  /\ IsReal
  /\ \/ /\ auth = "AUTHENTICATED" /\ liveAvailable
        /\ balStatus = "AVAILABLE" /\ ~retryBlocked /\ funded
     \/ /\ auth \in AuthFailures /\ ~liveAvailable
        /\ balStatus = "UNAVAILABLE" /\ ~retryBlocked /\ ~funded
     \/ /\ auth = "UNKNOWN" /\ liveAvailable     \* transient: with a deadline
        /\ balStatus = "UNAVAILABLE" /\ retryBlocked \in BOOLEAN /\ ~funded

Init ==
  /\ config \in Configs
  /\ running = FALSE /\ closed = FALSE /\ execEnabled = FALSE
  /\ auth \in AuthStatus /\ balStatus \in BalanceStatus
  /\ liveAvailable \in BOOLEAN /\ retryBlocked \in BOOLEAN
  /\ funded \in BOOLEAN
  /\ InitSimulator \/ InitReal
  /\ pc = [t \in Threads |-> "idle"]
  /\ asset = [t \in Threads |-> "quote"]
  /\ result = [t \in Threads |-> "none"]
  /\ placed = [t \in Threads |-> FALSE]
  /\ sent = FALSE /\ late = {}

-----------------------------------------------------------------------------
(***************************************************************************)
(* start, stop, close, disable_live_trading: one lock section each.        *)
(* start does not look at closed.                                          *)
(***************************************************************************)
Start ==
  /\ ~running
  /\ running' = TRUE
  /\ execEnabled' = IF IsReal
                    THEN /\ config.mode = "live"
                         /\ liveAvailable
                         /\ balStatus = "AVAILABLE"
                    ELSE config.mode = "paper"
  /\ UNCHANGED <<config, closed, liveAvailable, auth, balStatus,
                 retryBlocked, callVars, ghosts>>

PastGate == {t \in Threads : pc[t] = "gated"}

Stop ==
  /\ running' = FALSE
  /\ execEnabled' = FALSE
  /\ late' = IF running THEN PastGate ELSE late
  /\ UNCHANGED <<config, closed, liveAvailable, auth, balStatus,
                 retryBlocked, callVars, sent, funded>>

Close ==
  /\ ~closed
  /\ closed' = TRUE
  /\ running' = FALSE
  /\ execEnabled' = FALSE
  /\ late' = IF running THEN PastGate ELSE late
  /\ UNCHANGED <<config, liveAvailable, auth, balStatus, retryBlocked,
                 callVars, sent, funded>>

DisableLiveTrading ==
  /\ liveAvailable' = FALSE
  /\ execEnabled' = FALSE
  /\ UNCHANGED <<config, running, closed, auth, balStatus, retryBlocked,
                 callVars, sent, funded, late>>

BackoffExpires ==
  /\ retryBlocked
  /\ retryBlocked' = FALSE
  /\ UNCHANGED <<config, running, closed, execEnabled, liveAvailable, auth,
                 balStatus, callVars, ghosts>>

-----------------------------------------------------------------------------
(***************************************************************************)
(* The two ends of a balance read.                                         *)
(***************************************************************************)
\* _record_successful_auth for asset a, one lock section.
RecordSuccessfulAuth(a) ==
  /\ auth' = "AUTHENTICATED"
  /\ liveAvailable' = (IsReal \/ liveAvailable)
  /\ IF a = "quote"
     THEN /\ balStatus' = "AVAILABLE"
          /\ retryBlocked' = FALSE
          /\ funded' = TRUE
          /\ execEnabled' = (execEnabled \/ running)
     ELSE UNCHANGED <<balStatus, retryBlocked, funded, execEnabled>>
  /\ UNCHANGED <<running, closed>>

\* Mutant: execution stays on after a rejection.
MarkFailed_KeepsExecution(status) ==
  auth' = status /\ liveAvailable' = FALSE /\ UNCHANGED execEnabled

\* _mark_auth_failed and _mark_authorization_failed.
MarkFailed(status) ==
  /\ auth' = status
  /\ liveAvailable' = FALSE
  /\ execEnabled' = FALSE

\* _handle_balance_exception: the lock section of each class of error.
HandleBalanceException(kind) ==
  /\ balStatus' = "UNAVAILABLE"
  /\ \/ kind = "auth"  /\ MarkFailed("AUTH_FAILED")
     \/ kind = "authz" /\ MarkFailed("AUTHORIZATION_FAILED")
     \/ kind \in {"transient", "other"}
        /\ UNCHANGED <<auth, liveAvailable, execEnabled>>
  /\ retryBlocked' = (retryBlocked \/ kind = "transient")
  /\ UNCHANGED <<running, closed, funded>>

\* The simulator answers from memory and has nothing to authenticate.
CanFail(kind) == IsReal /\ kind \in Failures

Goto(t, label) == pc' = [pc EXCEPT ![t] = label]

(***************************************************************************)
(* get_balance and get_balance_fresh (refresh_balance).  Only get_balance  *)
(* honours the retry deadline.  The response of the exchange may arrive    *)
(* after any number of steps of the other threads.                         *)
(***************************************************************************)
GetBalance(t, a) ==
  /\ pc[t] = "idle"
  /\ ~(retryBlocked /\ balStatus = "UNAVAILABLE")
  /\ Goto(t, "reading")
  /\ asset' = [asset EXCEPT ![t] = a]
  /\ UNCHANGED <<config, gateVars, result, placed, ghosts>>

GetBalanceFresh(t, a) ==
  /\ pc[t] = "idle"
  /\ Goto(t, "reading")
  /\ asset' = [asset EXCEPT ![t] = a]
  /\ UNCHANGED <<config, gateVars, result, placed, ghosts>>

BalanceArrives(t) ==
  /\ pc[t] = "reading"
  /\ \/ RecordSuccessfulAuth(asset[t])
     \/ \E kind \in Failures : CanFail(kind) /\ HandleBalanceException(kind)
  /\ Goto(t, "idle")
  /\ UNCHANGED <<config, asset, result, placed, sent, late>>

-----------------------------------------------------------------------------
(***************************************************************************)
(* enable_live_trading: at once for the simulator; for a real exchange a   *)
(* fresh read of the quote balance, then a second lock section.            *)
(***************************************************************************)
EnableSimulator(t) ==
  /\ pc[t] = "idle"
  /\ ~IsReal
  /\ liveAvailable' = TRUE
  /\ execEnabled' = running
  /\ UNCHANGED <<config, running, closed, auth, balStatus, retryBlocked,
                 callVars, sent, funded, late>>

EnableLiveTrading(t) ==
  /\ pc[t] = "idle"
  /\ IsReal
  /\ Goto(t, "enabling")
  /\ UNCHANGED <<config, gateVars, asset, result, placed, ghosts>>

EnableBalanceArrives(t) ==
  /\ pc[t] = "enabling"
  /\ \/ /\ RecordSuccessfulAuth("quote")
        /\ Goto(t, "enableApply")
     \/ /\ \E kind \in Failures : CanFail(kind) /\ HandleBalanceException(kind)
        /\ Goto(t, "idle")
  /\ UNCHANGED <<config, asset, result, placed, sent, late>>

EnableApply(t) ==
  /\ pc[t] = "enableApply"
  /\ Goto(t, "idle")
  /\ IF auth \in AuthFailures
     THEN UNCHANGED <<liveAvailable, execEnabled>>
     ELSE /\ liveAvailable' = TRUE
          /\ execEnabled' = running
  /\ UNCHANGED <<config, running, closed, auth, balStatus, retryBlocked,
                 asset, result, placed, sent, funded, late>>

-----------------------------------------------------------------------------
(***************************************************************************)
(* place_order: the gate under the lock, the market validation and the     *)
(* order request outside it, and the handling of what comes back.          *)
(***************************************************************************)
\* Mutant: the gate forgets stop().
CanPlaceOrder_Stopped ==
  /\ IsReal => config.mode = "live"
  /\ auth \notin AuthFailures
  /\ IsReal => liveAvailable /\ balStatus = "AVAILABLE"

CanPlaceOrder ==
  /\ running
  /\ execEnabled
  /\ IsReal => config.mode = "live"
  /\ auth \notin AuthFailures
  /\ IsReal => liveAvailable /\ balStatus = "AVAILABLE"

\* The call returns to its caller with the given status.
Return(t, status) ==
  /\ Goto(t, "idle")
  /\ result' = [result EXCEPT ![t] = status]

PlaceOrder(t) ==
  /\ pc[t] = "idle"
  /\ placed' = [placed EXCEPT ![t] = FALSE]
  /\ IF CanPlaceOrder
     THEN Goto(t, "gated") /\ result' = [result EXCEPT ![t] = "none"]
     ELSE Return(t, "rejected")
  /\ UNCHANGED <<config, gateVars, asset, ghosts>>

MarketRejected(t) ==
  /\ pc[t] = "gated"
  /\ IsReal
  /\ Return(t, "rejected")
  /\ UNCHANGED <<config, gateVars, asset, placed, ghosts>>

\* The request reaches the exchange, which accepts the order or does not.
SendOrder(t) ==
  /\ pc[t] = "gated"
  /\ Goto(t, "sent")
  /\ sent' = TRUE
  /\ \E accepted \in BOOLEAN : placed' = [placed EXCEPT ![t] = accepted]
  /\ UNCHANGED <<config, gateVars, asset, result, funded, late>>

OrderAnswered(t) ==
  /\ pc[t] = "sent"
  /\ placed[t]
  /\ \/ Goto(t, "refreshing") /\ UNCHANGED result      \* filled at once
     \/ Return(t, "ok")                                \* resting
     \/ Return(t, "unknown")                           \* no usable response
  /\ UNCHANGED <<config, gateVars, asset, placed, ghosts>>

\* The exchange refuses: HTTP 401, 403, 429 or a refusal in the response.
OrderRefused(t) ==
  /\ pc[t] = "sent"
  /\ ~placed[t]
  /\ Return(t, "rejected")
  /\ \/ IsReal /\ MarkFailed("AUTH_FAILED")
     \/ IsReal /\ MarkFailed("AUTHORIZATION_FAILED")
     \/ UNCHANGED <<auth, liveAvailable, execEnabled>>
  /\ UNCHANGED <<config, running, closed, balStatus, retryBlocked, asset,
                 placed, ghosts>>

\* Mutant: a network error is reported like a refusal.
OrderFailed_Rejected(t) ==
  /\ pc[t] = "sent"
  /\ IsReal \/ ~placed[t]
  /\ Return(t, "rejected")
  /\ UNCHANGED <<config, gateVars, asset, placed, ghosts>>

\* A server error, a network error, or an error outside every class: the
\* order may or may not be at the exchange.
OrderFailed(t) ==
  /\ pc[t] = "sent"
  /\ IsReal \/ ~placed[t]
  /\ Return(t, "error")
  /\ UNCHANGED <<config, gateVars, asset, placed, ghosts>>

\* get_balance_fresh after a fill keeps the result intact whatever it reads.
RefreshArrives(t) ==
  /\ pc[t] = "refreshing"
  /\ \/ RecordSuccessfulAuth("quote")
     \/ \E kind \in Failures : CanFail(kind) /\ HandleBalanceException(kind)
  /\ Return(t, "ok")
  /\ UNCHANGED <<config, asset, placed, sent, late>>

-----------------------------------------------------------------------------
\* Steps a thread takes once its call has begun: each HTTP call has a timeout.
Finish(t) ==
  \/ BalanceArrives(t) \/ EnableBalanceArrives(t) \/ EnableApply(t)
  \/ MarketRejected(t) \/ SendOrder(t)
  \/ OrderAnswered(t) \/ OrderRefused(t) \/ OrderFailed(t) \/ RefreshArrives(t)

Begin(t) ==
  \/ \E a \in Assets : GetBalance(t, a) \/ GetBalanceFresh(t, a)
  \/ EnableSimulator(t) \/ EnableLiveTrading(t) \/ PlaceOrder(t)

Next ==
  \/ Start \/ Stop \/ Close \/ DisableLiveTrading \/ BackoffExpires
  \/ \E t \in Threads : Begin(t) \/ Finish(t)

Spec == Init /\ [][Next]_vars

Fairness == \A t \in Threads : WF_vars(Finish(t))

FairSpec == Spec /\ Fairness

-----------------------------------------------------------------------------
(***************************************************************************)
(* Properties.                                                             *)
(***************************************************************************)
\* A real account never receives an order while execution_mode is paper, even
\* though a balance read turns execution_enabled on in paper mode.
PaperSendsNothing == (IsReal /\ config.mode = "paper") => ~sent

\* A balance probe that ends late, after stop() or close(), or an enable that
\* races with them, leaves execution off: the flag implies a running bot.
ExecutionOnlyWhileRunning == execEnabled => running

\* Execution on a real exchange is never on with rejected credentials, with
\* live trading unavailable, or before any quote balance has been read, in
\* whatever order the threads' reads, orders and enables end.
ExecutionIsAuthorised ==
  (IsReal /\ execEnabled) => liveAvailable /\ auth \notin AuthFailures /\ funded

\* An order reported "rejected" is not at the exchange: the caller may retry
\* it.  Only "error" and "unknown" leave that open.
RejectedIsNotPlaced ==
  \A t \in Threads : result[t] = "rejected" => ~placed[t]

\* After stop() or close() the only orders that can still leave are those of
\* threads that had passed the gate before it.
StopAdmitsNoNewOrder == ~running => PastGate \subseteq late

\* A bot that is stopped for good becomes quiet: no order stays in flight.
StoppedBotQuiesces ==
  \A t \in Threads : <>[](~running) => <>[](pc[t] \notin {"gated", "sent"})
=============================================================================
