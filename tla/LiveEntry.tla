----------------------------- MODULE LiveEntry ------------------------------
(***************************************************************************)
(* A live entry, from POST /api/live/entry to the order: the checks of     *)
(* server/services/live_trading.py, the replacement of the one TradingBot  *)
(* by TradingBot.get_instance(force=True), and place_configured_entry of   *)
(* the new bot, which reads the price twice, sizes the order and passes    *)
(* the gate.                                                               *)
(*                                                                         *)
(* Each request builds a bot of its own, so bot[r] is the bot of request   *)
(* r.  Requests run in threads: a request holds the class lock while it    *)
(* replaces the bot, the constructor's wallet read included, and nothing   *)
(* after that; another request may close its bot at any later step.        *)
(* The gate of one bot is what module TradingBot specifies.                *)
(***************************************************************************)
EXTENDS Sizing

CONSTANTS Requests,       \* requests of the administrator, one entry each
          Settings,       \* the server settings the entry reads
          Limits,         \* the limits in _bot_config()
          FixedPosition,  \* fixed_position_quote
          Deposits,       \* free quote balances the account may begin with
          Prices,         \* prices of a quantity step
          None

SettingsType == [enabled : BOOLEAN, confirmation : BOOLEAN,
                 keys : {"missing", "malformed", "valid"}]

ASSUME EntryAssumption ==
  /\ Settings \subseteq SettingsType
  /\ Limits \in LimitsType
  /\ FixedPosition \in Nat
  /\ Deposits \subseteq Nat /\ Prices \subseteq Nat \ {0}
  /\ None \notin Requests

VARIABLES settings,
          free, price,   \* the account and the market at the exchange
          lock,          \* holder of TradingBot._instance_lock, or None
          instance,      \* TradingBot._instance: the request that built it
          bot,           \* bot[r]: the flags of the bot r built
          pc,            \* pc[r]: where request r is
          size,          \* size[r]: price, funds and quantity of its sizing
          placed,        \* placed[r]: its order is at the exchange
          sent,          \* ghost: sent[r], its order has left
          answer         \* answer[r]: what the request returned

requestVars == <<pc, size, placed, sent, answer>>
vars == <<settings, free, price, lock, instance, bot, requestVars>>

AuthFailures == {"AUTH_FAILED", "AUTHORIZATION_FAILED"}
Failures     == {"auth", "authz", "transient", "other"}

Bot == [built : BOOLEAN, running : BOOLEAN, closed : BOOLEAN,
        execEnabled : BOOLEAN, liveAvailable : BOOLEAN,
        auth : {"UNKNOWN", "AUTHENTICATED"} \cup AuthFailures,
        balStatus : {"UNKNOWN", "AVAILABLE", "UNAVAILABLE"},
        retryBlocked : BOOLEAN,
        funded : BOOLEAN,     \* ghost: a quote balance was read
        late : BOOLEAN]       \* ghost: past the gate when it was closed

\* The bot at the end of _init_exchange, before its first wallet read.
NewBot == [built |-> FALSE, running |-> FALSE, closed |-> FALSE,
           execEnabled |-> FALSE, liveAvailable |-> TRUE, auth |-> "UNKNOWN",
           balStatus |-> "UNKNOWN", retryBlocked |-> FALSE,
           funded |-> FALSE, late |-> FALSE]

NoSize == [price |-> 0, funds |-> 0, qty |-> 0]

PCs == {"idle", "locking", "building", "built", "priceForOrder",
        "priceForSize", "balance", "sized", "gated", "sent", "refreshing",
        "answered"}

Answers == {"none", "refused", "failed", "unpriced", "unsized", "rejected",
            "ok", "unknown", "error"}

\* Types: a sizing uses a price the market had and funds the account can have.
TypeOK ==
  /\ settings \in Settings
  /\ free \in Nat /\ price \in Prices
  /\ lock \in Requests \cup {None} /\ instance \in Requests \cup {None}
  /\ bot \in [Requests -> Bot]
  /\ pc \in [Requests -> PCs]
  /\ size \in [Requests -> [price : Prices \cup {0}, funds : Nat, qty : Nat]]
  /\ placed \in [Requests -> BOOLEAN] /\ sent \in [Requests -> BOOLEAN]
  /\ answer \in [Requests -> Answers]

Init ==
  /\ settings \in Settings
  /\ free \in Deposits /\ price \in Prices
  /\ lock = None /\ instance = None
  /\ bot = [r \in Requests |-> NewBot]
  /\ pc = [r \in Requests |-> "idle"]
  /\ size = [r \in Requests |-> NoSize]
  /\ placed = [r \in Requests |-> FALSE]
  /\ sent = [r \in Requests |-> FALSE]
  /\ answer = [r \in Requests |-> "none"]

Goto(r, label) == pc' = [pc EXCEPT ![r] = label]

Answer(r, with) ==
  /\ Goto(r, "answered")
  /\ answer' = [answer EXCEPT ![r] = with]

account == <<free, price>>
classVars == <<lock, instance>>

-----------------------------------------------------------------------------
(***************************************************************************)
(* What the lock sections of a bot do to its flags.                        *)
(***************************************************************************)
\* start, in live mode on a real exchange.
Started(b) ==
  IF b.running THEN b
  ELSE [b EXCEPT !.running = TRUE,
                 !.execEnabled = b.liveAvailable
                                 /\ b.balStatus = "AVAILABLE"]

\* close, of a bot whose thread is past the gate or not.
Closed(b, pastGate) ==
  IF b.closed THEN b
  ELSE [b EXCEPT !.closed = TRUE, !.running = FALSE, !.execEnabled = FALSE,
                 !.late = IF b.running THEN pastGate ELSE b.late]

\* _record_successful_auth for the quote asset.
Authenticated(b) ==
  [b EXCEPT !.auth = "AUTHENTICATED", !.liveAvailable = TRUE,
            !.balStatus = "AVAILABLE", !.retryBlocked = FALSE,
            !.execEnabled = b.execEnabled \/ b.running, !.funded = TRUE]

\* _mark_auth_failed and _mark_authorization_failed.
Rejected(b, kind) ==
  [b EXCEPT !.auth = IF kind = "auth" THEN "AUTH_FAILED"
                                      ELSE "AUTHORIZATION_FAILED",
            !.liveAvailable = FALSE, !.execEnabled = FALSE]

\* _handle_balance_exception.
BalanceFailed(b, kind) ==
  LET seen == IF kind \in {"auth", "authz"} THEN Rejected(b, kind) ELSE b
  IN  [seen EXCEPT !.balStatus = "UNAVAILABLE",
                   !.retryBlocked = b.retryBlocked \/ kind = "transient"]

\* _can_place_order.
CanPlaceOrder(b) ==
  /\ b.running /\ b.execEnabled
  /\ b.auth \notin AuthFailures
  /\ b.liveAvailable /\ b.balStatus = "AVAILABLE"

-----------------------------------------------------------------------------
(***************************************************************************)
(* execute_configured_entry: the settings, the replacement of the bot.     *)
(***************************************************************************)
EntryAllowed(confirmed) ==
  /\ settings.enabled
  /\ settings.confirmation => confirmed
  /\ settings.keys # "missing"

EntryRequest(r) ==
  /\ pc[r] = "idle"
  /\ \E confirmed \in BOOLEAN :
       IF EntryAllowed(confirmed)
       THEN Goto(r, "locking") /\ UNCHANGED answer
       ELSE Answer(r, "refused")
  /\ UNCHANGED <<settings, account, classVars, bot, size, placed, sent>>

\* Mutant: only a running bot is closed.
ReplaceInstance_IfRunning(r) ==
  /\ pc[r] = "locking" /\ lock = None
  /\ lock' = r
  /\ bot' = IF instance = None \/ ~bot[instance].running THEN bot
            ELSE [bot EXCEPT ![instance] = Closed(@, pc[instance] = "gated")]
  /\ instance' = None
  /\ Goto(r, "building")
  /\ UNCHANGED <<settings, account, size, placed, sent, answer>>

\* get_instance takes the class lock and closes the bot there is.
ReplaceInstance(r) ==
  /\ pc[r] = "locking"
  /\ lock = None
  /\ lock' = r
  /\ bot' = IF instance = None THEN bot
            ELSE [bot EXCEPT ![instance] = Closed(@, pc[instance] = "gated")]
  /\ instance' = None
  /\ Goto(r, "building")
  /\ UNCHANGED <<settings, account, size, placed, sent, answer>>

\* Mutant: a constructor that raises leaves the class locked.
BuildFails_Locked(r) ==
  /\ pc[r] = "building"
  /\ settings.keys = "malformed"
  /\ Answer(r, "failed")
  /\ UNCHANGED <<settings, account, classVars, bot, size, placed, sent>>

\* NobitexClient refuses a private key it cannot read; the request ends with
\* HTTP 500, and there is no bot any more.
BuildFails(r) ==
  /\ pc[r] = "building"
  /\ settings.keys = "malformed"
  /\ lock' = None
  /\ Answer(r, "failed")
  /\ UNCHANGED <<settings, account, instance, bot, size, placed, sent>>

\* The constructor reads the wallet and the class has a new instance.
BuildBot(r) ==
  /\ pc[r] = "building"
  /\ settings.keys = "valid"
  /\ \E b \in {Authenticated(NewBot)}
             \cup {BalanceFailed(NewBot, kind) : kind \in Failures} :
       bot' = [bot EXCEPT ![r] = [b EXCEPT !.built = TRUE]]
  /\ lock' = None
  /\ instance' = r
  /\ Goto(r, "built")
  /\ UNCHANGED <<settings, account, size, placed, sent, answer>>

\* bot.start(): whether or not another request has closed the bot.
StartBot(r) ==
  /\ pc[r] = "built"
  /\ bot' = [bot EXCEPT ![r] = Started(@)]
  /\ Goto(r, "priceForOrder")
  /\ UNCHANGED <<settings, account, classVars, size, placed, sent, answer>>

-----------------------------------------------------------------------------
(***************************************************************************)
(* place_configured_entry, by way of place_notional_order.                 *)
(***************************************************************************)
\* get_quote_price, asked by place_notional_order: only whether there is one.
PriceForOrder(r) ==
  /\ pc[r] = "priceForOrder"
  /\ \/ Goto(r, "priceForSize") /\ UNCHANGED answer
     \/ Answer(r, "unpriced")
  /\ UNCHANGED <<settings, account, classVars, bot, size, placed, sent>>

\* get_quote_price again, by calculate_position_size: this one is used.
PriceForSize(r) ==
  /\ pc[r] = "priceForSize"
  /\ \/ /\ size' = [size EXCEPT ![r].price = price]
        /\ Goto(r, "balance")
        /\ UNCHANGED answer
     \/ Answer(r, "unsized") /\ UNCHANGED size
  /\ UNCHANGED <<settings, account, classVars, bot, placed, sent>>

\* calculate_position_size of the bot: no notional is requested and the
\* exposure is the default 0.
EntrySize(p, funds) ==
  PositionSize(Limits, p, funds, 0, CapitalRequest(Limits, funds, 0))

\* get_balance_fresh answers with the free balance, or with 0 when the wallet
\* list is empty; the size follows from it without another call.
BalanceArrives(r) ==
  /\ pc[r] = "balance"
  /\ bot' = [bot EXCEPT ![r] = Authenticated(@)]
  /\ \E funds \in {free, 0} :
       LET qty == EntrySize(size[r].price, funds)
       IN  /\ size' = [size EXCEPT ![r].funds = funds, ![r].qty = qty]
           /\ IF qty > 0 THEN Goto(r, "sized") /\ UNCHANGED answer
                         ELSE Answer(r, "unsized")
  /\ UNCHANGED <<settings, account, classVars, placed, sent>>

BalanceLost(r) ==
  /\ pc[r] = "balance"
  /\ \E kind \in Failures : bot' = [bot EXCEPT ![r] = BalanceFailed(@, kind)]
  /\ Answer(r, "unsized")
  /\ UNCHANGED <<settings, account, classVars, size, placed, sent>>

PlaceOrder(r) ==
  /\ pc[r] = "sized"
  /\ IF CanPlaceOrder(bot[r]) THEN Goto(r, "gated") /\ UNCHANGED answer
                              ELSE Answer(r, "rejected")
  /\ UNCHANGED <<settings, account, classVars, bot, size, placed, sent>>

MarketRejected(r) ==
  /\ pc[r] = "gated"
  /\ Answer(r, "rejected")
  /\ UNCHANGED <<settings, account, classVars, bot, size, placed, sent>>

\* The market order reaches the exchange, which takes it if it can be paid at
\* the price of the moment.
SendOrder(r) ==
  /\ pc[r] = "gated"
  /\ Goto(r, "sent")
  /\ sent' = [sent EXCEPT ![r] = TRUE]
  /\ \E accepted \in BOOLEAN :
       /\ accepted => size[r].qty * price <= free
       /\ placed' = [placed EXCEPT ![r] = accepted]
       /\ free' = IF accepted THEN free - size[r].qty * price ELSE free
  /\ UNCHANGED <<settings, price, classVars, bot, size, answer>>

OrderAnswered(r) ==
  /\ pc[r] = "sent"
  /\ placed[r]
  /\ \/ Goto(r, "refreshing") /\ UNCHANGED answer
     \/ Answer(r, "ok")
     \/ Answer(r, "unknown")
  /\ UNCHANGED <<settings, account, classVars, bot, size, placed, sent>>

OrderRefused(r) ==
  /\ pc[r] = "sent"
  /\ ~placed[r]
  /\ Answer(r, "rejected")
  /\ bot' \in {bot} \cup {[bot EXCEPT ![r] = Rejected(@, kind)] :
                            kind \in {"auth", "authz"}}
  /\ UNCHANGED <<settings, account, classVars, size, placed, sent>>

OrderFailed(r) ==
  /\ pc[r] = "sent"
  /\ Answer(r, "error")
  /\ UNCHANGED <<settings, account, classVars, bot, size, placed, sent>>

RefreshArrives(r) ==
  /\ pc[r] = "refreshing"
  /\ \E b \in {Authenticated(bot[r])}
             \cup {BalanceFailed(bot[r], kind) : kind \in Failures} :
       bot' = [bot EXCEPT ![r] = b]
  /\ Answer(r, "ok")
  /\ UNCHANGED <<settings, account, classVars, size, placed, sent>>

-----------------------------------------------------------------------------
MarketMoves ==
  /\ price' \in Prices \ {price}
  /\ UNCHANGED <<settings, free, classVars, bot, requestVars>>

\* The steps of a request that has begun.
Continue(r) ==
  \/ ReplaceInstance(r) \/ BuildFails(r) \/ BuildBot(r) \/ StartBot(r)
  \/ PriceForOrder(r) \/ PriceForSize(r) \/ BalanceArrives(r)
  \/ BalanceLost(r) \/ PlaceOrder(r) \/ MarketRejected(r) \/ SendOrder(r)
  \/ OrderAnswered(r) \/ OrderRefused(r) \/ OrderFailed(r)
  \/ RefreshArrives(r)

Next ==
  \/ \E r \in Requests : EntryRequest(r) \/ Continue(r)
  \/ MarketMoves

Spec == Init /\ [][Next]_vars

\* Each call of the exchange has a timeout, and a lock is handed over.
FairSpec == Spec /\ \A r \in Requests : WF_vars(Continue(r))

-----------------------------------------------------------------------------
(***************************************************************************)
(* Properties.                                                             *)
(***************************************************************************)
\* get_instance replaces the bot: whatever requests are under way, every bot
\* but the current instance has been closed, even one that its own request
\* has not started yet.
OnlyNewestIsOpen ==
  \A r \in Requests : bot[r].built /\ r # instance => bot[r].closed

\* What q steps at price p may be, for a wallet of the given funds.
Allowed(q, p, funds) ==
  /\ \A pct \in {Limits.usage, Limits.position, Limits.exposure,
                 10000 - Limits.feeBuffer} : q * p * 10000 <= funds * pct
  /\ q * p <= Limits.maxNotional

\* Through two conversions between Rial and Toman and four caps, an entry asks
\* for the largest quantity that keeps within every limit of the configuration,
\* at the price and the balance it read, and only if that is worth the minimum
\* notional up to a step.
EntryIsLargestAllowed ==
  \A r \in Requests :
    LET s == size[r] IN
      s.qty > 0 => /\ Allowed(s.qty, s.price, s.funds)
                   /\ ~Allowed(s.qty + 1, s.price, s.funds)
                   /\ (s.qty + 1) * s.price > Limits.minNotional

\* Bot r as TradingBot specifies it, driven by the thread of request r alone;
\* the other requests are the environment that may close it.
GatePC(r) ==
  IF pc[r] = "balance" THEN "reading"
  ELSE IF pc[r] \in {"gated", "sent", "refreshing"} THEN pc[r] ELSE "idle"

GateResult(r) ==
  IF answer[r] \in {"ok", "unknown", "rejected", "error"} THEN answer[r]
                                                          ELSE "none"

LiveConfig == [exchange |-> "nobitex", mode |-> "live"]

Gate(r) == INSTANCE TradingBot WITH
  Threads       <- {r},
  Configs       <- {LiveConfig},
  config        <- LiveConfig,
  running       <- bot[r].running,
  closed        <- bot[r].closed,
  execEnabled   <- bot[r].execEnabled,
  liveAvailable <- bot[r].liveAvailable,
  auth          <- bot[r].auth,
  balStatus     <- bot[r].balStatus,
  retryBlocked  <- bot[r].retryBlocked,
  pc            <- [t \in {r} |-> GatePC(t)],
  asset         <- [t \in {r} |-> "quote"],
  result        <- [t \in {r} |-> GateResult(t)],
  placed        <- [t \in {r} |-> placed[t]],
  sent          <- sent[r],
  funded        <- bot[r].funded,
  late          <- IF bot[r].late THEN {r} ELSE {}

\* Every bot, from the moment the class has built it, begins and moves as
\* TradingBot allows: what is shown and proved of one gate holds for each of
\* the bots that replace one another.
BotsFollowTheGate ==
  [][\A r \in Requests :
       /\ ~bot[r].built /\ bot'[r].built => Gate(r)!Init'
       /\ bot[r].built => [Gate(r)!Next]_(Gate(r)!vars)]_vars

\* Every request that has begun is answered: the class lock is given back
\* however the construction of a bot ends.
EntryAnswered ==
  \A r \in Requests : pc[r] # "idle" ~> pc[r] = "answered"

\* "Place the configured fixed-size entry (default: 1,000,000 Toman)"
\* (place_configured_entry): no entry is larger than the fixed position.
EntryIsFixedSize ==
  \A r \in Requests : sent[r] => size[r].qty * size[r].price <= FixedPosition
=============================================================================
