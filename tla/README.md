# NobitexAgent in TLA+

TLA+ specifications of the trading and paper-trading service NobitexAgent, with
TLC configurations that check them on small instances and TLAPS proofs of what
holds for every instance. Source paths below are relative to the repository
(`src/`). `PROJECT.json` maps each definition to the lines it models.

## 1. The system

The program scans the Nobitex market, offers paper trading to registered users,
and can trade a live account. It runs as two processes over one database
(README.md:132-136, render.yaml): the *web* process serves FastAPI routes, each
synchronous handler in a thread and with a database session of its own, and the
*worker* runs the scheduled jobs.

| component | state it keeps | operations | used by / uses |
|---|---|---|---|
| `trading/trader.py` TradingBot | running, closed, execution_enabled, live_trading_available, authentication and balance status, retry deadline | start, stop, close, enable/disable, balance reads, place_order | live bridge → bot → an exchange client |
| `trading/nobitex_client.py` | wallet cache: free and total amounts, time | get_balances and four readers, invalidate, orders | bot |
| `trading/exchange_simulator.py` | prices, books, balances, orders, history | place, cancel, price updates with matching | bot in paper mode |
| `server/services/paper.py`, `server/routes/paper.py` | table `trades` | open, close, delete, check_exits | routes, price job |
| `server/scheduler.py` | one scheduler with two jobs | `_scan_job`, `_prices_job` | scanner, paper |
| `server/services/scanner.py`, `plans.py`, `server/routes/scan.py` | scan cache, snapshots, usage rows, guests' counts | refresh, read, persist, charge | routes, scan job, admin |
| `worker.py` | — | starts and stops the scheduler | scheduler |
| `server/services/live_trading.py`, `TradingBot.get_instance` | the one TradingBot instance and its class lock | execute_configured_entry, replacement of the bot, place_configured_entry | routes/live.py → bot → sizing, an exchange client |
| `trading/regime_detector.py` | regime, pending regime and count, histories of prices and volumes | score, decide | tests only |
| `trading/global_lead_engine.py` | global map, price histories, hits, first-seen times, last moves | evaluate, configure | tests only |
| `analytics/backtest.py`, `server/services/backtesting.py` | none between requests; a walk over stored scans | load_rows, run_backtest | routes/backtest.py, snapshots |
| `analysis/indicators.py` | a sliding window of candles | columns, latest values, push | enrichment |
| `analysis/indicators_integration.py` | warmup memo, metrics, a level of risk left in the data it was given | enrich, decide, decide a batch | indicators, signals, risk |
| `analysis/signals.py`, `analysis/risk.py` | `RiskCache` shared by the threads of a batch | score a row, assess, stress, assess a batch | decisions |
| `core/user_status.py`, `core/user_manager.py` | an encrypted status file, a copy of it per manager | load, save, consume a refresh, activate, verify a payment | desktop client |
| `api/api_base.py`, `coingecko.py`, `coinmarketcap.py` | session, counters shared by the threads | request with retries, listings by page, quotes by chunk | market data |
| `trading/exchange_ccxt.py` | markets, loaded once | place, cancel, balances, orders, each with retries and further forms | bot → ccxt |
| `trading/bot_config.py` | configuration file, credentials file, key file | load with migrations, save | bot |
| sizing, currency, protection | none (functions of their input) | | routes, bot |
| auth, admin, audit, health, encryption, configuration, scripts, web pages | rows, files | one-step operations | users |

What is hard in it:

* **Threads.** A bot and a client are shared by threads and guarded by a lock that
  is released around every HTTP request. What a thread learnt before the request
  may be false after it.
* **Sessions.** Handlers read a row, decide, and write it later by its key. The
  price job uses one session for all users and commits only when a trade closes.
* **Two processes.** Scan results of the worker reach the web process only through
  the database. Either can restart; what is in memory is gone.
* **Failures of the exchange.** Refused credentials, rate limits, 5xx and network
  errors, which after an order say nothing about whether the order exists. A call
  that is tried again may have been carried out the first time, and its second form
  may mean something else.
* **Files.** A configuration is three files; a save that is cut short leaves some old
  and some new, and one failed read may make the program write a key over.
* **Memory of a market.** The engines judge a scan by earlier scans: confirmation
  counts, hysteresis and trends depend on which scans are counted, dropped or reset.
* **Foresight.** An indicator, a backtest or a report that looks at a later row than it
  may still gives plausible numbers.
* **Memoised answers.** A cache of assessments, a memo of warmups and a level of risk
  left in a dictionary outlive what they were computed from.
* **Day changes.** The day is read before a lock is taken, twice in one request.

What makes each component correct, in a sentence: the *bot* sends an order only
while it runs, is enabled and authorised, and never mistakes an order that may
exist for one that does not; the *cache* never serves an older wallet as fresh;
the *simulator* conserves money and fills orders no worse than their limit; a
*paper trade* ends once, at the price its reason names, and does end; a *quota* is
neither exceeded nor refused too early; a *reader* of scans never goes back; a
*payment* buys one plan, and the plan is kept to its last day; a *live entry*
replaces the bot completely and asks for as much as every limit admits and no more;
a *regime* changes when scans confirm it and only then; a *candidate* was watched before
it is bought; a *backtest* trades as one account without foresight could have; an
*indicator* is causal, a *judgement* monotone in what it is said to be monotone in, a
*cached* assessment within its age; a *retry* neither corrupts the counters nor orders
on another market; a *restart* finds the old configuration or the new one, and
its credentials unless the key they need was lost.

## 2. Modules

| module | models | checked by |
|---|---|---|
| `TradingBot` | the gate of trading/trader.py | `TradingBotMC`: `bot` |
| `TradingProofs` | theorems about `TradingBot` and `PaperTrading` | |
| `BalanceCache` | the wallet cache of trading/nobitex_client.py | `BalanceCacheMC`: `cache` |
| `BalanceCacheProofs` | theorems about it | |
| `Settlement` | *abstract*: what an exchange promises an account | through `SimExchange` |
| `SimExchange` | trading/exchange_simulator.py | `SimExchangeMC`: `sim` |
| `SimExchangeProofs` | theorems about it, the refinement and the account statement included | |
| `PaperTrading` | paper service, its routes, the price job | `PaperTradingMC`: `paper`, `paper_high_water` |
| `UserStatus` | the status file and its managers | `UserStatusMC`: `status` |
| `UserStatusProofs` | theorems about it | |
| `ScanService` | scan routes, plans, scanner, scan job | `ScanServiceMC`: `scan` |
| `ScanServiceProofs` | theorems about it and about `GlobalLead` | |
| `Sizing` | portfolio/sizing.py and money/currency.py, as functions | through `LiveEntry` |
| `LiveEntry` | services/live_trading.py, `get_instance`, `place_configured_entry`; instantiates `TradingBot` once per request | `LiveEntryMC`: `live`, `live_fixed` |
| `LiveEntryProofs` | theorems about it, the arithmetic of `Sizing` and the refinement of `TradingBot` included | |
| `RegimeDetector` | trading/regime_detector.py | `EnginesMC` in `ServicesMC`: `services` |
| `GlobalLead` | trading/global_lead_engine.py | `EnginesMC` in `ServicesMC`: `services` |
| `Totals` | `sum()` of a list, for `RegimeDetector` and `Backtest` | through both |
| `Backtest` | analytics/backtest.py and the loading of its rows | `BacktestMC`: `backtest_rejections`, and in `ServicesMC`: `services` |
| `Indicators` | analysis/indicators.py | `AnalysisMC`: `analysis` |
| `Enrichment` | the stages and memos of analysis/indicators_integration.py | `AnalysisMC`: `analysis` |
| `Risk`, `Signals` | the engines of analysis/risk.py and the strategies of analysis/signals.py, as functions of a row | `AnalysisMC`: `analysis` |
| `Decision` | decisions from both (extends `Signals`, which extends `Risk`) | `AnalysisMC`: `analysis` |
| `RiskBatch` | `assess_risk_batch` with its threads and `RiskCache` | `AnalysisMC`: `analysis` |
| `ApiClient` | api/api_base.py and the operations of its clients that join requests | `ClientsMC` in `ServicesMC`: `services` |
| `CcxtClient` | trading/exchange_ccxt.py | `ClientsMC` in `ServicesMC`: `services` |
| `ConfigStore` | trading/bot_config.py | `ClientsMC` in `ServicesMC`: `services` |
| `Component` | which of several components that share no state a behaviour moves | through `ServicesMC` and `AnalysisMC` |
| `Clients` | the three side by side, without a step of its own | `ClientsMC` in `ServicesMC`: `services` |
| `ClientsProofs` | theorems about `ApiClient`, `CcxtClient` and `ConfigStore` | |
| `MarketProofs` | theorems about `RegimeDetector`, `Enrichment`, `RiskBatch`, `Decision` and `Backtest` | |

`EnginesMC`, `ClientsMC` and `AnalysisMC` extend several modules that share no state (only
`Indicators` is taken by `INSTANCE`, for its names), and `ServicesMC` joins the first two.
Their variable `component` (of `Component`) is chosen at the start, and a behaviour is one of that module
alone, while the variables of the others stay as they began; so one run holds the questions of
several small components without multiplying their states. As their variables have
names of their own, one module can hold the proofs about several of them; each theorem is about the
specification of one (`RegimeSpec`, `TableSpec`, `BatchSpec`, `DecisionSpec`, ...).

Conventions. A constant marked `bound` limits the state space and nothing else; its
guard is in the action that would exceed it. Ghost variables (`sent`, `funded`,
`late` in TradingBot, `peak`, `evaluated` and the fields `free` and `missed` of a request in PaperTrading, `known`,
`since`, `totalsSeen` and `mishaps` in BalanceCache, `charges` and `together` in
ScanService, `log` in RegimeDetector, `verdicts` in GlobalLead, `tally` in ApiClient, the
fields `by` and `meant` of an order in CcxtClient, `expected` in ConfigStore, `credited`, `granted`, `until` and `mishaps` in UserStatus, `sent` and a
bot's `funded` and `late` in LiveEntry)
record history for the properties and guard no action of the program, except that
a bound may read one. A definition named `X_Variant`, marked *Mutant*, is a
plausible mistake in `X`; no specification uses it, and replacing `X` by it makes
the property named in PROJECT.json fail, which shows that the property depends on
that code.

### TradingBot
One bot, any number of `Threads`. What the class does under `self.lock` is one
action; each exchange call splits an operation: `GetBalance` → `BalanceArrives`,
`PlaceOrder` → `SendOrder` → `OrderAnswered` / `OrderRefused` / `OrderFailed` →
`RefreshArrives`, `EnableLiveTrading` → `EnableBalanceArrives` → `EnableApply`.
`Configs` are the exchange (simulator, or any real one) and the execution mode.
An amount is reduced to whether the quote balance was read; a retry deadline to a
flag that expires at any moment. An exchange call ends in success or in a failure
of one of the classes the handlers tell apart.

### BalanceCache
One asset; each change of the wallet at the exchange gets a version, so that
properties can tell how old an answer is. The client's lock sections are the
actions; the HTTP request, the second attempt with an empty body, and the gap
between `get_balances` and the second look at the totals are between actions. The
age of the cache is the flag `fresh`. Wallet changes come from the orders of the
program's own threads.

### SimExchange and Settlement
`busy` stands for the simulator's lock during matching, so the loop over the orders
is visible turn by turn (`MatchNext`, `MatchRemove`, `MatchEnd`); the other
operations are one action each, with the matching they trigger. A price is a mid
and a fixed half spread; the random walk is any choice from `Mids`. Order and
settlement follow the code: funds are checked when an order settles, not when it is
placed, and an order that cannot be paid is cancelled. `Settlement` has one action
per fate of an order (`Rest`, `Fill`, `Cancel`) and no engine;
`ImplementsSettlement` instantiates it with `bal <- balances` and `order <- order`.
The reason to have it: a trader reasons about an account, not about a loop over a
book and a list of removals.

### PaperTrading
`db` is the committed table. Requests read in one step and write in a later one.
The watcher has ORM objects `wobj` and flushed changes `pend` that its own session
sees, that lock their rows, and that `EndJob` discards. Its steps are the job's:
fetch the prices, select the users, load the trades of one user, evaluate them one
by one, close, commit, refresh the row and record the close.

A flush or a commit may fail for any reason, of a request (`RequestFails`) and of the
job. What the job does then follows from its one session: after a failed flush or commit it refuses
every later statement, the handler around `close_trade` uses the expired object and raises
again, so `check_exits` is left, and the later users fail on their first statement
(`FlushFails`, `WatcherCommitFails`: the job is over). A failed audit record is rolled back by
`log_event`, so the session lives on with expired objects (`AuditFails`). An object whose row is gone when it is
reloaded costs the rest of its user (`ReloadFails`, `RefreshFails`), and the job goes on. A SELECT that fails is
not modelled; the job would end or go on as after one of these.

All percentages are exact in integer arithmetic at the prices
chosen. Long and short share one set of definitions with mirrored comparisons
(`AtLeast`, `Best`, `Up`), as the code mirrors its two branches.

### ScanService
`thread[t]` is where a request or a job is. The charge of a registered user is a
SELECT, then an INSERT refused by the unique constraint or an UPDATE to the count
that was read, plus one. A clock read between two steps returns any day that has
passed since the previous one (`CapturedDays`). A published result is named by its
time of publication. `RestartWeb` and `RestartWorker` may happen anywhere.

### UserStatus
`file` is the status on disk, `status[m]` the copy of a manager. An action is what the
code does under `_STATUS_LOCK`; `verify_usdt_transaction` is two (`VerifyBegins`,
`VerifyEnds` or `VerifyTooLate`) with the network between. `Normal` is `_normalize`.
Every read may fail, and then counts as an empty file; every write may fail, and is then
swallowed or raised as in the code. `mishaps` remembers which of these has cost the file
its contents (`read`, `stale`: an older copy written by `__exit__`), left a refresh
uncharged (`write`), or set the clock back. A property names the mishaps it does not
survive in this code, and holds across all others.

### LiveEntry and Sizing
Each request builds a bot of its own, so the bots are indexed by the requests:
`bot[r]` holds the flags, `instance` is the class attribute `_instance` and `lock` the
class lock. `ReplaceInstance` is `get_instance(force=True)` up to the constructor;
`BuildBot` is the constructor's wallet read, after which the lock is free, and
`BuildFails` a constructor that raises. Then the request goes on alone: `StartBot`, the two
price reads of `place_notional_order` and `calculate_position_size`, the balance with
the size that follows from it, the gate, the order. Another request may close the bot at
any of these steps. The market moves between them, and an order is accepted only if it
can be paid at the price of that moment.

What lock sections do to a bot is written as functions of its flags (`Started`, `Closed`,
`Authenticated`, `BalanceFailed`), so that the same text serves every bot.
`Gate(r) == INSTANCE TradingBot WITH ...` takes bot `r` for the whole of a `TradingBot` with
the one thread `r`. `BotsFollowTheGate` says that from its construction on it begins and
moves as `TradingBot` allows: the other requests are the environment that may close it.
The abstract module is the gate, the detailed one adds where bots come from and what an
order is made of.

In `Sizing` amounts are integers in parts of a unit fine enough for every product of the
code to be exact, as `Decimal` computes them; a price is that of one quantity step.
`PositionSize` returns 0 where the code raises `ValueError`.

### RegimeDetector, GlobalLead and Backtest
In these three a scan is one action: their source runs under one lock or in one thread, and
what is hard is the history, not the interleaving.

`RegimeDetector.Scan` records prices and volume, computes the signals and the weighted score
(`Signals`, `Weighted`, then the overrides and the lift) and the raw regime, and takes one of
three branches, as `decide` does: `Direct` (an emergency), `Block` (the hysteresis forbids
the step up or down and returns without touching the pending vote), `Confirm`. What the source sorts is
here a rank: the n-th largest is the largest number that at least n reach (`Nth`). The ghost
`log` has label, score and outcome of each scan. A crisis has rules of its own; the properties
say what holds between the other three regimes. `FlipIsConsecutive` is what the docstring
says (N consecutive scans); it does not hold, because a blocked scan does not reset the
count, and `FlipIsConfirmed` is what does hold.

`GlobalLead.Evaluate` builds the global map, records both price histories, and gives each coin
the verdict of the first filter that rejects it (`Verdict`, in the order of the source); a
verdict in `Resets` forgets the hits and the first-seen time, the others keep them.
`TrendsAreScans` and `CandidatesWereWatched` relate what is stored to the ghost `verdicts`.
A price history holds at most `LeadHistory` prices, as the deque does. Candidates are ordered by
score; those of one score come in any order, where the source keeps the order of the rows. `Configure`
changes filters between scans.

`Backtest` loads stored scans (`Loaded`: which are old enough, which do not parse, observed
movement rebuilt per symbol, a stable sort by time) and walks over them, once with the
delay asked for and once for each delay of the comparison. One turn of the loop is `Reject`,
`Signal`, `Trade`, `Starve` or `Abandon`; a trade is followed to its exit in the same turn
(`Found` is the inner loop, `Exit` with the fall-back to the last row), and the walk resumes behind it. `Finish`
builds the report, with its sums (`Total`) and its losing streak (`Streak`) as recursive functions over the trades.

### Indicators, Enrichment, Risk, Signals, RiskBatch and Decision
Numbers are integers in units the modules' headers name; a quotient is rounded down and a
value pandas has as NaN is `Missing`. `Indicators` has one definition per column and one
action, `Push`, of the sliding window; `RowsAreKept` compares each column before and after a
candle, which is how foresight would show.

`Risk` and `Signals` are functions of one row, with the thresholds and weights of the source;
the run evaluates them on two grids of 288 rows and eight named ones. One grid combines the changes within the
hour and the day, the strength, the price beside its averages and bands, and the relative volume; the other volume,
size, spread, volatility and mood. `JudgementIsMonotone` is about what moves in one direction, everything else being
equal: a further rise within the hour (of a hundredth of a percent, of five percent) does not worsen the decision
(`RiseNeverWeakens`), nor does a lower level of risk (`RiskNeverStrengthens`); a worse feature does not lower the score of the
risk (`WorseNeverCalms`); and the worst stress scenario promises no smaller drawdown to a row that tells its ATR in
percent (`StressNeverCalms`; without that ATR it may). The volume has two names in a row: a stress scenario scales only the
first, and not every engine reads the second (`DollarVolume`). `Decision` adds what is stateful about it: the data of a symbol is
replaced (`Replace`) or updated in place (`Refresh`), a strategy leaves its level of risk in
it (`LeaveRisk`), and a decision assesses the data again.

`Enrichment` is the pipeline with its early exits and the memo of the warmup, whose key is the
configuration it depends on (`WarmupKey`). `RiskBatch` has the threads of the pool, one row each:
`Look` in the cache, `Compute`, `Store`, with the clock read once per row and the calls
`Collect`ed in the order they finish; `TimeOut` ends a batch with rows outstanding.

### ApiClient, CcxtClient and ConfigStore
`ApiClient` has any number of threads on one client. A job is a sequence of requests, a request
a sequence of attempts; `Answer` is one attempt's answer with everything the code does about it
(`Retry`, `EndRequest`, `Crash`), `Wake` the end of the sleep. `Reset` of the counters may come
while requests are under way. The ghost `tally` has what happened.

`CcxtClient` is one caller with an exchange that fills orders, carries calls out or not, and
loses answers (`Answered`, `Lost`, `NotCarried`, `Fatal`). `Forms` is the number of ways the
adapter tries an operation in after its retries. `Resolved` is `resolve_symbol`, and `meant` the
pair a caller names, which no code sees.

`ConfigStore` has three files on a disk and the configuration in memory. A save is one action
per file operation, and `ProgramDies` or `Fail` may come between any two; `LoadConfig` applies the
migrations in order. Every read may fail. A configuration that cannot be read gives the defaults
(`LoadFails`), credentials that cannot be read are none, and a key that cannot be read is
written over by a new one, during a load (`KeysAfterLoad`) as during a save (`BeginKey`), as `_credential_key` does
on any exception. A removal of the credentials that fails is passed over, and the save goes on and
succeeds (`RemovalFails`). The ghost `expected` has what a load may find: what was saved last, or by
a save begun since; whether the last removal failed (`kept`); and whether the key that the stored
credentials need was written over (`keyLost`).

## 3. What the runs show

| run | instance | result |
|---|---|---|
| `bot` | 2 threads, all four configurations, 0.9 M states | holds: `ExecutionIsAuthorised`, `RejectedIsNotPlaced`, `StopAdmitsNoNewOrder`, liveness `StoppedBotQuiesces` |
| `cache` | 2 threads, 2 orders, answers without wallets, 0.95 M states | holds: `CacheSound`, `ReadsAreCurrent`, `ZeroIsNeverInvented`, liveness `StaleCacheDies` |
| `sim` | 2 symbols, 3 orders, 5.7 M states | holds: `NoCrossedOrder`, `RecordsBalance`, refinement `ImplementsSettlement` |
| `paper` | a user trading long and one trading short, 1 request, 2 trades, a stop of 13%, 1.7 M states | holds: `LevelsAreKept`, `NoMissedExit`, `OverdraftIsExplained`, liveness `ExitHappens` |
| `paper_high_water` | 1 long trade | **violated**: `HighWaterKept` |
| `status` | a manager and another caller, 1 payment, days 0 to 2, 0.5 M states | holds: `PaymentUsedOnce`, `PaidPlanKept`, `TrialOnce` |
| `scan` | 2 requests, a job, a reader, 2 days, 4.7 M states | holds: `QuotaSound`, `ReadsArePublished` |
| `live` | 2 requests, every setting, the limits of `_bot_config()`, 0.5 M states | holds: `OnlyNewestIsOpen`, `EntryIsLargestAllowed`, liveness `EntryAnswered` |
| `live_fixed` | 1 request | **violated**: `EntryIsFixedSize` |
| `services` | 4 scans of 10 regime tables; 4 scans of 8 lead markets; histories of up to 5 stored scans; 2 threads with 2 jobs; 2 operations with 6 orders; 2 saves with 3 keys, 0.47 M states | holds: `ConfirmationDecides`, `CandidateWasWatched`, `ExitIsFirst`, `ReportAgrees`, `MetricsMatch`, `AnswersAreComplete`, `CancelledIsNotOpen`, `OrdersAreMeant`, `RestartFindsOldOrNew`, liveness `JobsEnd` |
| `backtest_rejections` | the rows of the test | **violated**: `RejectionsAreCounted` |
| `analysis` | windows of 4 candles; 584 rows; batches of 2 and 3 rows in 2 threads; 2 symbols, 0.22 M states | holds: `ColumnsAreCausal`, `WarmupIsCurrent`, `JudgementIsMonotone`, `ServedIsFresh`, `RowsKeepTheirResult`, `BuyMatchesRisk` |

Several of these are conjunctions of named parts, each stated with its comment in its module:
`CacheSound` is `TypeOK`, `CachesAgree` and `CacheKnowsOrders`; `ReadsAreCurrent` is
`FreshReadIsFresh` and `TotalIncludesBlockedAlone`; `LevelsAreKept` is `TypeOK`,
`ExitMatchesReason` and `StopTightens`;
`RecordsBalance` is `OneRecord` and `LedgerBalances`; `QuotaSound` is `TypeOK`,
`RefusedOnlyWhenUsedUp` and `QuotaExactWhenAlone`; `ConfirmationDecides` is
`FlipIsConfirmed` and `AgreementFlips`; and the MC modules name the parts of theirs. What is
proved for every instance and is not asked of a run again: `TypeOK`,
`PaperSendsNothing` and `ExecutionOnlyWhileRunning` of the bot, `RefreshesWithinLimit`, and
the refinement `BotsFollowTheGate`.

The violated properties are what a comment, a docstring or a test says; PROJECT.json
`findings` quotes each and tells the trace. In short: the watcher's high-water marks are
rolled back, an entry documented as of a fixed size is sized by the balance, and the rejections a
test of the backtest counts are passed over inside a trade.

**Bounds.** Two threads are enough for every hazard listed: each is one operation
overtaken by another, and no operation waits for two others. One trade per side of a
race, two users for the job's loop, and three prices such that one step reaches the
stop and the activation and two reach the target. An open leaves a tenth of the cash unused, so the
prices of `paper` lie 15% apart with a stop of 13%: one loss exceeds that tenth, and an open that
missed it overdraws the account. (With the 3% of the default settings the tenth hides the race.)
`paper_high_water` has the default percentages: 3% of 10000 lies between its prices, 6% between
the outer ones. Three orders in the simulator let one pass settle
two and cancel a third for lack of funds; the deposit pays for two of the larger buys
at most. Limits of one scan let a quota be used up with two requests; `MaxCharges = 2`
admits one more. Two days contain one midnight, three publications let cache and
snapshot overtake each other twice. In `status` a day is a tick, a trial and a plan last a day and one refresh is free, so that
three days hold a trial, a plan, their ends and a free day; `FileIntact` ends a behaviour
where the file is lost, after which no property but the types says anything.
In `live` amounts are millions of Rial, as `_bot_config()` has them: a deposit of 11 stays
below the minimum notional after the usage share is taken, 14 lies between minimum and
ceiling, 40 is cut by the ceiling; prices of 2 and 3 leave a remainder in most divisions.
A third request could only close what the second has closed or will close.

In `services`, two confirming scans and four scans in all let a vote be blocked between two
others and a regime change twice; the tables reach every branch of the score and all four
regimes. Four scans let a coin be seen, dropped, seen again and become a candidate with a lookback of
two. Five rows hold two trades or one with a delay of three; the figures are percentages that
one step of price crosses. In `analysis`, periods of two or three give every indicator a value
within a window of four and let the window slide once more; a cache for one row and a time to
live of two ticks make it evict and expire. In `services` again, two attempts a request, two jobs and pages of two
let a retry, a failed middle page and a reset overlap; six orders admit two placements that were each sent
three times; two saves admit a crash in a save that follows one that crashed, and three keys one that is
written over after a failed read.
`SYMMETRY` is used for the run of
`ScanService` only, over interchangeable request threads.

**Fairness.** `bot` assumes that a call in progress ends (`WF` of `Finish(t)`): the
clients set timeouts on every HTTP request, so a call that was made returns or raises.
Nothing says that a call is ever made. `live` assumes it of every step of a request that
has begun; a `threading.RLock` that is released is taken by a waiter, and with as many
waiters as here weak fairness is enough. `services` assumes it of an attempt that was sent
(the client passes a timeout to every request) and of a sleep. `cache` assumes the same and that time
passes (`CacheExpires`). `paper` assumes that APScheduler starts the job again and
again (`WF` of `JobStarts`, an interval trigger), that a started job continues, and
that the price service answers infinitely often if asked infinitely often (`SF` of
`PricesArrive`); it does not assume that every job gets prices or that the market
holds still. `ExitHappens` adds a condition of its own: from some moment on no step of the job fails
(`JobFails`). Without it the property is false, and not for a bound: a trade whose commit fails in every
job ends each of them before the users behind it. Deadlock is checked in every run but `services`, `analysis` and `backtest_rejections`, whose
components really stop: a history ends, a window is full of scans, the bounded operations
are used up.

**Properties that hold only for one caller.** The ghost `mishaps` of `BalanceCache` records
that an order ended while another thread was inside a read (`overlap`) and that the exchange
answered without wallets (`empty`); each property names those it does not survive.
`CacheKnowsOrders` and `FreshReadIsFresh` do not survive an overlap: a read sent before an
order stores its older wallet after the order's invalidation. Nor does
`TotalIncludesBlockedAlone`, because the totals are read in a second lock section. An empty 200 answer makes
every balance 0, so `ZeroIsNeverInvented` and the totals exclude it. `CachesAgree` and
`StaleCacheDies` survive everything.

An open may overdraw a paper account: its two sums are read in two statements and the row is
inserted in a third, without a lock. A loss the watcher books between the two sums is in neither, and two
requests size on the same cash. `OverdraftIsExplained` does not exclude these; it says that nothing
else overdraws an account: the shortfall is at most the losses missed between the reads and
what was taken from the account after the second one. It is checked for one request beside the watcher, which has the first race
(without its term TLC finds the overdraft), and proved for any number of requests.

**Observed without a run.** What the models show, or the reading for them showed, and no
run of its own repeats.

*Bot, wallet, paper, scan and status.* Two concurrent scans of a registered user exceed the daily quota:
both read the count before either writes it, and one of the two updates is lost although
plans.py:72 says "Safe against concurrent inserts". `QuotaExactWhenAlone` therefore looks at
users whose requests did not overlap. `start()` does not look at `closed`: a bot replaced
before its request has started it runs all the same and sends its order beside the newer
bot's, and nothing enforces `max_open_positions = 1`. The quantity is rounded down after the
minimum notional is checked, so an order may be worth less than it by up to a step; this is
why `EntryIsLargestAllowed` speaks of one step more. The comment "Simulator is paper-only by design"
(trading/trader.py:405) holds in `start()`; a later balance read enables execution of a
simulator in live mode as well. The fee of a simulated order is charged but its field
`fee` stays 0.0. With SQLite a snapshot's `created_at` is read back without a time zone, so
`.timestamp()` in scanner.py:26 depends on the zone of the server; the model takes the
times as comparable. A snapshot persisted late carries a later time than a scan
stored in between. Of the status file: one failed read resets plan, trials and used payments
at the next write; an activation replaces a longer plan by a shorter one; leaving a
manager's `with` block writes its copy over whatever the file holds by then. The total of a wallet can come back without the
blocked funds, whatever the docstring of nobitex_client.py:608 says (`TotalIncludesBlocked`);
a balance read after `disable_live_trading` enables execution again; two requests can close one trade twice, or delete it
while the other closes it (`ClosedIsFinal`).

*Engines.* "Requires N consecutive scans" (regime_detector.py, decide) is not so
(`FlipIsConsecutive`): blocked scans keep the count. The strong-mover lift is capped at 39,
below the 40 a balanced regime needs. A scan without BTC appends its last price again, so a
fall is measured over scans that did not see it. In the lead engine a scan without BTC switches
the guard against a falling BTC off; a rejection that is not in `Resets` keeps the hits, so
they need not be consecutive; `_reset_hit` keeps the last move. In the backtest an observed movement of exactly 0 is
replaced by the change of one hour, and a bid of 0 by the ask; one signal whose delayed entry
the data does not reach ends the whole walk; the entry fee of an abandoned entry stays in
the totals; `blocked_by_open_position` is always 0 (that rejections inside a trade are not counted is run `backtest_rejections`).

*Analysis.* A risk score of 0 reads as 50; an UNKNOWN level does not stop a buy; a stress scenario does not scale
an ATR given as a price; the level of risk a strategy left in the data survives an update
in place and goes on weighing on its own signal, while the decision assesses the data anew, which is what
`BuyMatchesRisk` checks. RSI
is missing in a market that never fell. The warmup counts the senkou period
without the shift by kijun, and no momentum period. Results that had finished when a batch timed out
are lost with the others.

*Clients.* A Retry-After that is a date raises ValueError out of `_request` without a record,
and one that is a number is slept in full. `ApiAuthError` always says 401. The last page of a
listing is asked with a smaller size and the same page number, so its coins are other ones
unless the total fills whole pages (`WholePagesAreExact` says so); a failed page or chunk is skipped
silently. A placement whose answers are lost leaves up to three orders, for there is
no client order id; a cancel that was carried out and not answered raises OrderNotFound on the
next attempt; an error that is fatal for one form is tried again in another.
A spot symbol may resolve to a perpetual of the same pair, and the other way around.

*Configuration.* Loading with a missing, broken or unreadable configuration ignores the stored
credentials, and the next save removes them. A key file cut short is generated anew, and what
was stored under the old key cannot be read again; a key that could not be read once is written over in the same way,
with the log line that it was invalid. A removal of the credentials that fails is not reported: the save
succeeds, and a restart finds them. The migrations overwrite a
stop loss the user has chosen.

## 4. What is proved

`TradingProofs` on `TradingBot` (for every `Threads` and `Configs`):

* `Typing`, `PaperSafety`, `ExecutionSafety`, `RejectionSafety`, `StopSafety`: types, that a
  paper bot sends nothing to a real account, and the safety invariants of run `bot`
  (`ExecutionIsAuthorised`, `RejectedIsNotPlaced`, `StopAdmitsNoNewOrder`).
* The argument. None of the invariants is inductive alone. `IInv` adds that no thread of a
  paper bot is past the gate (a thread past it would send without asking again); what the
  flags say of each other (an available balance was once read, also by every thread about
  to apply an enable; live trading is not available with refused credentials); and
  that an order call in progress has reported nothing. One lemma per group of
  conjuncts (`TypeStep`, `PaperStep`, `FlagsStep`, `ResultStep`, `StopStep`) goes through the
  actions; `Invariance` combines them.

`TradingProofs` on `PaperTrading` (for any users, requests, prices and percentages up to 100):

* `LevelsKept` (`LevelsAreKept`, with the action property `StopTightens` in it) and `NoneMissed` (the
  action property `NoMissedExit`), and `Overdrafts` (`OverdraftIsExplained`).
* The argument. What a job writes at its commit was read before, so the invariant `PaperInv` is about
  copies: the job's object of a row is of the trade that is in the row, with a stop as tight or
  tighter (`ObjectsOk`), and so is a request's copy (`RequestsOk`); a row with changes that are
  not committed is there and not at an exit unless it is the one being closed (`PendingOk`); a row in
  the job's hands that is closed was closed by hand (`ByHand`); no row that was evaluated is open at an exit
  (`NotMissed`). The last needs that a looser stop is hit only when a tighter one is (`LooserIsNotHit`),
  because the row still has the stop of before the flush. A commit writes all pending rows at
  once (`CommitKeeps`), a failed one ends the job with all it held (`EndJobKeeps`), a failed audit record expires its
  objects (`AuditFailsKeeps`) and a refresh leaves them (`RefreshKeeps`); `OneRow` is the other side, a
  request's write under the job's feet.
* `Overdrafts` needs little of that: `PaperInv` says that what a request is about to insert is no more than what was free at
  its second read and what its first read overstated (in `RequestsOk`, by `SizedOk`), `TotalMoves` that one row more in the sum is one summand
  more, and `InsertTakes` that an insert takes its notional from the free cash.

`SimExchangeProofs` (for every set of symbols, deposit, fee up to 100%, spread below the
prices, quantities, limits and number of orders):

* `Typing` (balances stay natural numbers), `NoCrossed` (`NoCrossedOrder`), `Refinement`
  (`ImplementsSettlement`) and `Records` (`RecordsBalance`: each order is in the book or the history
  once, and the balances are the deposit and the sum of what the filled orders moved).
* The argument. `IInv` says which orders exist (`IssuedIds`), that what is in the book is an
  open limit order on a priced symbol unless just settled (`BookOrders`), and that the
  engine has settled every crossed order it has looked at (`EngineState`). The refinement
  needs it to know that the engine never settles an order twice, nor one that is not marketable.
  `FeeBounds` is the arithmetic: a fee lies between 0 and the worth of its order, so a sale
  never takes money; `SettleTyped` and `SettleImplements` are stated once and used by market
  orders and by the engine.
* The sum is a recursive function over the orders. `RunExists` builds the list of its partial sums by
  induction on its length (as a least number for which there is none), `StatementIs` says that this list is
  what the recursion means, `StatementMoves` that one more movement is one more in the total. The
  balances follow with the same amounts `FillMoves` reads off a fill.

`UserStatusProofs` (for every set of callers, managers, payments and terms, and every length
of trial, day and limit):

* every property of run `status` (`PaymentUsedOnce`, `PaidPlanKept`, `TrialOnce`) and two more,
  as `PaymentSafety`, `PlanSafety`, `TrialSafety`, `Typing` and `RefreshSafety`.
* The argument. Every write of the module replaces the file by something read from it in the
  same lock section. `Keeps` says that such a status has the file's used payments and no new
  trial; `FileKept`, that a step keeps the file or records its loss (`WriteKeeps`). The
  invariant adds that a credited payment is named by the file and counted once (`Credited`),
  that what was granted and what is left today are within the limit (`Rationed`), and that
  the file was written in the past and holds the plan last activated (`PlanHeld`): a plan
  would otherwise seem over because of a clock set back.

`LiveEntryProofs` (for any requests, settings, limits, deposits and prices):

* `Typing`, `NewestOpen` (`OnlyNewestIsOpen`), `LargestAllowed` (`EntryIsLargestAllowed`) and
  `FollowTheGate` (`BotsFollowTheGate`).
* The arithmetic. `RequestInRial`: the conversion of the request to Toman and back is exact.
  `ApprovedBounds`: the approved amount is one of the five bounds and exceeds none of them.
  `SizeIsLargest`, by `Division`: the quotient by the price of a step is the largest
  quantity within every limit.
* The argument. `IInv` adds that only the holder of the class lock is building a bot, and
  then the class has none (`LockHeld`), without which a new instance could appear beside an
  open one; and that nothing is sized before the balance has arrived (`NotSizedYet`).
  `FollowTheGate` needs besides where a request stands with its order (`CallState`). It has
  one lemma for the request's own steps (`OwnFollow`), one for those of the others
  (`OthersFollow`) and one for the construction (`BuiltAsGateBegins`). With
  `TradingProofs`, whatever holds of a live bot with one thread holds of each of the bots.

`BalanceCacheProofs` (for any threads, amount and number of orders):

* `Sound` (`CacheSound`), `Current` (`ReadsAreCurrent`) and `NoZero` (`ZeroIsNeverInvented`): all
  safety properties of run `cache`.
* The argument. The properties speak of what a read has returned; they hold because of what
  it carries on the way. `ReadersOk`: an answer not yet stored is an amount the wallet had.
  `ReadersCurrent`: as long as no other thread empties the cache during a read, no order has become
  known since the read began, so its answer is at least that new. `TotalsThere`: under the same
  condition a thread about to read the totals finds them. Each step either returns what
  `MayReturn` admits (`ReturnKeeps`), goes on (`GoesOn`), or belongs to a thread that is
  not reading (`TurnKeeps`); `Turns` says what emptying the cache leaves of the others' reads.

`ScanServiceProofs` (for any callers, threads, limits, days and number of scans):

* `Quota` (`QuotaSound`) and `Reads` (`ReadsArePublished`): the properties of run `scan`.
* The argument. Two inductions over separate variables. For the reads: what a read promised is
  in the rows it saw or not newer than the newest snapshot, and snapshots only become newer. For
  the quota: what is counted was charged (`Counted`), so a refusal follows charges. A caller
  alone has at most one request before its charge (`OneEach`); for it the count is exact from the day
  its request looked at on (`UsedExact`), nothing is charged after that day, and a scan is left on
  the day (`AloneRecord`): a midnight between check and charge meets a day without charges.

`ScanServiceProofs` on `GlobalLead` (for any coins, markets, settings and changes of them):

* `Watched` (`CandidateWasWatched`).
* The argument. `TrendsAreScans` relates three stores to the log of all scans, from any scan in it to the last.
  `NextScan` says what one scan more does to the confirming scans of a coin: none are left after a reset or an absence,
  one is added by a pass, and the others stay. `HistoriesAreSeen`: a price history is no longer than
  the number of scans that recorded the coin (`HistoryGrows`); so a move that can be told needs as many scans
  (`MoveIsWatched`), and a coin passes no filter without one (`VerdictSays`).

`ClientsProofs` on `ApiClient` (for any market, page size, chunks, threads and retries):

* `Metrics` (`MetricsMatch`). The property is inductive with the types of the counters: each of
  `_request`'s exits records once what it delivers, and a reset keeps both sides.
* `Complete` (`AnswersAreComplete`). A job's state is described page by page (`ListingOk`: as long as
  every page was answered, what is there is the front of the market, `got` coins long) and chunk by chunk
  (`QuotesOk`). `PageJoins` is the step: a full page appended to a front is a front. The page
  arithmetic (`PagesFill`) holds only for totals that fill whole pages, which is why the property
  says so.

`ClientsProofs` on `CcxtClient` (for any markets, symbols, bounds and forms of calls):

* `Cancelled` (`CancelledIsNotOpen`), `Placements` and `OrdersMeant` (`OrdersAreMeant`: at most one order
  per attempt, and on a market of the pair that was meant).
* The argument. The order a cancel is about exists, and an order that is not open never
  is again (`Kept`). `PlacementsCounted`: the placement under way has left fewer orders than the
  number of its attempt, and the ended ones are within the limit. `ResolvedIsNamed`: whichever of the
  four steps of `resolve_symbol` finds a market, the symbol names it; `MeantInv` carries this through the
  ticker that precedes a market buy.

`ClientsProofs` on `ConfigStore` (for any stored files and edits):

* `Restarts` (`RestartFindsOldOrNew`), wherever a save is cut short and whichever read, write or removal fails.
* The argument. `CredentialsOk`: unless the key was lost (`keyLost`), the stored credentials are under the present key, and
  what they hold is expected (`SecretIsExpected`);
  `SaveOk`: the credentials a save has written are those of the configuration it is about to write, or those whose removal failed (`kept`).
  `WrittenOver` and `KeysAfterLoad` are the two ways to lose a key.
  `SavedIsLoaded`: a configuration that a load gave is given again by loading what it is saved as, that is, the
  nine migrations leave a file of the present version alone (`PresentIsKept`) and raise any other
  to it (`OlderIsRaised`).

`MarketProofs` on `RegimeDetector` (for any market, score and length of the confirmation):

* `QueueIsWellFormed` (`RegimeTypeOK`), `Confirmations` (`ConfirmationDecides`) and `Toggles`.
* The argument. `ScanVotes`: to the decision a scan is a vote for some label with some score. The
  votes that are counted were cast (`QueueIsBacked`) and the votes that were cast with none against
  them are counted (`VotesAreCounted`); the first gives the votes behind a change, the second
  the change behind the votes. For `Toggles` (two changes that undo each other are twice the hysteresis apart), every change begins where the one before it ended
  (`FlipsAreChained`) and passed the hysteresis of its pair of regimes (`FlipsPassed`).
* `Scored` (`ScoresInRange`): every scan gets a score between 0 and 100. `Measurable`: the prices that are remembered are
  positive, so that the tests of the source for an older price or a mean of Bitcoin that is nothing (`_pct_change`,
  `_btc_above_mean`), which the model leaves out, never fire (`MeanIsPositive`, by induction over the partial sums); the other
  divisors are counts and means that are tested. A finite set of numbers has a least and a greatest
  one (`FiniteExtremes`), which makes the ranks of a sort (`NthIsValue`) and so the median and the means of the strongest
  numbers. `Toggles` needs it: its statement compares scores.

`MarketProofs` on `Enrichment`, `RiskBatch` and `Decision` (for any settings, keys, threads, sizes and ages):

* `Warmups` (`WarmupIsCurrent`): what is memoised for a configuration is what this configuration needs.
* `Served` (`ServedIsFresh`) and `RowsKept` (`RowsKeepTheirResult`). `BatchInv`: a cache has one entry per key
  and at most `MaxSize` (`SoundCache`; `Removal`, `Addition` and `Replacement` say what the operations of the
  ordered dictionary do to that), a thread carries the result of its own row, no older than the time at
  which it looked (`ThreadsSound`), and until the time is over every row has its result, is waiting, is in the hands
  of a thread or among the finished calls (`Accounted`).
* `Buys` (`BuyMatchesRisk`): a decision computes its level of risk anew, whatever a strategy or an earlier
  update left in the data, in a batch too, where the ranking only permutes decisions.

`MarketProofs` on `Backtest` (for any stored history, settings and delay):

* `Exits` (`ExitIsFirst`). `LoadedIsRows`: what is loaded is a sequence of rows, because the sort gives a row
  to every place (`Ranked`: in a finite set with a strict order the number of smaller elements is one-to-one;
  `EntryIsDelayed` uses it for the delayed entry as well).
* The argument. The source keeps the highest bid, whether the trailing stop is active, and one running stop;
  the property says what a trade's levels are without any of them. `WatchStep` is the inner loop's
  invariant: up to row j either nothing ended the trade, and what is kept is what the bids so far make it
  (`Open`), or the search stands at the first row that did (`Ended`). `ArmedCrest` is why the two agree: the
  source lets the entry price count as a high, which shows in no stop, since a bid that activates the trailing
  stop is not below the entry (`activation` is not negative). `TestInv` carries each trade's order and end through the walk.
* `Reported` (`ReportAgrees`). The source keeps a peak, a drawdown, a running capital and two totals; the property computes
  each of them anew from the trades and the curve. `Accounts` is what the running figures are of the trades so far (the peak
  is the highest point of the curve, `Tops`; the drawdown the largest fall, `FallsAtMost`), `Placed` that the rows examined and the
  rows inside trades are those before the loop's index. `OneMorePoint` and `BookGrows` carry them over a trade, `CountsKept` over a row
  without one. `ReportIsRight` reads the report off: the longest streak ends at some trade and begins after a win or at
  the first trade (`StreakSays`, `StreakIsLongest`). That fees are never less than those of the trades needs that the
  fee is not negative.

Assumed: only the named `ASSUME`s of the modules, which TLC evaluates in the runs. They are types of
the constants, except for: `AbsenceAssumption` of `BalanceCache` and of `ScanService`, `ValueAssumption`
and parts of `PaperAssumption` and `BatchAssumption` (the value that stands for
nothing is none of the records); `ScanAssumption` (addresses and users differ); `CcxtAssumption` (the text
of a symbol names only markets of the pair it means: two markets of different pairs under one name
would make `resolve_symbol` a guess); `DecisionAssumption` (a batch has each symbol once, its keys
are those of a dictionary); `BacktestAssumption` (fee, slippage and activation of the trailing stop are not
negative, as the request's validation and the default have it); `LeadAssumption` (a history has room for a price and
a lookback is at least one scan, as the constructor and `configure` have it); `DetectorAssumption` (the scans before
the run listed Bitcoin, at prices that are positive: a bound of the runs, as a warm-up of none is allowed).

The provers take no induction theorem with an operator as a parameter. Induction over a bound is
done here through `WFMin` and the well-founded order of the naturals (`LeastNumber`, `Least`): the least number for which
a list of intermediate results does not exist is 0 or has a predecessor, and either is
refuted. That is enough for a sum over orders and for a chain of migrations.

Attempts that failed for a reason changed the models. The third case of `ResultOf` in `ApiClient`
overlapped with the others, so that what it gave was up to the evaluator; it is now a chain of conditions as in the
source. The ranking of a batch of decisions was a sort of the evaluator's library; it is now the
ranking that has the order of the source (`Ranks`). The sort of the backtest's rows was one too; it is now the
stable order by time (`Before`), the loop behind an entry a recursive function (`Found`), and so are the sums of
its report (`Total`, `Streak`), which were folds. The candidates of the lead engine were sorted by the library too, and
its histories grew without end; they are now any order by score (`Orders`) and bounded as in the source (`Record`). The sorts and sums
behind the regime detector's signals were the library's; they are now ranks (`Nth`) and the sum the backtest uses (`Totals`).

Only model-checked, and why:

* Liveness (`StoppedBotQuiesces`, `ExitHappens`, `StaleCacheDies`, `EntryAnswered`, `JobsEnd`): the provers
  do not handle ENABLED and fairness.
* `ColumnsAreCausal` of `Indicators` (recursive columns compared before and after a candle) and
  `JudgementIsMonotone` of `Decision`, a statement about the weights and thresholds at the
  rows of the grids; the part about stress is stated, and true, only for rows that tell their ATR in percent.

## 5. Plan

Done: the modules above. First came what the program is for: orders and
money, and the shared state around them; then the engines, the analysis and the clients.

What could still be modelled, each with its hazards in PROJECT.json:

1. The market data of the Nobitex client with `is_symbol_supported`, and the age of the data
   two overlapping scans store.
2. The protective levels of execution/protection.py, once something calls them.
3. The order queries and `cancel_order` of trading/trader.py.

To prove more: the half of `JudgementIsMonotone` about a further rise, strategy by strategy.

To keep the time of a full check within reason, small components share a run: an MC module
that chooses at its start which of them it steps.

## 6. Not modelled, and why

* *Price lookup*: the rows of the last scan, then a remote service. `market` of
  `PaperTrading` is the price it would answer now, which may lag behind the exchange's by the
  interval of the scans; how long is nowhere decided upon.
* *Accounts, authentication, encryption*: each request is one transaction on one row, with
  library cryptography.
* *Audit, health, logging, schema, set-up, scripts, web pages*: append-only, one-shot or wiring.
* *Utilities*: formatting and parsing. The LRU cache of core/utils.py is used by nothing.
* Of modelled components: the candles and tickers of the simulator, and its price process
  (prices are inputs); the classification of scans, their retention and the
  limiter of requests per minute; a scheduler run inside the web process
  (`RUN_SCHEDULER=true`, for development); what API answers contain; candles, order books and
  the parsing of an order by the CCXT adapter; historical volatility (a logarithm),
  wrappers for several timeframes and texts of the analysis; the optimiser's report.

PROJECT.json gives the reason for each component, and lists the hazards without a property.
