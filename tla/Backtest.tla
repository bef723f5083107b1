------------------------------ MODULE Backtest ------------------------------
(***************************************************************************)
(* The performance backtest: load_rows() of server/services/backtesting.py *)
(* flattens the stored scans into rows and rebuilds the observed movement, *)
(* and run_backtest() of analytics/backtest.py walks over the rows, one    *)
(* iteration of its loop a step, once for the delay asked for and once for *)
(* each delay of the comparison.                                           *)
(*                                                                         *)
(* A price is a small integer, a price after slippage is in hundredths; a  *)
(* percentage is whole, money is an integer and a quotient rounded down.   *)
(***************************************************************************)
EXTENDS Integers, Sequences, FiniteSetsExt, Totals

CONSTANTS Histories,    \* the stored scans a request may find
          Configs,      \* BacktestConfig, without the delay
          Days,         \* what the request may ask for, 0 for nothing
          DefaultDays, MaxDays,
          Delays        \* the entry delays it may ask for

\* A row of a scan; 0 stands for a price, a bid or a time that is not given.
StoredRow ==
  [symbol : STRING, ask : Int, price : Int, bid : Int, move : Int, observed : Int,
   spread : Int, chase : Int, usd : Int, at : Int]

StoredScan == [at : Int, age : Int, parses : BOOLEAN, payload : Seq(StoredRow)]

\* The settings are numbers, and those that Query() and the defaults bound
\* below are not negative.
ASSUME BacktestAssumption ==
  /\ Histories \subseteq Seq(StoredScan)
  /\ \A c \in Configs :
       /\ {c.capital, c.usage, c.stopLoss, c.takeProfit, c.distance} \subseteq Int
       /\ {c.fee, c.slippage, c.activation} \subseteq Nat
  /\ Delays \subseteq Int

VARIABLES history,      \* the stored scans
          days, config, \* the request
          rows,         \* what load_rows returned, after the sort
          todo,         \* the delays not simulated yet, the current one first
          phase,        \* "load", "walk", "finish" or "done"
          index,        \* the loop's index, i in the source
          capital, peak,
          drawdown,     \* max_dd_amount
          fees,         \* total_fees
          slippage,     \* total_slippage_cost
          trades, curve, stats,
          reports

request  == <<history, days, config>>
walkVars == <<index, capital, peak, drawdown, fees, slippage, trades, curve, stats>>
testVars == <<request, rows, todo, phase, walkVars, reports>>

-----------------------------------------------------------------------------
(* load_rows().                                                            *)

\* days or the default, within the limits.
Span(asked) ==
  Max({1, Min({IF asked = 0 THEN DefaultDays ELSE asked, MaxDays})})

\* A scan inside the span whose payload parses to a list.
InSpan(scan) == scan.age <= Span(days) /\ scan.parses

\* A row is named by its scan and its place in the payload.
Places == UNION {{m} \X DOMAIN history[m].payload :
                   m \in {m \in DOMAIN history : InSpan(history[m])}}

\* A row without a time gets the one of its scan.
Stamped(p) ==
  LET scan == history[p[1]]
      row  == scan.payload[p[2]]
  IN  IF row.at = 0 THEN [row EXCEPT !.at = scan.at] ELSE row

\* The sort is by time, and stable.
Before(p, q) ==
  \/ Stamped(p).at < Stamped(q).at
  \/ /\ Stamped(p).at = Stamped(q).at
     /\ p[1] < q[1] \/ (p[1] = q[1] /\ p[2] < q[2])

ByTime ==
  [n \in 1..Cardinality(Places) |->
     Stamped(CHOOSE p \in Places :
               Cardinality({q \in Places : Before(q, p)}) = n - 1)]

\* The earlier rows of the same symbol that tell a global price.
Priced(seq, k) ==
  {j \in 1..(k - 1) : seq[j].symbol = seq[k].symbol /\ seq[j].usd > 0}

\* The observed movement is rebuilt from the row's last known global price;
\* a first row gets 0.
Observe(seq) ==
  [k \in DOMAIN seq |->
     IF seq[k].symbol = "" \/ seq[k].usd <= 0 THEN seq[k]
     ELSE [seq[k] EXCEPT !.observed =
             IF Priced(seq, k) = {} THEN 0
             ELSE LET prior == seq[Max(Priced(seq, k))].usd
                  IN  ((seq[k].usd - prior) * 100) \div prior]]

Loaded == Observe(ByTime)

-----------------------------------------------------------------------------
(* A row as run_backtest() reads it.                                       *)

Ask(row) == IF row.ask # 0 THEN row.ask ELSE row.price

\* A bid of 0 counts as none and is replaced by the price.
Bid(row) == IF row.bid # 0 THEN row.bid ELSE Ask(row)

\* A movement of 0 counts as none and is replaced by the one-hour change.
ObservedMove(row) == IF row.observed # 0 THEN row.observed ELSE row.move

\* signal_rejection_reason
Rejection(row) ==
  IF row.symbol = "" THEN "missing_symbol"
  ELSE IF Ask(row) <= 0 THEN "invalid_price"
  ELSE IF row.move < config.minMove THEN "global_move"
  ELSE IF ObservedMove(row) < config.minObserved THEN "observed_global_move"
  ELSE IF row.spread > config.maxSpread THEN "spread"
  ELSE IF row.chase > config.maxChase THEN "chase"
  ELSE "passed"

\* Mutant: a delay is counted in rows of any symbol.
Later_Any(k) == (k + 1)..Len(rows)

\* The later rows of the symbol of row k.
Later(k) == {j \in (k + 1)..Len(rows) : rows[j].symbol = rows[k].symbol}

Delay == Max({0, Head(todo)})

\* The row the entry is delayed to: the Delay-th later one of the symbol.
EntryRow(k) ==
  IF Delay = 0 THEN k
  ELSE CHOOSE e \in Later(k) : Cardinality({j \in Later(k) : j <= e}) = Delay

Starved(k) == Cardinality(Later(k)) < Delay

\* Prices in hundredths.
Bought(raw) == raw * (100 + config.slippage)
Sold(raw)   == raw * (100 - config.slippage)

-----------------------------------------------------------------------------
(* The search for the exit.                                                *)

Watching == [highest |-> 0, trailing |-> FALSE, at |-> 0, reason |-> "open"]

Highest(pos, raw) == Max({pos.highest, raw * 100})

\* One bid above 0 of a position bought at entry.
Watch(pos, entry, j) ==
  LET raw      == Bid(rows[j])
      highest  == Highest(pos, raw)
      gains(p) == (raw * 100 - entry) * 100 >= p * entry
      trailing == pos.trailing \/ gains(config.activation)
      loss     == entry * (100 - config.stopLoss)
      stop     == IF trailing
                  THEN Max({loss, highest * (100 - config.distance)}) ELSE loss
      seen     == [pos EXCEPT !.highest = highest, !.trailing = trailing]
  IN  IF pos.at # 0 \/ raw <= 0 THEN pos
      ELSE IF gains(config.takeProfit)
      THEN [seen EXCEPT !.at = j, !.reason = "take_profit"]
      ELSE IF raw * 10000 <= stop
      THEN [seen EXCEPT !.at = j, !.reason = IF trailing THEN "trailing_stop"
                                             ELSE "stop_loss"]
      ELSE seen

\* What the loop over the rows behind the entry at row e finds.
Found(e) ==
  LET entry  == Bought(Ask(rows[e]))
      pos[j \in e..Len(rows)] ==
        IF j = e THEN [Watching EXCEPT !.highest = entry]
        ELSE IF j \in Later(e) THEN Watch(pos[j - 1], entry, j)
        ELSE pos[j - 1]
  IN  pos[Len(rows)]

\* The first row that ends the position, or the last one of the symbol; at is 0
\* when there is none.
Exit(e) ==
  IF Found(e).at # 0 THEN Found(e)
  ELSE [Found(e) EXCEPT !.at = Max(Later(e) \cup {0}), !.reason = "end_of_data"]

-----------------------------------------------------------------------------
(* The steps of the walk.                                                  *)

Zero == [passed |-> 0, rejected |-> 0, delayed |-> 0, unavailable |-> 0]

Fresh(start) ==
  /\ index' = 1 /\ capital' = start /\ peak' = start /\ drawdown' = 0
  /\ fees' = 0 /\ slippage' = 0
  /\ trades' = <<>> /\ curve' = <<start>> /\ stats' = Zero

\* The delays run_persisted_backtest compares.
Compared == <<0, 1, 2>>

\* run_persisted_backtest up to its first run.
Load(delay) ==
  /\ phase = "load" /\ phase' = "walk"
  /\ rows' = Loaded
  /\ todo' = <<delay>> \o Compared
  /\ Fresh(config.capital)
  /\ UNCHANGED <<request, reports>>

\* A row that is no signal.
Reject ==
  /\ phase = "walk" /\ index <= Len(rows) /\ Rejection(rows[index]) # "passed"
  /\ stats' = [stats EXCEPT !.rejected = @ + 1]
  /\ index' = index + 1
  /\ UNCHANGED <<request, rows, todo, phase, capital, peak, drawdown,
                 fees, slippage, trades, curve, reports>>

Signal == phase = "walk" /\ index <= Len(rows) /\ Rejection(rows[index]) = "passed"

\* A signal whose delayed entry the data does not reach ends the walk.
Starve ==
  /\ Signal /\ Starved(index)
  /\ stats' = [stats EXCEPT !.passed = @ + 1, !.unavailable = @ + 1]
  /\ phase' = "finish"
  /\ UNCHANGED <<request, rows, todo, index, capital, peak, drawdown, fees,
                 slippage, trades, curve, reports>>

Counted(e) ==
  [stats EXCEPT !.passed = @ + 1, !.delayed = @ + (IF e = index THEN 0 ELSE 1)]

\* A delayed entry at a row without a price is given up.
Unpriced ==
  /\ Signal /\ ~Starved(index) /\ Ask(rows[EntryRow(index)]) <= 0
  /\ stats' = [Counted(EntryRow(index)) EXCEPT !.unavailable = @ + 1]
  /\ index' = index + 1
  /\ UNCHANGED <<request, rows, todo, phase, capital, peak, drawdown,
                 fees, slippage, trades, curve, reports>>

Enters(e) == Signal /\ ~Starved(index) /\ e = EntryRow(index) /\ Ask(rows[e]) > 0

Used == (capital * Max({0, Min({config.usage, 100})})) \div 100

\* No capital left: the walk ends.
Broke ==
  /\ Enters(EntryRow(index)) /\ Used <= 0
  /\ stats' = Counted(EntryRow(index))
  /\ phase' = "finish"
  /\ UNCHANGED <<request, rows, todo, index, capital, peak, drawdown, fees,
                 slippage, trades, curve, reports>>

EntryFee == (Used * config.fee) \div 100
EntrySlippage == (Used * config.slippage) \div (100 + config.slippage)

\* No row to leave at: the entry's costs are counted and there is no trade.
Abandon ==
  /\ Enters(EntryRow(index)) /\ Used > 0
  /\ LET exit == Exit(EntryRow(index))
     IN  exit.at # 0 => Bid(rows[exit.at]) <= 0
  /\ fees' = fees + EntryFee
  /\ slippage' = slippage + EntrySlippage
  /\ stats' = Counted(EntryRow(index))
  /\ index' = index + 1
  /\ UNCHANGED <<request, rows, todo, phase, capital, peak, drawdown,
                 trades, curve, reports>>

\* Mutant: the walk goes on with the row of the exit.
Resume_AtExit(exit) == exit.at

Resume(exit) == exit.at + 1

Peak(money) == Max({peak, money})

\* A completed trade.
Trade ==
  /\ Enters(EntryRow(index)) /\ Used > 0
  /\ LET e      == EntryRow(index)
         exit   == Exit(e)
         entry  == Bought(Ask(rows[e]))
         raw    == Bid(rows[exit.at])
         value  == (Used * Sold(raw)) \div entry
         exitFee == (value * config.fee) \div 100
         exitSlippage == (raw * config.slippage * Used) \div entry
         pnl    == (value - Used) - EntryFee - exitFee
     IN  /\ exit.at # 0 /\ raw > 0
         /\ fees' = fees + EntryFee + exitFee
         /\ slippage' = slippage + EntrySlippage + exitSlippage
         /\ capital' = capital + pnl
         /\ trades' = Append(trades,
              [symbol |-> rows[index].symbol, signal |-> index, entry |-> e,
               exit |-> exit.at, reason |-> exit.reason, pnl |-> pnl,
               fees |-> EntryFee + exitFee, used |-> Used,
               duration |-> Cardinality({j \in Later(e) : j <= exit.at})])
         /\ peak' = Peak(capital')
         /\ drawdown' = Max({drawdown, peak' - capital'})
         /\ curve' = Append(curve, capital')
         /\ stats' = Counted(e)
         /\ index' = Resume(exit)
         /\ UNCHANGED <<request, rows, todo, phase, reports>>

WalkedAll ==
  /\ phase = "walk" /\ index > Len(rows)
  /\ phase' = "finish"
  /\ UNCHANGED <<request, rows, todo, walkVars, reports>>

-----------------------------------------------------------------------------
(* The report.                                                             *)

Wins   == {n \in DOMAIN trades : trades[n].pnl > 0}
Losses == {n \in DOMAIN trades : trades[n].pnl <= 0}

PnlOf(ns) == Total([n \in DOMAIN trades |-> IF n \in ns THEN trades[n].pnl ELSE 0])

\* How many trades up to the n-th were lost in a row.
Streak[n \in 0..Len(trades)] ==
  IF n \in Losses THEN Streak[n - 1] + 1 ELSE 0

Report ==
  [delay |-> Head(todo), final |-> capital, trades |-> trades, curve |-> curve,
   wins |-> Cardinality(Wins), losses |-> Cardinality(Losses),
   gained |-> PnlOf(Wins), lost |-> -PnlOf(Losses),
   streak |-> Max({Streak[n] : n \in 0..Len(trades)}),
   drawdown |-> drawdown, fees |-> fees, slippage |-> slippage,
   stats |-> stats]

Finish ==
  /\ phase = "finish"
  /\ reports' = Append(reports, Report)
  /\ todo' = Tail(todo)
  /\ phase' = IF Len(todo) = 1 THEN "done" ELSE "walk"
  /\ IF Len(todo) = 1 THEN UNCHANGED walkVars ELSE Fresh(config.capital)
  /\ UNCHANGED <<request, rows>>

TestInit ==
  /\ history \in Histories /\ days \in Days /\ config \in Configs
  /\ rows = <<>> /\ todo = <<>> /\ phase = "load" /\ reports = <<>>
  /\ index = 1 /\ capital = config.capital /\ peak = config.capital
  /\ drawdown = 0 /\ fees = 0 /\ slippage = 0
  /\ trades = <<>> /\ curve = <<>> /\ stats = Zero

TestNext ==
  \/ \E delay \in Delays : Load(delay)
  \/ Reject \/ Starve \/ Unpriced \/ Broke \/ Abandon \/ Trade
  \/ WalkedAll \/ Finish

TestSpec == TestInit /\ [][TestNext]_testVars

-----------------------------------------------------------------------------
(* Properties.                                                             *)

\* The trades are what one account could have done, without foresight: an
\* entry is its delay in rows of the symbol after a signal that came after
\* the previous exit, and an exit is a later row of the symbol.
TradesInOrder ==
  phase # "done" => \A n \in DOMAIN trades :
    LET t == trades[n] IN
      /\ n > 1 => trades[n - 1].exit < t.signal
      /\ rows[t.signal].symbol = t.symbol /\ rows[t.exit].symbol = t.symbol
      /\ t.entry < t.exit /\ t.exit < index
      /\ Cardinality({j \in (t.signal + 1)..t.entry :
                        rows[j].symbol = t.symbol}) = Delay

\* What the bids of a trade would have done, from the definition of its
\* levels: the bids behind the entry at row e up to row j, the highest of
\* them, and whether one of them armed the trailing stop.
BidsTo(e, j) ==
  {Bid(rows[k]) : k \in {k \in Later(e) : k <= j /\ Bid(rows[k]) > 0}}

Ends(e, j) ==
  LET entry == Bought(Ask(rows[e]))
      raw   == Bid(rows[j])
      armed == \E b \in BidsTo(e, j) :
                 (b * 100 - entry) * 100 >= config.activation * entry
  IN  /\ raw > 0
      /\ \/ (raw * 100 - entry) * 100 >= config.takeProfit * entry
         \/ raw * 10000 <= entry * (100 - config.stopLoss)
         \/ armed /\ raw * 100 <= Max(BidsTo(e, j)) * (100 - config.distance)

\* No bid between the entry and the exit would have ended the trade, and the
\* exit's does, or it is the last row of the symbol.
ExitsAreFirst ==
  \A n \in DOMAIN trades :
    LET t == trades[n] IN
      /\ \A j \in Later(t.entry) : j < t.exit => ~Ends(t.entry, j)
      /\ IF t.reason = "end_of_data" THEN t.exit = Max(Later(t.entry))
         ELSE Ends(t.entry, t.exit)

\* Every row is examined once or passed over inside a trade, where it counts
\* neither as passed nor as rejected (contrary to RejectionsAreCounted), unless
\* a delay that the data does not reach has cut the walk short.
RowsAccounted ==
  phase = "finish" /\ Used > 0 =>
    LET inside == Total([n \in DOMAIN trades |-> trades[n].exit - trades[n].signal])
        seen   == stats.passed + stats.rejected + inside
    IN  /\ seen <= Len(rows)
        /\ Delay = 0 => seen = Len(rows)

\* The report agrees with its own curve and trades: the drawdown is the
\* largest fall between two points of the curve, the streak the longest run
\* of losses, the capital what the trades made of it, and the costs at least
\* those of the trades, more only when a signal found no trade.
FiguresAgree ==
  \A n \in DOMAIN reports :
    LET r == reports[n]
        runs == {s \in (DOMAIN r.trades) \X (DOMAIN r.trades) :
                   \A k \in s[1]..s[2] : r.trades[k].pnl <= 0}
        paid == Total([k \in DOMAIN r.trades |-> r.trades[k].fees])
    IN  /\ r.drawdown = Max({0} \cup
             {Max({r.curve[j] : j \in 1..k}) - r.curve[k] :
                k \in DOMAIN r.curve})
        /\ r.streak = Max({0} \cup {s[2] - s[1] + 1 : s \in runs})
        /\ r.final = config.capital + r.gained - r.lost
        /\ r.fees >= paid
        /\ r.fees > paid => r.stats.passed > Len(r.trades)

\* Every row of a complete walk that fails a filter counts as rejected, those
\* behind an entry included (test_signal_rejections_are_counted).
RejectionsAreCounted ==
  phase = "finish" /\ Used > 0 /\ Delay = 0 =>
    stats.rejected = Cardinality({k \in DOMAIN rows : Rejection(rows[k]) # "passed"})

\* The trades follow one another, and each ends at the first row that ends it
\* (run_backtest).
ExitIsFirst == TradesInOrder /\ ExitsAreFirst

\* Every row is looked at once or lies inside a trade, and the figures of a
\* report agree with its trades and its curve (run_backtest).
ReportAgrees == RowsAccounted /\ FiguresAgree
=============================================================================
