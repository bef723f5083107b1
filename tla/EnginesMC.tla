------------------------------ MODULE EnginesMC ------------------------------
(***************************************************************************)
(* The engines that only read the market: the regime detector, the global  *)
(* lead engine and the backtest.  They share no state, so a behaviour of   *)
(* this module moves one of them, chosen at its start; the others stay as  *)
(* they began.                                                             *)
(***************************************************************************)
EXTENDS RegimeDetector, BacktestMC, GlobalLead, Component, TLC

-----------------------------------------------------------------------------
(* Scans of the regime detector: BTC and six other coins, prices in units   *)
(* of a tenth of a percent of 1000, changes and spreads in hundredths.      *)

Alts == {"A1", "A2", "A3", "A4", "A5", "A6"}
Row(p, c, v, b, a) == [price |-> p, change |-> c, volume |-> v, bid |-> b, ask |-> a]
All(btc, alt) == [s \in {"BTC"} \cup Alts |-> IF s = "BTC" THEN btc ELSE alt]
Some(strong, yes, no) == [s \in {"BTC"} \cup Alts |-> IF s \in strong THEN yes ELSE no]

QuietRows == All(Row(1000, 50, 300, 1000, 1005), Row(1000, 50, 300, 1000, 1005))
Rally == All(Row(1020, 450, 400, 1020, 1022), Row(1050, 600, 400, 1050, 1053))
Firm == Some({"A1", "A2", "A3"}, Row(1005, 220, 300, 1005, 1007), Row(1000, 250, 300, 1000, 1002))
Mild == All(Row(1000, 220, 300, 1000, 1002), Row(1000, 250, 300, 1000, 1002))
Mixed == Some({"A1", "A2", "A3"}, Row(1000, 20, 300, 1000, 1005), Row(1000, -50, 300, 1000, 1005))
Thin == Some({"A1", "A2"}, Row(1000, 20, 300, 1000, 1005), Row(1000, -10, 300, 1000, 1005))
Soft == All(Row(1000, -100, 300, 1000, 1008), Row(1000, -150, 300, 1000, 1008))
Dump == All(Row(960, -500, 500, 960, 970), Row(950, -700, 500, 950, 960))
Eagles == Some({"A1", "A2", "A3"}, Row(1100, 900, 500, 1100, 1105), Row(970, -450, 500, 970, 980))
Wide == All(Row(1000, 0, 100, 1000, 1040), Row(1000, 0, 100, 1000, 1040))
Nothing == [s \in {} |-> 0]
Losing == [pnls |-> <<-1, 1, -1, -1, -2>>, peak |-> 100, cash |-> 85]

ScansOf(tables) == {[rows |-> table, tracker |-> NoTracker] : table \in tables}
RegimeScans ==
    ScansOf({QuietRows, Rally, Firm, Soft, Mixed, Thin, Dump, Eagles, Nothing})
        \cup {[rows |-> QuietRows, tracker |-> Losing]}

DetectorSettings ==
    [confirmScans |-> 2, historyLen |-> 60, shortLookback |-> 2,
     strongMove |-> 350, strongVolume |-> 200, strongSpread |-> 150, minTradeSamples |-> 5,
     conservative |-> 35000, aggressive |-> 65000, crisis |-> 15000,
     breadthAggressive |-> 550, breadthConservative |-> 350, hysteresis |-> 5000]

-----------------------------------------------------------------------------
(* Markets of the global lead engine: local rows and a global payload.      *)

Local(ask, bid, last, vol, ch, tick) ==
    [ask |-> ask, bid |-> bid, last |-> last, volume |-> vol, change |-> ch, tick |-> tick]
Coin(s, p, cap, h1, vol, age) ==
    [symbol |-> s, price |-> p, cap |-> cap, h1 |-> h1, h24 |-> 300, volume |-> vol,
     volChange |-> 100, age |-> age]
Fine(p) == Local(p, p - (p \div 200), p - 1, 900, 200, 10)
G(s, p) == Coin(s, p, 9, 50, 900, 10)
Market(localBtc, localA, globalBtc, globalA) ==
    [local |-> ("BTC" :> localBtc) @@ ("A" :> localA), payload |-> <<globalBtc, globalA>>]

LeadMarkets == {
    Market(Fine(1000), Fine(1000), G("BTC", 1000), G("A", 1000)),
    Market(Fine(1010), Fine(1011), G("BTC", 1010), G("A", 1010)),
    Market(Fine(1002), Fine(1020), G("BTC", 1002), G("A", 1020)),
    Market(Fine(980), Fine(1040), G("BTC", 980), Coin("A", 1040, 9, 300, 900, 10)),
    Market(Fine(1000), Local(1020, 1015, 1000, 900, 200, 10), G("BTC", 1000), G("A", 1015)),
    Market(Local(1000, 990, 999, 900, 200, -200), Local(1030, 1005, 1028, 900, 100, 0),
           G("BTC", 1012), G("A", 1030)),
    [local |-> "A" :> Fine(1010),
     payload |-> <<G("A", 900), Coin("A", 1010, 12, 50, 900, 10), G("BTC", 1000)>>],
    [local |-> ("BTC" :> Fine(1000)) @@ ("USDT" :> Fine(100)),
     payload |-> <<G("USDT", 100), G("A", 1000), Coin("BTC", 0, 1, 0, 0, 0)>>]}

UsualSettings ==
    [pump |-> 120, maxSpread |-> 120, minGlobalVolume |-> 500, maxAge |-> 300,
     minLocalVolume |-> 500, maxLocalFall |-> 80, maxChase |-> 55, lookback |-> 2,
     confirm |-> 2, minObserved |-> 70, maxLocal24h |-> 1500,
     minGlobal24h |-> -10000, min1h |-> -10000, minVolChange |-> -10000,
     btcMaxDump |-> 100, eagleEnabled |-> TRUE, eagleObserved |-> 250,
     eagle1h |-> 200, eagleVolume |-> 300, eagleSpread |-> 90]

LeadSettings ==
    {UsualSettings, [UsualSettings EXCEPT !.lookback = 1, !.min1h = 20, !.minGlobal24h = 100]}

LeadChanges == {[lookback |-> 0, confirm |-> 1], [min1h |-> 100, unknown |-> 3]}

-----------------------------------------------------------------------------
enginesVars == <<regimeVars, leadVars, testVars>>

\* A backtest that does not move has the tangled history before it, a detector
\* no warm-up, and a lead engine its usual settings.
EnginesInit ==
    /\ component \in Components
    /\ component # "backtest" => history = Tangled /\ config = TestConfig
    /\ component # "regime" => btcHistory = <<>>
    /\ component # "lead" => conf = UsualSettings
    /\ RegimeInit
    /\ TestInit
    /\ LeadInit

EnginesNext ==
    /\ UNCHANGED component
    /\ \/ component = "regime" /\ RegimeNext /\ UNCHANGED <<leadVars, testVars>>
       \/ component = "lead" /\ LeadNext /\ UNCHANGED <<regimeVars, testVars>>
       \/ component = "backtest" /\ TestNext /\ UNCHANGED <<regimeVars, leadVars>>
=============================================================================
