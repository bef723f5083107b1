----------------------------- MODULE BacktestMC ------------------------------
(***************************************************************************)
(* The stored scans and the settings a backtest is checked with.           *)
(***************************************************************************)
EXTENDS Backtest

(* Histories: up to five scans of one row, one history with rows out of     *)
(* order, a payload that does not parse and an old scan, and one with rows  *)
(* to reject inside a trade.                                                *)

Sample(s, ask, bid, move, usd) ==
    [symbol |-> s, ask |-> ask, price |-> ask, bid |-> bid, move |-> move, observed |-> 0,
     spread |-> 1, chase |-> 0, usd |-> usd, at |-> 0]
Stored(k, p, ok, age) == [at |-> k, age |-> age, parses |-> ok, payload |-> p]
Series(f) == [k \in DOMAIN f |-> Stored(k, <<f[k]>>, TRUE, 1)]
FewSamples == {Sample("A", 100, 100, 2, 100), Sample("A", 110, 109, 2, 110),
               Sample("A", 96, 95, 2, 0), Sample("B", 100, 125, 2, 0)}
Samples == FewSamples \cup {Sample("A", 106, 105, 0, 106), Sample("A", 0, 0, 2, 0),
                            [Sample("", 100, 99, 2, 0) EXCEPT !.spread = 9]}
Tangled == <<Stored(2, <<Sample("A", 100, 100, 2, 100),
                         [Sample("A", 101, 100, 2, 100) EXCEPT !.at = 1]>>, TRUE, 1),
             Stored(3, <<>>, FALSE, 1),
             Stored(4, <<Sample("A", 110, 90, 2, 99)>>, TRUE, 9)>>

\* The rows of test_signal_rejections_are_counted.
Rejected == Series(<<Sample("A", 100, 100, 2, 100),
                     [Sample("A", 101, 101, 2, 101) EXCEPT !.spread = 2],
                     [Sample("A", 102, 102, 2, 102) EXCEPT !.chase = 2]>>)
RejectedHistories == {Rejected}

TestConfig ==
    [capital |-> 10000, fee |-> 1, slippage |-> 1, usage |-> 90, stopLoss |-> 3,
     activation |-> 3, distance |-> 3, takeProfit |-> 20, minMove |-> 1, minObserved |-> 1,
     maxSpread |-> 1, maxChase |-> 1]

SampleHistories ==
    {Series(f) : f \in [1..5 -> FewSamples]} \cup {Series(f) : f \in [1..4 -> Samples]}
        \cup {Tangled, Rejected}
UsualConfigs == {TestConfig}
SampleConfigs == {TestConfig, [TestConfig EXCEPT !.usage = 0]}
=============================================================================
