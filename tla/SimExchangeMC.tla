--------------------------- MODULE SimExchangeMC ---------------------------
(* SimExchange with two symbols, prices at which a limit order rests, is   *)
(* executed at its limit or better, and a deposit that two buys exhaust.   *)
EXTENDS SimExchange, TLC

CONSTANTS btc, eth, usdt

TestDeposit == btc :> 1 @@ eth :> 0 @@ usdt :> 90

TestMids == {30, 40}
TestLimits == {30, 40, 50}
TestQuantities == {1, 2}
=============================================================================
