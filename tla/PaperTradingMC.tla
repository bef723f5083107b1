--------------------------- MODULE PaperTradingMC ---------------------------
(* PaperTrading with small sets of prices, a hundred times the code's.     *)
(* From one price to the next the loss reaches the stop and the gain, but  *)
(* for a short from the highest one, the activation of the trailing stop;  *)
(* between the first and the third it reaches also the target. The narrow  *)
(* prices go with the stop of 3% and the target of 6%; the wide ones with  *)
(* a stop of 13%, so that one loss exceeds the 10% of the cash an open     *)
(* leaves unused, and with a trailing distance at which a long's first     *)
(* trailing level lies below its stop. One user trades long and the other  *)
(* short.                                                                  *)
EXTENDS PaperTrading, TLC

CONSTANTS u1, u2

LongAndShort == u1 :> {"long"} @@ u2 :> {"short"}
LongOnly == u1 :> {"long"}

NarrowPrices == {9600, 10000, 10300}
WidePrices == {8500, 10000, 11500}
=============================================================================
