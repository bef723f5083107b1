---------------------------- MODULE TradingBotMC ----------------------------
(* TradingBot with two threads and all four configurations.                *)
EXTENDS TradingBot, TLC

AllConfigs == Config

Symmetry == Permutations(Threads)
=============================================================================
