---------------------------- MODULE LiveEntryMC -----------------------------
(* LiveEntry with amounts in millions of Rial, as _bot_config() has them,  *)
(* and all settings of the server.                                         *)
EXTENDS LiveEntry, TLC

AllSettings == SettingsType

BotConfig == [usage |-> 9000, position |-> 9000, exposure |-> 9000,
              feeBuffer |-> 25, minNotional |-> 10, maxNotional |-> 15]
=============================================================================
