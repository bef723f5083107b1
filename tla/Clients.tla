------------------------------- MODULE Clients -------------------------------
(***************************************************************************)
(* The adapters around the bot: the HTTP base client with the loops that   *)
(* page through its answers, the CCXT exchange client, and the stored      *)
(* configuration.  They share no state, so a behaviour of this module      *)
(* moves one of them, chosen at its start; the others stay as they began.  *)
(***************************************************************************)
EXTENDS ApiClient, CcxtClient, ConfigStore, Component

clientsVars == <<clientVars, ccxtVars, configVars>>

\* A configuration that does not move began without a file.
ClientsInit ==
    /\ component \in Components
    /\ ClientInit /\ CcxtInit /\ ConfigInit
    /\ component # "config" => disk.file = Missing

ClientsNext ==
    /\ UNCHANGED component
    /\ \/ component = "api" /\ ClientNext /\ UNCHANGED <<ccxtVars, configVars>>
       \/ component = "ccxt" /\ CcxtNext /\ UNCHANGED <<clientVars, configVars>>
       \/ component = "config" /\ ConfigNext /\ UNCHANGED <<clientVars, ccxtVars>>

\* The fairness of ApiClient's ClientFairSpec, where that client moves.
ClientsFairness ==
    \A t \in Threads :
       /\ WF_clientVars(component = "api" /\ Answer(t))
       /\ WF_clientVars(component = "api" /\ Wake(t))

-----------------------------------------------------------------------------
(* What the components promise together; the rest is in their modules.      *)

(* A listing of whole pages is the beginning of the market, and a chunk of  *)
(* quotes that failed costs no other coins (the two loops over _request).   *)
AnswersAreComplete == WholePagesAreExact /\ QuotesOfAnsweredChunks

(* A placement leaves no more orders than it had attempts, each on a market *)
(* of the pair its caller meant (CcxtClient.place_order).                   *)
OrdersAreMeant == OrdersPerPlacement /\ OrdersOnTheMeantMarket

(* Settings survive a save that was cut short, and so do the credentials,   *)
(* with the key they need (save_config and load_config).                    *)
RestartFindsOldOrNew == SettingsAreOldOrNew /\ SecretIsOldOrNew
=============================================================================
