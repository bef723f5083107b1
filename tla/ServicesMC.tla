----------------------------- MODULE ServicesMC ------------------------------
(***************************************************************************)
(* The engines and the clients in one run: a behaviour moves one of them.  *)
(***************************************************************************)
EXTENDS EnginesMC, ClientsMC

ServicesInit == EnginesInit /\ ClientsInit

ServicesNext ==
    \/ EnginesNext /\ UNCHANGED clientsVars
    \/ ClientsNext /\ UNCHANGED enginesVars

ServicesSpec ==
    /\ ServicesInit /\ [][ServicesNext]_<<component, enginesVars, clientsVars>>
    /\ ClientsFairness
=============================================================================
