SPECIFICATION FairSpec
CONSTANTS
  Threads = {t1, t2}
  Configs <- AllConfigs
INVARIANTS
  ExecutionIsAuthorised
  RejectedIsNotPlaced
  StopAdmitsNoNewOrder
PROPERTIES
  StoppedBotQuiesces
