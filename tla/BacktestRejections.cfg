SPECIFICATION TestSpec
CONSTANTS
  Histories <- RejectedHistories
  Configs <- UsualConfigs
  Days = {0}
  DefaultDays = 7
  MaxDays = 30
  Delays = {0}
INVARIANTS
  RejectionsAreCounted
CHECK_DEADLOCK FALSE
