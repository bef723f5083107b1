SPECIFICATION Spec
CONSTANTS
  Callers = {m1, g1}
  Managers = {m1}
  Txs = {x1}
  Terms = {1}
  TrialDays = 1
  Limit = 1
  TicksPerDay = 1
  MaxTime = 2
  MaxCredits = 2
  MaxGrants = 2
  Absent = Absent
  None = None
CONSTRAINT FileIntact
INVARIANTS
  PaymentUsedOnce
  PaidPlanKept
PROPERTIES
  TrialOnce
