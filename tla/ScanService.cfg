SPECIFICATION Spec
CONSTANTS
  Free = {u1}
  Paid = {p1}
  Guests = {g1}
  Admin = admin
  Requests = {r1, r2}
  Jobs = {j1}
  Readers = {x1}
  Limit = 1
  GuestLimit = 1
  MaxDay = 2
  MaxCharges = 2
  MaxTime = 3
  None = None
SYMMETRY Symmetry
INVARIANTS
  QuotaSound
  ReadsArePublished
