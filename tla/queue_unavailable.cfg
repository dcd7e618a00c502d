SPECIFICATION Spec
CONSTANTS
  Samples = {s1}
  Existing = {s1}
  Tenants = {t1}
  TenantOf <- OneTenant
  Absent = Absent
  Asks <- Schedules
  Requests = {r1}
  Jobs = {j1}
  Workers = {w1}
  Nobody = Nobody
  Attempts = 3
  MaxStalls = 1
SYMMETRY SlotSymmetry
INVARIANT UnavailableMeansNotQueued
CHECK_DEADLOCK FALSE
