SPECIFICATION FairSpec
CONSTANTS
  Samples = {s1, s2}
  Existing = {s1}
  Tenants = {t1}
  TenantOf <- OneTenant
  Absent = Absent
  Asks <- EveryKind
  Requests = {r1, r2}
  Jobs = {j1}
  Workers = {w1, w2}
  Nobody = Nobody
  Attempts = 2
  MaxStalls = 1
INVARIANTS
  TypeOK
  CompletedMeansDone
PROPERTIES
  ImplementsDeactivations
  WritesAgainOnlyAfterAFault
  RemovedStaysRemoved
  NewSampleIsLast
  RequestsEnd
  JobsEnd
