SPECIFICATION FairSpec
CONSTANTS
  Instances = {i1, i2}
  Tenants = {t1}
  Keys = {k1}
  Limits = {1}
  Null = Null
  Absent = Absent
  Bodies <- OnOrLimited
  Checks = {c1}
  Puts = {w1}
  ConfiguredTtl = 1
  DefaultTtl = 3
  ConfiguredCap = 1
  DefaultCap = 1
  ReadLag = 1
PROPERTIES
  WhyOldFlagsOutliveAPut
  StaleEntryGoes
  AbsentKeepsUncontendedLimit
  RemovedTenantFreezes
  FlagsTakeHold
