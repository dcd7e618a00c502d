SPECIFICATION Spec
CONSTANTS
  Instances = {i1}
  Tenants = {t1, t2, t3, t4}
  Keys = {k1}
  Limits = {}
  Null = Null
  Absent = Absent
  Bodies <- SwitchOff
  Checks = {c1, c2}
  Puts = {}
  ConfiguredTtl = 2
  DefaultTtl = 3
  ConfiguredCap = 3
  DefaultCap = 1
  ReadLag = 1
SYMMETRY Symmetry
INVARIANTS
  CacheWithinCap
PROPERTY EvictsOldestFirst
