SPECIFICATION SpecWithoutFaults
CONSTANTS
  Instances = {i1}
  Tenants = {t1}
  Keys = {k1}
  Limits = {}
  Null = Null
  Absent = Absent
  Bodies <- Switches
  Checks = {c1}
  Puts = {w1}
  ConfiguredTtl = 2
  DefaultTtl = 3
  ConfiguredCap = 1
  DefaultCap = 1
  ReadLag = 1
INVARIANT PutIsSeenByItsProcess
