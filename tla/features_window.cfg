SPECIFICATION Spec
CONSTANTS
  Instances = {i1, i2}
  Tenants = {t1}
  Keys = {k1}
  Limits = {}
  Null = Null
  Absent = Absent
  Bodies <- SwitchOff
  Checks = {c1, c2}
  Puts = {w1}
  ConfiguredTtl = 3
  DefaultTtl = 3
  ConfiguredCap = 0
  DefaultCap = 1
  ReadLag = 2
SYMMETRY Symmetry
INVARIANTS
  TypeOK
PROPERTIES
  ServedWithinWindow
  ImplementsFlagWindow
