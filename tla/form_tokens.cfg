SPECIFICATION Spec
CONSTANTS
  front = front
  back = back
  Procs = {front, back}
  Skew <- Drift
  Tokens = {t1, t2}
  Widgets = {w}
  NoWidget = NoWidget
  Slots = {s1, s2}
  Settings <- Deployments
  Second = 3
  MinTime = 1
  PruneInterval = 2
  MaxEntries = 1
  Horizon = 3
  MaxRestarts = 1
CHECK_DEADLOCK FALSE
SYMMETRY Symmetry
INVARIANTS
  TypeOK
PROPERTIES
  ImplementsSingleUse
  UsedMeansLetThrough
  OnceWithoutSharedSecret
  PatientAreNotDiscarded
  ExpiredMeansOld
