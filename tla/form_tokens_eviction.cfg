SPECIFICATION Spec
CONSTANTS
  front = front
  back = back
  Procs = {front}
  Skew <- Together
  Tokens = {t1, t2, t3}
  Widgets = {w}
  NoWidget = NoWidget
  Slots = {s1}
  Settings <- Cloned
  Second = 1
  MinTime = 1
  PruneInterval = 4
  MaxEntries = 2
  Horizon = 4
  MaxRestarts = 0
CHECK_DEADLOCK FALSE
PROPERTIES
  DroppedExpiresFirst
