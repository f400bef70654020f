CONSTANTS
  Agents = {a1, a2}
  Usages = {0, 1}
  IdleTimeout = 1
  Rows = {1, 2}
  MaxCrashes = 1
SPECIFICATION Spec
INVARIANTS
  TypeOK
  OpenIsHeld
  EndCoversSnapshots
PROPERTIES
  EndedIsFinal
  QuietSessionEnds
