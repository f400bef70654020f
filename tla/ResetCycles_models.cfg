CONSTANTS
  Accounts = {a1}
  Models = {m1, m2}
  Snappers = {t1}
  Timed <- NoKeys
  Untimed <- NoKeys
  Nobody = Nobody
  NoKey = NoKey
  NoCycle = NoCycle
  NoReading = NoReading
  NoValue = NoValue
  MaxUse = 2
  Jump = 1
  MaxWindow = 1
  MaxSnaps = 2
  MaxEdits = 0
SPECIFICATION Spec
CHECK_DEADLOCK FALSE
INVARIANT CycleAccounts
PROPERTY ResetsAreReal
