CONSTANTS
  Accounts = {a1}
  Models = {m1}
  Snappers = {t1, t2}
  Timed <- AllKeys
  Untimed <- NoKeys
  Nobody = Nobody
  NoKey = NoKey
  NoCycle = NoCycle
  NoReading = NoReading
  NoValue = NoValue
  MaxUse = 2
  Jump = 1
  MaxWindow = 2
  MaxSnaps = 3
  MaxEdits = 1
SPECIFICATION Spec
SYMMETRY Symmetry
CHECK_DEADLOCK FALSE
INVARIANTS
  TypeOK
  OneWindowPerCycle
  CycleAccounts
PROPERTY ResetsAreReal
