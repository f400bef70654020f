CONSTANTS
  Accounts = {a1}
  Models = {m1}
  Snappers = {t1, t2}
  Timed <- AllKeys
  Untimed <- NoKeys
  Nobody = Nobody
  NoKey = NoKey
  NoCycle = NoCycle
  NoReading = NoReading
  NoValue = NoValue
  MaxUse = 2
  Jump = 1
  MaxWindow = 1
  MaxSnaps = 3
  MaxEdits = 0
SPECIFICATION Spec
INVARIANT NoPhantomCycle
CHECK_DEADLOCK FALSE
