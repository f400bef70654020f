CONSTANTS
  Keys = {k1}
  Checkers = {c1}
  Channels = {smtp}
  NoKey = NoKey
  DigestUsed = FALSE
  MaxWaiting = 0
  MaxCycle = 1
SPECIFICATION Spec
INVARIANT ResetAllowsNotify
