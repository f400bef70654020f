CONSTANTS
  Keys = {k1, k2}
  Checkers = {c1, c2}
  Channels = {smtp}
  NoKey = NoKey
  DigestUsed = TRUE
  MaxWaiting = 2
  MaxCycle = 1
SPECIFICATION Spec
SYMMETRY Symmetry
INVARIANTS
  TypeOK
  OncePerChecker
  GuardIsEarned
