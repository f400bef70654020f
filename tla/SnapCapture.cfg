SPECIFICATION Spec
SYMMETRY Symmetry
CONSTANTS
  w1 = w1
  w2 = w2
  mail1 = mail1
  mail2 = mail2
  anti = anti
  other = other
  f1 = f1
  f2 = f2
  Workers = {w1, w2}
  Emails = {mail1, mail2}
  Providers = {anti, other}
  Antigravity = anti
  Detected <- MCDetected
  Fields = {f1, f2}
  MaxJobs = 2
  MaxId = 7
  MaxFails = 1
INVARIANTS
  TypeOK
  NoOrphans
  OneAutoSub
  CapturedInBoth
  StatusShowsNewest
  EditsStick
CHECK_DEADLOCK FALSE
