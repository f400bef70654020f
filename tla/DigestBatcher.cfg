CONSTANTS
  Alerts = {m1, m2, m3, m4, m5}
  Timers = {t1, t2, t3}
  NoTimer = NoTimer
  MaxBatch = 2
SPECIFICATION Spec
INVARIANTS
  TypeOK
  NothingStranded
  BatchBound
PROPERTY KeepsOutboxPromise
