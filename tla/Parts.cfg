CONSTANTS
  a = a
  b = b
  h = h
  t = t
  Programs = {p1, p2}
  Emails = {"x", "-"}
  NoEmail = "-"
  MaxOpens = 3
  Holders = {h1, h2}
  MaxSets = 3
  MaxMishaps = 1
  Raisers = {r1, r2}
  AlertTypes = {"t1", "t2"}
  MaxRaised = 4
  MaxTokens = 4
  MaxMisses = 1
  SnapCalls = {c1, c2}
  IDEs = {i1, i2}
  WithWorkspace = {i1}
  Logins = {a, b}
  SignedOut = none
  MaxChanges = 1
  Machines = {h, t}
  Mails = {"x"}
  Kinds = {"antigravity", "codex", "cursor", "plugin"}
  WrittenFiles <- MCWrittenFiles
  Offset = 4
  MaxSecond = 1
  MaxRows = 1
  Tables = {"cursor", "codex"}
  Hours = {0, 1}
  MaxDay = 4
  MaxShown = 3
  Models = {m1, m2}
  Optional = {m1}
  Full = 2
  MaxReadings = 3
  MaxModels = 3
  SubIds = {s1, s2}
  Zones <- MCZones
  RetentionDays = 90
  RenewalLimit = 1
  MaxEdits = 3
  MaxHours = 2400
  Keys = {k1}
  Limit = 2
  Window = 3
  PerSecond = 2
  MaxNow = 11
  BridgeCalls = {b1, b2}
  MaxSettingsEdits = 1
  MaxBridgeCalls = 3
  MaxBridgeFaults = 1
  MaxLines = 1
  Users = {u1}
  MaxCaptured = 3
  MaxRestores = 1
  MaxDatabases = 3
  MaxTroubles = 2
INIT PartsInit
NEXT PartsNext
CHECK_DEADLOCK FALSE
INVARIANTS
  DatabaseStays
  SecretsHold
  AlertsHold
  SharedFilesHold
  AccountsAreCurrent
  ImportsHold
  ViewsOfActivity
  PredictionsHold
  OverviewHolds
  LimitsHold
