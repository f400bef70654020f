CONSTANTS
  Machines = {h}
  Mails = {"x"}
  Kinds = {"antigravity", "codex", "cursor"}
  WrittenFiles = {}
  Offset = 4
  MaxSecond = 1
  MaxRows = 1
INIT ImportNew
NEXT ImportNext
INVARIANTS OwnExportImports
CHECK_DEADLOCK FALSE
