SPECIFICATION MCSpec
CONSTANTS
  MaxRounds = 3
  MaxEvidence = 1
  MaxAttempts = 3
  Limits = {6, 10}
  Sizes = {2}
  Room = 3
  MaxGroups = 4
  MaxSize = 4
  Texts = {a, b, c, x}
  Unusable = {x}
  MaxPending = 2
  MaxCompleted = 2
  MaxItems = 3
  MaxRevision = 3
  Paths = {p}
  Keys = {1}
  Bodies = {1, 2}
  MaxCount = 2
  MaxBytes = 3
  MaxMemories = 3
  MaxVersion = 1
  MaxGeneration = 3
  Tools = {"audit", "find", "memo", "patch"}
  Required = {"audit"}
  Forbidden = {"patch"}
  Repeats = FALSE
  BatchSelects = 1
  Requests = {"r1", "r2", "r3"}
  Initial = "initial"
  MaxRuns = 2
  Panics = TRUE
  CommandCap = 2
  EventCap = 2
  None = None
CHECK_DEADLOCK FALSE
INVARIANTS
  TypesOK
  FollowUpKeepsTask
  ChoiceKept
PROPERTIES
  HistoryKept
  PlanWhole
  MemoriesKept
  SettingsKept
