SPECIFICATION MCSpec
CONSTANTS
  Complete <- Cited
  Long = {"r"}
  Calls <- CallsOfTheModel
  Others <- Saved
  Absent = Absent
  None = None
  Malformed = Malformed
  MaxOthers = 1
  MaxLooks = 1
  Files = {1, 2}
  Nested = {2}
  FileTexts = {"a", "b"}
  MaxOps = 3
  MaxPatchEdits = 2
  Requests = {1}
  Retries = 1
  RetryTimeouts = TRUE
  MaxCheckpoints = 1
  MaxBatchCalls = 2
  MaxBatches = 3
  MaxRequests = 2
  Document = TRUE
  Names = {"document_edit", "task_plan", "u1"}
  Registered = {"document_edit", "task_plan"}
  Editors = {"document_edit"}
  Planners = {"task_plan"}
  Args = {1}
  Causes = {1, 2}
  Limit = 2
  MaxCodes = 2
  MaxInvocations = 1
  MaxRepeated = 2
  MaxToolCalls = 4
  Docs <- DocsOfTheProject
  MaxLines = 2
  Offsets = {0, 1}
  MaxReadEdits = 1
  Threads = {1, 2}
  Contents = {"a", "bin"}
  NotText = {"bin"}
  Settle = 2
  Slow = FALSE
  MaxTime = 3
  MaxDigestCalls = 2
CHECK_DEADLOCK FALSE
INVARIANTS
  TypesOK
  PatchWhole
  CheckpointPrompt
  FailuresCounted
  ReadsCovered
  CacheCurrent
PROPERTIES
  DocumentKept
  CompletionsKept
