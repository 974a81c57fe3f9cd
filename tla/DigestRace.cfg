SPECIFICATION Spec
CONSTANTS
  Threads = {1, 2}
  Contents = {"a", "bin"}
  NotText = {"bin"}
  Settle = 2
  Slow = FALSE
  MaxTime = 3
  MaxCalls = 3
INVARIANTS
  TextWithItsDigest
CHECK_DEADLOCK FALSE
