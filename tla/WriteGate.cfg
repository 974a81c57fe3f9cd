SPECIFICATION FairSpec
CONSTANTS
  Runs = {r1, r2}
  Readers = {r2}
  Threads = {t1, t2}
  Gates = {file}
  Calls <- MCCalls
  None = None
CHECK_DEADLOCK FALSE
INVARIANTS
  TypeOK
  NoWriteAfterDoubt
  OrphanWriterQuarantined
  TruthfulReport
PROPERTIES
  ImplementsQuarantine
  CallsEnd
