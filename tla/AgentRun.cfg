SPECIFICATION Spec
CONSTANTS
  Workflows = {"answer", "source_document"}
  ClosingRounds = 2
  CheckpointRequests = 2
  CheckpointFailures = 1
  Outages = 1
  EmptyRetries = 1
  EmptyToClose = 1
  Lengths = 2
  FinalRetries = 1
  StallRounds = 1
  OutcomeRounds = 2
  SubstantiveRounds = 2
  ChurnRounds = 1
CHECK_DEADLOCK FALSE
INVARIANTS
  TypeOK
  HonestEnd
  ClosingBounded
PROPERTIES
  RunEnds
