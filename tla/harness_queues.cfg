SPECIFICATION FairSpec
CONSTANTS
  QueueMode = "one_at_a_time"
  MaxTurns = 2
  FreshCallIds = TRUE
  MaxBatch = 1
  MaxIssued = 1
  MaxSubmitted = 3
  MaxMessages = 2
CHECK_DEADLOCK FALSE
INVARIANTS TypeOK QueueOrderKept
PROPERTIES  RunEnds
