SPECIFICATION UntornSpec
CONSTANTS
  QueueMode = "one_at_a_time"
  MaxTurns = 2
  FreshCallIds = TRUE
  MaxBatch = 1
  MaxIssued = 1
  MaxSubmitted = 2
  MaxMessages = 1
  MaxLog = 5
  MaxBranch = 6
CHECK_DEADLOCK FALSE
INVARIANTS IdleIsDurable IdleIsExact
PROPERTIES SummaryCoversBranch
