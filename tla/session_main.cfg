SPECIFICATION FairSpec
CONSTANTS
  QueueMode = "one_at_a_time"
  MaxTurns = 1
  FreshCallIds = TRUE
  MaxBatch = 1
  MaxIssued = 2
  MaxSubmitted = 2
  MaxMessages = 0
  MaxLog = 5
  MaxBranch = 6
CHECK_DEADLOCK FALSE
INVARIANTS LeafIsLive DurableIsLive
PROPERTIES  PromptSettles
