SPECIFICATION ToolSpec
CONSTANTS
  QueueMode = "one_at_a_time"
  MaxTurns = 9
  FreshCallIds = FALSE
  MaxBatch = 1
  MaxIssued = 2
  MaxSubmitted = 2
  MaxMessages = 4
CHECK_DEADLOCK FALSE
INVARIANT ToolCallsAnswered
