SPECIFICATION ToolSpec
CONSTANTS
  QueueMode = "all"
  MaxTurns = 9
  FreshCallIds = TRUE
  MaxBatch = 2
  MaxIssued = 2
  MaxSubmitted = 2
  MaxMessages = 3
CHECK_DEADLOCK FALSE
INVARIANTS ToolCallsAnswered OneResultPerCall
PROPERTIES CancelSettlesCalls ImplementsProtocol
