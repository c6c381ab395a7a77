SPECIFICATION CopilotSpec
CONSTANTS
  MaxCalls = 6
  MaxAsks = 2
INVARIANTS AnswersInOrder PendingExact
PROPERTY AnsweredWhileWorkerRuns
CHECK_DEADLOCK FALSE
