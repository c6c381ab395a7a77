SPECIFICATION CopilotSpec
CONSTANTS
  MaxCalls = 4
  MaxAsks = 1
PROPERTY EveryQuestionAnswered
CHECK_DEADLOCK FALSE
