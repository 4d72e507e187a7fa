SPECIFICATION Spec
CONSTANTS
    Responses <- MCResponses
    MaxIterations = 3
    MaxTurns = 2
INVARIANT ToolCallsAnswered
INVARIANT GuardrailEnforced
INVARIANT TraceIsReceipt
INVARIANT QuestionsHaveAnswers
PROPERTY HistoryGrows
CHECK_DEADLOCK FALSE
