SPECIFICATION Spec
CONSTANTS
    Responses <- MCConformingResponses
    MaxIterations = 2
    MaxTurns = 2
INVARIANT SavedIsReplayable
CHECK_DEADLOCK FALSE
