SPECIFICATION Spec
CONSTANTS
    Responses <- MCResponses
    MaxIterations = 2
    MaxTurns = 2
INVARIANT ResultsInBlockOrder
INVARIANT DoneTellsTruth
INVARIANT StreamIsWellFormed
INVARIANT TraceCoversMessages
PROPERTY TurnsEnd
CHECK_DEADLOCK FALSE
