SPECIFICATION Spec
CONSTANTS
    Sessions = {s1, s2, s3}
    None = None
    MaxTurns = 2
INVARIANT LeftForGood
INVARIANT AskedAtMostOnce
INVARIANT ThreadIsOrdered
INVARIANT TraceIsCurrent
PROPERTY TurnsSettle
CHECK_DEADLOCK FALSE
