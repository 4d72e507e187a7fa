SPECIFICATION Spec
CONSTANTS
    Sessions = {s1}
    Callers = {c1, c2}
    Turns = {t1, t2}
    MaxVersion = 3
    Absent = Absent
    None = None
INVARIANT TypeOK
INVARIANT AckedTurnsKept
INVARIANT VersionsTellStaleness
PROPERTY ImplementsContract
CHECK_DEADLOCK FALSE
