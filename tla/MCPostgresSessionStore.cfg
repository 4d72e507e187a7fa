SPECIFICATION Spec
CONSTANTS
    Sessions = {s1}
    Callers = {c1, c2}
    Turns = {t1}
    MaxVersion = 3
    Absent = Absent
    None = None
INVARIANT CommitSeesItsRow
PROPERTY ImplementsContract
PROPERTY PutsEnd
CHECK_DEADLOCK FALSE
