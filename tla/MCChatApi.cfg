SPECIFICATION Spec
CONSTANTS
    Sessions = {s1}
    Requests = {r1, r2, r3}
    MaxVersion = 6
    Absent = Absent
    None = None
SYMMETRY RequestSymmetry
INVARIANT AnsweredIsPersisted
INVARIANT RefusedIsNotPersisted
CHECK_DEADLOCK FALSE
