SPECIFICATION Spec
CONSTANTS
    Clients = {c1, c2, c3}
    Experiences = {"beginner", "casual", "racer"}
    Preferences = {p1, p2}
    Absent = Absent
INVARIANT TypeOK
INVARIANT ComfortMatchesExperience
INVARIANT LoneUpsertsSucceed
CHECK_DEADLOCK FALSE
