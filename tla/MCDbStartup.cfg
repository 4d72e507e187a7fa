SPECIFICATION StartupSpec
CONSTANTS
    Instances = {i1, i2, i3}
    Tables = {"sessions", "user_profiles"}
    SessionsTable = "sessions"
INVARIANT SuccessMeansSchema
INVARIANT RacesConverge
CHECK_DEADLOCK FALSE
