SPECIFICATION RouteSpec
CONSTANTS
    Requests = {r1, r2}
    Towns <- MCTowns
    Files <- MCFiles
    Trips <- MCTrips
    Targets = {1000}
    Lengths <- MCLengths
    SeededRoutes <- MCSeededRoutes
    MaxExpiries = 1
    None = None
INVARIANT FerriesStayPut
CHECK_DEADLOCK FALSE
