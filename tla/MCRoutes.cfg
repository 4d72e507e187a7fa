SPECIFICATION RouteSpec
CONSTANTS
    Requests = {r1, r2}
    Towns <- MCTowns
    Files <- MCFiles
    Trips <- MCTrips
    Targets = {1000}
    Lengths <- MCLengths
    SeededRoutes <- MCSeededRoutes
    MaxExpiries = 1
    None = None
INVARIANT AnswersAreWhole
INVARIANT PlansAreBestSplits
INVARIANT TracksJoinUp
INVARIANT SuggestedPlansShip
PROPERTY RequestsEnd
CHECK_DEADLOCK FALSE
