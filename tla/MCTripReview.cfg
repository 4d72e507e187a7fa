SPECIFICATION Spec
CONSTANTS
    Turns <- MCTurns
    LodgingCatalog <- MCLodgingCatalog
    PoiCatalog <- MCPoiCatalog
    Climate <- MCClimate
    Segments <- MCSegments
    Sailings <- MCSailings
    Located <- MCLocated
    Nearby <- MCNearby
    GreatCircle <- MCGreatCircle
    Rides <- MCRides
    Wishes <- MCWishes
INVARIANT LiveIsWhole
INVARIANT CataloguedNeverStubbed
INVARIANT EstimatesAreQuestioned
INVARIANT GapsAreReported
INVARIANT BudgetCoversDraft
PROPERTY CallsEnd
CHECK_DEADLOCK FALSE
