CONSTANTS
    SpeedLimitKmh = 100
    SpeedForSecs = 10
    SpeedContinuedEvery = 60
    IdleForSecs = 300
    TripEndSecs = 300
    Keys <- MCKeys
    Vehicles = {"v"}
    Points <- MCPoints
    Instants = {1500}
    IdOrder <- MCIdOrder
SPECIFICATION Spec
INVARIANTS
    TypeOK
    LatestWins
    TransitionsBracketed
    EventIdsDistinct
    RebuildAgreesInOrder
    ReplayReproduces
PROPERTIES
    SpeedingIsSustained
    WatermarkMonotone
CHECK_DEADLOCK FALSE
