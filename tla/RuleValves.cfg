CONSTANTS
    SpeedLimitKmh = 100
    SpeedForSecs = 10
    SpeedContinuedEvery = 60
    IdleForSecs = 300
    TripEndSecs = 300
    Callers = {c1, c2}
    Specs <- ValveSpecs
    Vehicles = {"v"}
    Batches <- MCBatches
    Instants = {0, 40, 70, 3650}
    MaxCalls = 3
    MaxRetries = 1
SPECIFICATION FairSpec
INVARIANTS
    CooldownRespected
    HourlyCapRespected
    EveryFiringRecordedOnce
PROPERTIES
    EvaluateGetsItsTurn
CHECK_DEADLOCK FALSE
