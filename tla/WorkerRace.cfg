CONSTANTS
    Keys = {"k1", "k2"}
    Vehicles = {"v"}
    Points <- ClosePoints
    Instants = {1000}
    Workers = {w1, w2}
    ApiWorkers = {w1, w2}
    Sweeper = FALSE
    Fences <- NoFences
    Rules = {}
    TTL = 86400
    RedisFaults = FALSE
    BusFaults = FALSE
    PGFaults = FALSE
    MaxDeliveries = 2
    MaxCrashes = 0
    MaxSweepFaults = 0
    MaxOffline = 4
    SpeedLimitKmh = 100
    SpeedForSecs = 0
    SpeedContinuedEvery = 60
    IdleForSecs = 0
    TripEndSecs = 300
    MaxFutureSkew = 3600
SPECIFICATION FairSpec
PROPERTIES
    WatermarkMonotone
CHECK_DEADLOCK FALSE
