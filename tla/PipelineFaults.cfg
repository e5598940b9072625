CONSTANTS
    Keys = {"k1"}
    Vehicles = {"v"}
    Points <- FaultPoints
    Instants = {1000, 87400}
    Workers = {w1, w2}
    ApiWorkers = {w1}
    Sweeper = TRUE
    Fences <- NoFences
    Rules = {}
    TTL = 86400
    RedisFaults = TRUE
    BusFaults = TRUE
    PGFaults = TRUE
    MaxDeliveries = 1
    MaxCrashes = 1
    MaxSweepFaults = 1
    MaxOffline = 4
    SpeedLimitKmh = 100
    SpeedForSecs = 0
    SpeedContinuedEvery = 60
    IdleForSecs = 0
    TripEndSecs = 300
    MaxFutureSkew = 600
SPECIFICATION FairSpec
INVARIANTS
    AtMostOncePerWindow
    OfflineImpliesSilence
PROPERTIES
    SilenceIsNoticed
CHECK_DEADLOCK FALSE
