CONSTANTS
    SpeedLimitKmh = 100
    SpeedForSecs = 0
    SpeedContinuedEvery = 60
    IdleForSecs = 300
    TripEndSecs = 300
    MaxFutureSkew = 3600
    Keys = {"k1", "k2", "k3"}
    Vehicles = {"v"}
    Points <- DrivePoints
    Instants = {1000}
    Workers = {w1, w2}
    ApiWorkers = {w1, w2}
    Sweeper = FALSE
    Fences <- DepotFence
    Rules <- DefaultRules
    TTL = 86400
    RedisFaults = FALSE
    BusFaults = TRUE
    PGFaults = FALSE
    MaxDeliveries = 2
    MaxCrashes = 0
    MaxSweepFaults = 0
    MaxOffline = 4
SPECIFICATION Spec
SYMMETRY WorkerSymmetry
INVARIANTS
    TypeOK
    AckedIsDurable
    AckedIsFolded
    NothingStranded
    TransitionsBracketed
CHECK_DEADLOCK FALSE
