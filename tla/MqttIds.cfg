CONSTANTS
    Keys <- ReadKeys
    Vehicles <- ReadVehicles
    Points <- ReadPoints
    Messages <- MqttMessages
    Mapping <- FleetMapping
    Instants = {1700000000}
    Workers = {w1}
    ApiWorkers = {}
    Sweeper = FALSE
    Fences <- NoFences
    Rules = {}
    TTL = 86400
    RedisFaults = FALSE
    BusFaults = FALSE
    PGFaults = FALSE
    MaxDeliveries = 1
    MaxCrashes = 0
    MaxSweepFaults = 0
    MaxOffline = 4
    SpeedLimitKmh = 30
    SpeedForSecs = 0
    SpeedContinuedEvery = 60
    IdleForSecs = 0
    TripEndSecs = 300
    MaxFutureSkew = 600
SPECIFICATION AdapterSpec
INVARIANTS
    AckedIsDurable
CHECK_DEADLOCK FALSE
