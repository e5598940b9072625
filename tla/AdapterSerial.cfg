CONSTANTS
    Keys <- ReadKeys
    Vehicles <- ReadVehicles
    Points <- ReadPoints
    Messages <- FleetMessages
    Mapping <- FleetMapping
    Instants = {1700000000, 1700000700}
    Workers = {w1}
    ApiWorkers = {}
    Sweeper = FALSE
    Fences <- NoFences
    Rules = {}
    TTL = 86400
    RedisFaults = FALSE
    BusFaults = TRUE
    PGFaults = FALSE
    MaxDeliveries = 2
    MaxCrashes = 0
    MaxSweepFaults = 0
    MaxOffline = 4
    SpeedLimitKmh = 30
    SpeedForSecs = 0
    SpeedContinuedEvery = 60
    IdleForSecs = 0
    TripEndSecs = 300
    MaxFutureSkew = 600
SPECIFICATION AdapterSpec
INVARIANTS
    RedeliveryFoldedOnce
PROPERTIES
    ImplementsSerial
CHECK_DEADLOCK FALSE
