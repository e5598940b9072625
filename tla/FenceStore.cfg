CONSTANTS
    Procs = {"api", "engine"}
    Api = "api"
    LastVersion = 2
    MaxCrashes = 1
    Requests = {r1, r2}
    FenceBodies <- MCFences
    TenantRows = {"t1"}
    Vehicles = {"v"}
    Places = {1, 2, 5}
    MaxFences = 3
    MaxReports = 3
    SpeedLimitKmh = 100
    SpeedForSecs = 0
    SpeedContinuedEvery = 60
    IdleForSecs = 0
    TripEndSecs = 300
SPECIFICATION Spec
SYMMETRY RequestSymmetry
INVARIANTS
    SchemaTruthful
    PgMeansSchema
    CreatedIsWatched
    CreatedIsStored
    FenceEventsBracketed
CHECK_DEADLOCK FALSE
