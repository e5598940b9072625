CONSTANTS
    Adapters = {"a"}
    StaleAfter = 1
    MaxAttempts = 2
    MaxInFlight = 2
SPECIFICATION FairSpec
INVARIANTS
    HealthyMeansRunning
PROPERTIES
    CrashIsNoticed
    HealthIsShown
    AdapterRecovers
