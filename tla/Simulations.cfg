CONSTANTS
    Clients = {"c1"}
    Handlers = {"h1", "h2"}
    Limit = 2
    Window = 2
    Instants = {0, 2, 3, 5, 6}
    MaxPoints = 2
    Generated = {0, 3}
    MaxEvents = 1
    MaxRuns = 2
    MaxRefused = 1
SPECIFICATION FairSpec
CONSTRAINT RunsAtFirstInstant
INVARIANTS
    BurstBounded
    CancelStopsIntake
    DoneMeansAll
PROPERTIES
    EndedIsFinal
    RunsEnd
CHECK_DEADLOCK FALSE
