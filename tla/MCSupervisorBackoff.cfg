CONSTANTS
    Service = {"a", "b"}
    Registry <- MCRegistry
    Deps <- MCDeps
    Settings <- MCSettings
    MaxRestarts = 1
    Record = {r1, r2}
    QueueCapacity = 4
    NULL = NULL
    SpawnMayFail = FALSE
    Deadlines = FALSE
    MaxStrays = 0
    Calls = {"start", "stop", "tick", "drain"}
SPECIFICATION Spec
PROPERTIES
    ExplicitStopHolds
