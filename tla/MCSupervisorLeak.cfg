CONSTANTS
    Service = {"a", "b"}
    Registry <- MCRegistry
    Deps <- MCDeps
    Settings <- MCSettings
    MaxRestarts = 1
    Record = {r1, r2}
    QueueCapacity = 3
    NULL = NULL
    SpawnMayFail = FALSE
    Deadlines = TRUE
    MaxStrays = 0
    Calls = {"supervise"}
SPECIFICATION FairSpec
PROPERTIES
    AlwaysRecovers
