CONSTANTS
    Service = {"a", "b"}
    Registry <- MCRegistry
    Deps <- MCDeps
    Settings <- MCSettings
    MaxRestarts = 1
    Record = {r1, r2}
    QueueCapacity = 3
    NULL = NULL
    SpawnMayFail = TRUE
    Deadlines = TRUE
    MaxStrays = 1
    Calls = {"start", "stop", "kill", "reap", "tick", "drain", "start_all", "stop_all", "supervise", "unregister", "register"}
SPECIFICATION Spec
SYMMETRY Symmetry
INVARIANTS
    OneProcessEach
    StopsDependentsFirst
PROPERTIES
    StopAllLeavesNoneRunning
