CONSTANTS
    Service = {"a"}
    Registry <- MCRegistry
    Deps <- MCDeps
    Settings <- MCSettings
    MaxRestarts = 3
    Record = {r1}
    QueueCapacity = 5
    NULL = NULL
    SpawnMayFail = TRUE
    Deadlines = FALSE
    MaxStrays = 0
    Calls = {"start", "stop", "kill", "reap", "tick", "drain"}
    BaseDelay = 2
    MaxDelay = 3
    Threshold = 3
    MaxExponent = 1
    LongBits = 3
    MaxTime = 12
SPECIFICATION TimedSpec
INVARIANTS
    CrashLoopEnds
    RestsForAReason
PROPERTIES
    RestartPolicyKept
    NotedStopHolds
    RestartsSpaced
