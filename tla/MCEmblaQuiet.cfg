CONSTANTS
    MaxPid = 3
    MaxGid = 3
    ProcessCapacity = 3
    GroupCapacity = 2
    MemberCapacity = 2
    QueueCapacity = 3
    Host = {h1, h2, h3}
    None = None
    Status = {zero, killed}
    Caps = {1}
    MaxStrays = 1
    JobControl = FALSE
    EarlyStop = FALSE
    DeadParents = TRUE
SPECIFICATION FairSpec
INVARIANTS
    RunNeverFails
PROPERTIES
    ExitsRecorded
    RunReturns
