CONSTANTS
    MaxPid = 4
    MaxGid = 2
    ProcessCapacity = 3
    GroupCapacity = 2
    MemberCapacity = 3
    QueueCapacity = 3
    Host = {h1, h2, h3}
    None = None
    Status = {ok}
    Caps = {}
    MaxStrays = 0
    JobControl = TRUE
    EarlyStop = TRUE
    DeadParents = FALSE
SPECIFICATION Spec
SYMMETRY Symmetry
INVARIANTS
    TypeOK
    SchedulerTracksLive
    HostsTracked
    GroupsConsistent
    GroupSignalExact
    ParentsAlive
    SchedulerHasRoom
PROPERTIES
    DrainedRunLeavesNothing
