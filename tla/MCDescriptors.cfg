CONSTANTS
    MaxPair = 2
    MaxChild = 1
    MaxSettings = 2
    MaxFd = 4
    Targets = {0, 1, 2}
    Option = {"memory", "cpu", "nofile", "cwd", "own_ids", "credentials"}
    Requested = 2
    Environments <- MCEnvironments
    None = None
SPECIFICATION Spec
INVARIANTS
    SetUpHonest
    DescriptorsOwned
PROPERTIES
    RedirectionsExact
    EndOfFileArrives
CHECK_DEADLOCK FALSE
