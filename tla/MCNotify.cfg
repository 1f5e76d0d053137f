SPECIFICATION Spec
CONSTANTS
    Owner = {o1, o2}
    Client = {c1, c2}
    Path = {p1}
    Text <- MCText
    Raw <- MCRaw
    MaxSocket = 2
    QueueLimit = 1
    MaxCrashes = 1
INVARIANTS
    NamesMatchSockets
    NotificationsFaithful
PROPERTIES
    UnlinksOnlyItsOwn
    CallsReturn
