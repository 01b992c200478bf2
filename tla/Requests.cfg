SPECIFICATION RequestsSpec
CONSTANTS
    Slot = {"s", "t"}
    Role = {"admin", "light"}
    CanCreate = {}
    DefaultRole = "light"
    MaxRequests = 3
    MaxIds = 3
    Kinds = {"login"}
    Serial = FALSE
    Faults = {}
    nothing = nothing
    e1 = e1
    e2 = e2
    n1 = n1
    n2 = n2
    g1 = g1
    disabled = disabled
INVARIANTS  WopiTrue SchoolsTrue
PROPERTY GroupsTrue
CHECK_DEADLOCK FALSE
