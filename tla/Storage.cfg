SPECIFICATION StorageSpec
CONSTANTS
    Process = {p1, p2}
    None = None
    Limit = 2
    MaxEvent = 4
    MaxFault = 2
    Folder = d1
    FileA = f1
    FileB = f2
    SpaceRoot = "r"
    Dir = "d"
    File = "f"
    Owner = "owner"
    Member = {"m1", "m2"}
    Group = {"gr"}
    Groups <- MemberGroups
    Bundle = {{"Stat", "AddGrant", "UpdateGrant", "RemoveGrant"}, {"InitiateFileUpload", "Move", "AddGrant"}, {"UpdateGrant", "DenyGrant", "RemoveGrant"}}
    MaxChanges = 3
INVARIANTS
    OutboxSound PlansHold IntentsStand TrashTrue NumbersExact
PROPERTIES UploadsWhole DelegationLimited RequestsEnd MaintenanceEnds
CHECK_DEADLOCK FALSE
