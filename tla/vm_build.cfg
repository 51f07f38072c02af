SPECIFICATION Spec
CONSTANTS
    DataDisks <- SevenDisks
    LateOps = {"create", "boot", "detach", "disks"}
    MaxVms = 2
    MaxAborts = 3
INVARIANTS
    TypeOK
    ForeignNotReconfigured
    OneAdapter
    DisksMatchRequest
    RestartedFromDisk
CHECK_DEADLOCK FALSE
