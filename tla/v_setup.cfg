SPECIFICATION Spec
CONSTANTS
    DataDisks <- SevenDisks
    LateOps = {}
    MaxVms = 2
    MaxAborts = 1
INVARIANT RerunFindsNoSetup
CHECK_DEADLOCK FALSE
