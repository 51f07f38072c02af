SPECIFICATION Spec
CONSTANTS
    DataDisks <- SevenDisks
    LateOps = {}
    MaxVms = 2
    MaxAborts = 1
INVARIANT ForeignUntouched
CHECK_DEADLOCK FALSE
