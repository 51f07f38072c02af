SPECIFICATION FairSpec
CONSTANTS
    MaxAborts = 3
INVARIANTS
    CompletedAppliesName
CHECK_DEADLOCK FALSE
