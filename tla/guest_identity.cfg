SPECIFICATION FairSpec
CONSTANTS
    MaxAborts = 3
INVARIANTS
    TypeOK
    JoinedOnce
    NoRestartAhead
    CompletedIsJoined
PROPERTIES
    RetriesComplete
CHECK_DEADLOCK FALSE
