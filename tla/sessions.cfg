SPECIFICATION Spec
CONSTANTS
    Tabs = {t1, t2}
    Tokens = {1, 2, 3, 4}
    MaxTickets = 2
    MaxUpdates = 2
    Plans <- MCPlans
    Jobs = {"job", "other"}
    Watched = "job"
SYMMETRY TabSymmetry
INVARIANTS
    ClosedFamiliesStayClosed
    TabsDoNotSignOutEachOther
    TicketOpensOneStream
    QuietViewIsCurrent
CHECK_DEADLOCK FALSE
