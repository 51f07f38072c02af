SPECIFICATION Spec
CONSTANTS
    c1 = c1
    c2 = c2
    j1 = j1
    j2 = j2
    w1 = w1
    w2 = w2
    NoWorker = NoWorker
    GoneWorker = GoneWorker
    Jobs = {j1, j2}
    Clash <- AllClash
    Runs = {c1, c2}
    Workers = {w1, w2}
    Clients = {}
    Concurrency = 1
    Outcomes = {"SUCCEEDED"}
    RetryDuring = {}
    CrashDuring <- AnyPoint
    ReleaseMayFail = FALSE
    MaxFaults = 1
    MaxErrors = 0
    MaxOutages = 0
    NStages = 2
    StageCreate = 1
    StagePrepare = 0
    StagePowerOn = 0
    StageCleanup = 0
SYMMETRY Symmetry
INVARIANT ExclusiveExecution
INVARIANT UncancelledCompletedIsVerified
PROPERTY CompletedStagesAreKept
PROPERTY ImplementsLifecycle
CHECK_DEADLOCK FALSE
