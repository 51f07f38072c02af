SPECIFICATION Spec
CONSTANTS
    c1 = c1
    c2 = c2
    j1 = j1
    r1 = r1
    w1 = w1
    w2 = w2
    NoWorker = NoWorker
    GoneWorker = GoneWorker
    Jobs = {j1}
    Clash <- NoClash
    Runs = {c1, c2}
    Workers = {w1, w2}
    Clients = {r1}
    Concurrency = 1
    Outcomes = {"SUCCEEDED"}
    RetryDuring = {}
    CrashDuring <- AnyPoint
    ReleaseMayFail = FALSE
    MaxFaults = 1
    MaxErrors = 0
    MaxOutages = 1
    NStages = 1
    StageCreate = 1
    StagePrepare = 0
    StagePowerOn = 0
    StageCleanup = 0
SYMMETRY Symmetry
INVARIANT TypeOK
INVARIANT HeldJobsAreExecuted
CHECK_DEADLOCK FALSE
