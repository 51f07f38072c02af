SPECIFICATION Spec
CONSTANTS
    c1 = c1
    c2 = c2
    j1 = j1
    w1 = w1
    w2 = w2
    NoWorker = NoWorker
    GoneWorker = GoneWorker
    Jobs = {j1}
    Clash <- NoClash
    Runs = {c1, c2}
    Workers = {w1, w2}
    Clients = {}
    Concurrency = 1
    Outcomes = {"SUCCEEDED", "WARNING"}
    RetryDuring = {}
    CrashDuring <- AnyPoint
    ReleaseMayFail = FALSE
    MaxFaults = 2
    MaxErrors = 0
    MaxOutages = 0
    NStages = 5
    StageCreate = 1
    StagePrepare = 2
    StagePowerOn = 3
    StageCleanup = 4
SYMMETRY Symmetry
INVARIANT PowerOnHasMedia
CHECK_DEADLOCK FALSE
