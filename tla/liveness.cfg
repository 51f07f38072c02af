SPECIFICATION FairSpec
CONSTANTS
    c1 = c1
    c2 = c2
    j1 = j1
    w1 = w1
    w2 = w2
    NoWorker = NoWorker
    GoneWorker = GoneWorker
    Jobs = {j1}
    Clash <- NoClash
    Runs = {c1, c2}
    Workers = {w1, w2}
    Clients = {}
    Concurrency = 1
    Outcomes = {"SUCCEEDED"}
    RetryDuring = {}
    CrashDuring <- AnyPoint
    ReleaseMayFail = TRUE
    MaxFaults = 1
    MaxErrors = 1
    MaxOutages = 0
    NStages = 2
    StageCreate = 0
    StagePrepare = 1
    StagePowerOn = 0
    StageCleanup = 2
PROPERTY RunningEnds
PROPERTY CancelHandoverEnds
CHECK_DEADLOCK FALSE
