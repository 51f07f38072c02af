SPECIFICATION FairSpec
CONSTANTS
    c1 = c1
    c2 = c2
    j1 = j1
    j2 = j2
    w1 = w1
    NoWorker = NoWorker
    GoneWorker = GoneWorker
    Jobs = {j1, j2}
    Clash <- NoClash
    Runs = {c1, c2}
    Workers = {w1}
    Clients = {}
    Concurrency = 1
    Outcomes = {"SUCCEEDED"}
    RetryDuring = {}
    CrashDuring <- AnyPoint
    ReleaseMayFail = FALSE
    MaxFaults = 0
    MaxErrors = 0
    MaxOutages = 0
    NStages = 1
    StageCreate = 1
    StagePrepare = 0
    StagePowerOn = 0
    StageCleanup = 0
PROPERTY QueuedIsClaimed
CHECK_DEADLOCK FALSE
