SPECIFICATION Spec
CONSTANTS
    c1 = c1
    c2 = c2
    c3 = c3
    j1 = j1
    j2 = j2
    w1 = w1
    NoWorker = NoWorker
    GoneWorker = GoneWorker
    Jobs = {j1, j2}
    Clash <- NoClash
    Runs = {c1, c2, c3}
    Workers = {w1}
    Clients = {}
    Concurrency = 2
    Outcomes = {"SUCCEEDED"}
    RetryDuring = {"loop"}
    CrashDuring <- AnyPoint
    ReleaseMayFail = FALSE
    MaxFaults = 0
    MaxErrors = 0
    MaxOutages = 0
    NStages = 2
    StageCreate = 1
    StagePrepare = 0
    StagePowerOn = 0
    StageCleanup = 0
INVARIANT TasksWithinConcurrency
CHECK_DEADLOCK FALSE
