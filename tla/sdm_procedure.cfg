SPECIFICATION Spec
CONSTANTS
    Workers <- TwoWorkers
    NeighCells = 1
    SizeCells = 1
    RowCells = 2
    MaxGen = 2
    TestMode = FALSE
    Zeroing = {TRUE, FALSE}
    AllocatorLengths <- OneShort
    WorkerLengths <- OneShort
    SpinBuilds = {"reload", "removed"}
    Regime = "workers_after"
    ColdHosts <- OneWorker
INVARIANTS TypeOK NoTornGraph DoneMeansFlushed
CHECK_DEADLOCK FALSE
