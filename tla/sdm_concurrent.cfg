SPECIFICATION FairSpec
CONSTANTS
    Workers <- TwoWorkers
    NeighCells = 1
    SizeCells = 1
    RowCells = 2
    MaxGen = 2
    TestMode = TRUE
    Zeroing = {TRUE, FALSE}
    AllocatorLengths <- OneShort
    WorkerLengths <- OneShort
    SpinBuilds = {"reload", "hoisted"}
    Regime = "one_publication"
    ColdHosts <- TwoWorkers
INVARIANT WorkersWait
PROPERTIES PublishesAtomically WaitingWorkerServed
CHECK_DEADLOCK FALSE
