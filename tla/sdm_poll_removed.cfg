SPECIFICATION Spec
CONSTANTS
    Workers <- OneWorker
    NeighCells = 1
    SizeCells = 1
    RowCells = 2
    MaxGen = 1
    TestMode = TRUE
    Zeroing = {FALSE}
    AllocatorLengths <- JustEnough
    WorkerLengths <- JustEnough
    SpinBuilds = {"removed"}
    Regime = "one_publication"
    ColdHosts <- OneWorker
INVARIANT WorkersWait
CHECK_DEADLOCK FALSE
