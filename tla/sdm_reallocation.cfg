SPECIFICATION Spec
CONSTANTS
    Workers <- OneWorker
    NeighCells = 1
    SizeCells = 1
    RowCells = 2
    MaxGen = 2
    TestMode = TRUE
    Zeroing = {FALSE}
    AllocatorLengths <- JustEnough
    WorkerLengths <- JustEnough
    SpinBuilds = {"reload"}
    Regime = "workers_after"
    ColdHosts <- OneWorker
INVARIANT SynchUnsetWhileWriting
CHECK_DEADLOCK FALSE
