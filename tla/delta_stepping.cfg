SPECIFICATION FairSpec
CONSTANTS
    N = 7
    Threads = {t1, t2, t3}
    BinSizeThreshold = 2
    DistInf = 1000
    MaxBin = 1000
    Inputs <- SmallInputs
INVARIANTS TypeOK DistancesExact PriorityOrder FrontierFits
PROPERTIES Termination
