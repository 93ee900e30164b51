SPECIFICATION FairSpec
CONSTANTS
    N = 4
    Threads = {t1, t2}
    NeighborRounds = 1
    GraphsIn <- FourNodeGraphs
INVARIANTS TypeOK ComponentsFound
PROPERTIES TreesOnlyMerge Termination
