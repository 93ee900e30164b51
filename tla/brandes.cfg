SPECIFICATION BCFairSpec
CONSTANTS
    N = 6
    Threads = {t1, t2, t3}
    BufferSize = 1
    GraphsIn <- SmallGraphs
    SourceLists <- TwoSources
    Scale = 12
INVARIANTS BCTypeOK PathsCounted ScoresAreBetweenness
PROPERTIES Termination
