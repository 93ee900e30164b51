SPECIFICATION FairSpec
CONSTANTS
    N = 8
    Threads = {t1, t2}
    Alphas = {1, 6}
    Betas = {4}
    BitsPerWord = 2
    Chunk = 2
    BufferSize = 1
    GraphsIn <- SwitchingGraphs
INVARIANTS TypeOK QueuedOnce ShortestPathTree
PROPERTIES JoinsByLevel Termination
