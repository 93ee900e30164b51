SPECIFICATION Spec
CONSTANTS
    EdgeLists <- SmallEdgeLists
    Generated <- SmallGenerated
    Threads = {t1, t2}
    BlockSize = 2
    Radix = 5
INVARIANTS TypeOK SlotsApart WorkerSeesGraph
PROPERTIES StoredOnce
