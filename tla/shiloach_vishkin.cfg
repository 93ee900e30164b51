SPECIFICATION SVFairSpec
CONSTANTS
    N = 4
    Threads = {t1, t2}
    GraphsIn <- FourNodeGraphs
INVARIANTS SVTypeOK ComponentsFound QuietMeansDone
PROPERTY Termination
