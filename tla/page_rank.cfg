SPECIFICATION Spec
CONSTANTS
    N = 3
    MaxIters = 4
    DegreeMultiple = 2
    EpsilonUnit = 10000
    Inputs <- SmallInputs
INVARIANTS TypeOK ScoresAreRanks ConvergedMeansVerified
