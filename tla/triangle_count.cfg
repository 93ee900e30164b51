SPECIFICATION Spec
CONSTANTS
    N = 5
    GraphsIn <- GraphsOfN
INVARIANTS TypeOK IteratorInRow TrianglesCounted
