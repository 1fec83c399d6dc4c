SPECIFICATION Spec
CONSTANTS
    Procs = {p1, p2, p3}
    Capacity = 5
    BitsPerLeaf = 2
    InnerLevels = 2
    KillLimit = 1
SYMMETRY Symmetry
INVARIANT TypeOK
INVARIANT CountsAreBacked
INVARIANT AssertionsHold
INVARIANT NoneLost
INVARIANT FailsOnlyIfNoneLeft
PROPERTY ImplementsFreePages
