CONSTANTS
    u1 = u1
    u2 = u2
    u3 = u3
    u4 = u4
    Users <- MCUsers
    CounterMax = 7
SPECIFICATION Spec
SYMMETRY UserSymmetry
INVARIANTS
    CountersInStep
    MutualExclusion
    OneHeadersUpdater
    AssertionsHold
    IdleLockIsPristine
PROPERTIES
    RefusalIsJustified
    ImplementsPromise
