SPECIFICATION Spec
CONSTANTS
    BitsPerLeaf = 4
    MaxCapacity = 36
INVARIANT TreeHoldsCapacity
CHECK_DEADLOCK FALSE
