SPECIFICATION Spec
CONSTANTS
    a = a
    b = b
    c = c
    Kids = {a, b, c}
    Purposes <- TwoUpdaters
    Keys = {k}
    NoKey = NoKey
    None = None
    Limit = 2
    NameByKey <- MCNameByKey
    Slices = {s1, s2, s3}
    MaxEntrySlices = 2
    MaxEntries = 2
    CountFloor <- MCCountFloor
SYMMETRY Symmetry
INVARIANT OwnChainsAreApart
