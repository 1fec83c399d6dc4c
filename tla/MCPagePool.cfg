SPECIFICATION Spec
CONSTANTS
    Procs = {p1, p2, p3}
    cachePage = cachePage
    ioPage = ioPage
    PageLimit <- MCPageLimit
    Width = 4
SYMMETRY Symmetry
INVARIANT OverrunNeedsRace
INVARIANT LimitsReserve
INVARIANT LevelIsAccurate
