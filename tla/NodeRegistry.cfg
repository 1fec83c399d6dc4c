SPECIFICATION Spec
CONSTANTS
    Nodes = {n1}
    None = None
    SilentAge = 2
    MaxEvents = 4
INVARIANT RemovedNodeReturnsOnlyByRace
PROPERTY SilentNodeIsDropped
PROPERTY ListedNodeRecovers
