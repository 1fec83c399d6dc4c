SPECIFICATION Spec
CONSTANTS
    Nodes = {n1}
    None = None
    SilentAge = 2
    MaxEvents = 1
PROPERTIES HeartbeatingNodeReturns
