SPECIFICATION Spec
CONSTANTS
    NumRegions = 3
    Service = {s1, s2}
    NoNode = NoNode
    Nil = Nil
    s1 = s1
    s2 = s2
    ip1 = ip1
    ip2 = ip2
    ip3 = ip3
    Inputs <- ScaledInputs
INVARIANTS
    NeverPanics
CHECK_DEADLOCK FALSE
