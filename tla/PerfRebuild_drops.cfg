SPECIFICATION Spec
CONSTANTS
    Worker = {w1, w2}
    Direct = {d1}
    w1 = w1
    w2 = w2
    d1 = d1
    Timer = Timer
    Id = {i1}
    i1 = i1
    None = None
    MaxSaves = 2
    MaxAsked = 3
    MaxDirect = 0
    MaxFaults = 0
INVARIANT NeverDropped
CHECK_DEADLOCK FALSE
