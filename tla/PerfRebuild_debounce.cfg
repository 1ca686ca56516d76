SPECIFICATION Spec
CONSTANTS
    Worker = {w1, w2}
    Direct = {d1}
    w1 = w1
    w2 = w2
    d1 = d1
    Timer = Timer
    Id = {i1}
    i1 = i1
    None = None
    MaxSaves = 1
    MaxAsked = 3
    MaxDirect = 1
    MaxFaults = 1
INVARIANTS TypeOK NothingForgotten
PROPERTY Shows
CHECK_DEADLOCK FALSE
