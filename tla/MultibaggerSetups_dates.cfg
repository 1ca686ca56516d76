SPECIFICATION Spec
CONSTANTS
    Symbol = {s1}
    s1 = s1
    MaxAge = 1
    LastDay = 3
    MaxFaults = 1
VIEW Relevant
INVARIANTS TypeOK OneArmed SessionsBounded OnePosition
