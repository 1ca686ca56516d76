SPECIFICATION Spec
CONSTANTS
    Proc = {p1, p2}
    Thread = {t1, t2, t3}
    Alert = {a1, a2}
    Symbol = {s1}
    p1 = p1
    p2 = p2
    t1 = t1
    t2 = t2
    t3 = t3
    a1 = a1
    a2 = a2
    s1 = s1
    ProcOf <- MCProcOf
    SymbolOf <- MCSymbolOf
    Cap = 1
    MaxEvents = 2
    MaxAsked = 2
    None = None
SYMMETRY Ids
INVARIANTS TypeOK SingleOpen EvidenceBacked JournalAgrees
CHECK_DEADLOCK FALSE
