SPECIFICATION Spec
CONSTANTS
    p1 = p1
    p2 = p2
    p3 = p3
    ta = ta
    tb = tb
    tc = tc
    td = td
    c1 = c1
    c2 = c2
    c3 = c3
    c4 = c4
    NoOne = NoOne
    Proc <- MCProc
    Thread <- MCThread
    ProcOf <- MCProcOf
    NameOf <- MCNameOf
    ScannerOf <- MCScannerOf
    Batch <- NoBatch
    Conn <- TwoConns
    ConnOf <- TwoConnOf
    HostOf <- MCHostOf
    Faults = {"crash", "scanFails", "poolDown", "connDrop", "runRefused"}
    MaxRetries = 1
    MaxDepth = 3
    MaxPgCount = 2
INVARIANTS TypeOK ThreadExclusion
CHECK_DEADLOCK FALSE
