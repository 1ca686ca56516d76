SPECIFICATION FairSpec
CONSTANTS
    p1 = p1
    p2 = p2
    p3 = p3
    ta = ta
    tb = tb
    tc = tc
    td = td
    c1 = c1
    c2 = c2
    c3 = c3
    c4 = c4
    NoOne = NoOne
    Proc <- Proc3
    Thread <- Thread4
    ProcOf <- ProcOf4
    NameOf <- NameOf4
    ScannerOf <- ScannerOf4
    Batch <- MCBatch
    Conn <- Conn4
    ConnOf <- ConnOf4
    HostOf <- HostOf3
    Faults = {"crash", "runRefused"}
    MaxRetries = 1
    MaxDepth = 3
    MaxPgCount = 3
INVARIANTS Exclusion NoStrandedPgLock LockedWhileRunning
PROPERTIES RefinesMutex QueueMoves
CHECK_DEADLOCK FALSE
