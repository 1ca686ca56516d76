SPECIFICATION Spec
CONSTANTS
    p1 = p1
    p2 = p2
    cron = cron
    click = click
    other = other
    NoOne = NoOne
    Proc <- TwoProcs
    Thread <- ThreeThreads
    ProcOf <- TwoAndOne
    Sched = {cron}
    Faults = {"scanFails", "noData", "slow", "crash"}
    Admin = {}
    MaxRuns <- OnceEach
INVARIANTS TypeOK OneActiveRun NoPhantomRun
PROPERTY RefinesRunBook
CHECK_DEADLOCK FALSE
