SPECIFICATION FairSpec
CONSTANTS
    p1 = p1
    p2 = p2
    cron = cron
    click = click
    other = other
    NoOne = NoOne
    Proc <- OneProc
    Thread <- TwoThreads
    ProcOf <- Together
    Sched = {cron}
    Faults = {"scanFails", "noData", "slow", "crash"}
    Admin = {"pause"}
    MaxRuns <- OnceEach
PROPERTIES RunsEnd CardSettles
CHECK_DEADLOCK FALSE
