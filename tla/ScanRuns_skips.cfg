SPECIFICATION Spec
CONSTANTS
    p1 = p1
    p2 = p2
    cron = cron
    click = click
    other = other
    NoOne = NoOne
    Proc <- OneProc
    Thread <- OneThread
    ProcOf <- Alone
    Sched = {cron}
    Faults = {"scanFails", "crash"}
    Admin = {}
    MaxRuns <- Twice
PROPERTY SkipsOnlyIfRan
CHECK_DEADLOCK FALSE
