SPECIFICATION Spec
CONSTANTS
    j1 = j1
    j2 = j2
    NoJob = NoJob
    Job <- MCJob
    Name <- OneName
    NameOf <- OneNameOf
    Synced <- OneName
    Earlier <- OneName
    MaxAttempts = 2
    ResumesAtBoot = TRUE
    Faults = {"crash","unlink","disk","corrupt"}
    MaxVersion = 3
    MaxFaults = 1
SYMMETRY JobSymmetry
INVARIANTS TypeOK RetryBound BackedUp
PROPERTIES OnlyLoadersRegress RefinesOutbox
CHECK_DEADLOCK FALSE
