SPECIFICATION FairSpec
CONSTANTS
    d1 = d1
    d2 = d2
    Desired = {d1, d2}
    None = none
    MaxChanges = 1
    MaxCrashes = 1
    MaxTimeouts = 1
    MaxExpiries = 1
    MaxRejects = 1
    MaxFaults = 1
    MaxRaces = 1
    MaxStarts = 1
    MaxMishaps = 3
    MaxConns = 4
INVARIANTS
    TypeOK
    AppliedIsRunning
PROPERTIES
    LossIsReported
    FaultIsReported
    Converges
    AbandonedWorkerStops
CHECK_DEADLOCK FALSE
