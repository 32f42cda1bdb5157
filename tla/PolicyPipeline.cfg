SPECIFICATION FairSpec
CONSTANTS
    Device = {d1, d2}
    Ip = {i1}
    Flag = {"quarantined_at", "is_authenticated", "bump_enabled"}
    None = None
    MaxEdits = 2
    MaxSightings = 3
    MaxErrors = 1
    MaxCrashes = 1
    MaxStops = 1
    MaxLosses = 1
    MaxMishaps = 2
INVARIANTS KernelDisjoint RevokedFlowsAreFlushed RunningMeansApplied
PROPERTIES Converges ImplementsAtomicPolicy
