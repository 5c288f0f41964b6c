SPECIFICATION FairSpec
CONSTANTS
    None = None
    Proc = {p1, p2}
    Kinds = {"cli", "api", "dash", "prune"}
    Keep = 1
    PruneKeeps = {}
    ReapAge = 0
    FaultKinds = {"keygen", "dump", "retention", "unlink"}
    MaxFaults = 1
    MaxTime = 1
    MaxStarts = 3
INVARIANTS
    OutcomeReported
    RunningIsTrue
PROPERTIES
    HandlersEnd
    LastRunSettles
CHECK_DEADLOCK FALSE
