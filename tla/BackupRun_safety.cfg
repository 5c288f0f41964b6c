SPECIFICATION Spec
CONSTANTS
    None = None
    Proc = {p1, p2}
    Kinds = {"cli", "api", "dash", "prune", "key"}
    Keep = 1
    PruneKeeps = {2}
    ReapAge = 0
    FaultKinds = {"crash", "disk", "keygen", "dump", "retention", "unlink"}
    MaxFaults = 1
    MaxTime = 2
    MaxStarts = 3
INVARIANTS
    TypeOK
    Decryptable
    RetentionFloor
    DownloadedKeyOpens
    LastRunRestorable
SYMMETRY Symmetry
CHECK_DEADLOCK FALSE
