SPECIFICATION Spec
CONSTANTS
    u1 = u1
    u2 = u2
    r1 = r1
    r2 = r2
    d1 = d1
    d2 = d2
    e1 = e1
    Unset = Unset
    Keep = Keep
    Sched = Sched
    User = {u1, u2}
    Cert = {d1, e1}
    Owner <- TwoOwners
    Enrolled = {e1}
    Glob <- TwoGlobs
    Request = {r1}
    Patches <- AdminPatches
    Kinds = {"delete", "revoke"}
    FaultKinds = {"docker", "certadmin"}
    MaxFaults = 1
    MaxTime = 1
    TakStates = {"ready"}
    InitAttrs <- MixedUsers
    InitIssued = {d1, e1}
INVARIANTS
    OnlyCondemned
    RevokedUserInactive
CHECK_DEADLOCK FALSE
