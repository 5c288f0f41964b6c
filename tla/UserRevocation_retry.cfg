SPECIFICATION FairSpec
CONSTANTS
    u1 = u1
    u2 = u2
    r1 = r1
    r2 = r2
    d1 = d1
    d2 = d2
    e1 = e1
    Unset = Unset
    Keep = Keep
    Sched = Sched
    User = {u1}
    Cert = {d1, d2, e1}
    Owner <- OneOwner
    Enrolled = {e1}
    Glob <- OneGlob
    Request = {r1}
    Patches <- NoPatches
    Kinds = {}
    FaultKinds = {"docker"}
    MaxFaults = 1
    MaxTime = 1
    TakStates = {"ready"}
    InitAttrs <- FreshUsers
    InitIssued = {d1, d2}
PROPERTY
    RevocationConverges
CHECK_DEADLOCK FALSE
