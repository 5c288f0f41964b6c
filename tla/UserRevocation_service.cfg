SPECIFICATION Spec
CONSTANTS
    u1 = u1
    u2 = u2
    r1 = r1
    r2 = r2
    d1 = d1
    d2 = d2
    e1 = e1
    Unset = Unset
    Keep = Keep
    Sched = Sched
    User = {u1}
    Cert = {d1, d2, e1}
    Owner <- OneOwner
    Enrolled = {e1}
    Glob <- ServiceGlob
    Request = {r1}
    Patches <- NoPatches
    Kinds = {"delete"}
    FaultKinds = {}
    MaxFaults = 0
    MaxTime = 0
    TakStates = {"ready"}
    InitAttrs <- PlainUsers
    InitIssued = {d1}
INVARIANT
    SweepComplete
CHECK_DEADLOCK FALSE
