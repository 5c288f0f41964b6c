SPECIFICATION Spec
CONSTANTS
    u1 = u1
    u2 = u2
    r1 = r1
    r2 = r2
    d1 = d1
    d2 = d2
    e1 = e1
    Unset = Unset
    Keep = Keep
    Sched = Sched
    User = {u1, u2}
    Cert = {d1, d2}
    Owner <- DiskOwners
    Enrolled = {}
    Glob <- DiskGlobs
    Request = {r1, r2}
    Patches <- NoPatches
    Kinds = {"revoke"}
    FaultKinds = {}
    MaxFaults = 0
    MaxTime = 1
    TakStates = {"ready"}
    InitAttrs <- PlainUsers
    InitIssued = {d1, d2}
PROPERTY
    RevokedStaysRevoked
CHECK_DEADLOCK FALSE
