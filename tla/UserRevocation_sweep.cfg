SPECIFICATION FairSpec
CONSTANTS
    u1 = u1
    u2 = u2
    r1 = r1
    r2 = r2
    d1 = d1
    d2 = d2
    e1 = e1
    Unset = Unset
    Keep = Keep
    Sched = Sched
    User = {u1}
    Cert = {d1, d2, e1}
    Owner <- OneOwner
    Enrolled = {e1}
    Glob <- OneGlob
    Request = {r1}
    Patches <- SweepPatches
    Kinds = {"generate", "enroll"}
    FaultKinds = {"lldap", "docker", "gencrl", "crash"}
    MaxFaults = 2
    MaxTime = 2
    TakStates = {"ready", "broken", "none"}
    InitAttrs <- TTLUsers
    InitIssued = {d1}
INVARIANTS
    TypeOK
    SweepComplete
    ListedRevoked
PROPERTIES
    RevokedStaysRevoked
    ExpiryEnforced
CHECK_DEADLOCK FALSE
