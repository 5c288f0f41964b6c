SPECIFICATION Spec
CONSTANTS
    r1 = r1
    r2 = r2
    g1 = g1
    g2 = g2
    Person = {webadmin}
    Service = {svc}
    Webadmin = webadmin
    Builtin = fasttakapi
    twin = twin
    Team = {g1, g2, twin}
    Made = {g1, g2}
    Meant <- MCMeant
    RoleAdmin = roleadmin
    Gate = {gate}
    WebPass = TRUE
    Request = {r1, r2}
    Boot = Boot
    None = None
    FaultKinds = {"lldap", "docker", "crl", "crash", "client"}
    MaxStarts = 3
    MaxBoots = 2
    MaxFaults = 1
INVARIANTS
    TypeOK
    GroupsAsAsked
    RoleReserved
    ServiceSound
    AdminKeyNotShared
    HandedOutRevocable
    RevokedNotServed
    BootstrapIdempotent
SYMMETRY Symmetry
CHECK_DEADLOCK FALSE
