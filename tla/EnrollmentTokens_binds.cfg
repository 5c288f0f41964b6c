SPECIFICATION Spec
CONSTANTS
    None = None
    User = {u1, u2}
    Token = {t1, t2}
    Conn = {c1, c2}
    Admin = {a1}
    TTLs = {0, 1}
    OneTimes = {TRUE, FALSE}
    MaxTime = 2
    MaxFaults = 1
INVARIANTS
    TypeOK
    OneTimeOnce
    NoDeadTokenAccepted
    ValidTokenMatches
PROPERTY
    ImplementsLedger
SYMMETRY Symmetry
CHECK_DEADLOCK FALSE
