SPECIFICATION Spec
CONSTANTS
    None = None
    IP = {a, b}
    Request = {r1, r2}
    window = 2
    lockout = 3
    maxAttempts = 2
    MaxTime = 6
    MaxFailures = 4
INVARIANTS
    TypeOK
    FreshBudgetAfterLockout
    LateBounded
PROPERTY
    ImplementsBudget
