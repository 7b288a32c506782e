SPECIFICATION Spec
CONSTANTS
    Jobs = {j1, j2}
    Funded = {j1}
    Agents = {a1, a2}
    Runs = {r1, r2}
    MaxAttempts = 3
    MaxCrashes = 0
    MaxExpiries = 0
    MaxErrors = 0
    MaxClaims = 0
CHECK_DEADLOCK FALSE
INVARIANTS NoLeakedAssignments
PROPERTIES ImplementsLifecycle
