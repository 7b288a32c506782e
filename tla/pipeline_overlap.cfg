SPECIFICATION Spec
CONSTANTS
    Jobs = {j1}
    Funded = {j1}
    Agents = {a1}
    Runs = {r1, r2}
    MaxAttempts = 2
    MaxCrashes = 0
    MaxExpiries = 1
    MaxErrors = 0
    MaxClaims = 1
CHECK_DEADLOCK FALSE
SYMMETRY Interchangeable
INVARIANTS PaidForIntelligence
