SPECIFICATION FairSpec
CONSTANTS
    Jobs = {j1}
    Funded = {j1}
    Agents = {a1}
    Runs = {r1, r2}
    MaxAttempts = 2
    MaxCrashes = 1
    MaxExpiries = 0
    MaxErrors = 1
    MaxClaims = 0
CHECK_DEADLOCK FALSE
INVARIANTS OneWorker RewardsOnce
PROPERTIES JobsConclude ResolvedArePaid
