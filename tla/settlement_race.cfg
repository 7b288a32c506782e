SPECIFICATION SettlementFairSpec
CONSTANTS
    Rewards <- MCRewards
    Jobs <- MCJobs
    JobOf <- MCJobOf
    Amount <- MCAmount
    Budget <- MCBudget
    Batches <- MCBatches
    HasPayee <- MCRewards
    Sweeps = {s1, s2}
    Limit = 4
    Drivers = {"none", "external"}
    MaxCrashes = 1
    MaxErrors = 1
CHECK_DEADLOCK FALSE

INVARIANTS PaidAtMostOnce HeldWhole
PROPERTIES ImplementsPromise PayableConcludes
