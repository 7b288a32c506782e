SPECIFICATION GuardFairSpec
CONSTANTS
    Clients <- MCClients
    Request <- MCRequest
    Kind <- MCKind
    Under <- MCUnder
    Costs <- MCCosts
    ProcessOf <- MCProcessOf
    PoolMax <- MCPoolMax
    Policy <- MCPolicy
    Day = 0
    Week = 1
    MaxClock = 1
    MaxFaults = 1
CHECK_DEADLOCK FALSE
INVARIANTS CeilingsHold WorkIsCharged
PROPERTIES CallsEnd
