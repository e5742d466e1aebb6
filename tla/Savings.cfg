SPECIFICATION Spec
CONSTANTS
    r1 = r1
    r2 = r2
    w1 = w1
    Recs <- TwoRecs
    Workers <- OneWorker
    Entries <- StopOrTerminate
    Costs <- MCCosts
    MinDays = 1
    Window = 2
    MaxConn = 2
    MaxDay = 5
    MaxActions = 2
    MaxAttempts = 1
    MaxFaults = 1
CHECK_DEADLOCK FALSE
INVARIANTS VerifiedOnce NoInventedSaving SlotsAccounted
PROPERTY RunVerifiesAllStops
