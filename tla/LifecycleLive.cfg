CONSTANTS
    r1 = r1
    q1 = q1
    q2 = q2
    job = job
    button = button
    Executor = executor
    NoRec = noRec
    Recs <- OneRec
    TypeOf <- Snapshot
    PrRouted <- Nothing
    Requests <- OneRequest
    Syncs <- TwoSyncs
    Settings <- RealOnly
    DueLimit = 20
    MaxApprovals = 2
    MaxFaults = 1
SPECIFICATION FairSpec
INVARIANT AuditTrail
PROPERTY ApprovalsAreCredits
PROPERTY ScheduledResolves
PROPERTY GoneIsResolved
