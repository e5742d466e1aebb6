CONSTANTS
    r1 = r1
    q1 = q1
    q2 = q2
    job = job
    button = button
    Executor = executor
    NoRec = noRec
    Recs <- OneRec
    TypeOf <- Stop
    PrRouted <- OneRec
    Requests <- TwoRequests
    Syncs <- OneSync
    Settings <- AllSettings
    DueLimit = 20
    MaxApprovals = 2
    MaxFaults = 1
SPECIFICATION Spec
INVARIANT CallsWithinApprovals
INVARIANT AuditTrail
INVARIANT ScheduledCanFire
INVARIANT ResolvedOnEvidence
INVARIANT ExplicitDecision
PROPERTY ApprovalsAreCredits
