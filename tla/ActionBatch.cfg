SPECIFICATION FairSpec
CONSTANTS
    q1 = q1
    q2 = q2
    man = man
    ec2 = ec2
    vol = vol
    None = None
    Requests <- MCRequests
    Recs <- MCRecs
    Mode <- MCMode
    Batches <- MCBatches
    Initial <- MCInitial
    MaxFaults = 1
CHECK_DEADLOCK FALSE
INVARIANTS DecidedOnCurrent RolledBackIsFlagged WritesAreLogged
PROPERTY EveryRequestEnds
