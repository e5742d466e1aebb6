SPECIFICATION Spec
CONSTANTS
    w1 = w1
    w2 = w2
    r1 = r1
    r2 = r2
    b1 = b1
    b2 = b2
    main = main
    release = release
    None = None
    Default = main
    Bases <- TwoBases
    Versions <- AnyVersion
    Workers <- TwoWorkers
    Resources <- TwoResources
    Blocks <- TwoBlocks
    Declares <- Declared
    Root <- RootModule
    Routed <- TwoResources
    Wanted <- BothRemoved
    MaxApprovals = 3
    MaxFaults = 1
    MaxMoves = 2
CHECK_DEADLOCK FALSE
INVARIANTS OneOpenPr DanglingIsLate ManagedByPrOnly StatusFollowsPr
PROPERTY MergedIsApproved
