SPECIFICATION Spec
CONSTANTS
    w1 = w1
    w2 = w2
    r1 = r1
    r2 = r2
    b1 = b1
    b2 = b2
    main = main
    release = release
    None = None
    Default = main
    Bases <- OneBase
    Versions <- FullVersion
    Workers <- OneWorker
    Resources <- OneResource
    Blocks <- TwoBlocks
    Declares <- Declared
    Root <- RootModule
    Routed <- OneResource
    Wanted <- OneMigrated
    MaxApprovals = 1
    MaxFaults = 1
    MaxMoves = 1
CHECK_DEADLOCK FALSE
INVARIANT PrKeepsItsWord
