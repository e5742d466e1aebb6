SPECIFICATION Spec
CONSTANTS
    w1 = w1
    w2 = w2
    r1 = r1
    None = None
    Workers <- MCWorkers
    Resources <- MCResources
    WatchedKinds <- Kinds
    Policies <- MCPolicies
    MaxAttempts = 2
    MaxFaults = 1
CHECK_DEADLOCK FALSE
INVARIANT TagsProtect
