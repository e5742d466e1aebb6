SPECIFICATION FairSpec
CONSTANTS
    None = None
    Resources = {r1}
    WatchedKinds <- MCWatchedKinds
    Boto3Steps <- MCBoto3Steps
    SteampipeSteps <- MCSteampipeSteps
    Abroad = {r1}
    Window = 2
    MaxFaults = 1
INVARIANTS
    InsightOfAction
    HealthyLostNothing
PROPERTIES DetectorsKeepDecisions IdleSurfaces WasteIsRecorded
