CONSTANTS
    tick = tick
    button = button
    second = second
    Procs <- ThreeCollections
    NoPid = noPid
    DeadPid = deadPid
    Launcher = "shell"
    MaxCrashes = 2
    MaxStops = 1
SPECIFICATION FairSpec
INVARIANT SpacedRunsExclude
PROPERTY StillCollects
