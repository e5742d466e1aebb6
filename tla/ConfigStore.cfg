CONSTANTS
    t1 = t1
    t2 = t2
    i1 = i1
    office = office
    Threads <- TwoThreads
    Ids <- OneInstance
    Times <- OneTime
    DefaultTimes = office
    Absent = absent
    Empty = empty
    Missing = missing
    NoJobs = noJobs
    Nobody = nobody
    Requests <- Switches
    Tagged <- OneInstance
    MaxFaults = 1
SPECIFICATION SpecRun
INVARIANTS UpdatesKept PolicyReadable JobsFollowSchedule LiveWasAsked ProtectedLeftAlone
CONSTRAINT Undisturbed
SYMMETRY Interchangeable
CHECK_DEADLOCK FALSE
