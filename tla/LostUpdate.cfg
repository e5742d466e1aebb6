CONSTANTS
    t1 = t1
    t2 = t2
    i1 = i1
    office = office
    Threads <- TwoThreads
    Ids <- OneInstance
    Times <- OneTime
    DefaultTimes = office
    Absent = absent
    Empty = empty
    Missing = missing
    NoJobs = noJobs
    Nobody = nobody
    Requests <- Clicks
    Tagged <- OneInstance
    MaxFaults = 0
SPECIFICATION SpecRun
INVARIANT NoUpdateLost
CHECK_DEADLOCK FALSE
