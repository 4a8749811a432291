SPECIFICATION FairSpec
CONSTANTS
    Responses = {r1}
    MaxConcurrentJobs = 1
    Cancels = {c1}
    Deletes = {d1}
    None = None
    MaxCrashes = 1
    MaxFaults = 1
    MaxDrops = 1
INVARIANTS
    StatusIsTrue
PROPERTIES
    SettledIsFinal
    
CHECK_DEADLOCK FALSE
