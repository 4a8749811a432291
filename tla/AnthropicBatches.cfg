SPECIFICATION FairSpec
CONSTANTS
    Batches = {b1}
    Items = {i1, i2}
    Whole = Whole
    ItemConcurrency = 2
    MaxConcurrentJobs = 1
    Cancels = {c1}
    Deletes = {d1}
    None = None
    MaxCrashes = 1
    MaxFaults = 1
    MaxDrops = 1
INVARIANTS
    ResultsAreTrue
PROPERTIES
    SettledIsFinal
    EveryBatchEnds
CHECK_DEADLOCK FALSE
