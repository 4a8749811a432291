SPECIFICATION FairSpec
CONSTANTS
    Batches = {b1}
    InFiles = {f1}
    Malformed = {}
    Items = {i1}
    ItemConcurrency = 1
    MaxConcurrentJobs = 1
    Cancels = {c1}
    Deletes = {}
    None = None
    MaxCrashes = 1
    MaxFaults = 1
    MaxDrops = 1
PROPERTIES
    EveryBatchEnds
CHECK_DEADLOCK FALSE
