SPECIFICATION Spec
CONSTANTS
    Batches = {b1}
    InFiles = {f1}
    Malformed = {}
    Items = {i1, i2}
    ItemConcurrency = 1
    MaxConcurrentJobs = 1
    Cancels = {c1}
    Deletes = {d1}
    None = None
    MaxCrashes = 1
    MaxFaults = 0
    MaxDrops = 0
SYMMETRY CallSymmetry
INVARIANTS
    Consistent
    OutcomeIsTrue
PROPERTIES
    SettledIsFinal
CHECK_DEADLOCK FALSE
