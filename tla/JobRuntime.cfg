SPECIFICATION FairSpec
CONSTANTS
    Spawns = {s1, s2, s3}
    Keys = {k1, k2}
    Cancellers = {x1}
    MaxConcurrentJobs = 1
    NoSpawn = NoSpawn
INVARIANTS
    OneJobPerKey
    CancelReachesJob
PROPERTIES
    ImplementsScheduler
    EveryJobEnds
CHECK_DEADLOCK FALSE
