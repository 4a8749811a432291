SPECIFICATION FairSpec
CONSTANTS
    Calls = {c1, c2, c3, c4}
    Threshold = 2
    MaxRetries = 1
    Cooldown = 1
    MaxConcurrent = 2
    Closed = Closed
    MaxTime = 1
    MaxDrops = 1
INVARIANTS
    OneProbePerOpening
    OpenCircuitShields
PROPERTIES
    CallsEnd
CHECK_DEADLOCK FALSE
