CONSTANT Requests <- MCRequests
SPECIFICATION OptionsSpec
INVARIANTS
    OptionsArrive
    ForcedToolIsForced
    ThinkingOffIsOff
CHECK_DEADLOCK FALSE
