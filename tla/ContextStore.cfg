SPECIFICATION Spec
CONSTANTS
    c1 = c1
    c2 = c2
    Contexts = {c1, c2}
    Turns = {1, 2, 3}
    Configs <- MCConfigs
    Records <- MCRecords
    Inbound <- MCInbound
    Reply <- MCReply
    ByteLimit = 7
    ChunkLimit = 3
    MaxCrashes = 1
INVARIANTS
    LogIsWhole
    ShowsWholeTurns
PROPERTIES
    ImplementsLog
CHECK_DEADLOCK FALSE
