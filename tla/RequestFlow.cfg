SPECIFICATION FairSpec
CONSTANTS
    wide = wide
    narrow = narrow
    direct = direct
    legacy = legacy
    acme = acme
    umbrella = umbrella
    Requests <- MCRequests
    Request <- MCRequest
    Nobody = Nobody
    MaxPerTenant = 1
    JobSlots = 1
    Limit = 2
    PerSlot = 2
    ProviderLimit = 4
    ChannelCap = 2
    MaxLeaves = 1
INVARIANTS
    BooksAreRight
    AgentsWaitForNoOtherRun
    NoSilentEnd
PROPERTIES
    EveryRequestEnds
