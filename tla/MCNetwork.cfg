SPECIFICATION NetworkFairSpec
CONSTANTS
    None = None
    Clients = {c1}
    ConnIds = {0, 1}
    HasCustom = TRUE
    MaxReads = 4
    MaxUpdates = 1
INVARIANTS
    StrictlyAlternating
    AcceptedIsRegistered
    LossUnlessQuitOrIdle
PROPERTIES
    KeepsPromise
    UpdatesHappen
    ConnectionsEnd
CHECK_DEADLOCK FALSE
