SPECIFICATION MCFairSpec
CONSTANTS
    c1 = c1  c2 = c2
    None = None
    Clients = {c1, c2}
    Known = {}
    ConnIds = {0, 1, 2, 3}
    LastConn = 3
    MaxClientEvents = 3
    ConnectionLossLimit = 2
    OfflineGrace = 1
    LossWindow = 1
    RecoveryGrace = 2
    Capacity = 4
    MaxOverlap = 2
    SenderFails = TRUE
PROPERTIES
    LateLossHarmless
    WorseIsLoud
    UnhealthyIsDelivered
    GoneIsOffline
INVARIANTS
    ReportsComplete
    NoLossOverlooked
