SPECIFICATION Spec
CONSTANTS
    c1 = c1  k1 = k1  k2 = k2  p1 = p1  p2 = p2
    u1 = u1  u2 = u2  ut = ut  o1 = o1  o2 = o2  o3 = o3
    hotOne = hotOne  trigOne = trigOne  minOne = minOne  t1 = t1
    None = None
    Clients = {c1}
    Conns = {k1}
    ClientOf <- OneClient
    Pids = {p1, p2}
    Uids = {u1, u2, ut}
    Aids = {hotOne, minOne}
    Objs = {o1, o2, o3}
    Triggers = {t1}
    TriggerSpecs <- MCTriggerSpecs
    TriggerOf <- MCTriggerOf
    MinBloopsOf <- MCMinBloopsOf
    HotDuration <- MCHotDuration
    HotAids = {hotOne}
    AudioAids = {hotOne}
    Loaded <- MCLoaded
    Requests <- PlayerScans
    AppPlayers <- MCPlayers
    ThrottleOn = TRUE
    ThrottleMax = 2
    ThrottleThreshold = 1
    QueueCap = 2
    MaxRequests = 3
    MaxAppCalls = 1
    MaxTime = 2
    MaxAge = 1
    MaxHits = 3
    MaxSeed = 1
ACTION_CONSTRAINT OneOccasion
INVARIANTS
    LookupSound
    AwardsJustified
    ThrottleBound
    HandledSeesRecent
    CountsMatchBloops
PROPERTIES
    NewAwardsOnly
    MilestoneKept
    ProviderSpec
