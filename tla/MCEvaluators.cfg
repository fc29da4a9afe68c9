SPECIFICATION MCSpec
CONSTANTS
    c1 = c1  c2 = c2  p1 = p1  p2 = p2  p3 = p3  a = a  b = b  u = u  x = x
    None = None
    Unset = Unset
    Clients = {c1, c2}
    Pids = {p1, p2, p3}
    Uids = {}
    Aids = {}
    MaxAge = 1
    MaxTime = 35
    HistoryTime = 3
    MaxSeed = 1
    MaxBloops = 3
    RegistrationNumberOf <- MCNumbers
    MaxNumber = 200
    MaxFib = 13
    MaxUsize = 180000
    Extractors <- MCExtractors
    Letters = {a, b, u, x}
    Bytes <- MCBytes
    CharMap <- MCCharMap
    MaxWordLen = 3
    MaxDuration = 2
    MaxRequired = 2
    TicksPerMinute = 2
    MinutesPerHour = 2
    HoursPerDay = 3
    MaxLeeway = 5
    Zones <- MCZones
INVARIANTS
    NothingRecentForgotten
    ClientViewCoversGlobal
    StreakExact
    DistinctExact
    SpellingExact
    NumberPredicatesExact
    MatchingTimeAwarded
    LeewayExact
PROPERTY
    PrunedOnAdd
CHECK_DEADLOCK FALSE
