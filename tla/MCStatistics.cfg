SPECIFICATION StatSpec
CONSTANTS
    None = None
    Clients = {c1}
    Readers = {r1, r2}
    TicksPerMinute = 2
    MinutesInHour = 1
    MinutesInDay = 2
    U8Max = 2
    TzOffset = 1
    Capacity = 2
    MaxBloops = 3
    MaxTime = 6
    ReaderTime = 3
SYMMETRY Interchangeable
ACTION_CONSTRAINT ReadersLeave
INVARIANTS
    CountsExact
    StaleByLessThanAMinute
PROPERTY
    TotalsNeverDecrease
CHECK_DEADLOCK FALSE
