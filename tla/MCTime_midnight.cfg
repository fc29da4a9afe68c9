SPECIFICATION TimeSpec
CONSTANTS
    MaxTime = 26
    TicksPerMinute = 2
    MinutesPerHour = 2
    HoursPerDay = 3
    MaxLeeway = 2
    Zones <- MCZones
    Unset = Unset
INVARIANT
    LeewayExtendsForward
CHECK_DEADLOCK FALSE
