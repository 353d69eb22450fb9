CONSTANTS
    r = r
    Reader = {r}
    Circle = 4
    Unit <- Compass
    Ceiling = 20
    Spec1 <- Flight
    Duration = 5
    Interval = 2
    Timeout = 2
    PollInterval = 1
    MaxProbe = 1
    MaxWork = 3
    MaxLate = 0
    MaxTime = 14
    MaxFlips = 1
    Window = 6
    Windows = {6, 11}
    TTL = 8
    MaxLatency = 1
    MaxForgets = 1
SPECIFICATION Spec
INVARIANTS RunCatchesUp
CHECK_DEADLOCK FALSE
