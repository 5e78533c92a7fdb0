SPECIFICATION Spec
CONSTANTS
    p1 = p1
    p2 = p2
    h = h
    Payments = {p1, p2}
    HostOf <- MCHostOf
    PerTick = 3
    Lease = 1
    Eager = 1
    Interval = 1
    LongestWait = 4
    LongestSleep = 6
    LongestTick = 2
    TickStall = 2
    DrainTimeout = 1
    ReadyGrace = 1
    Backoff = 1
    Grace = 5
    AskTime = 1
    MaxInstances = 2
    MaxNews = 0
    MaxTime = 12
INVARIANT IdleStaysLive
SYMMETRY Alike
CHECK_DEADLOCK FALSE
