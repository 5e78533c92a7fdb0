SPECIFICATION TurnsSpec
CONSTANTS
    a = a
    b = b
    c = c
    Nodes = {a, b, c}
    Standing <- MCStanding
    Eager = 2
    Gaps = {2}
    Busy = {2}
    MaxGap = 2
    Lease = 2
    PollAtLeast = 1
    PollTime = 1
    ExpiresAt = 10
    MaxDelay = 1
    MaxClock = 11
    MaxFaults = 1
INVARIANT InLine FirstPolls PaidIsNoticed OneFaultCostsAnInterval
CHECK_DEADLOCK FALSE
