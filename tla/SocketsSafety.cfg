SPECIFICATION Spec
CONSTANTS
    s1 = s1
    s2 = s2
    t1 = t1
    t2 = t2
    Conns = {s1, s2}
    Tickets = {t1, t2}
    KindOf <- MCKindOf
    DepthOf <- MCDepthOf
    Depths = {0, 1}
    Ttl = 2
    Ping = 2
    AnswerTime = 1
    MaxSockets = 2
    Honest = {s1}
    MaxAsks = 1
    MaxAhead = 1
    MaxFaults = 1
    MaxTime = 3
INVARIANT NobodyLingers FollowersKnow TicketOpensOnce OnlyTheSilentAreDropped HonestIsHeard
SYMMETRY Alike
CHECK_DEADLOCK FALSE
