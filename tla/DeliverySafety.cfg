SPECIFICATION Spec
CONSTANTS
    a = a
    b = b
    u = u
    Nodes = {a, b}
    Urls = {u}
    Lease = 1
    Backoff = 2
    TakeoverAfter = 2
    Ranks = {0}
    Slack = 2
    RetryFloor = 4
    Grace = 5
    Replay = 0
    ExpiresAt = 1
    Notes = {{"accepted"}, {"paid"}, {"outbox"}, {"delivered"}}
    MaxAway = 1
    MaxTime = 11
    MaxRestarts = 1
INVARIANT HookAccountedFor
INVARIANT NothingLeftBehind
PROPERTY SweepInventsNoDebt
SYMMETRY Alike
CHECK_DEADLOCK FALSE
