SPECIFICATION Spec
CONSTANTS
    same1 = same1
    same2 = same2
    hook1 = hook1
    hook2 = hook2
    bare = bare
    w1 = w1
    w2 = w2
    k = k
    h = h
    ask1 = ask1
    ask2 = ask2
    watch1 = watch1
    watch2 = watch2
    Creates = {same1, same2, hook1, hook2}
    Watches = {w1}
    Keys = {k}
    KeyOf <- MCKeyOf
    AskOf <- MCAskOf
    HashOf <- MCHashOf
    Hooked = {hook1, hook2, w1}
    Pace = 1
    Challenge = 1
    Resolve = 3
    ClaimLease = 4
    MaxPending = 1
    MaxTime = 7
    MaxCrashes = 1
INVARIANT QuotaHolds
INVARIANT OnePaymentPerKey
INVARIANT AnsweredAsAsked
INVARIANT OneHandlerPerKey
SYMMETRY Alike
CHECK_DEADLOCK FALSE
