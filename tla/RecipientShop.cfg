SPECIFICATION Spec
CONSTANTS
    t1 = t1
    t2 = t2
    m1 = m1
    m2 = m2
    Orders <- TheOrders
    Credits <- TheCredits
    Tokens <- TheTokens
    Skews <- TheSkews
    Messages = {m1, m2}
    Window = 2
    Tolerance = 2
    LongestAct = 1
    MaxFaults = 1
INVARIANT NoTokenTooSoon OneCreditOneOrder ActedOnce
PROPERTY CreditedIsFulfilled
CHECK_DEADLOCK FALSE
