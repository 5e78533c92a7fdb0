SPECIFICATION Spec
CONSTANTS
    a = a
    b = b
    k = k
    NoKey = NoKey
    Urls <- TheUrls
    Lookups <- TheLookups
    Lists <- TheLists
    HopsFollowed = 2
    Cap = 2
    Deadline = 4
    MaxAsks = 1
    Relays = 2
    CallDeadline = 1
    MaxCalls = 2
    Orders <- TheOrders
    Offers <- TheOffers
    Accounts = {a, b}
    OriginOf <- TheOrigins
    Forger = Forger
    Foreign = Foreign
    Amounts = {1, 2}
    Skew = 0
    Life = 2
    Stated = {1, 2}
    MaxTime = 1
    MaxInvoices = 1
    MaxMints = 2
INVARIANT NothingStrays FirstThatServes PaysOnce OwnAnswer EachOrderItsOwnInvoice
CHECK_DEADLOCK FALSE
