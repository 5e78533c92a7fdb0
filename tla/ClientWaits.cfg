SPECIFICATION FairSpec
CONSTANTS
    l1 = l1
    l2 = l2
    Legs = {l1, l2}
    Unanswered = 2
INVARIANT NothingOutlives CheatsAreNotTraded EndsAsHeard
PROPERTY PromiseKept WaitEnds
CHECK_DEADLOCK FALSE
