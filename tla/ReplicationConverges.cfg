SPECIFICATION FairSpec
CONSTANTS
    a = a
    b = b
    y = y
    Nodes = {a, b}
    Origins = {a, b}
    Sources = {"paid"}
    Bodies = {y}
    Unproven = {}
    GapBatch = 1
    MaxHooks = 2
    MaxSeq = 2
    MaxFacts = 2
    MaxBusy = 1
    MaxFaults = 1
    MaxNotes = 9
PROPERTY Converges
CHECK_DEADLOCK FALSE
