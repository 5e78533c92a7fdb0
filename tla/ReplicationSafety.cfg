SPECIFICATION Spec
CONSTANTS
    a = a
    b = b
    x = x
    y = y
    z = z
    Nodes = {a, b}
    Origins = {a, b, x}
    Sources = {"paid", "outbox"}
    Bodies = {y, z}
    Unproven = {z}
    GapBatch = 1
    MaxHooks = 2
    MaxSeq = 2
    MaxFacts = 2
    MaxBusy = 2
    MaxFaults = 1
    MaxNotes = 2
INVARIANT TypeOK
INVARIANT MarksSound
INVARIANT OneFactPerSeq
INVARIANT SweptStaysAway
PROPERTY KeepsLogs
SYMMETRY Alike
CONSTRAINT FewNotes
CHECK_DEADLOCK FALSE
