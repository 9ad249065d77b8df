SPECIFICATION Spec
CONSTANTS
    Lines = {a, b}
    Ways = {w0, w1}
    Temp = temp
    None = none
    WbSizes = {TRUE, FALSE}
    Program = {"fenced", "drained", "claimed", "settled", "unshared", "apart"}
    Q1Entries = 2
    Q2Entries = 2
    MaxTargets = 3
    MaxStores = 2
    MaxCopies = 2
    MaxWritebacks = 1
    MaxLoads = 1
INVARIANTS TypeOK MemoryExact SlotExact OwedExact
PROPERTIES ClaimedForever
SYMMETRY Symmetry
CHECK_DEADLOCK FALSE
