SPECIFICATION Spec
CONSTANTS
    Lines = {a, b}
    Ways = {w0, w1}
    Temp = temp
    None = none
    WbSizes = {TRUE, FALSE}
    Program = {"fenced", "claimed", "settled", "unshared", "apart", "streamed"}
    Q1Entries = 2
    Q2Entries = 2
    MaxTargets = 3
    MaxStores = 1
    MaxCopies = 1
    MaxWritebacks = 1
    MaxLoads = 0
INVARIANTS MemoryExact
SYMMETRY Symmetry
CHECK_DEADLOCK FALSE
