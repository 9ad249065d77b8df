SPECIFICATION Spec
CONSTANTS
    Lines = {a, b}
    Ways = {w0, w1}
    Temp = temp
    None = none
    WbSizes = {TRUE, FALSE}
    Program = {"fenced", "drained", "claimed", "settled", "unshared", "apart", "streamed"}
    Q1Entries = 2
    Q2Entries = 2
    MaxTargets = 3
    MaxStores = 2
    MaxCopies = 2
    MaxWritebacks = 1
    MaxLoads = 2
INVARIANTS AssertsHold
SYMMETRY Symmetry
CHECK_DEADLOCK FALSE
