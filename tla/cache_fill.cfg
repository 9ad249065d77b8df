SPECIFICATION Spec
CONSTANTS
    Lines = {a, b}
    Ways = {w0, w1}
    Temp = temp
    None = none
    WbSizes = {TRUE, FALSE}
    Program = {"fenced", "drained", "claimed", "unshared", "apart"}
    Q1Entries = 2
    Q2Entries = 2
    MaxTargets = 3
    MaxStores = 0
    MaxCopies = 1
    MaxWritebacks = 0
    MaxLoads = 1
INVARIANTS FillMeetsNoWrite
SYMMETRY Symmetry
CHECK_DEADLOCK FALSE
