SPECIFICATION FairSpec
CONSTANTS
    Lines = {a, b}
    Ways = {w0, w1}
    Temp = temp
    None = none
    WbSizes = {TRUE, FALSE}
    Program = {"fenced", "drained", "claimed", "settled", "unshared", "apart", "streamed"}
    Q1Entries = 2
    Q2Entries = 2
    MaxTargets = 3
    MaxStores = 1
    MaxCopies = 2
    MaxWritebacks = 1
    MaxLoads = 1
INVARIANTS TypeOK MemoryExact SlotExact OwedExact AssertsHold
PROPERTIES ClaimedForever CommandsAnswered MissesFilled
CHECK_DEADLOCK FALSE
