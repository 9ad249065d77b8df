SPECIFICATION FairSpec
CONSTANTS
    Words = {0, 1}
    MaxSeq = 3
    LQEntries = 2
    SQEntries = 3
    StoreCovers = {{0}, {0, 1}}
    CopyCovers = {{1}}
    LoadCovers = {{0, 1}}
    DepUnit <- OwnBlocks
INVARIANTS
    TypeOK
    IteratorAtBorder
    CountExact
    HeadIsLive
    ScanStartsInRange
    StallHasWaker
    RetiredLoadCorrect
PROPERTIES
    ImplementsInOrderMemory
    StoresDrain
    LoadsFinish
CHECK_DEADLOCK FALSE
