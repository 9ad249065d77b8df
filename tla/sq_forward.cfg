SPECIFICATION Spec
CONSTANTS
    Words = {0, 1}
    MaxSeq = 3
    LQEntries = 2
    SQEntries = 3
    StoreCovers = {{0}, {0, 1}}
    CopyCovers = {{0}}
    LoadCovers = {{0}}
    DepUnit <- OwnBlocks
INVARIANTS
    RetiredLoadCorrect
CHECK_DEADLOCK FALSE
