SPECIFICATION FairSpec
CONSTANTS
    l1 = l1
    l2 = l2
    Lines = {l1}
    MaxSeq = 3
    LQEntries = 2
    SQEntries = 2
    PendingSize = 2
    Kinds = {"cp", "ld"}
    Env = {"lateAddr", "anyProgram"}
PROPERTIES
    DeferredRetried
CHECK_DEADLOCK FALSE
