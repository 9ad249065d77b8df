SPECIFICATION FairSpec
CONSTANTS
    l1 = l1
    l2 = l2
    Lines = {l1}
    MaxSeq = 3
    LQEntries = 2
    SQEntries = 2
    PendingSize = 2
    Kinds = {"cp", "ld", "dsb"}
    Env = {"fault", "refuse", "squash", "anyProgram"}
PROPERTIES
    EventuallyRetired
    EventuallyAcked
CHECK_DEADLOCK FALSE
