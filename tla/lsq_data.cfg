SPECIFICATION Spec
CONSTANTS
    l1 = l1
    l2 = l2
    Lines = {l1}
    MaxSeq = 4
    LQEntries = 2
    SQEntries = 2
    PendingSize = 2
    Kinds = {"cp", "wb", "ld"}
    Env = {"squash"}
INVARIANTS
    FreshData
    WritesInOrder
CHECK_DEADLOCK FALSE
