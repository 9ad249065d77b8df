SPECIFICATION Spec
CONSTANTS
    l1 = l1
    l2 = l2
    Lines = {l1}
    MaxSeq = 3
    LQEntries = 2
    SQEntries = 2
    PendingSize = 2
    Kinds = {"cp", "dsb", "st"}
    Env = {"anyProgram"}
INVARIANTS
    BarrierDrainsCopies
CHECK_DEADLOCK FALSE
