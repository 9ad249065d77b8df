SPECIFICATION Spec
CONSTANTS
    l1 = l1
    l2 = l2
    Lines = {l1, l2}
    MaxSeq = 3
    LQEntries = 2
    SQEntries = 2
    PendingSize = 2
    Kinds = {"cp", "wb", "ld", "st", "dsb"}
    Env = {"lateAddr", "backToBack", "fault", "refuse", "squash", "anyProgram"}
SYMMETRY LineSymmetry
INVARIANTS
    TypeOK
    RawOrdered
    WarNeverFires
    NoLostWakeup
    PendingTableFits
CHECK_DEADLOCK FALSE
