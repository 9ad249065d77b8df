SPECIFICATION Spec
CONSTANTS
    BlkBits = 1
    SetBits = 1
    WayBits = 2
    Sizes = {1, 2, 3, 4}
    Offsets = {0, 1}
    Program = {"aligned", "claimed"}
    MaxOps = 3
INVARIANTS CopyTakesNamed
CHECK_DEADLOCK FALSE
