SPECIFICATION Spec
CONSTANTS
    Addrs = {1, 2}
    EntryAddr = 1
    Conds = {c1}
    Unknown = Unknown
    None = None
    EntryRbp = EntryRbp
    FileWord <- HeaderWord
    Instrs <- LeaveInstrs
    MaxBlocks = 3
    StackBelow = 1
    StackAbove = 1
INVARIANTS
    PointersAreOnPath
CHECK_DEADLOCK FALSE
