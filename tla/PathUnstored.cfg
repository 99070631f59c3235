SPECIFICATION Spec
CONSTANTS
    Addrs = {1, 2}
    EntryAddr = 1
    Conds = {c1}
    Unknown = Unknown
    None = None
    EntryRbp = EntryRbp
    FileWord <- HeaderWord
    Instrs <- UnstoredInstrs
    MaxBlocks = 4
    StackBelow = 2
    StackAbove = 2
INVARIANTS
    ReturnsGoToRsp
CHECK_DEADLOCK FALSE
