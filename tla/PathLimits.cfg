SPECIFICATION Spec
CONSTANTS
    Addrs = {1, 2, 3}
    EntryAddr = 1
    Conds = {c1}
    Unknown = Unknown
    None = None
    EntryRbp = EntryRbp
    FileWord <- HeaderWord
    Instrs <- LimitInstrs
    MaxBlocks = 3
    StackBelow = 0
    StackAbove = 1
INVARIANTS
    QueueInv
CHECK_DEADLOCK FALSE
