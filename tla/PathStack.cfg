SPECIFICATION Spec
CONSTANTS
    Addrs = {1, 2}
    EntryAddr = 1
    Conds = {c1}
    Unknown = Unknown
    None = None
    EntryRbp = EntryRbp
    FileWord <- HeaderWord
    Instrs <- StackInstrs
    MaxBlocks = 4
    StackBelow = 1
    StackAbove = 2
INVARIANTS
    LiveMatchesPath
    BlocksAreWhereTheCpuGoes
CHECK_DEADLOCK FALSE
