SPECIFICATION Spec
CONSTANTS
    Addrs = {1, 2}
    EntryAddr = 1
    Conds = {c1, c2}
    Unknown = Unknown
    None = None
    EntryRbp = EntryRbp
    FileWord <- HeaderWord
    Instrs <- BranchInstrs
    MaxBlocks = 5
    StackBelow = 1
    StackAbove = 1
INVARIANTS
    TypeOK
    ValuesAreOnPath
    ConditionsSplitOnce
    EachBlockOnce
    EveryBlockIsLifted
    DomTreeFollowsCfg
    BackupInv
PROPERTY
    TerminatedOnce
SYMMETRY CondSymmetry
CHECK_DEADLOCK FALSE
