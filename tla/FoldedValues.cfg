SPECIFICATION Spec
CONSTANTS
    ByteBits = 2
    LongBits = 3
    EnumLimit = 3
    Operands <- MCOperands
INVARIANTS
    TypeOK
    FoldsKeepValues
    PossibleValuesAreComplete
CHECK_DEADLOCK FALSE
