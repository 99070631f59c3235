SPECIFICATION Spec
CONSTANTS
    ByteBits = 2
    LongBits = 3
    EnumLimit = 3
    Operands <- MCOperands
INVARIANT
    OrKeepsValue
CHECK_DEADLOCK FALSE
