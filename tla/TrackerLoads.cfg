SPECIFICATION Spec
CONSTANTS
    MaxAddr = 2
    Image = {0, 1}
    Sizes = {1, 2, 3}
    MaxStores = 4
    MaxMissed = 0
    Ops = {"store", "store_select", "store_unknown", "load", "load_select", "copy"}
INVARIANTS
    TypeOK
    BufferIsMemory
    LoadsAreRight
    SymbolicLoadsAreReal
CHECK_DEADLOCK FALSE
