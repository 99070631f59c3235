SPECIFICATION Spec
CONSTANTS
    MaxAddr = 2
    Image = {}
    Sizes = {1, 2}
    MaxStores = 2
    MaxMissed = 0
    Ops = {"store", "load"}
INVARIANT
    KnownStoresSuffice
CHECK_DEADLOCK FALSE
