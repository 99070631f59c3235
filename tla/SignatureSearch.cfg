SPECIFICATION SearchSpec
CONSTANTS
    MaxAddr = 15
    Files <- MCFiles
    Starts <- MCStarts
    ImageBase = 4
    SizeImage = 8
    RvaLimit = 8
    StackLow = 1
    StackHigh = 2
    StackPagesStart = 0
    StackPagesEnd = 4
INVARIANTS
    PolicyFollowsSections
    ConcreteBytesAreFound
    PagesAreFound
    SearchTypeOK
    LinksAreLongest
    SearchIsExact
    FlatFunctionsAreFound
CHECK_DEADLOCK FALSE
