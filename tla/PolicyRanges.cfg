SPECIFICATION FairSpec
CONSTANT MaxAddr = 3
INVARIANTS
    TypeOK
    ScanIsSound
    NoIsRight
PROPERTIES
    ImplementsAddressModes
    QueriesAreAnswered
