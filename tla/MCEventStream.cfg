SPECIFICATION FairSpec
CONSTANTS
    a = a
    b = b
    Streams = {a}
    PageSize = 2
    BufferSize = 1
    MaxEvents = 4
    MaxDrops = 2
    KeptInUse = TRUE
INVARIANTS
    TypeOK
    GapFree
    SettledIsCurrent
PROPERTIES
    EventReached
