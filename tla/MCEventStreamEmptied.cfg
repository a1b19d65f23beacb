SPECIFICATION Spec
CONSTANTS
    a = a
    b = b
    Streams = {a}
    PageSize = 2
    BufferSize = 1
    MaxEvents = 2
    MaxDrops = 1
    KeptInUse = FALSE
INVARIANTS
    GapFree
