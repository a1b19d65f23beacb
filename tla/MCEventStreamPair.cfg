SPECIFICATION Spec
CONSTANTS
    a = a
    b = b
    Streams = {a, b}
    PageSize = 1
    BufferSize = 1
    MaxEvents = 2
    MaxDrops = 1
    KeptInUse = TRUE
SYMMETRY Symmetry
INVARIANTS
    GapFree
    SettledIsCurrent
