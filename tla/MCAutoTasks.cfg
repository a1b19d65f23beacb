SPECIFICATION Spec
CONSTANTS
    inbox = inbox
    home = home
    t1 = t1
    t2 = t2
    m1 = m1
    c1 = c1
    c2 = c2
    k1 = k1
    k2 = k2
    none = none
    Projects = {inbox, home}
    Inbox = inbox
    AutoIds = {t1, t2}
    ManualIds = {m1}
    Candidates = {c1, c2}
    Keys = {k1, k2}
    None = none
    MaxBatch = 2
    MaxEvents = 2
SYMMETRY Symmetry
INVARIANTS
    TypeOK
    AutoTaskOwned
    CandidateProjectLive
    SubmitInv
PROPERTIES
    DuplicateJustified
    ImplementsLedger
