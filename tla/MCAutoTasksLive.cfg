SPECIFICATION FairSpec
CONSTANTS
    inbox = inbox
    home = home
    t1 = t1
    t2 = t2
    m1 = m1
    c1 = c1
    c2 = c2
    k1 = k1
    k2 = k2
    none = none
    Projects = {inbox, home}
    Inbox = inbox
    AutoIds = {t1}
    ManualIds = {m1}
    Candidates = {c1}
    Keys = {k1}
    None = none
    MaxBatch = 1
    MaxEvents = 3
PROPERTIES
    SubmitTerminates
