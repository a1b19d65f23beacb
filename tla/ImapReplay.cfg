INIT ImapInit
NEXT ImapNext
CONSTANTS
    MaxUid = 3
    MaxValidity = 2
CHECK_DEADLOCK FALSE
INVARIANT ExistingSkipped
