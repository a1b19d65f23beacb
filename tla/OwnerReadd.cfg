SPECIFICATION GuardSpec
CONSTANTS
    MaxGuardUpdates = 4
    MaxWelcomes = 2
    MaxGuardFaults = 2
CHECK_DEADLOCK FALSE
INVARIANT OwnerAddedStays
