SPECIFICATION Spec
SYMMETRY Symmetry
CONSTANTS
    Voices = {1, 2}
    MaxVoiceAttempts = 2
    MaxVoiceFaults = 2
    None = none
    Keep = keep
    Devices = {d1}
    AppleDevices = {d1}
    ApnsTokens = {apns}
    FcmTokens = {}
    HasAPNs = TRUE
    HasFCM = TRUE
    Asks = {a1}
    Patches = {patch1, patch2}
    Revokers = {revoker1}
    MaxJobs = 1
    BatchSize = 1
    MaxAttempts = 1
    MaxFaults = 1
    MaxStarts = 3
CHECK_DEADLOCK FALSE
INVARIANTS
    RelayInStep
    EndIsSignalled SaidOncePerRun AudioKept
