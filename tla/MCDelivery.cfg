SPECIFICATION LiveSpec
CONSTANTS
    Voices = {1}
    MaxVoiceAttempts = 2
    MaxVoiceFaults = 2
    LastUpdate = 3
    ForwardSignalCap = 1
    MaxTelegramFaults = 1
    None = none
    Keep = keep
    Devices = {d1}
    AppleDevices = {d1}
    ApnsTokens = {apns}
    FcmTokens = {}
    HasAPNs = TRUE
    HasFCM = TRUE
    Asks = {a1}
    Patches = {}
    Revokers = {}
    MaxJobs = 1
    BatchSize = 1
    MaxAttempts = 2
    MaxFaults = 1
    MaxStarts = 0
CHECK_DEADLOCK FALSE
PROPERTIES
    JobEnds VoiceEnds ForwardsEnd
