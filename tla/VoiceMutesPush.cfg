SPECIFICATION VoiceSpec
CONSTANTS
    Voices = {1, 2}
    MaxVoiceAttempts = 2
    MaxVoiceFaults = 1
CHECK_DEADLOCK FALSE
INVARIANT PushedWithoutStream
