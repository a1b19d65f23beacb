SPECIFICATION Spec
CONSTANTS
    Pairs = {q1, q2}
    Polls = {p1, p2}
    Confirms = {c1, c2}
    Pages = {g1, g2}
    Nothing = nothing
    Keys = {k1, k2}
    Requests = {r1, r2, r3}
    NoRequest = noRequest
    MaxEntries = 1
    Instances = {i1, i2}
    Secrets = {s1, s2}
    NoSecret = noSecret
    Calls = {call}
    MaxInstances = 2
    Projects = {inbox, project1}
    Inbox = inbox
    Names = {n1, n2}
    Channels = {channel}
    Tasks = {t1, t2}
    Users = {u1, u2}
    NoProject = noProject
    MaxAliases = 1
    MaxNumber = 2
    MaxUid = 3
    MaxValidity = 2
    MaxGuardUpdates = 3
    MaxWelcomes = 2
    MaxGuardFaults = 2
    Voices = {1}
    MaxVoiceAttempts = 2
    MaxVoiceFaults = 1
    LastUpdate = 3
    ForwardSignalCap = 1
    MaxTelegramFaults = 2
    Candidates = {1, 2}
    MaxQuestions = 3
    MaxPresses = 2
    MaxQuestionFaults = 2
    None = none
    Keep = keep
    Devices = {d1}
    AppleDevices = {d1}
    ApnsTokens = {apns}
    FcmTokens = {}
    HasAPNs = TRUE
    HasFCM = TRUE
    Asks = {a1, a2}
    Patches = {patch1}
    Revokers = {revoker1}
    MaxJobs = 1
    BatchSize = 1
    MaxAttempts = 2
    MaxFaults = 1
    MaxStarts = 1
CHECK_DEADLOCK FALSE
INVARIANTS
    TypeOK
    OneDevicePerPairing WaitingPollWillHear TokenTakenOnce
    SecondRunExplained WaitersReleased
    InstancesHaveRows
    CacheStaleOnlyBriefly ReferencesLive OneTaskPerReference
    MailNotSkipped
    LeftOnlyUnconfirmed RestartsAdmitNobody
    GroupProcessed ForwardKept
    OutcomeShown AskedOnce
    DeliveredWasAccepted RepeatExplained
PROPERTIES
    SettledOnce
