CONSTANTS
    cli = cli
    api = api
    NoId = NoId
    Torn = Torn
    Turns = {t1, t2}
    Sessions = {s1}
    Providers = {cli, api}
    CLI = {cli}
    Communicators = {api}
    Pool <- PoolOrder
    Class <- PoolClass
    Limits <- PoolLimits
    TokenCounts = {1}
    Minute = 1
    Day = 2
    Cooldown = 1
    MaxClock = 1
    MaxHistory = 1
    MaxCrashes = 1
SPECIFICATION Spec
INVARIANTS OnlyRecordingHangs  SpeakerSound
SYMMETRY TurnSymmetry
CHECK_DEADLOCK FALSE
