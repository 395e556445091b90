CONSTANTS
    cli = cli
    api = api
    NoId = NoId
    Torn = Torn
    Turns = {t1, t2, t3}
    Sessions = {s1}
    Providers = {cli}
    CLI = {cli}
    Communicators = {cli}
    Pool <- CLIOnly
    Class <- CLIClass
    Limits <- NoLimits
    TokenCounts = {0}
    Minute = 1
    Day = 2
    Cooldown = 1
    MaxClock = 0
    MaxHistory = 1
    MaxCrashes = 0
SPECIFICATION Spec
PROPERTY ResumesOwnConversation
SYMMETRY TurnSymmetry
CHECK_DEADLOCK FALSE
