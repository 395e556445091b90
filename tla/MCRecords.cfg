CONSTANTS
    MaxPosts = 4
    PageSize = 2
    TextOf <- Texts
    Ignored = {2}
    Slashed = {4}
    OnlyUser = TRUE
    MaxStarts = 2
    d1 = d1
    d2 = d2
    law = law
    tax = tax
    nobody = nobody
    Dispatches = {d1, d2}
    SessionOf <- OneSession
    Specialists = {law, tax, nobody}
    Loadable = {law, tax}
    Defaults = {law}
    MaxSpecialists = 2
    WindowSize = 1
    Figure <- Figures
    MaxRestarts = 1
    TornStore = TornStore
    Tools = {plain, risky}
    Confirmed = {risky}
    Guarded = TRUE
    Confirming = TRUE
    MaxIters = 3
    MaxCalls = 2
    CacheTail = 2
    MaxTexts = 5
    MaxEvents = 2
    MaxChanges = 1
    job = job
    Jobs = {job}
    DueAt <- Due
    MaxClock = 5
    HungAfter = 1
    MaxAge <- Ages
    Never = Never
    Units = {unit}
    MaxTurnCrashes = 1
    nano = nano
    tested = tested
    Providers = {nano, tested}
    Domains <- AllDomains
    MinSamples = 2
    Confirm = 2
    Intel <- Findings
    Baseline <- NoBaseline
    Missing = Missing
    Torn = Torn
    NoMap = NoMap
    Slots = {g1, g2}
    Judges <- JudgeOrder
    Nano = {nano}
    Past <- GradedBefore
    Local = nano
    MaxInflight = 1
    RoleMinSamples = 1
    MaxVerdicts = 1
    MaxCouncils = 1
    MaxKills = 1
    Channels = {dev, chat}
    NoTier = NoTier
    TornPrefs = TornPrefs
    MaxDecisions = 1
    MaxCommands = 2
    MaxPrefEdits = 1
    MaxEnds = 1
    dev = dev
    chat = chat
    note = note
    Notes = {note}
    Gone = Gone
    Idle = Idle
    MaxChunks = 2
    MaxRevisions = 2
    MaxIngests = 2
    MaxHalts = 1
    llama = llama
    qwen = qwen
    gemma = gemma
    Models = {llama}
    Candidates = {qwen, gemma}
    Current = gemma
    NoRun = NoRun
    NoCandidate = NoCandidate
    CutShort = CutShort
    MaxVersions = 2
    MaxPeriods = 2
    MaxChecks = 3
    MaxCuts = 1
    cpp = cpp
    csharp = csharp
    Queries = {cpp, csharp}
    Directory <- OneDirectory
    Ttl = 1
    Askers = {council, member}
    council = council
    member = member
    NoFile = NoFile
    CutFile = CutFile
    Deferred = Deferred
    Failure = Failure
    MaxResearchDays = 2
    MaxAsks = 3
    MaxDeaths = 1
    f1 = f1
    f2 = f2
    Flights = {f1, f2}
    ProcessOf <- TwoProcesses
    MaxFlightDays = 2
    MaxTries = 1
    MaxFlightDeaths = 1
    Retention = 0
    Window = 2
    groq = groq
    groq_2 = groq_2
    Metered = {groq, groq_2}
    TypeOf <- SameType
    Limits <- Allowances
    Recorders = {service, monitor}
    service = service
    monitor = monitor
    NotReading = NotReading
    UsageCut = UsageCut
    DayLength = 2
    MaxTime = 3
    MaxMetered = 2
    MaxRecorded = 2
    MaxUsageDeaths = 1
    findingA = findingA
    findingB = findingB
    speed = speed
    Labels = {findingA, findingB}
    Topics = {speed}
    Lines <- Sayable
    Quoted <- LookedUp
    MaxLines <- SkepticSaysMore
    MaxItems = 1
    NoSubject = NoSubject
    Unanswered = Unanswered
    Unavailable = Unavailable
    MaxInstalls = 1
    MaxBoots = 2
    MaxReleases = 2
    gemini = gemini
    claude_code = claude_code
    ollama = ollama
    Types = {gemini, claude_code, ollama}
    Access <- Modes
    Chats = {mattermost}
    NoKey = NoKey
    None = None
    MaxPicks = 2
    MaxWizards = 2
SPECIFICATION RecordsSpec
SYMMETRY SlotSymmetry
INVARIANTS MessagesKept    ServedFresh LogTruthful UsageExact ConflictsShown 
PROPERTIES    OutcomesStand ServiceReady
CHECK_DEADLOCK FALSE
