CONSTANTS
    Events = {e1, e2}
    Messages = {m1}
    MaxCrashes = 1
    chat = chat
    mail = mail
    pager = pager
    Senders = {s1, s2}
    Protos = {chat, mail, pager}
    Primaries = {chat, pager}
    Configured = {chat, mail}
    Order <- Fallbacks
    MaxDeaths = 1
    a = a
    b = b
    c = c
    Roster <- RosterABC
    Shows <- ShowsABC
    Window = 2
    RowCap = 2
    SessionCap = 1
    MinEvidence = 2
    SlowSamples = 1
    Steady = {b, c}
    gpu1 = gpu1
    gpu2 = gpu2
    NoPool = NoPool
    PoolOrder <- PoolsInOrder
    Polled = {gpu1}
    ChainOrder <- ChainABC
    PoolOf <- PoolsABC
    Believed = 3
    Types = {ollama, openai}
    Checked = {openai}
    Known = {ollama, openai}
    AdapterNames = {discord}
    MaxConfigEdits = 1
    MaxSignals = 1
SPECIFICATION ServiceSpec
INVARIANTS WakeHeard OpenAtThreshold
PROPERTIES QueueServed HealthyIsUsed Recovers ForgivenInTime IdlePoolUsed 
CHECK_DEADLOCK FALSE
