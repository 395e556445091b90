CONSTANTS
    Clients = {r1, r2}
    HolderIds = {platform}
    HolderOf <- SameHolder
    Free = free
    Tasks = {a, b}
    NoTask = none
    MaxTerms = 2
    Faults = {"expiry", "store", "provider", "crash"}
SPECIFICATION FairSpec
INVARIANTS OneWriter NoTaskLost
PROPERTIES OncePerTerm 
