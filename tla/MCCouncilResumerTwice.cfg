CONSTANTS
    Clients = {r1, r2}
    HolderIds = {platform}
    HolderOf <- SameHolder
    Free = free
    Tasks = {a}
    NoTask = none
    MaxTerms = 3
    Faults = {}
SPECIFICATION Spec
INVARIANT NoDoubleDelivery
