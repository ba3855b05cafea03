CONSTANTS
    Parts = {"queue", "ingress", "lane"}
    k1 = k1  c1 = c1  c2 = c2  s1 = s1  s2 = s2
    Keys <- OneKey
    Paged <- OneKey
    Droppable <- OneKey
    Commands = {c1, c2}
    KeyOf <- AllForK1
    MaxAttempts <- Tries
    Slots = {s1, s2}
    Budget = 2
    NoRow = NoRow  NoLease = NoLease  NoRun = NoRun
    Invalid = {c2}
    Tasks = {t1, t2}
    MaxAge = 2
    ReceiptAge = 3
    Hold = 1
    Horizon = 4
    Faults = 2
    NoTask = NoTask  Never = Never
    Concurrency = 3
    Ceiling = 3
    Batch = 2
    Sweeps = 2
    Moves = 2
SPECIFICATION FairParts
INVARIANTS HolderRunsNewest FreeRowClaimable AcceptedOnce NothingLost LaneInv
PROPERTIES StaleRunHarmless ImplementsMailbox GrantsKeepShares JobsSettle
CHECK_DEADLOCK FALSE
