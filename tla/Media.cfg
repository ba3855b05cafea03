\* Two uploads of one file; three bodies of one chunk against a limit of two; plays
\* on one node, or one on each of two nodes with a storage that loses the object.
CONSTANTS
    Parts = {"storage", "quota", "copies", "losing"}
    None = None  u1 = u1  u2 = u2  u3 = u3  n1 = n1  n2 = n2  p1 = p1  p2 = p2  p3 = p3
    Uploads = {u1, u2}
    Files = {"f"}
    FileOf <- OneFile
    Length <- Lengths
    Epsilon = 1
    Local = FALSE
    BatchSize = 2
    MaxTranscodes = 1
    Writers = 2
    MaxAttempts = 2
    StorageFaults = 2
    Bodies = {u1, u2, u3}
    Limit = 2
    Width = 8
    MaxChunks = 1
    MaxRescans = 1
    QuotaFaults = 1
    Nodes = {n1, n2}
    Requests = {p1, p2, p3}
    NodeOf <- TwoNodes
    MaxRank = 2
    FailuresToOpen = 2
    MaxEvents = 1
    CopyFaults = 2
    MaxLosses = 1
SPECIFICATION FairSpec
INVARIANTS StorageSafe CopiesSafe
PROPERTIES MediaSettles
CHECK_DEADLOCK FALSE
