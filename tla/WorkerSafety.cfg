\* Two tasks of one key and two workers; two bulk callers and an urgent one;
\* two bulk rows, an odd one the model refuses and an urgent one.
CONSTANTS
    Parts = {"lane", "pool", "batch"}
    None = None  w1 = w1  w2 = w2  e1 = e1  a1 = a1  a2 = a2  a3 = a3
    Tasks = {1, 2}  Workers = {w1, w2}  Keys = {"a"}  Corr <- SameKey  Invalid = {}
    Capacity = 2  MaxResults = 2  MaxDeliver = 2
    MaxFaults = 1  MaxDrains = 0  MaxReplaced = 0
    Engines = {e1}  Urgent = {a2}  Callers = {a1, a2, a3}  MaxClients = 4  BreakerDeaths = 2  MaxInspect = 1  PoolFaults = 2
    Subs = {"bulk", "odd", "urgent"}  Bad = {"odd"}  Hanging = {}  BatchFaults = 1
SPECIFICATION PartSpec
SYMMETRY Interchange
INVARIANTS OutcomeKept DeliveriesKept OneOwnerPerKey PoolSafe BatchSafe
CHECK_DEADLOCK FALSE
