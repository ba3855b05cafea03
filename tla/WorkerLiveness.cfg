\* A task and an unreadable one whose consumer may be replaced; a bulk caller and
\* an urgent one; two bulk rows the model refuses and an urgent one it hangs on.
CONSTANTS
    Parts = {"lane", "pool", "batch"}
    None = None  w1 = w1  w2 = w2  e1 = e1  a1 = a1  a2 = a2  a3 = a3
    Tasks = {1, 2}  Workers = {w1}  Keys = {"a"}  Corr <- SameKey  Invalid = {2}
    Capacity = 1  MaxResults = 1  MaxDeliver = 2
    MaxFaults = 1  MaxDrains = 1  MaxReplaced = 1
    Engines = {e1}  Urgent = {a2}  Callers = {a1, a2}  MaxClients = 5  BreakerDeaths = 2  MaxInspect = 1  PoolFaults = 2
    Subs = {"bulk", "urgent"}  Bad = {"bulk"}  Hanging = {"urgent"}  BatchFaults = 2
SPECIFICATION FairParts
PROPERTIES WorkSettles
CHECK_DEADLOCK FALSE
