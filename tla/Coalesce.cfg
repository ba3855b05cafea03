\* Three callers make three calls for one key; three clients have room for two
\* windows, and a request may reach the mutex a tick late.
CONSTANTS
    None = None
    Callers = {c1, c2, c3}
    Keys = {k1}
    Flights = {f1, f2, f3}
    MaxCalls = 3
    Clients = {1, 2, 3}  Limit = 2  Window = 2  Tracked = 2  Skew = 1  MaxTime = 4
SPECIFICATION FairParts
INVARIANTS SharedLoads WindowsSafe
PROPERTIES EveryCallerReturns
CHECK_DEADLOCK FALSE
