CONSTANTS
    Actions = {"like", "unlike", "create", "comment"}
    Executors = {e1, e2}  NoLease = NoLease
    MaxRetries = 2  MaxTaps = 3  MaxErrors = 2  MaxMishaps = 1
    Keys = {k1, k2}  Writers = {w1, w2}
    Base = 1  ProbeHold = 2  MaxPause = 2  EscalationUsers = 1
    MaxRefusals = 1  MaxFaults = 1
SPECIFICATION FairSpec
INVARIANTS PausesSafe
PROPERTIES SendsSafe WishesSafe WritesSettle PausesLifted
CHECK_DEADLOCK FALSE
