\* Two refreshers, one login, SoundCloud refusing a good token once at most;
\* two calls of the token endpoint that overlap, two lost answers or failures.
CONSTANTS
    Refreshers = {e1, e2}
    MaxPairs = 5
    Logins = {1}
    Uses = 2
    Errors = 2
    Mishaps = 1
    Patience = 3
    NoLease = NoLease  Idle = Idle
    c1 = c1  c2 = c2  Calls = {c1, c2}
    MaxTokens = 6
    GrantFaults = 2
SPECIFICATION FairParts
INVARIANTS AskedForLoginWithCause TokenKept
PROPERTIES ReplacedByItsOwn ExpiredIsSettled GrantSafe
CHECK_DEADLOCK FALSE
