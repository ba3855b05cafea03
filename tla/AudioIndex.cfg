CONSTANTS
    h1 = h1  h2 = h2
    Handlers = {h1, h2}
    MaxGen = 2
    MaxAttempts = 2
    AttemptCap = 5
    MaxOks = 2
    Budgets <- MCBudgets
    Failures = {"lost", "transient", "storage", "forbidden", "permanent"}
SPECIFICATION FairSpec
PROPERTIES IndexSafe EveryUploadSettles
CHECK_DEADLOCK FALSE
