SPECIFICATION FairSpec
CONSTANTS
    Procs = {p1}
    Topics = {t1}
    Served = {t1}
    Ids = {1, 2}
    MaxStamp = 1
    Batch = 1
    MaxPages = 2
    MaxAttempts = 2
    MaxAborts = 1
INVARIANTS NoMessageLost RetryBudgetHonoured
PROPERTIES ImplementsOutbox EventuallyHandled
