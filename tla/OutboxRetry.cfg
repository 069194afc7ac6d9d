SPECIFICATION Spec

CONSTANTS
    m = m
    p = p
    q = q
    Msg = {m}
    Peer = {p, q}
    MaxAttempts = 5
    InitialDelay = 1
    MaxAge = 10
    MaxKills = 1

INVARIANT TypeOK
INVARIANT RetryBudget
PROPERTY NoRetryOfAcked
PROPERTY AckersKept
PROPERTY RetriedUntilDone
CHECK_DEADLOCK FALSE
