SPECIFICATION Spec

CONSTANTS
    i = i
    j = j
    t = t
    u = u
    l = l
    m = m
    Code = {i, j}
    Thread = {t, u}
    Loop = {l, m}
    Ops = {"lose", "reject", "ttl", "die"}
    MaxAttempts = 2
    None = None

INVARIANT TypeOK
INVARIANT ReceiptOrGroup
INVARIANT SecretFitsGroup
PROPERTY InstalledOnce
PROPERTY JoinCompletes
CHECK_DEADLOCK FALSE
