SPECIFICATION Spec

CONSTANTS
    c = c
    d = d
    n = n
    Caller = {c, d}
    Name = {n}
    MaxDraws = 7
    MaxDeaths = 0
    Overlap = FALSE

INVARIANT KeysReadable
CHECK_DEADLOCK FALSE
