SPECIFICATION Spec

CONSTANTS
    c = c
    d = d
    k = k
    l = l
    Caller = {c, d}
    Name = {k, l}
    MaxDraws = 6
    MaxDeaths = 2
    Overlap = FALSE

SYMMETRY Symmetry
CONSTRAINT LastLaunchAlone
INVARIANT TypeOK
INVARIANT KeysSurvive
INVARIANT ResetErases
CHECK_DEADLOCK FALSE
