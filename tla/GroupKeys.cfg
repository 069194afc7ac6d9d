SPECIFICATION Spec

CONSTANTS
    a = a
    b = b
    c = c
    Device = {a, b, c}
    Creator = a
    NoOne = NoOne
    Cap = 3
    AssignableRoles = {"Moderator"}
    MaxUses = 2
    Ops = {"invite", "remove", "promote", "send"}
    MaxAttempts = 1
    MaxVersion = 6
    MaxSends = 1

SYMMETRY Joiners
INVARIANT TypeOK
INVARIANT RotatedOutCannotRead
INVARIANT NoFalseReceipts
PROPERTY RemovedStaysRemoved
CHECK_DEADLOCK FALSE
