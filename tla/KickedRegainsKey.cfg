SPECIFICATION Spec

CONSTANTS
    a = a
    b = b
    c = c
    Device = {a, b, c}
    Creator = a
    NoOne = NoOne
    Cap = 3
    AssignableRoles = {"Moderator"}
    MaxUses = 2
    Ops = {"invite", "remove", "promote"}
    MaxAttempts = 1
    MaxVersion = 8
    MaxSends = 0

CONSTRAINT ShortHistory

SYMMETRY Joiners
INVARIANT KickedMemberStaysOut
CHECK_DEADLOCK FALSE
