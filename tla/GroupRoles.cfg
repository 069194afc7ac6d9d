SPECIFICATION Spec

CONSTANTS
    a = a
    b = b
    c = c
    d = d
    Device = {a, b, c, d}
    Creator = a
    NoOne = NoOne
    Cap = 3
    AssignableRoles = {"Admin"}
    MaxUses = 2
    Ops = {"invite", "promote", "transfer"}
    MaxAttempts = 1
    MaxVersion = 6
    MaxSends = 0

SYMMETRY Joiners
INVARIANT OneOwner
INVARIANT CapRespected
CHECK_DEADLOCK FALSE
