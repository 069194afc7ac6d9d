SPECIFICATION Spec

CONSTANTS
    a = a
    b = b
    c = c
    Device = {a, b, c}
    Creator = a
    NoOne = NoOne
    Cap = 3
    AssignableRoles = {"Admin", "Member"}
    MaxUses = 1
    Ops = {"invite", "expire", "ttl", "restart"}
    MaxAttempts = 2
    MaxVersion = 9
    MaxSends = 0

SYMMETRY Joiners
INVARIANT InviteLimit
INVARIANT RosterWasAdmitted
CHECK_DEADLOCK FALSE
