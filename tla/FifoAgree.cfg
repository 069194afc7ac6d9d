SPECIFICATION FifoSpec

CONSTANTS
    a = a
    b = b
    c = c
    Device = {a, b, c}
    Creator = a
    NoOne = NoOne
    Cap = 3
    AssignableRoles = {"Observer"}
    MaxUses = 2
    Ops = {"invite", "expire", "remove", "promote"}
    MaxAttempts = 2
    MaxVersion = 7
    MaxSends = 0

CONSTRAINT RetryOrChange
INVARIANT SettledMembersAgree
PROPERTY JoinAnswered
CHECK_DEADLOCK FALSE
