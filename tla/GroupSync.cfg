SPECIFICATION SyncSpec

CONSTANTS
    a = a
    b = b
    c = c
    Device = {a, b, c}
    Creator = a
    Founders = {a, b}
    NoOne = NoOne
    Cap = 3
    AssignableRoles = {"Admin"}
    MaxUses = 1
    Ops = {"invite", "remove", "transfer", "leave", "settings", "sync"}
    MaxAttempts = 1
    MaxVersion = 6
    MaxSends = 0
    MaxRequests = 1
    MaxResponses = 1

SYMMETRY Symmetry
INVARIANT SyncTypeOK
INVARIANT SyncIdempotent
INVARIANT NeverOwnerless
PROPERTY SyncRestoresChat
CHECK_DEADLOCK FALSE
