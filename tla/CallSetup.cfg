SPECIFICATION Spec

CONSTANTS
    call1 = call1
    call2 = call2
    call3 = call3
    a = a
    b = b
    t = t
    u = u
    None = None
    Call = {call1, call2, call3}
    Id = {a, b}
    Task = {t, u}
    Caller = {t, u}
    Candidate = {}
    MaxConcurrent = 1
    MaxParticipants = 2
    Ops = {"signal", "drop", "accept"}

SYMMETRY Symmetry
INVARIANT OverrunBounded
PROPERTY PhasesSpec
CHECK_DEADLOCK FALSE
