SPECIFICATION FairSpec

CONSTANTS
    call1 = call1
    a = a
    t = t
    u = u
    x = x
    y = y
    None = None
    Call = {call1}
    Id = {a}
    Task = {t, u}
    Caller = {t, u}
    Candidate = {x, y}
    MaxConcurrent = 1
    MaxParticipants = 2
    Ops = {"accept", "reject", "end", "deaf", "media", "sdp"}

CONSTRAINT OneAspect
INVARIANT TypeOK
INVARIANT MutedIsSilent
INVARIANT CandidatesArrive
PROPERTY PhasesSpec
PROPERTY RingingEnds
CHECK_DEADLOCK FALSE
