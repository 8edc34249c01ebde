\* One subscription, two behaviors and two workers; the connection may break and both
\* objects are destroyed. Calls and requests are used once, so an instance comes to rest.
CONSTANTS
    p1 = p1
    Call = {c1}
    Request = {r1,r2}
    Client = {p1}
    Owner <- MCOwner
    GroupId <- MCGroups
    Worker = {w1,w2}
    NoRequest = NoRequest
    Empty = Empty
    MayBreak = {c1}
    Leaving = {p1}
    ServerEnds = TRUE
SPECIFICATION Spec
SYMMETRY Symmetry
CHECK_DEADLOCK FALSE
INVARIANT RpcTypeOK WriterBusy RegisteredAreLive DanglingElsewhere AnsweredArePosted CausalOrder IdsRepeatOnlyByRace
PROPERTY IsFeed
