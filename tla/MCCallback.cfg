\* One subscription, from the call to the end of its stream.
CONSTANTS
    p1 = p1
    Call = {c1}
    Request = {r1}
    Client = {p1}
    Owner <- MCOwner
    GroupId = {1}
    Worker = {w1}
    NoRequest = NoRequest
    Empty = Empty
    MayBreak = {c1}
    Leaving = {p1}
    ServerEnds = TRUE
SPECIFICATION Spec
CHECK_DEADLOCK FALSE
INVARIANT CallbackOnRead
