\* The same with one worker and one group, under fairness.
CONSTANTS
    p1 = p1
    Call = {c1}
    Request = {r1,r2}
    Client = {p1}
    Owner <- MCOwner
    GroupId = {1}
    Worker = {w1}
    NoRequest = NoRequest
    Empty = Empty
    MayBreak = {c1}
    Leaving = {p1}
    ServerEnds = TRUE
SPECIFICATION FairSpec
CHECK_DEADLOCK FALSE
PROPERTY PostedArrive RequestsAnswered HeldOnlyByStreams
