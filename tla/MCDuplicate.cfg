\* The server sends one packet to one client over a network that neither loses, copies nor delays.
CONSTANTS
    Addr = {a1}
    GroupId = {}
    Payload = {p1}
    NoBody = NoBody
    SeqMod = 8
    Window = 2
    ResendTimeout = 0
    MaxRetries = 1
    ClientTimeout = 4
    MaxServerSeq = 1
    MaxClientSeq = 0
    QueueCap = 1
    Lossy = FALSE
    MaxCopies = 0
    MaxConnects = 1
    Prompt = TRUE
    ClientQuits = FALSE
SPECIFICATION Spec
PROPERTY NoDuplicateDelivery
