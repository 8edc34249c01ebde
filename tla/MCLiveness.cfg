\* A packet each way, over a network that loses and reorders, under fairness.
CONSTANTS
    Addr = {a1}
    GroupId = {}
    Payload = {p1}
    NoBody = NoBody
    SeqMod = 8
    Window = 2
    ResendTimeout = 0
    MaxRetries = 1
    ClientTimeout = 1
    MaxServerSeq = 1
    MaxClientSeq = 1
    QueueCap = 1
    Lossy = TRUE
    MaxCopies = 0
    MaxConnects = 1
    Prompt = FALSE
    ClientQuits = TRUE
SPECIFICATION FairSpec
PROPERTY PendingResolved SilentClientReaped
