\* A client that connects twice sends two packets and is sent one: the network loses,
\* reorders and copies; 2^32 scaled to 8, the 32-bit window to 2.
CONSTANTS
    Addr = {a1}
    GroupId = {}
    Payload = {p1}
    NoBody = NoBody
    SeqMod = 8
    Window = 2
    ResendTimeout = 0
    MaxRetries = 0
    ClientTimeout = 0
    MaxServerSeq = 1
    MaxClientSeq = 2
    QueueCap = 1
    Lossy = TRUE
    MaxCopies = 1
    MaxConnects = 2
    Prompt = FALSE
    ClientQuits = TRUE
SPECIFICATION Spec
INVARIANT TypeOK NoSilentLoss NeverConfirmed
PROPERTY IsGroupMail
