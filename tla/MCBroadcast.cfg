\* Two clients, one group and one payload, sent to one client or to the group;
\* reordering, give-ups and timeouts. What is in flight arrives within a time unit.
CONSTANTS
    Addr = {a1, a2}
    GroupId = {g1}
    Payload = {p1}
    NoBody = NoBody
    SeqMod = 8
    Window = 2
    ResendTimeout = 0
    MaxRetries = 0
    ClientTimeout = 0
    MaxServerSeq = 1
    MaxClientSeq = 0
    QueueCap = 1
    Lossy = FALSE
    MaxCopies = 0
    MaxConnects = 1
    Prompt = TRUE
    ClientQuits = FALSE
SPECIFICATION Spec
INVARIANT GroupsConsistent NoSilentLoss
PROPERTY IsGroupMail
SYMMETRY Symmetry
