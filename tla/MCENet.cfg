\* The place of every host is the place of the one before, the case in which a
\* pointer kept too long means another client; two peers and two groups, each
\* pointer used three times; callbacks stop and start the manager. A null host
\* ends the program.
CONSTANTS
    Block = {b1}
    MaxClients = 2
    Group = {g1, g2}
    NullPeer = NullPeer
    MaxLife = 3
    StopsInside = TRUE
SPECIFICATION Spec
CHECK_DEADLOCK FALSE
INVARIANT ENetTypeOK GroupsMatchClients ServerPeerIsConnection
