----------------------------- MODULE UdpServer -----------------------------
(***************************************************************************)
(* FHktReliableUdpServer: the connections it keeps, the groups its clients *)
(* joined, and the queue between its receiver thread (Run) and the game    *)
(* thread (Tick and the public API).                                       *)
(*                                                                         *)
(* The game thread runs one Tick after another. A Tick empties the queue   *)
(* (one action per dequeued packet here, because the receiver thread keeps *)
(* filling it meanwhile) and then makes the resend and timeout passes in   *)
(* one action, TickChecks.                                                 *)
(***************************************************************************)
EXTENDS UdpNetwork, Functions

VARIABLES
    Connections,     \* client endpoint -> FClientConnection
    Groups,          \* group -> endpoints of its members
    ReceivedPackets, \* packets read by the receiver thread
    \* History, read only by the bound on SendTo and by the properties:
    issued,          \* orders ever carried out for each endpoint
    sentOn,          \* Data packets sent on each endpoint's present connection
    got              \* numbers of the Data packets processed from each endpoint

serverVars == <<Connections, Groups, ReceivedPackets, issued, sentOn, got>>

----------------------------------------------------------------------------
(* State. *)

Members(g) == IF g \in DOMAIN Groups THEN Groups[g] ELSE {}

\* A call that sends a payload: SendTo (no group), or BroadcastToGroup.
Order == [msg : Payload, group : GroupId \cup {NoBody}, except : SUBSET Addr]

DirectOrder(p) == [msg |-> p, group |-> NoBody, except |-> {}]
GroupOrder(g, p, excluded) ==
    [msg |-> p, group |-> g, except |-> excluded \cap Members(g)]

\* The payloads sent to an endpoint.
Issued(a) == {o.msg : o \in issued[a]}

\* FClientConnection; idle is the time since LastReceiveTime.
Connection ==
    [SentSequence : SeqNo, Received : ReceiveState, idle : 0 .. ClientTimeout + 1,
     GroupIds : SUBSET GroupId, Pending : SUBSET PendingPacket]

NewConnection ==
    [SentSequence |-> 0, Received |-> NothingReceived, idle |-> 0,
     GroupIds |-> {}, Pending |-> {}]

Known == DOMAIN Connections

ServerTypeOK ==
    /\ Known \subseteq Addr
    /\ Connections \in [Known -> Connection]
    /\ DOMAIN Groups \subseteq GroupId
    /\ Groups \in [DOMAIN Groups -> SUBSET Addr]
    /\ ReceivedPackets \in Seq(Datagram)
    /\ issued \in [Addr -> SUBSET Order]
    /\ sentOn \in [Addr -> SUBSET Datagram]
    /\ got \in [Addr -> SUBSET SeqNo]

ServerInit ==
    /\ Connections = [a \in {} |-> NewConnection]
    /\ Groups = [g \in {} |-> {}]
    /\ ReceivedPackets = <<>>
    /\ issued = [a \in Addr |-> {}]
    /\ sentOn = [a \in Addr |-> {}]
    /\ got = [a \in Addr |-> {}]

\* TMap::Add and FindOrAdd.
Put(f, k, v) == [x \in DOMAIN f \cup {k} |-> IF x = k THEN v ELSE f[x]]

----------------------------------------------------------------------------
(* Pieces of the handlers. *)

SendAck(a, c) == Packet(a, "Ack", 0, c.Received, NoBody)

\* The packet SendTo makes of a payload.
DataFor(a, c, p) == Packet(a, "Data", Next32(c.SentSequence), c.Received, p)

\* Mutant of SendToAll: a broadcast is kept for one of its receivers only.
SendToAllKeepOne(targets, o) ==
    LET data(a) == DataFor(a, Connections[a], o.msg)
    IN  /\ Connections' =
               [a \in Known |->
                   IF a \in targets
                   THEN [Connections[a] EXCEPT
                            !.SentSequence = Next32(@),
                            !.Pending = IF a = CHOOSE x \in targets : TRUE
                                        THEN AddPending(@, data(a)) ELSE @]
                   ELSE Connections[a]]
        /\ SendToClients({data(a) : a \in targets})
        /\ issued' = [a \in Addr |->
                         IF a \in targets THEN issued[a] \cup {o} ELSE issued[a]]
        /\ sentOn' = [a \in Addr |->
                         IF a \in targets THEN sentOn[a] \cup {data(a)} ELSE sentOn[a]]

\* SendTo for every endpoint of targets, all connected, on order o: number the
\* packet, send it, and keep it until it is confirmed.
SendToAll(targets, o) ==
    LET data(a) == DataFor(a, Connections[a], o.msg)
    IN  /\ Connections' =
               [a \in Known |->
                   IF a \in targets
                   THEN [Connections[a] EXCEPT
                            !.SentSequence = Next32(@),
                            !.Pending = AddPending(@, data(a))]
                   ELSE Connections[a]]
        /\ SendToClients({data(a) : a \in targets})
        /\ issued' = [a \in Addr |->
                         IF a \in targets THEN issued[a] \cup {o} ELSE issued[a]]
        /\ sentOn' = [a \in Addr |->
                         IF a \in targets THEN sentOn[a] \cup {data(a)} ELSE sentOn[a]]

\* Mutant of DisconnectClients: the groups keep the clients that are gone.
DisconnectClientsOnly(conns, gone) ==
    /\ Connections' = Restrict(conns, DOMAIN conns \ gone)
    /\ UNCHANGED Groups

\* DisconnectClient for every endpoint of gone: the connection goes, the client
\* leaves the groups it lists, and a group that loses its last member goes.
DisconnectClients(conns, gone) ==
    LET left(g) == {a \in gone \cap DOMAIN conns : g \in conns[a].GroupIds}
        kept == {g \in DOMAIN Groups : left(g) = {} \/ Groups[g] \ left(g) # {}}
    IN  /\ Connections' = Restrict(conns, DOMAIN conns \ gone)
        /\ Groups' = [g \in kept |-> Groups[g] \ left(g)]

\* JoinGroup and LeaveGroup, given the connections at the time of the call.
Join(conns, a, g) ==
    IF a \in DOMAIN conns /\ g \notin conns[a].GroupIds
    THEN /\ Connections' = [conns EXCEPT ![a].GroupIds = @ \cup {g}]
         /\ Groups' = Put(Groups, g, Members(g) \cup {a})
    ELSE Connections' = conns /\ UNCHANGED Groups

\* Mutant of Leave: the group outlives its last member.
LeaveEmptyGroup(conns, a, g) ==
    IF a \in DOMAIN conns /\ g \in conns[a].GroupIds
    THEN /\ Connections' = [conns EXCEPT ![a].GroupIds = @ \ {g}]
         /\ Groups' = [Groups EXCEPT ![g] = @ \ {a}]
    ELSE Connections' = conns /\ UNCHANGED Groups

Leave(conns, a, g) ==
    IF a \in DOMAIN conns /\ g \in conns[a].GroupIds
    THEN /\ Connections' = [conns EXCEPT ![a].GroupIds = @ \ {g}]
         /\ Groups' = IF Members(g) \ {a} = {}
                      THEN Restrict(Groups, DOMAIN Groups \ {g})
                      ELSE [Groups EXCEPT ![g] = @ \ {a}]
    ELSE Connections' = conns /\ UNCHANGED Groups

----------------------------------------------------------------------------
(* The receiver thread. *)

\* Run: read one datagram from the socket into the queue.
Run(d) ==
    /\ Len(ReceivedPackets) < QueueCap
    /\ ArriveAtServer(d)
    /\ ReceivedPackets' = Append(ReceivedPackets, d)
    /\ UNCHANGED <<Connections, Groups, issued, sentOn, got>>

----------------------------------------------------------------------------
(* ProcessReceivedPackets: one iteration of its loop, by kind of packet. *)

Dequeue(d) ==
    /\ ReceivedPackets # <<>>
    /\ d = Head(ReceivedPackets)
    /\ ReceivedPackets' = Tail(ReceivedPackets)

\* A packet of a known client first refreshes LastReceiveTime and confirms
\* what its header acknowledges.
HeardFrom(c, d) == [c EXCEPT !.idle = 0, !.Pending = ProcessAck(@, d)]

Heard(d) == [Connections EXCEPT ![d.peer] = HeardFrom(@, d)]

\* Mutant of HandleNewConnection: a Connect always makes a new connection.
HandleAnyConnect(d) ==
    /\ Dequeue(d)
    /\ d.type = "Connect"
    /\ Connections' = Put(Connections, d.peer, NewConnection)
    /\ SendToClients({SendAck(d.peer, NewConnection)})
    /\ sentOn' = [sentOn EXCEPT ![d.peer] = {}]
    /\ UNCHANGED <<Groups, issued, got>>

\* HandleNewConnection.
HandleNewConnection(d) ==
    /\ Dequeue(d)
    /\ d.peer \notin Known
    /\ d.type = "Connect"
    /\ Connections' = Put(Connections, d.peer, NewConnection)
    /\ SendToClients({SendAck(d.peer, NewConnection)})
    /\ sentOn' = [sentOn EXCEPT ![d.peer] = {}]
    /\ UNCHANGED <<Groups, issued, got>>

\* Any other packet of an unknown client.
IgnoreUnknown(d) ==
    /\ Dequeue(d)
    /\ d.peer \notin Known
    /\ d.type # "Connect"
    /\ UNCHANGED <<Connections, Groups, issued, sentOn, got, netVars>>

\* The payload of a Data packet is dropped (a TODO in the code).
HandleData(d) ==
    /\ Dequeue(d)
    /\ d.peer \in Known
    /\ d.type = "Data"
    /\ \E r \in UpdateReceivedState(Connections[d.peer].Received, d.seq) :
          LET conns == [Heard(d) EXCEPT ![d.peer].Received = r]
          IN  /\ Connections' = conns
              /\ SendToClients({SendAck(d.peer, conns[d.peer])})
    /\ got' = [got EXCEPT ![d.peer] = @ \cup {d.seq}]
    /\ UNCHANGED <<Groups, issued, sentOn>>

HandleDisconnect(d) ==
    /\ Dequeue(d)
    /\ d.peer \in Known
    /\ d.type = "Disconnect"
    /\ DisconnectClients(Heard(d), {d.peer})
    /\ UNCHANGED <<issued, sentOn, got, netVars>>

\* A JoinGroup or LeaveGroup whose body is a group number. (The client of the
\* repository sends its LeaveGroup without one.)
HandleGroupRequest(d) ==
    /\ Dequeue(d)
    /\ d.peer \in Known
    /\ d.type \in {"JoinGroup", "LeaveGroup"}
    /\ d.body \in GroupId
    /\ IF d.type = "JoinGroup" THEN Join(Heard(d), d.peer, d.body)
                               ELSE Leave(Heard(d), d.peer, d.body)
    /\ UNCHANGED <<issued, sentOn, got, netVars>>

\* Acks, repeated Connects and malformed group requests.
HandleOther(d) ==
    /\ Dequeue(d)
    /\ d.peer \in Known
    /\ \/ d.type \in {"Ack", "Connect"}
       \/ d.type \in {"JoinGroup", "LeaveGroup"} /\ d.body \notin GroupId
    /\ Connections' = Heard(d)
    /\ UNCHANGED <<Groups, issued, sentOn, got, netVars>>

ProcessReceivedPacket(d) ==
    \/ HandleNewConnection(d)
    \/ IgnoreUnknown(d)
    \/ HandleData(d)
    \/ HandleDisconnect(d)
    \/ HandleGroupRequest(d)
    \/ HandleOther(d)

----------------------------------------------------------------------------
(* The rest of Tick. *)

\* CheckForResends: the clients it disconnects, and those CheckForTimeouts does.
GivenUp == {a \in Known : Exhausted(Connections[a].Pending) # {}}

\* Mutant of TimedOut: only clients with unconfirmed packets are timed out.
TimedOutIfPending ==
    {a \in Known : Connections[a].idle > ClientTimeout /\ Connections[a].Pending # {}}

TimedOut == {a \in Known : Connections[a].idle > ClientTimeout}

\* CheckForResends and CheckForTimeouts, once the queue has been seen empty.
TickChecks ==
    /\ ReceivedPackets = <<>>
    /\ \E again \in SUBSET UNION {Connections[a].Pending : a \in Known} :
          /\ \A a \in Known :
                again \cap Connections[a].Pending
                    \in ResendChoices(Connections[a].Pending)
          /\ SendToClients(Packets(again))
          /\ DisconnectClients(
                [a \in Known |->
                    [Connections[a] EXCEPT
                        !.Pending = ResendAll(@, again \cap @)]],
                GivenUp \cup TimedOut)
    /\ UNCHANGED <<ReceivedPackets, issued, sentOn, got>>

----------------------------------------------------------------------------
(* The public API, called from the game thread between Ticks. *)

\* Every payload goes at most once to an endpoint (a bound of the model, which
\* lets a delivery name the send it came from), and MaxServerSeq bounds the counter.
MaySend(a, p) ==
    /\ a \in Known
    /\ p \notin Issued(a)
    /\ Connections[a].SentSequence < MaxServerSeq

\* SendTo.
SendTo(a, p) ==
    /\ MaySend(a, p)
    /\ SendToAll({a}, DirectOrder(p))
    /\ UNCHANGED <<Groups, ReceivedPackets, got>>

\* Mutant of BroadcastToGroup: the loop returns once it has sent to one member.
BroadcastToFirst(g, p, excluded) ==
    /\ g \in DOMAIN Groups
    /\ \E a \in (Groups[g] \ excluded) \cap Known :
          MaySend(a, p) /\ SendToAll({a}, GroupOrder(g, p, excluded))
    /\ UNCHANGED <<Groups, ReceivedPackets, got>>

\* BroadcastToGroup, with at most one member excluded. Members that are not
\* connected are skipped by SendTo.
BroadcastToGroup(g, p, excluded) ==
    LET targets == (Groups[g] \ excluded) \cap Known
    IN  /\ g \in DOMAIN Groups
        /\ \A a \in targets : MaySend(a, p)
        /\ SendToAll(targets, GroupOrder(g, p, excluded))
        /\ UNCHANGED <<Groups, ReceivedPackets, got>>

JoinGroup(a, g) ==
    /\ Join(Connections, a, g)
    /\ UNCHANGED <<ReceivedPackets, issued, sentOn, got, netVars>>

LeaveGroup(a, g) ==
    /\ Leave(Connections, a, g)
    /\ UNCHANGED <<ReceivedPackets, issued, sentOn, got, netVars>>

----------------------------------------------------------------------------
\* Every clock of the server advances.
ServerAges ==
    /\ Connections' =
           [a \in Known |->
               [Connections[a] EXCEPT
                   !.idle = OlderBy1(@, ClientTimeout),
                   !.Pending = AgePending(@)]]
    /\ UNCHANGED <<Groups, ReceivedPackets, issued, sentOn, got>>
=============================================================================
