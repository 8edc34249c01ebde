----------------------- MODULE ReliableUdpMailProofs -----------------------
(***************************************************************************)
(* What ReliableUdp promises the games, for every value of the constants.  *)
(* First GroupsConsistent: the GroupIds of the connections and the member  *)
(* maps of the groups always agree. Then IsGroupMail: server, clients and  *)
(* network implement GroupMail, as long as no counter comes within Window  *)
(* of SeqMod (NoWrap).                                                     *)
(***************************************************************************)
EXTENDS ReliableUdpLossProofs

----------------------------------------------------------------------------
(* The groups.                                                             *)

\* GroupsConsistent, of connections C and groups G in the middle of a handler.
Agree(C, G) ==
    /\ \A a \in Addr, g \in GroupId :
          (g \in DOMAIN G /\ a \in G[g]) <=> (a \in DOMAIN C /\ g \in C[a].GroupIds)
    /\ \A g \in DOMAIN G : G[g] # {}

LEMMA AgreeIsConsistent == GroupsConsistent <=> Agree(Connections, Groups)
BY DEF GroupsConsistent, Agree, Members, Known

LEMMA AgreeIsConsistentNext == GroupsConsistent' <=> Agree(Connections', Groups')
BY DEF GroupsConsistent, Agree, Members, Known

\* Only GroupIds matter.
LEMMA SameGroupIds ==
    ASSUME NEW C, NEW D, NEW G, Agree(C, G), DOMAIN D = DOMAIN C,
           \A a \in DOMAIN C : D[a].GroupIds = C[a].GroupIds
    PROVE  Agree(D, G)
BY DEF Agree

LEMMA HeardAgrees ==
    ASSUME TypeOK, Agree(Connections, Groups), NEW d, d.peer \in Known
    PROVE  /\ Agree(Heard(d), Groups)
           /\ ConnsTyped(Heard(d)) /\ GroupsTyped(Groups) /\ DOMAIN Heard(d) = Known
<1>1. ConnsTyped(Connections) /\ GroupsTyped(Groups)
  BY DEF TypeOK, ServerTypeOK, ConnsTyped, GroupsTyped, Known
<1>2. Connections[d.peer] \in Connection
  BY <1>1 DEF ConnsTyped, Known
<1>3. \A a \in Known : Heard(d)[a].GroupIds = Connections[a].GroupIds
  BY <1>1, <1>2, HeardTyped, HeardFromTyped
<1>4. ConnsTyped(Heard(d)) /\ DOMAIN Heard(d) = Known
  BY <1>1, HeardTyped
<1> QED
  BY <1>1, <1>3, <1>4, SameGroupIds DEF Known

LEMMA JoinAgrees ==
    ASSUME NEW C, ConnsTyped(C), GroupsTyped(Groups), Agree(C, Groups),
           NEW a \in Addr, NEW g \in GroupId, Join(C, a, g)
    PROVE  Agree(Connections', Groups')
<1>1. CASE a \in DOMAIN C /\ g \notin C[a].GroupIds
  <2>1. /\ Connections' = [C EXCEPT ![a].GroupIds = @ \cup {g}]
        /\ Groups' = Put(Groups, g, Members(g) \cup {a})
    BY <1>1 DEF Join
  <2>2. C[a] \in Connection
    BY <1>1 DEF ConnsTyped
  <2>3. /\ DOMAIN Connections' = DOMAIN C
        /\ \A b \in DOMAIN C : Connections'[b].GroupIds =
              IF b = a THEN C[a].GroupIds \cup {g} ELSE C[b].GroupIds
    BY <1>1, <2>1, <2>2 DEF ConnsTyped, Connection
  <2>4. /\ DOMAIN Groups' = DOMAIN Groups \cup {g}
        /\ \A h \in DOMAIN Groups' : Groups'[h] =
              IF h = g THEN Members(g) \cup {a} ELSE Groups[h]
    BY <2>1 DEF Put
  <2>5. Members(g) = IF g \in DOMAIN Groups THEN Groups[g] ELSE {}
    BY DEF Members
  <2> QED
    BY <1>1, <2>3, <2>4, <2>5 DEF Agree, GroupsTyped
<1>2. CASE ~(a \in DOMAIN C /\ g \notin C[a].GroupIds)
  BY <1>2 DEF Join
<1> QED
  BY <1>1, <1>2

LEMMA LeaveAgrees ==
    ASSUME NEW C, ConnsTyped(C), GroupsTyped(Groups), Agree(C, Groups),
           NEW a \in Addr, NEW g \in GroupId, Leave(C, a, g)
    PROVE  Agree(Connections', Groups')
<1>1. CASE a \in DOMAIN C /\ g \in C[a].GroupIds
  <2>1. Connections' = [C EXCEPT ![a].GroupIds = @ \ {g}]
    BY <1>1 DEF Leave
  <2>2. C[a] \in Connection
    BY <1>1 DEF ConnsTyped
  <2>3. /\ DOMAIN Connections' = DOMAIN C
        /\ \A b \in DOMAIN C : Connections'[b].GroupIds =
              IF b = a THEN C[a].GroupIds \ {g} ELSE C[b].GroupIds
    BY <1>1, <2>1, <2>2 DEF ConnsTyped, Connection
  <2>4. g \in DOMAIN Groups /\ Members(g) = Groups[g]
    BY <1>1 DEF Agree, Members
  <2>5. CASE Groups[g] \ {a} = {}
    <3>1. Groups' = Restrict(Groups, DOMAIN Groups \ {g})
      BY <1>1, <2>4, <2>5 DEF Leave
    <3>2. /\ DOMAIN Groups' = DOMAIN Groups \ {g}
          /\ \A h \in DOMAIN Groups' : Groups'[h] = Groups[h]
      BY <3>1 DEF Restrict
    <3> QED
      BY <2>3, <2>5, <3>2 DEF Agree
  <2>6. CASE Groups[g] \ {a} # {}
    <3>1. Groups' = [Groups EXCEPT ![g] = @ \ {a}]
      BY <1>1, <2>4, <2>6 DEF Leave
    <3>2. /\ DOMAIN Groups' = DOMAIN Groups
          /\ \A h \in DOMAIN Groups : Groups'[h] =
                IF h = g THEN Groups[g] \ {a} ELSE Groups[h]
      BY <3>1 DEF GroupsTyped
    <3> QED
      BY <2>3, <2>6, <3>2 DEF Agree
  <2> QED
    BY <2>5, <2>6
<1>2. CASE ~(a \in DOMAIN C /\ g \in C[a].GroupIds)
  BY <1>2 DEF Leave
<1> QED
  BY <1>1, <1>2

\* The clients of gone leave exactly the groups they list, and only a group they
\* empty goes.
LEMMA DisconnectAgrees ==
    ASSUME NEW C, ConnsTyped(C), GroupsTyped(Groups), Agree(C, Groups), NEW gone,
           DisconnectClients(C, gone)
    PROVE  Agree(Connections', Groups')
<1> DEFINE left(g) == {a \in gone \cap DOMAIN C : g \in C[a].GroupIds}
           kept == {g \in DOMAIN Groups : left(g) = {} \/ Groups[g] \ left(g) # {}}
<1>1. /\ Connections' = Restrict(C, DOMAIN C \ gone)
      /\ Groups' = [g \in kept |-> Groups[g] \ left(g)]
  BY DEF DisconnectClients
<1>2. /\ DOMAIN Connections' = DOMAIN C \ gone
      /\ \A a \in DOMAIN Connections' : Connections'[a] = C[a]
  BY <1>1 DEF Restrict
<1>3. /\ DOMAIN Groups' = kept
      /\ \A g \in kept : Groups'[g] = Groups[g] \ left(g)
  BY <1>1
<1>4. \A g \in kept : Groups'[g] # {}
  BY <1>3 DEF Agree
<1>5. ASSUME NEW a \in Addr, NEW g \in GroupId
      PROVE  (g \in DOMAIN Groups' /\ a \in Groups'[g])
                <=> (a \in DOMAIN Connections' /\ g \in Connections'[a].GroupIds)
  <2>1. (g \in DOMAIN Groups /\ a \in Groups[g]) <=> (a \in DOMAIN C /\ g \in C[a].GroupIds)
    BY DEF Agree
  <2>2. ASSUME g \in kept, a \in Groups[g] \ left(g)
        PROVE  a \in DOMAIN Connections' /\ g \in Connections'[a].GroupIds
    BY <1>2, <2>1, <2>2
  <2>3. ASSUME a \in DOMAIN C \ gone, g \in C[a].GroupIds
        PROVE  g \in kept /\ a \in Groups[g] \ left(g)
    BY <2>1, <2>3
  <2> QED
    BY <1>2, <1>3, <2>2, <2>3
<1> QED
  BY <1>3, <1>4, <1>5 DEF Agree

LEMMA ServerProcessesAgrees ==
    ASSUME TypeOK, Agree(Connections, Groups), ServerProcesses
    PROVE  Agree(Connections', Groups')
<1>1. PICK d \in Range(ReceivedPackets) : ProcessReceivedPacket(d)
  BY DEF ServerProcesses
<1>2. CASE HandleNewConnection(d)
  <2>1. Connections' = Put(Connections, d.peer, NewConnection) /\ UNCHANGED Groups
    BY <1>2 DEF HandleNewConnection
  <2>2. d.peer \notin Known
    BY <1>2 DEF HandleNewConnection
  <2>3. /\ DOMAIN Connections' = Known \cup {d.peer}
        /\ \A a \in Known : Connections'[a] = Connections[a]
        /\ Connections'[d.peer].GroupIds = {}
    BY <2>1, <2>2 DEF Put, Known, NewConnection
  <2> QED
    BY <2>1, <2>2, <2>3 DEF Agree, Known
<1>3. CASE IgnoreUnknown(d)
  BY <1>3 DEF IgnoreUnknown
<1>4. CASE HandleData(d)
  <2>1. d.peer \in Known /\ UNCHANGED Groups
    BY <1>4 DEF HandleData
  <2>2. PICK r : Connections' = [Heard(d) EXCEPT ![d.peer].Received = r]
    BY <1>4 DEF HandleData
  <2>3. Agree(Heard(d), Groups) /\ ConnsTyped(Heard(d)) /\ DOMAIN Heard(d) = Known
    BY <2>1, HeardAgrees
  <2>4. DOMAIN Connections' = Known
    BY <2>2, <2>3 DEF ConnsTyped
  <2>5. \A a \in Known : Connections'[a].GroupIds = Heard(d)[a].GroupIds
    BY <2>1, <2>2, <2>3 DEF ConnsTyped, Connection
  <2> QED
    BY <2>1, <2>3, <2>4, <2>5, SameGroupIds
<1>5. CASE HandleDisconnect(d)
  BY <1>5, HeardAgrees, DisconnectAgrees DEF HandleDisconnect
<1>6. CASE HandleGroupRequest(d)
  <2>1. d.peer \in Addr /\ d.peer \in Known /\ d.body \in GroupId
    BY <1>6, DequeueTyped DEF HandleGroupRequest
  <2>2. Join(Heard(d), d.peer, d.body) \/ Leave(Heard(d), d.peer, d.body)
    BY <1>6 DEF HandleGroupRequest
  <2> QED
    BY <2>1, <2>2, HeardAgrees, JoinAgrees, LeaveAgrees
<1>7. CASE HandleOther(d)
  BY <1>7, HeardAgrees DEF HandleOther
<1> QED
  BY <1>1, <1>2, <1>3, <1>4, <1>5, <1>6, <1>7 DEF ProcessReceivedPacket

LEMMA ServerChecksAgrees ==
    ASSUME TypeOK, Agree(Connections, Groups), ServerChecks
    PROVE  Agree(Connections', Groups')
<1> DEFINE after(again) == [a \in Known |->
               [Connections[a] EXCEPT !.Pending = ResendAll(@, again \cap @)]]
<1>1. PICK again \in SUBSET UNION {Connections[a].Pending : a \in Known} :
         /\ \A a \in Known : again \cap Connections[a].Pending
                               \in ResendChoices(Connections[a].Pending)
         /\ DisconnectClients(after(again), GivenUp \cup TimedOut)
  BY DEF ServerChecks, TickChecks
<1>2. ASSUME NEW a \in Known
      PROVE  /\ after(again)[a] \in Connection
             /\ after(again)[a].GroupIds = Connections[a].GroupIds
  <2>1. Connections[a] \in Connection /\ Connections[a].Pending \in SUBSET PendingPacket
    BY DEF TypeOK, ServerTypeOK, Connection
  <2>2. again \cap Connections[a].Pending \in ResendChoices(Connections[a].Pending)
    BY <1>1
  <2>3. ResendAll(Connections[a].Pending, again \cap Connections[a].Pending)
            \in SUBSET PendingPacket
    BY <2>1, <2>2, ResendAllTyped
  <2> QED
    BY <2>1, <2>3 DEF Connection
<1>3. ConnsTyped(after(again)) /\ GroupsTyped(Groups) /\ DOMAIN after(again) = DOMAIN Connections
  BY <1>2 DEF ConnsTyped, GroupsTyped, TypeOK, ServerTypeOK, Known
<1>4. Agree(after(again), Groups)
  BY <1>2, <1>3, SameGroupIds DEF Known
<1> HIDE DEF after
<1> QED
  BY <1>1, <1>3, <1>4, DisconnectAgrees

LEMMA SendToAllAgrees ==
    ASSUME TypeOK, Agree(Connections, Groups), NEW T, NEW o, SendToAll(T, o),
           UNCHANGED Groups
    PROVE  Agree(Connections', Groups')
<1>1. \A a \in Known : Connections[a] \in Connection
  BY DEF TypeOK, ServerTypeOK
<1>2. /\ DOMAIN Connections' = Known
      /\ \A a \in Known : Connections'[a].GroupIds = Connections[a].GroupIds
  BY <1>1 DEF SendToAll, Connection
<1> QED
  BY <1>2, SameGroupIds DEF Known

LEMMA ServerCallsAgrees ==
    ASSUME TypeOK, Agree(Connections, Groups), ServerCalls
    PROVE  Agree(Connections', Groups')
<1>1. CASE \E a \in Addr, p \in Payload : SendTo(a, p)
  BY <1>1, SendToAllAgrees DEF SendTo
<1>2. CASE \E g \in GroupId, p \in Payload, x \in {{}} \cup {{a} : a \in Addr} :
              BroadcastToGroup(g, p, x)
  BY <1>2, SendToAllAgrees DEF BroadcastToGroup
<1>3. CASE \E a \in Addr, g \in GroupId : JoinGroup(a, g) \/ LeaveGroup(a, g)
  <2>1. PICK a \in Addr, g \in GroupId : JoinGroup(a, g) \/ LeaveGroup(a, g)
    BY <1>3
  <2>2. ConnsTyped(Connections) /\ GroupsTyped(Groups)
    BY DEF TypeOK, ServerTypeOK, ConnsTyped, GroupsTyped, Known
  <2> QED
    BY <2>1, <2>2, JoinAgrees, LeaveAgrees DEF JoinGroup, LeaveGroup
<1> QED
  BY <1>1, <1>2, <1>3 DEF ServerCalls

LEMMA ElapseAgrees ==
    ASSUME TypeOK, Agree(Connections, Groups), Elapse
    PROVE  Agree(Connections', Groups')
<1>1. \A a \in Known : Connections[a] \in Connection
  BY DEF TypeOK, ServerTypeOK
<1>2. /\ DOMAIN Connections' = Known /\ UNCHANGED Groups
      /\ \A a \in Known : Connections'[a].GroupIds = Connections[a].GroupIds
  BY <1>1 DEF Elapse, ServerAges, Connection
<1> QED
  BY <1>2, SameGroupIds DEF Known

LEMMA InitAgrees == Init => GroupsConsistent
BY DEF Init, ServerInit, GroupsConsistent, Members, Known

LEMMA NextAgrees == TypeOK /\ GroupsConsistent /\ [Next]_vars => GroupsConsistent'
<1> SUFFICES ASSUME TypeOK, Agree(Connections, Groups), [Next]_vars
             PROVE  Agree(Connections', Groups')
  BY AgreeIsConsistent, AgreeIsConsistentNext
<1>1. CASE UNCHANGED <<Connections, Groups>>
  BY <1>1
<1>2. CASE ServerProcesses \/ ServerChecks \/ ServerCalls \/ Elapse
  BY <1>2, ServerProcessesAgrees, ServerChecksAgrees, ServerCallsAgrees, ElapseAgrees
<1>3. CASE ServerReceives
  BY <1>1, <1>3 DEF ServerReceives, Run
<1>4. CASE ClientReceives \/ NetworkStep \/ UNCHANGED vars
  BY <1>1, <1>4 DEF ClientReceives, NetworkStep, Unreachable, serverVars, vars
<1>5. ASSUME NEW a \in Addr,
             ClientProcesses(a) \/ ClientChecks(a) \/ ClientCalls(a) \/ ClientPolls(a)
      PROVE  UNCHANGED <<Connections, Groups>>
  BY <1>5 DEF ClientProcesses, ClientChecks, ClientCalls, ClientPolls, serverVars
<1> QED
  BY <1>1, <1>2, <1>3, <1>4, <1>5 DEF Next

\* A group lists exactly the connected clients that list it, and none is empty,
\* whatever mixture of joins, leaves, disconnects, give-ups and timeouts.
THEOREM GroupsAlwaysConsistent == Spec => []GroupsConsistent
<1>1. Spec => [](TypeOK /\ GroupsConsistent)
  BY InitTyped, NextTyped, InitAgrees, NextAgrees, PTL DEF Spec
<1> QED
  BY <1>1, PTL

----------------------------------------------------------------------------
(* What is on its way to a client was issued to it.                        *)

\* Nothing is pending but what was sent on the connection.
NothingElse(C, S) == \A a \in DOMAIN C : Packets(C[a].Pending) \subseteq S[a]

SentIssued == \A a \in Addr : \A d \in sentOn[a] : d.peer = a /\ d.body \in Issued(a)

ArrivingIssued ==
    /\ \A d \in toClient : d.type = "Data" => d.body \in Issued(d.peer)
    /\ \A a \in Addr : \A d \in Range(client[a].IncomingPackets) :
          d.type = "Data" => d.body \in Issued(a)

Mailed == NothingElse(Connections, sentOn) /\ SentIssued /\ ArrivingIssued

\* A step of the server that issues nothing.
LEMMA ServerStepMailed ==
    ASSUME Mailed, UNCHANGED clientVars, issued' = issued,
           NothingElse(Connections', sentOn'),
           \A a \in Addr : sentOn'[a] \subseteq sentOn[a],
           \A d \in toClient' \ toClient : d.type = "Data" => d.body \in Issued(d.peer)
    PROVE  Mailed'
BY DEF Mailed, SentIssued, ArrivingIssued, Issued, clientVars

\* A step of the clients or of the network: the queues fill from the wire.
LEMMA OtherStepMailed ==
    ASSUME Mailed, UNCHANGED <<Connections, sentOn, issued>>, toClient' \subseteq toClient,
           \A a \in Addr : \A d \in Range(client'[a].IncomingPackets) :
              d \in Range(client[a].IncomingPackets) \/ (d \in toClient /\ d.peer = a)
    PROVE  Mailed'
BY DEF Mailed, SentIssued, ArrivingIssued, Issued

LEMMA HeardPending ==
    ASSUME TypeOK, NothingElse(Connections, sentOn), NEW d, d.peer \in Known
    PROVE  /\ NothingElse(Heard(d), sentOn)
           /\ ConnsTyped(Heard(d)) /\ DOMAIN Heard(d) = Known
<1>1. ConnsTyped(Connections)
  BY DEF TypeOK, ServerTypeOK, ConnsTyped, Known
<1>2. /\ ConnsTyped(Heard(d)) /\ DOMAIN Heard(d) = Known
      /\ \A a \in Known \ {d.peer} : Heard(d)[a] = Connections[a]
      /\ Heard(d)[d.peer] = HeardFrom(Connections[d.peer], d)
  BY <1>1, HeardTyped
<1>3. Packets(Heard(d)[d.peer].Pending) \subseteq Packets(Connections[d.peer].Pending)
  BY <1>1, <1>2, HeardFromTyped, ProcessAckPackets DEF ConnsTyped, Known
<1> QED
  BY <1>2, <1>3 DEF NothingElse, Known

LEMMA GroupStepPending ==
    ASSUME NEW C, ConnsTyped(C), NothingElse(C, sentOn), NEW a \in Addr, NEW g \in GroupId,
           Join(C, a, g) \/ Leave(C, a, g)
    PROVE  NothingElse(Connections', sentOn) /\ DOMAIN Connections' = DOMAIN C
<1>1. CASE Connections' = C
  BY <1>1
<1>2. CASE /\ a \in DOMAIN C
           /\ \/ Connections' = [C EXCEPT ![a].GroupIds = @ \cup {g}]
              \/ Connections' = [C EXCEPT ![a].GroupIds = @ \ {g}]
  <2>1. C[a] \in Connection
    BY <1>2 DEF ConnsTyped
  <2>2. /\ DOMAIN Connections' = DOMAIN C
        /\ \A b \in DOMAIN C : Connections'[b].Pending = C[b].Pending
    BY <1>2, <2>1 DEF Connection, ConnsTyped
  <2> QED
    BY <2>2 DEF NothingElse
<1> QED
  BY <1>1, <1>2 DEF Join, Leave

LEMMA DisconnectPending ==
    ASSUME NEW C, NothingElse(C, sentOn), NEW gone, DisconnectClients(C, gone)
    PROVE  NothingElse(Connections', sentOn) /\ DOMAIN Connections' = DOMAIN C \ gone
BY DEF NothingElse, DisconnectClients, Restrict

\* What a packet from the queue makes of the connections, and what it is answered.
LEMMA ServerProcessesMailed ==
    ASSUME TypeOK, Mailed, ServerProcesses PROVE Mailed'
<1>1. PICK d : ProcessReceivedPacket(d) /\ Dequeue(d)
  BY DEF ServerProcesses, ProcessReceivedPacket, HandleNewConnection, IgnoreUnknown,
         HandleData, HandleDisconnect, HandleGroupRequest, HandleOther
<1>2. UNCHANGED clientVars /\ d.peer \in Addr
  BY <1>1, DequeueTyped DEF ServerProcesses
<1>3. NothingElse(Connections, sentOn)
  BY DEF Mailed
<1>4. CASE HandleNewConnection(d)
  <2>1. /\ Connections' = Put(Connections, d.peer, NewConnection)
        /\ sentOn' = [sentOn EXCEPT ![d.peer] = {}] /\ issued' = issued
        /\ toClient' = toClient \cup {SendAck(d.peer, NewConnection)}
    BY <1>4 DEF HandleNewConnection, SendToClients
  <2>2. \A a \in Addr : sentOn'[a] = IF a = d.peer THEN {} ELSE sentOn[a]
    BY <2>1 DEF TypeOK, ServerTypeOK
  <2>3. Packets(NewConnection.Pending) = {}
    BY DEF NewConnection, Packets
  <2>4. Known \subseteq Addr
    BY DEF TypeOK, ServerTypeOK
  <2>5. NothingElse(Connections', sentOn')
    BY <1>2, <1>3, <2>1, <2>2, <2>3, <2>4 DEF NothingElse, Put, Known
  <2>6. SendAck(d.peer, NewConnection).type # "Data"
    BY DEF SendAck, Packet
  <2> QED
    BY <1>2, <2>1, <2>2, <2>5, <2>6, ServerStepMailed
<1>5. CASE IgnoreUnknown(d)
  BY <1>2, <1>3, <1>5, ServerStepMailed DEF IgnoreUnknown, netVars
<1>6. CASE HandleData(d)
  <2>1. PICK r : /\ Connections' = [Heard(d) EXCEPT ![d.peer].Received = r]
                 /\ SendToClients({SendAck(d.peer,
                        [Heard(d) EXCEPT ![d.peer].Received = r][d.peer])})
    BY <1>6 DEF HandleData
  <2>2. d.peer \in Known /\ issued' = issued /\ sentOn' = sentOn
    BY <1>6 DEF HandleData
  <2>3. /\ NothingElse(Heard(d), sentOn)
        /\ ConnsTyped(Heard(d)) /\ DOMAIN Heard(d) = Known
    BY <1>3, <2>2, HeardPending
  <2>4. /\ DOMAIN Connections' = Known
        /\ \A a \in Known : Connections'[a].Pending = Heard(d)[a].Pending
    BY <2>1, <2>2, <2>3 DEF ConnsTyped, Connection
  <2>5. NothingElse(Connections', sentOn')
    BY <2>2, <2>3, <2>4 DEF NothingElse
  <2>6. \A c : SendAck(d.peer, c).type # "Data"
    BY DEF SendAck, Packet
  <2>7. \A x \in toClient' \ toClient : x.type # "Data"
    BY <2>1, <2>6 DEF SendToClients
  <2> QED
    BY <1>2, <2>2, <2>5, <2>7, ServerStepMailed
<1>7. CASE HandleDisconnect(d)
  <2>1. NothingElse(Connections', sentOn)
    BY <1>3, <1>7, HeardPending, DisconnectPending DEF HandleDisconnect
  <2> QED
    BY <1>2, <1>7, <2>1, ServerStepMailed DEF HandleDisconnect, netVars
<1>8. CASE HandleGroupRequest(d)
  <2>1. d.peer \in Known /\ d.body \in GroupId
        /\ (Join(Heard(d), d.peer, d.body) \/ Leave(Heard(d), d.peer, d.body))
    BY <1>8 DEF HandleGroupRequest
  <2>2. NothingElse(Connections', sentOn)
    BY <1>2, <1>3, <2>1, HeardPending, GroupStepPending
  <2> QED
    BY <1>2, <1>8, <2>2, ServerStepMailed DEF HandleGroupRequest, netVars
<1>9. CASE HandleOther(d)
  BY <1>2, <1>3, <1>9, HeardPending, ServerStepMailed DEF HandleOther, netVars
<1> QED
  BY <1>1, <1>4, <1>5, <1>6, <1>7, <1>8, <1>9 DEF ProcessReceivedPacket


LEMMA ServerChecksMailed ==
    ASSUME TypeOK, Mailed, ServerChecks PROVE Mailed'
<1> DEFINE after(again) == [a \in Known |->
               [Connections[a] EXCEPT !.Pending = ResendAll(@, again \cap @)]]
<1>1. PICK again \in SUBSET UNION {Connections[a].Pending : a \in Known} :
         /\ \A a \in Known : again \cap Connections[a].Pending
                               \in ResendChoices(Connections[a].Pending)
         /\ SendToClients(Packets(again))
         /\ DisconnectClients(after(again), GivenUp \cup TimedOut)
  BY DEF ServerChecks, TickChecks
<1>2. ASSUME NEW a \in Known
      PROVE  Packets(after(again)[a].Pending) = Packets(Connections[a].Pending)
  <2>1. Connections[a] \in Connection /\ Connections[a].Pending \in SUBSET PendingPacket
    BY DEF TypeOK, ServerTypeOK, Connection
  <2> DEFINE P == ResendAll(Connections[a].Pending, again \cap Connections[a].Pending)
  <2>2. Packets(P) = Packets(Connections[a].Pending)
    BY <1>1, <2>1, ResendAllTyped
  <2>3. after(again)[a] = [Connections[a] EXCEPT !.Pending = P]
    OBVIOUS
  <2> HIDE DEF P
  <2> QED
    BY <2>1, <2>2, <2>3 DEF Connection
<1>3. DOMAIN after(again) = Known
  OBVIOUS
<1> HIDE DEF after
<1>4. NothingElse(after(again), sentOn)
  BY <1>2, <1>3 DEF Mailed, NothingElse, Known
<1>5. NothingElse(Connections', sentOn)
  BY <1>1, <1>4, DisconnectPending
<1>6. \A x \in Packets(again) : x.body \in Issued(x.peer)
  <2> SUFFICES ASSUME NEW x \in Packets(again) PROVE x.body \in Issued(x.peer)
    OBVIOUS
  <2>1. PICK a \in Known : \E p \in Connections[a].Pending : x = p.packet
    BY <1>1 DEF Packets
  <2>2. a \in Addr /\ x \in sentOn[a]
    BY <2>1 DEF Mailed, NothingElse, Packets, Known, TypeOK, ServerTypeOK
  <2> QED
    BY <2>2 DEF Mailed, SentIssued
<1>7. UNCHANGED clientVars /\ issued' = issued /\ sentOn' = sentOn
  BY DEF ServerChecks, TickChecks
<1>8. toClient' \ toClient \subseteq Packets(again)
  BY <1>1 DEF SendToClients
<1> QED
  BY <1>5, <1>6, <1>7, <1>8, ServerStepMailed

LEMMA SendToAllMailed ==
    ASSUME TypeOK, Mailed, NEW T \in SUBSET Known, NEW o \in Order, SendToAll(T, o),
           UNCHANGED clientVars
    PROVE  Mailed'
<1> DEFINE data(a) == DataFor(a, Connections[a], o.msg)
           n(a) == Next32(Connections[a].SentSequence)
           P(a) == AddPending(Connections[a].Pending, data(a))
           sent(a) == [Connections[a] EXCEPT
                          !.SentSequence = Next32(@),
                          !.Pending = AddPending(@, data(a))]
<1>1. \A a \in Known : Connections[a] \in Connection /\ a \in Addr
  BY DEF TypeOK, ServerTypeOK
<1>2. \A a \in Known : data(a).peer = a /\ data(a).body = o.msg
  BY DEF DataFor, Packet
<1>3. ASSUME NEW a \in Known
      PROVE  Packets(sent(a).Pending) \subseteq Packets(Connections[a].Pending) \cup {data(a)}
  <2>1. sent(a) = [Connections[a] EXCEPT !.SentSequence = n(a), !.Pending = P(a)]
    OBVIOUS
  <2>2. Packets(P(a)) \subseteq Packets(Connections[a].Pending) \cup {data(a)}
    BY AddPendingPackets
  <2> HIDE DEF n, P, data, sent
  <2>3. sent(a).Pending = P(a)
    BY <1>1, <2>1 DEF Connection
  <2> QED
    BY <2>2, <2>3
<1>4. /\ Connections' = [a \in Known |-> IF a \in T THEN sent(a) ELSE Connections[a]]
      /\ toClient' = toClient \cup {data(a) : a \in T}
      /\ issued' = [a \in Addr |-> IF a \in T THEN issued[a] \cup {o} ELSE issued[a]]
      /\ sentOn' = [a \in Addr |-> IF a \in T THEN sentOn[a] \cup {data(a)} ELSE sentOn[a]]
  BY DEF SendToAll, SendToClients
<1> HIDE DEF data, sent
<1>5. NothingElse(Connections', sentOn')
  BY <1>1, <1>3, <1>4 DEF Mailed, NothingElse, Known
<1>7. /\ \A a \in Addr : Issued(a) \subseteq Issued(a)'
      /\ \A a \in T : a \in Addr /\ o.msg \in Issued(a)'
  BY <1>1, <1>4 DEF Issued
<1>6. SentIssued'
  BY <1>1, <1>2, <1>4, <1>7 DEF Mailed, SentIssued
<1>8. \A d \in toClient : d.peer \in Addr
  BY DEF TypeOK, NetTypeOK, Datagram
<1>9. \A d \in toClient' : d.type = "Data" => d.body \in Issued(d.peer)'
  BY <1>1, <1>2, <1>4, <1>7, <1>8 DEF Mailed, ArrivingIssued
<1>10. client' = client
  BY DEF clientVars
<1>11. ArrivingIssued'
  BY <1>7, <1>9, <1>10 DEF Mailed, ArrivingIssued
<1> QED
  BY <1>5, <1>6, <1>11 DEF Mailed

LEMMA ServerCallsMailed ==
    ASSUME TypeOK, Mailed, ServerCalls PROVE Mailed'
<1>1. UNCHANGED clientVars
  BY DEF ServerCalls
<1>2. CASE \E a \in Addr, p \in Payload : SendTo(a, p)
  <2>1. PICK a \in Addr, p \in Payload : SendTo(a, p)
    BY <1>2
  <2>2. {a} \in SUBSET Known
    BY <2>1 DEF SendTo, MaySend
  <2>3. DirectOrder(p) \in Order
    BY <2>1 DEF DirectOrder, Order
  <2> QED
    BY <1>1, <2>1, <2>2, <2>3, SendToAllMailed DEF SendTo
<1>3. CASE \E g \in GroupId, p \in Payload, x \in {{}} \cup {{a} : a \in Addr} :
              BroadcastToGroup(g, p, x)
  <2>1. PICK g \in GroupId, p \in Payload, x \in {{}} \cup {{a} : a \in Addr} :
              BroadcastToGroup(g, p, x)
    BY <1>3
  <2>2. (Groups[g] \ x) \cap Known \in SUBSET Known
    OBVIOUS
  <2>3. GroupOrder(g, p, x) \in Order
    BY <2>1, OrdersTyped
  <2> QED
    BY <1>1, <2>1, <2>2, <2>3, SendToAllMailed DEF BroadcastToGroup
<1>4. CASE \E a \in Addr, g \in GroupId : JoinGroup(a, g) \/ LeaveGroup(a, g)
  <2>1. PICK a \in Addr, g \in GroupId : JoinGroup(a, g) \/ LeaveGroup(a, g)
    BY <1>4
  <2>2. ConnsTyped(Connections) /\ NothingElse(Connections, sentOn)
    BY DEF TypeOK, ServerTypeOK, ConnsTyped, Known, Mailed
  <2>3. NothingElse(Connections', sentOn)
    BY <2>1, <2>2, GroupStepPending DEF JoinGroup, LeaveGroup
  <2>4. sentOn' = sentOn /\ issued' = issued /\ toClient' = toClient
    BY <2>1 DEF JoinGroup, LeaveGroup, netVars
  <2> QED
    BY <1>1, <2>3, <2>4, ServerStepMailed
<1> QED
  BY <1>2, <1>3, <1>4 DEF ServerCalls


LEMMA ClientReceivesMailed ==
    ASSUME TypeOK, Mailed, ClientReceives PROVE Mailed'
<1>1. PICK d \in toClient : ClientRun(d)
  BY DEF ClientReceives
<1>2. d \in Datagram /\ d.peer \in Addr
  BY DEF TypeOK, NetTypeOK, Datagram
<1> DEFINE queue == Append(client[d.peer].IncomingPackets, d)
<1>3. client \in [Addr -> Client] /\ client[d.peer].IncomingPackets \in Seq(Datagram)
  BY <1>2 DEF TypeOK, ClientTypeOK, Client
<1>4. Range(queue) \subseteq Range(client[d.peer].IncomingPackets) \cup {d}
  BY <1>2, <1>3, AppendTyped
<1>5. client' = [client EXCEPT ![d.peer].IncomingPackets = queue]
  BY <1>1 DEF ClientRun
<1> HIDE DEF queue
<1>6. \A a \in Addr : client'[a].IncomingPackets =
                         IF a = d.peer THEN queue ELSE client[a].IncomingPackets
  BY <1>2, <1>3, <1>5 DEF Client
<1>7. toClient' \subseteq toClient /\ UNCHANGED <<Connections, sentOn, issued>>
  BY <1>1 DEF ClientRun, ArriveAtClient, ClientReceives, serverVars
<1> QED
  BY <1>4, <1>6, <1>7, OtherStepMailed

\* Every other step of a client leaves its queue alone, or takes the first packet.
LEMMA ClientProcessesMailed ==
    ASSUME TypeOK, Mailed, NEW a \in Addr, ClientProcesses(a) PROVE Mailed'
<1> DEFINE d == Head(client[a].IncomingPackets)
           rest == Tail(client[a].IncomingPackets)
<1>1. client \in [Addr -> Client] /\ client[a] \in Client
  BY DEF TypeOK, ClientTypeOK
<1>2. client[a].IncomingPackets \in Seq(Datagram) /\ client[a].IncomingPackets # <<>>
  BY <1>1 DEF ClientProcesses, ClientProcessPacket, Client
<1>3. Range(rest) \subseteq Range(client[a].IncomingPackets)
  BY <1>2, TailTyped
<1>4. PICK r : client' = [client EXCEPT ![a] = Processed(client[a], d, r)]
  BY DEF ClientProcesses, ClientProcessPacket
<1>5. Processed(client[a], d, r).IncomingPackets = rest
  BY <1>1 DEF Processed, Client
<1> HIDE DEF rest
<1>6. \A x \in Addr : client'[x].IncomingPackets =
                         IF x = a THEN rest ELSE client[x].IncomingPackets
  BY <1>1, <1>4, <1>5
<1>7. toClient' = toClient /\ UNCHANGED <<Connections, sentOn, issued>>
  BY DEF ClientProcesses, ClientProcessPacket, netVars, serverVars
<1> QED
  BY <1>3, <1>6, <1>7, OtherStepMailed

LEMMA SameQueueMailed ==
    ASSUME TypeOK, Mailed, UNCHANGED <<Connections, sentOn, issued, toClient>>,
           NEW a \in Addr, NEW c, c.IncomingPackets = client[a].IncomingPackets,
           client' = [client EXCEPT ![a] = c]
    PROVE  Mailed'
<1>1. \A x \in Addr : client'[x].IncomingPackets = client[x].IncomingPackets
  BY DEF TypeOK, ClientTypeOK
<1> QED
  BY <1>1, OtherStepMailed

LEMMA ClosedQueue ==
    ASSUME NEW c \in Client
    PROVE  /\ Closed(c).IncomingPackets = c.IncomingPackets
           /\ Closed(c).ReceivedDataPackets = c.ReceivedDataPackets
BY DEF Closed, Client

LEMMA ResentQueue ==
    ASSUME NEW c \in Client, NEW P
    PROVE  /\ [c EXCEPT !.Pending = P].IncomingPackets = c.IncomingPackets
           /\ [c EXCEPT !.Pending = P].ReceivedDataPackets = c.ReceivedDataPackets
           /\ Closed([c EXCEPT !.Pending = P]).IncomingPackets = c.IncomingPackets
           /\ Closed([c EXCEPT !.Pending = P]).ReceivedDataPackets = c.ReceivedDataPackets
BY DEF Closed, Client

LEMMA SentQueue ==
    ASSUME NEW c \in Client, NEW d
    PROVE  /\ WithSent(c, d).IncomingPackets = c.IncomingPackets
           /\ WithSent(c, d).ReceivedDataPackets = c.ReceivedDataPackets
<1> DEFINE n == Next32(c.SentSequence)
           P == AddPending(c.Pending, d)
<1>1. WithSent(c, d) = [c EXCEPT !.SentSequence = n, !.Pending = P]
  BY DEF WithSent
<1> HIDE DEF n, P
<1> QED
  BY <1>1 DEF Client

\* What CheckForResends and the API of a client leave of its queues.
LEMMA ClientKeepsQueues ==
    ASSUME TypeOK, NEW a \in Addr, ClientChecks(a) \/ ClientCalls(a)
    PROVE  \/ client' = client
           \/ \E c : /\ client' = [client EXCEPT ![a] = c]
                     /\ c.IncomingPackets = client[a].IncomingPackets
                     /\ c.ReceivedDataPackets = client[a].ReceivedDataPackets
<1>1. client[a] \in Client
  BY DEF TypeOK, ClientTypeOK
<1>2. CASE ClientChecks(a)
  <2>1. PICK again : \/ client' = [client EXCEPT ![a].crashed = TRUE]
                     \/ client' = [client EXCEPT ![a] =
                           Closed([client[a] EXCEPT !.Pending = ResendAll(@, again)])]
                     \/ client' = [client EXCEPT ![a] =
                           [client[a] EXCEPT !.Pending = ResendAll(@, again)]]
    BY <1>2 DEF ClientChecks, ClientCheckForResends
  <2> DEFINE P == ResendAll(client[a].Pending, again)
  <2>2. CASE client' = [client EXCEPT ![a].crashed = TRUE]
    <3>1. client' = [client EXCEPT ![a] = [client[a] EXCEPT !.crashed = TRUE]]
      BY <2>2
    <3>2. /\ [client[a] EXCEPT !.crashed = TRUE].IncomingPackets = client[a].IncomingPackets
          /\ [client[a] EXCEPT !.crashed = TRUE].ReceivedDataPackets
                = client[a].ReceivedDataPackets
      BY <1>1 DEF Client
    <3> QED
      BY <3>1, <3>2
  <2> DEFINE e == [client[a] EXCEPT !.Pending = P]
  <2>3. /\ e.IncomingPackets = client[a].IncomingPackets
        /\ e.ReceivedDataPackets = client[a].ReceivedDataPackets
        /\ Closed(e).IncomingPackets = client[a].IncomingPackets
        /\ Closed(e).ReceivedDataPackets = client[a].ReceivedDataPackets
    <3> HIDE DEF P
    <3> QED
      BY <1>1, ResentQueue
  <2>4. CASE client' = [client EXCEPT ![a] = Closed(e)] \/ client' = [client EXCEPT ![a] = e]
    <3> HIDE DEF e
    <3> QED
      BY <2>3, <2>4
  <2> QED
    BY <2>1, <2>2, <2>4
<1>3. CASE Connect(a)
  <2>1. client' = [client EXCEPT ![a] = [client[a] EXCEPT !.open = TRUE]]
    BY <1>3 DEF Connect
  <2>2. /\ [client[a] EXCEPT !.open = TRUE].IncomingPackets = client[a].IncomingPackets
        /\ [client[a] EXCEPT !.open = TRUE].ReceivedDataPackets
              = client[a].ReceivedDataPackets
    BY <1>1 DEF Client
  <2> QED
    BY <2>1, <2>2
<1>4. CASE Disconnect(a)
  <2>1. client' = [client EXCEPT ![a] = Closed(client[a])]
    BY <1>4 DEF Disconnect
  <2> QED
    BY <1>1, <2>1, ClosedQueue
<1>5. CASE Send(a)
  <2>1. client' = [client EXCEPT ![a] = WithSent(client[a], ClientData(a))]
    BY <1>5 DEF Send
  <2> QED
    BY <1>1, <2>1, SentQueue
<1>6. CASE (\E g \in GroupId : ClientJoinGroup(a, g)) \/ ClientLeaveGroup(a)
  BY <1>6 DEF ClientJoinGroup, ClientLeaveGroup, clientVars
<1> QED
  BY <1>2, <1>3, <1>4, <1>5, <1>6 DEF ClientCalls

LEMMA ClientOtherMailed ==
    ASSUME TypeOK, Mailed, NEW a \in Addr,
           ClientChecks(a) \/ ClientCalls(a) \/ ClientPolls(a)
    PROVE  Mailed'
<1>1. UNCHANGED <<Connections, sentOn, issued, toClient>>
  BY DEF ClientChecks, ClientCheckForResends, ClientCalls, Connect, Disconnect, Send,
         ClientJoinGroup, ClientLeaveGroup, ClientPolls, Poll, SendToServer, netVars,
         serverVars
<1>2. CASE ClientChecks(a) \/ ClientCalls(a)
  BY <1>1, <1>2, ClientKeepsQueues, SameQueueMailed, OtherStepMailed
<1>3. CASE ClientPolls(a)
  <2> DEFINE rest == Tail(client[a].ReceivedDataPackets)
             e == [client[a] EXCEPT !.ReceivedDataPackets = rest]
  <2>1. client' = [client EXCEPT ![a] = e]
    BY <1>3 DEF ClientPolls, Poll
  <2> HIDE DEF rest
  <2>2. e.IncomingPackets = client[a].IncomingPackets
    BY DEF TypeOK, ClientTypeOK, Client
  <2> HIDE DEF e
  <2> QED
    BY <1>1, <2>1, <2>2, SameQueueMailed
<1> QED
  BY <1>2, <1>3

LEMMA NetworkStepMailed ==
    ASSUME Mailed, NetworkStep PROVE Mailed'
<1>1. toClient' \subseteq toClient /\ UNCHANGED <<serverVars, clientVars>>
  BY DEF NetworkStep, Lose, Unreachable
<1> QED
  BY <1>1, OtherStepMailed DEF serverVars, clientVars

LEMMA ElapseMailed ==
    ASSUME TypeOK, Mailed, Elapse PROVE Mailed'
<1> DEFINE older(a) == [Connections[a] EXCEPT !.idle = OlderBy1(@, ClientTimeout),
                                              !.Pending = AgePending(@)]
<1>1. ASSUME NEW a \in Known
      PROVE  Packets(older(a).Pending) = Packets(Connections[a].Pending)
  <2> DEFINE P == AgePending(Connections[a].Pending)
             i == OlderBy1(Connections[a].idle, ClientTimeout)
  <2>1. Connections[a] \in Connection /\ Connections[a].Pending \in SUBSET PendingPacket
    BY DEF TypeOK, ServerTypeOK, Connection
  <2>2. Packets(P) = Packets(Connections[a].Pending)
    BY <2>1, AgePendingTyped
  <2>3. older(a) = [Connections[a] EXCEPT !.idle = i, !.Pending = P]
    OBVIOUS
  <2> HIDE DEF P, i, older
  <2> QED
    BY <2>1, <2>2, <2>3 DEF Connection
<1>2. /\ Connections' = [a \in Known |-> older(a)]
      /\ UNCHANGED <<sentOn, issued, netVars>>
  BY DEF Elapse, ServerAges
<1> HIDE DEF older
<1>3. NothingElse(Connections', sentOn')
  BY <1>1, <1>2 DEF Mailed, NothingElse, Known
<1>4. \A a \in Addr : client'[a].IncomingPackets = client[a].IncomingPackets
  BY DEF Elapse, ClientsAge, TypeOK, ClientTypeOK, Client
<1> QED
  BY <1>2, <1>3, <1>4 DEF Mailed, SentIssued, ArrivingIssued, Issued, netVars

LEMMA InitMailed == Init => Mailed
<1>1. Range(<<>>) = {}
  BY DEF Range
<1> QED
  BY <1>1 DEF Init, NetInit, ServerInit, ClientInit, NewClient, Mailed, NothingElse,
              SentIssued, ArrivingIssued

LEMMA NextMailed ==
    ASSUME TypeOK, Mailed, [Next]_vars PROVE Mailed'
<1>1. CASE UNCHANGED vars
  BY <1>1, OtherStepMailed DEF vars, netVars, serverVars, clientVars
<1>2. CASE ServerReceives
  BY <1>2, OtherStepMailed DEF ServerReceives, Run, ArriveAtServer, clientVars
<1>3. CASE ServerProcesses \/ ServerChecks \/ ServerCalls
  BY <1>3, ServerProcessesMailed, ServerChecksMailed, ServerCallsMailed
<1>4. CASE ClientReceives \/ NetworkStep \/ Elapse
  BY <1>4, ClientReceivesMailed, NetworkStepMailed, ElapseMailed
<1>5. ASSUME NEW a \in Addr,
             ClientProcesses(a) \/ ClientChecks(a) \/ ClientCalls(a) \/ ClientPolls(a)
      PROVE  Mailed'
  BY <1>5, ClientProcessesMailed, ClientOtherMailed
<1> QED
  BY <1>1, <1>2, <1>3, <1>4, <1>5 DEF Next


----------------------------------------------------------------------------
(* Refinement of GroupMail. The connections and what was sent on them say  *)
(* who is registered, who listens to a group and who is owed what: the     *)
(* groups agree with the connections, and what was sent is what is pending.*)

audienceOf == [g \in GroupId |-> Members(g)]
owedOf == [a \in Addr |->
              IF a \in Known THEN {p.packet.body : p \in Connections[a].Pending} ELSE {}]
deliveredOf == [a \in Addr |-> polled[a] \cup Range(client[a].ReceivedDataPackets)]

Listed(C) == [g \in GroupId |-> {a \in DOMAIN C : g \in C[a].GroupIds}]
Unsettled(C, S) == [a \in Addr |-> IF a \in DOMAIN C THEN {d.body : d \in S[a]} ELSE {}]

MailInv == TypeOK /\ GroupsConsistent /\ Kept /\ Mailed

LEMMA ListedAreMembers ==
    ASSUME NEW C, ConnsTyped(C), NEW G, GroupsTyped(G), Agree(C, G)
    PROVE  [g \in GroupId |-> IF g \in DOMAIN G THEN G[g] ELSE {}] = Listed(C)
<1>1. \A g \in GroupId : (IF g \in DOMAIN G THEN G[g] ELSE {})
                            = {a \in DOMAIN C : g \in C[a].GroupIds}
  BY DEF ConnsTyped, GroupsTyped, Agree
<1> QED
  BY <1>1 DEF Listed

LEMMA PendingAreSent ==
    ASSUME NEW C, NEW S, ServerKeeps(C, S), NothingElse(C, S), NEW a \in DOMAIN C
    PROVE  {p.packet.body : p \in C[a].Pending} = {d.body : d \in S[a]}
<1>1. Packets(C[a].Pending) = S[a]
  BY DEF ServerKeeps, ConnectionKeeps, NothingElse
<1>2. {p.packet.body : p \in C[a].Pending} = {d.body : d \in Packets(C[a].Pending)}
  BY DEF Packets
<1> QED
  BY <1>1, <1>2

LEMMA MailState ==
    ASSUME MailInv
    PROVE  audienceOf = Listed(Connections) /\ owedOf = Unsettled(Connections, sentOn)
<1>1. ConnsTyped(Connections) /\ GroupsTyped(Groups) /\ Agree(Connections, Groups)
  BY AgreeIsConsistent DEF MailInv, TypeOK, ServerTypeOK, ConnsTyped, GroupsTyped, Known
<1>2. audienceOf = Listed(Connections)
  BY <1>1, ListedAreMembers DEF audienceOf, Members
<1>3. \A a \in Known : {p.packet.body : p \in Connections[a].Pending}
                          = {d.body : d \in sentOn[a]}
  BY PendingAreSent DEF MailInv, Kept, Mailed, Known
<1>4. owedOf = Unsettled(Connections, sentOn)
  BY <1>3 DEF owedOf, Unsettled, Known
<1> QED
  BY <1>2, <1>4

LEMMA MailStateNext ==
    ASSUME MailInv'
    PROVE  audienceOf' = Listed(Connections') /\ owedOf' = Unsettled(Connections', sentOn')
<1>1. ConnsTyped(Connections') /\ GroupsTyped(Groups') /\ Agree(Connections', Groups')
  BY AgreeIsConsistentNext DEF MailInv, TypeOK, ServerTypeOK, ConnsTyped, GroupsTyped, Known
<1>2. audienceOf' = Listed(Connections')
  BY <1>1, ListedAreMembers DEF audienceOf, Members
<1>3. \A a \in DOMAIN Connections' : {p.packet.body : p \in Connections'[a].Pending}
                                        = {d.body : d \in sentOn'[a]}
  BY PendingAreSent DEF MailInv, Kept, Mailed
<1>4. owedOf' = Unsettled(Connections', sentOn')
  BY <1>3 DEF owedOf, Unsettled, Known
<1> QED
  BY <1>2, <1>4

\* The variables of GroupMail, by these names.
LEMMA MailVars ==
    ASSUME Known' = Known, audienceOf' = audienceOf, issued' = issued,
           owedOf' = owedOf, deliveredOf' = deliveredOf
    PROVE  UNCHANGED Mail!mailVars
BY DEF Mail!mailVars, audienceOf, owedOf, deliveredOf

LEMMA MailStutters ==
    ASSUME MailInv, MailInv', Known' = Known,
           \A a \in Known : Connections'[a].GroupIds = Connections[a].GroupIds,
           sentOn' = sentOn, issued' = issued, deliveredOf' = deliveredOf
    PROVE  UNCHANGED Mail!mailVars
<1>1. Listed(Connections') = Listed(Connections)
  BY DEF Listed, Known
<1>2. Unsettled(Connections', sentOn') = Unsettled(Connections, sentOn)
  BY DEF Unsettled, Known
<1> QED
  BY <1>1, <1>2, MailState, MailStateNext, MailVars

\* Who joins or leaves a group changes one audience, or none.
LEMMA JoinListed ==
    ASSUME NEW C, ConnsTyped(C), NEW a \in DOMAIN C, NEW g \in GroupId, Join(C, a, g)
    PROVE  /\ DOMAIN Connections' = DOMAIN C
           /\ Listed(Connections') = [Listed(C) EXCEPT ![g] = @ \cup {a}]
<1>1. C[a] \in Connection
  BY DEF ConnsTyped
<1>2. /\ DOMAIN Connections' = DOMAIN C
      /\ \A b \in DOMAIN C : Connections'[b].GroupIds =
            IF b = a THEN C[a].GroupIds \cup {g} ELSE C[b].GroupIds
  BY <1>1 DEF Join, ConnsTyped, Connection
<1> QED
  BY <1>2 DEF Listed

LEMMA LeaveListed ==
    ASSUME NEW C, ConnsTyped(C), NEW a \in DOMAIN C, NEW g \in GroupId, Leave(C, a, g)
    PROVE  /\ DOMAIN Connections' = DOMAIN C
           /\ Listed(Connections') = [Listed(C) EXCEPT ![g] = @ \ {a}]
<1>1. C[a] \in Connection
  BY DEF ConnsTyped
<1>2. /\ DOMAIN Connections' = DOMAIN C
      /\ \A b \in DOMAIN C : Connections'[b].GroupIds =
            IF b = a THEN C[a].GroupIds \ {g} ELSE C[b].GroupIds
  BY <1>1 DEF Leave, ConnsTyped, Connection
<1> QED
  BY <1>2 DEF Listed

\* A group request, from the wire or from the server's game.
LEMMA GroupStepIsMail ==
    ASSUME MailInv, MailInv', NEW C, ConnsTyped(C), DOMAIN C = Known,
           \A b \in Known : C[b].GroupIds = Connections[b].GroupIds,
           NEW a \in Known, NEW g \in GroupId, Join(C, a, g) \/ Leave(C, a, g),
           sentOn' = sentOn, issued' = issued, deliveredOf' = deliveredOf
    PROVE  Mail!MailNext
<1>1. Listed(C) = Listed(Connections)
  BY DEF Listed, Known
<1>2. a \in Addr
  BY DEF MailInv, TypeOK, ServerTypeOK
<1>3. /\ DOMAIN Connections' = Known
      /\ \/ audienceOf' = [audienceOf EXCEPT ![g] = @ \cup {a}]
         \/ audienceOf' = [audienceOf EXCEPT ![g] = @ \ {a}]
  BY <1>1, JoinListed, LeaveListed, MailState, MailStateNext
<1>4. owedOf' = owedOf
  BY <1>3, MailState, MailStateNext DEF Unsettled, Known
<1>5. owedOf' = [owedOf EXCEPT ![a] = @ \ {}]
  BY <1>2, <1>4 DEF owedOf
<1>6. Mail!Settle(a)
  BY <1>5 DEF Mail!Settle, owedOf
<1>7. Mail!Join(a, g) \/ Mail!Leave(a, g)
  BY <1>3, <1>6 DEF Mail!Join, Mail!Leave, audienceOf, deliveredOf, Known
<1> QED
  BY <1>2, <1>7 DEF Mail!MailNext


\* Disconnect, give-up and timeout: the clients of gone are forgotten, if any.
LEMMA DisconnectIsMail ==
    ASSUME MailInv, MailInv', NEW C, DOMAIN C = Known,
           \A b \in Known : C[b].GroupIds = Connections[b].GroupIds,
           NEW gone, DisconnectClients(C, gone), gone \subseteq Known,
           sentOn' = sentOn, issued' = issued, deliveredOf' = deliveredOf
    PROVE  [Mail!MailNext]_(Mail!mailVars)
<1>1. /\ DOMAIN Connections' = Known \ gone
      /\ \A a \in Known \ gone : Connections'[a].GroupIds = Connections[a].GroupIds
  BY DEF DisconnectClients, Restrict
<1>2. Listed(Connections') = [g \in GroupId |-> Listed(Connections)[g] \ gone]
  BY <1>1 DEF Listed, Known
<1>3. Unsettled(Connections', sentOn')
          = [a \in Addr |-> IF a \in gone THEN {} ELSE Unsettled(Connections, sentOn)[a]]
  BY <1>1 DEF Unsettled, Known
<1>4. /\ audienceOf' = [g \in GroupId |-> audienceOf[g] \ gone]
      /\ owedOf' = [a \in Addr |-> IF a \in gone THEN {} ELSE owedOf[a]]
  BY <1>2, <1>3, MailState, MailStateNext
<1>5. CASE gone = {}
  BY <1>1, <1>5, MailStutters DEF Known
<1>6. CASE gone # {}
  <2>1. Mail!Forget(gone)
    BY <1>1, <1>4, <1>6 DEF Mail!Forget, audienceOf, owedOf, deliveredOf, Known
  <2>2. gone \in SUBSET Addr
    BY DEF MailInv, TypeOK, ServerTypeOK
  <2> QED
    BY <2>1, <2>2 DEF Mail!MailNext
<1> QED
  BY <1>5, <1>6

LEMMA NewConnectionIsMail ==
    ASSUME MailInv, MailInv', NEW d, HandleNewConnection(d), deliveredOf' = deliveredOf
    PROVE  Mail!MailNext
<1>1. /\ d.peer \in Addr /\ d.peer \notin Known
      /\ Connections' = Put(Connections, d.peer, NewConnection)
      /\ sentOn' = [sentOn EXCEPT ![d.peer] = {}] /\ issued' = issued
  BY DequeueTyped DEF HandleNewConnection, MailInv
<1>2. /\ DOMAIN Connections' = Known \cup {d.peer}
      /\ \A a \in Known : Connections'[a] = Connections[a]
      /\ Connections'[d.peer].GroupIds = {}
  BY <1>1 DEF Put, Known, NewConnection
<1>3. Listed(Connections') = Listed(Connections)
  BY <1>1, <1>2 DEF Listed, Known
<1>4. \A a \in Addr : sentOn'[a] = IF a = d.peer THEN {} ELSE sentOn[a]
  BY <1>1 DEF MailInv, TypeOK, ServerTypeOK
<1>5. Unsettled(Connections', sentOn') = Unsettled(Connections, sentOn)
  <2>1. ASSUME NEW a \in Addr
        PROVE  (IF a \in Known \cup {d.peer} THEN {e.body : e \in sentOn'[a]} ELSE {})
                   = IF a \in Known THEN {e.body : e \in sentOn[a]} ELSE {}
    <3>1. CASE a = d.peer
      <4>1. sentOn'[a] = {} /\ a \notin Known
        BY <1>1, <1>4, <3>1
      <4> QED
        BY <4>1
    <3>2. CASE a # d.peer
      <4>1. sentOn'[a] = sentOn[a] /\ (a \in Known \cup {d.peer} <=> a \in Known)
        BY <1>4, <3>2
      <4> QED
        BY <4>1
    <3> QED
      BY <3>1, <3>2
  <2> QED
    BY <1>2, <2>1 DEF Unsettled, Known
<1>6. audienceOf' = audienceOf /\ owedOf' = owedOf
  BY <1>3, <1>5, MailState, MailStateNext
<1>7. Mail!Register(d.peer)
  BY <1>1, <1>2, <1>6 DEF Mail!Register, audienceOf, owedOf, deliveredOf, Known
<1> QED
  BY <1>1, <1>7 DEF Mail!MailNext

\* SendTo and BroadcastToGroup owe the payload to every one of their targets.
LEMMA SendToAllIsPost ==
    ASSUME MailInv, MailInv', NEW T \in SUBSET Known, NEW o \in Order,
           \A a \in T : o.msg \notin Issued(a), SendToAll(T, o), UNCHANGED Groups,
           deliveredOf' = deliveredOf
    PROVE  Mail!Post(T, o)
<1> DEFINE data(a) == DataFor(a, Connections[a], o.msg)
<1>1. \A a \in Known : Connections[a] \in Connection /\ a \in Addr
  BY DEF MailInv, TypeOK, ServerTypeOK
<1>2. \A a \in Known : data(a).body = o.msg
  BY DEF DataFor, Packet
<1>3. DOMAIN Connections' = Known
  BY DEF SendToAll
<1>4. /\ issued' = [a \in Addr |-> IF a \in T THEN issued[a] \cup {o} ELSE issued[a]]
      /\ sentOn' = [a \in Addr |-> IF a \in T THEN sentOn[a] \cup {data(a)} ELSE sentOn[a]]
  BY DEF SendToAll
<1> HIDE DEF data
<1>5. Unsettled(Connections', sentOn') =
          [a \in Addr |-> IF a \in T THEN Unsettled(Connections, sentOn)[a] \cup {o.msg}
                                     ELSE Unsettled(Connections, sentOn)[a]]
  <2>1. \A a \in T : {d.body : d \in sentOn[a] \cup {data(a)}}
                        = {d.body : d \in sentOn[a]} \cup {o.msg}
    BY <1>2
  <2> QED
    BY <1>1, <1>3, <1>4, <2>1 DEF Unsettled, Known
<1>6. owedOf' = [a \in Addr |-> IF a \in T THEN owedOf[a] \cup {o.msg} ELSE owedOf[a]]
  BY <1>5, MailState, MailStateNext
<1>7. audienceOf' = audienceOf
  BY DEF audienceOf, Members
<1> QED
  BY <1>3, <1>4, <1>6, <1>7
  DEF Mail!Post, Mail!Messages, Issued, audienceOf, owedOf, deliveredOf, Known

----------------------------------------------------------------------------
(* Every step is a step of GroupMail, or none.                             *)

LEMMA SameDelivered ==
    ASSUME UNCHANGED clientVars PROVE deliveredOf' = deliveredOf
BY DEF clientVars, deliveredOf

\* Hearing a known client changes neither who is registered nor the groups.
LEMMA HeardListed ==
    ASSUME TypeOK, NEW d, d.peer \in Known
    PROVE  /\ ConnsTyped(Heard(d)) /\ DOMAIN Heard(d) = Known
           /\ \A a \in Known : Heard(d)[a].GroupIds = Connections[a].GroupIds
<1>1. ConnsTyped(Connections) /\ Connections[d.peer] \in Connection
  BY DEF TypeOK, ServerTypeOK, ConnsTyped, Known
<1> QED
  BY <1>1, HeardTyped, HeardFromTyped

LEMMA ServerProcessesIsMail ==
    ASSUME MailInv, MailInv', ServerProcesses
    PROVE  [Mail!MailNext]_(Mail!mailVars)
<1>1. PICK d : ProcessReceivedPacket(d) /\ Dequeue(d)
  BY DEF ServerProcesses, ProcessReceivedPacket, HandleNewConnection, IgnoreUnknown,
         HandleData, HandleDisconnect, HandleGroupRequest, HandleOther
<1>2. d.peer \in Addr /\ TypeOK /\ deliveredOf' = deliveredOf
  BY <1>1, DequeueTyped, SameDelivered DEF ServerProcesses, MailInv
<1>3. CASE HandleNewConnection(d)
  BY <1>2, <1>3, NewConnectionIsMail
<1>4. CASE IgnoreUnknown(d)
  BY <1>2, <1>4, MailStutters DEF IgnoreUnknown, Known
<1>5. CASE HandleData(d)
  <2>1. d.peer \in Known /\ issued' = issued /\ sentOn' = sentOn
    BY <1>5 DEF HandleData
  <2>2. PICK r : Connections' = [Heard(d) EXCEPT ![d.peer].Received = r]
    BY <1>5 DEF HandleData
  <2>3. /\ ConnsTyped(Heard(d)) /\ DOMAIN Heard(d) = Known
        /\ \A a \in Known : Heard(d)[a].GroupIds = Connections[a].GroupIds
    BY <1>2, <2>1, HeardListed
  <2>4. /\ DOMAIN Connections' = Known
        /\ \A a \in Known : Connections'[a].GroupIds = Connections[a].GroupIds
    BY <2>1, <2>2, <2>3 DEF ConnsTyped, Connection
  <2> QED
    BY <1>2, <2>1, <2>4, MailStutters DEF Known
<1>6. CASE HandleDisconnect(d)
  <2>1. /\ d.peer \in Known /\ DisconnectClients(Heard(d), {d.peer})
        /\ issued' = issued /\ sentOn' = sentOn
    BY <1>6 DEF HandleDisconnect
  <2> QED
    BY <1>2, <2>1, HeardListed, DisconnectIsMail
<1>7. CASE HandleGroupRequest(d)
  <2>1. /\ d.peer \in Known /\ d.body \in GroupId
        /\ (Join(Heard(d), d.peer, d.body) \/ Leave(Heard(d), d.peer, d.body))
        /\ issued' = issued /\ sentOn' = sentOn
    BY <1>7 DEF HandleGroupRequest
  <2> QED
    BY <1>2, <2>1, HeardListed, GroupStepIsMail
<1>8. CASE HandleOther(d)
  <2>1. d.peer \in Known /\ Connections' = Heard(d) /\ issued' = issued /\ sentOn' = sentOn
    BY <1>8 DEF HandleOther
  <2> QED
    BY <1>2, <2>1, HeardListed, MailStutters DEF Known
<1> QED
  BY <1>1, <1>3, <1>4, <1>5, <1>6, <1>7, <1>8 DEF ProcessReceivedPacket

LEMMA ServerChecksIsMail ==
    ASSUME MailInv, MailInv', ServerChecks
    PROVE  [Mail!MailNext]_(Mail!mailVars)
<1> DEFINE after(again) == [a \in Known |->
               [Connections[a] EXCEPT !.Pending = ResendAll(@, again \cap @)]]
<1>1. PICK again : DisconnectClients(after(again), GivenUp \cup TimedOut)
  BY DEF ServerChecks, TickChecks
<1>2. ASSUME NEW a \in Known PROVE after(again)[a].GroupIds = Connections[a].GroupIds
  <2> DEFINE P == ResendAll(Connections[a].Pending, again \cap Connections[a].Pending)
  <2>1. after(again)[a] = [Connections[a] EXCEPT !.Pending = P]
    OBVIOUS
  <2>2. Connections[a] \in Connection
    BY DEF MailInv, TypeOK, ServerTypeOK
  <2> HIDE DEF P
  <2> QED
    BY <2>1, <2>2 DEF Connection
<1>3. DOMAIN after(again) = Known
  OBVIOUS
<1>4. GivenUp \cup TimedOut \subseteq Known
  BY DEF GivenUp, TimedOut
<1>5. sentOn' = sentOn /\ issued' = issued /\ deliveredOf' = deliveredOf
  BY SameDelivered DEF ServerChecks, TickChecks
<1> HIDE DEF after
<1> QED
  BY <1>1, <1>2, <1>3, <1>4, <1>5, DisconnectIsMail

LEMMA ServerCallsIsMail ==
    ASSUME MailInv, MailInv', ServerCalls
    PROVE  [Mail!MailNext]_(Mail!mailVars)
<1>1. deliveredOf' = deliveredOf
  BY SameDelivered DEF ServerCalls
<1>2. CASE \E a \in Addr, p \in Payload : SendTo(a, p)
  <2>1. PICK a \in Addr, p \in Payload : SendTo(a, p)
    BY <1>2
  <2> DEFINE o == DirectOrder(p)
  <2>2. /\ {a} \in SUBSET Known /\ SendToAll({a}, o) /\ UNCHANGED Groups
        /\ o \in Order /\ o.msg \notin Issued(a)
    BY <2>1 DEF SendTo, MaySend, DirectOrder, Order
  <2> HIDE DEF o
  <2>3. Mail!Post({a}, o)
    BY <1>1, <2>2, SendToAllIsPost
  <2>4. Mail!PostTo(a, p)
    BY <2>3 DEF Mail!PostTo, Mail!Order, o, DirectOrder
  <2> QED
    BY <2>4 DEF Mail!MailNext
<1>3. CASE \E g \in GroupId, p \in Payload, x \in {{}} \cup {{a} : a \in Addr} :
              BroadcastToGroup(g, p, x)
  <2>1. PICK g \in GroupId, p \in Payload, x \in {{}} \cup {{a} : a \in Addr} :
              BroadcastToGroup(g, p, x)
    BY <1>3
  <2> PICK X \in {{}} \cup {{a} : a \in Addr} : X = x \cap Members(g)
    OBVIOUS
  <2> PICK T \in SUBSET Known : T = (Groups[g] \ x) \cap Known
    OBVIOUS
  <2> DEFINE o == [msg |-> p, group |-> g, except |-> X]
  <2>2. o = GroupOrder(g, p, x) /\ o \in Order /\ o.msg = p
    BY OrdersTyped DEF GroupOrder
  <2> HIDE DEF o
  <2>3. g \in DOMAIN Groups /\ SendToAll(T, o) /\ UNCHANGED Groups
    BY <2>1, <2>2 DEF BroadcastToGroup, SendToAll
  <2>4. \A a \in T : o.msg \notin Issued(a)
    BY <2>1, <2>2 DEF BroadcastToGroup, MaySend
  <2>5. Mail!Post(T, o)
    BY <1>1, <2>2, <2>3, <2>4, SendToAllIsPost
  <2>6. Groups[g] \subseteq Known
    BY <2>3 DEF MailInv, TypeOK, ServerTypeOK, GroupsConsistent, Members
  <2>7. T = audienceOf[g] \ X
    BY <2>3, <2>6 DEF audienceOf, Members
  <2>8. Mail!PostToGroup(g, p, X)
    BY <2>5, <2>7 DEF Mail!PostToGroup, Mail!Post, Mail!Order, o, audienceOf
  <2> QED
    BY <2>8 DEF Mail!MailNext
<1>4. CASE \E a \in Addr, g \in GroupId : JoinGroup(a, g) \/ LeaveGroup(a, g)
  <2>1. PICK a \in Addr, g \in GroupId : JoinGroup(a, g) \/ LeaveGroup(a, g)
    BY <1>4
  <2>2. /\ Join(Connections, a, g) \/ Leave(Connections, a, g)
        /\ sentOn' = sentOn /\ issued' = issued
    BY <2>1 DEF JoinGroup, LeaveGroup
  <2>3. CASE a \in Known
    <3>1. ConnsTyped(Connections) /\ DOMAIN Connections = Known
      BY DEF MailInv, TypeOK, ServerTypeOK, ConnsTyped, Known
    <3> QED
      BY <1>1, <2>2, <2>3, <3>1, GroupStepIsMail
  <2>4. CASE a \notin Known
    BY <1>1, <2>2, <2>4, MailStutters DEF Join, Leave, Known
  <2> QED
    BY <2>3, <2>4
<1> QED
  BY <1>2, <1>3, <1>4 DEF ServerCalls


LEMMA AppendRange ==
    ASSUME NEW S, NEW q \in Seq(S), NEW e \in S
    PROVE  Range(Append(q, e)) = Range(q) \cup {e}
<1>1. /\ Len(q) \in Nat /\ Len(Append(q, e)) = Len(q) + 1
      /\ \A i \in 1 .. Len(q) : Append(q, e)[i] = q[i]
      /\ Append(q, e)[Len(q) + 1] = e
  OBVIOUS
<1>2. DOMAIN Append(q, e) = DOMAIN q \cup {Len(q) + 1} /\ DOMAIN q = 1 .. Len(q)
  BY <1>1
<1> QED
  BY <1>1, <1>2 DEF Range

LEMMA HeadTailRange ==
    ASSUME NEW S, NEW q \in Seq(S), q # <<>>
    PROVE  Range(q) = {Head(q)} \cup Range(Tail(q))
<1>1. Len(q) \in Nat \ {0} /\ q \in [1 .. Len(q) -> S] /\ Head(q) = q[1]
  OBVIOUS
<1>2. Tail(q) \in Seq(S) /\ Len(Tail(q)) = Len(q) - 1
  BY <1>1
<1>3. \A i \in 1 .. Len(q) - 1 : Tail(q)[i] = q[i + 1]
  BY <1>1
<1>4. Head(q) \in Range(q) /\ Range(Tail(q)) \subseteq Range(q)
  BY TailTyped
<1>5. ASSUME NEW i \in 1 .. Len(q) PROVE q[i] \in {Head(q)} \cup Range(Tail(q))
  <2>1. CASE i = 1
    BY <1>1, <2>1
  <2>2. CASE i # 1
    <3>1. i - 1 \in DOMAIN Tail(q) /\ Tail(q)[i - 1] = q[i]
      BY <1>1, <1>2, <1>3, <2>2
    <3> QED
      BY <3>1 DEF Range
  <2> QED
    BY <2>1, <2>2
<1> QED
  BY <1>1, <1>4, <1>5 DEF Range

\* Steps that leave the server as it is, and what the games have been given.
LEMMA ClientStutters ==
    ASSUME MailInv, MailInv', UNCHANGED serverVars, deliveredOf' = deliveredOf
    PROVE  UNCHANGED Mail!mailVars
BY MailStutters DEF serverVars, Known

LEMMA SameQueues ==
    ASSUME TypeOK, polled' = polled, NEW a \in Addr,
           \/ client' = client
           \/ \E c : /\ client' = [client EXCEPT ![a] = c]
                     /\ c.ReceivedDataPackets = client[a].ReceivedDataPackets
    PROVE  deliveredOf' = deliveredOf
<1>1. \A x \in Addr : client'[x].ReceivedDataPackets = client[x].ReceivedDataPackets
  BY DEF TypeOK, ClientTypeOK
<1> QED
  BY <1>1 DEF deliveredOf

\* Tick of a client: a Data packet is delivered to the game, unless it has its
\* payload already.
LEMMA ClientProcessesIsMail ==
    ASSUME MailInv, MailInv', NEW a \in Addr, ClientProcesses(a)
    PROVE  [Mail!MailNext]_(Mail!mailVars)
<1> DEFINE d == Head(client[a].IncomingPackets)
           old == client[a].ReceivedDataPackets
<1>1. client \in [Addr -> Client] /\ client[a] \in Client
  BY DEF MailInv, TypeOK, ClientTypeOK
<1>2. client[a].IncomingPackets \in Seq(Datagram) /\ client[a].IncomingPackets # <<>>
      /\ old \in Seq(Body)
  BY <1>1 DEF ClientProcesses, ClientProcessPacket, Client
<1>3. d \in Datagram /\ d \in Range(client[a].IncomingPackets)
  BY <1>2, TailTyped
<1>4. PICK r : client' = [client EXCEPT ![a] = Processed(client[a], d, r)]
  BY DEF ClientProcesses, ClientProcessPacket
<1> DEFINE new == Processed(client[a], d, r).ReceivedDataPackets
<1>5. new = IF d.type = "Data" THEN Append(old, d.body) ELSE old
  BY <1>1 DEF Processed, Client
<1>6. UNCHANGED serverVars /\ polled' = polled
  BY DEF ClientProcesses, ClientProcessPacket
<1> HIDE DEF d, new
<1>7. \A x \in Addr : client'[x].ReceivedDataPackets =
                         IF x = a THEN new ELSE client[x].ReceivedDataPackets
  BY <1>1, <1>4 DEF new
<1>8. CASE d.type # "Data"
  <2>1. deliveredOf' = deliveredOf
    BY <1>5, <1>6, <1>7, <1>8 DEF deliveredOf
  <2> QED
    BY <1>6, <2>1, ClientStutters
<1>9. CASE d.type = "Data"
  <2>1. d.body \in Issued(a) /\ d.body \in Payload
    BY <1>3, <1>9 DEF MailInv, Mailed, ArrivingIssued, TypeOK, ServerTypeOK, Issued, Order
  <2> PICK m \in Payload : m = d.body
    BY <2>1
  <2>2. Range(new) = Range(old) \cup {m}
    BY <1>2, <1>3, <1>5, <1>9, AppendRange DEF Datagram
  <2>3. deliveredOf' = [deliveredOf EXCEPT ![a] = @ \cup {m}]
    BY <1>6, <1>7, <2>2 DEF deliveredOf
  <2>4. CASE m \in deliveredOf[a]
    <3>1. deliveredOf' = deliveredOf
      BY <2>3, <2>4 DEF deliveredOf
    <3> QED
      BY <1>6, <3>1, ClientStutters
  <2>5. CASE m \notin deliveredOf[a]
    <3>1. Mail!Deliver(a, m)
      BY <1>6, <2>1, <2>3, <2>5
      DEF Mail!Deliver, Mail!Messages, Issued, deliveredOf, Members, Known, serverVars
    <3> QED
      BY <3>1 DEF Mail!MailNext
  <2> QED
    BY <2>4, <2>5
<1> QED
  BY <1>8, <1>9

\* What a game polls it had been given.
LEMMA ClientPollsIsMail ==
    ASSUME MailInv, MailInv', NEW a \in Addr, ClientPolls(a)
    PROVE  UNCHANGED Mail!mailVars
<1> DEFINE q == client[a].ReceivedDataPackets
           e == [client[a] EXCEPT !.ReceivedDataPackets = Tail(q)]
<1>1. client \in [Addr -> Client] /\ client[a] \in Client /\ polled \in [Addr -> SUBSET Body]
  BY DEF MailInv, TypeOK, ClientTypeOK
<1>2. q \in Seq(Body) /\ q # <<>>
  BY <1>1 DEF ClientPolls, Poll, Client
<1>3. Range(q) = {Head(q)} \cup Range(Tail(q))
  BY <1>2, HeadTailRange
<1>4. /\ client' = [client EXCEPT ![a] = e]
      /\ polled' = [polled EXCEPT ![a] = @ \cup {Head(q)}]
      /\ UNCHANGED serverVars
  BY DEF ClientPolls, Poll
<1>5. e.ReceivedDataPackets = Tail(q)
  BY <1>1 DEF Client
<1> HIDE DEF e
<1>6. \A x \in Addr : polled'[x] \cup Range(client'[x].ReceivedDataPackets)
                          = polled[x] \cup Range(client[x].ReceivedDataPackets)
  BY <1>1, <1>3, <1>4, <1>5
<1>7. deliveredOf' = deliveredOf
  BY <1>6 DEF deliveredOf
<1> QED
  BY <1>4, <1>7, ClientStutters

LEMMA ClientReceivesIsMail ==
    ASSUME MailInv, MailInv', ClientReceives
    PROVE  UNCHANGED Mail!mailVars
<1>1. PICK d \in toClient : ClientRun(d)
  BY DEF ClientReceives
<1>2. d.peer \in Addr
  BY DEF MailInv, TypeOK, NetTypeOK, Datagram
<1> DEFINE queue == Append(client[d.peer].IncomingPackets, d)
<1>3. client' = [client EXCEPT ![d.peer].IncomingPackets = queue] /\ polled' = polled
  BY <1>1 DEF ClientRun
<1> HIDE DEF queue
<1>4. \A x \in Addr : client'[x].ReceivedDataPackets = client[x].ReceivedDataPackets
  BY <1>2, <1>3 DEF MailInv, TypeOK, ClientTypeOK, Client
<1>5. deliveredOf' = deliveredOf
  BY <1>3, <1>4 DEF deliveredOf
<1> QED
  BY <1>5, ClientStutters DEF ClientReceives

LEMMA ElapseIsMail ==
    ASSUME MailInv, MailInv', Elapse
    PROVE  UNCHANGED Mail!mailVars
<1>1. \A a \in Known : Connections[a] \in Connection
  BY DEF MailInv, TypeOK, ServerTypeOK
<1>2. /\ DOMAIN Connections' = Known
      /\ \A a \in Known : Connections'[a].GroupIds = Connections[a].GroupIds
  BY <1>1 DEF Elapse, ServerAges, Connection
<1>3. \A a \in Addr : client'[a].ReceivedDataPackets = client[a].ReceivedDataPackets
  BY DEF Elapse, ClientsAge, MailInv, TypeOK, ClientTypeOK, Client
<1>4. deliveredOf' = deliveredOf
  BY <1>3 DEF Elapse, ClientsAge, deliveredOf
<1> QED
  BY <1>2, <1>4, MailStutters DEF Elapse, ServerAges, Known

LEMMA StepIsMail ==
    ASSUME MailInv, MailInv', [Next]_vars
    PROVE  [Mail!MailNext]_(Mail!mailVars)
<1>1. CASE UNCHANGED vars
  BY <1>1, SameDelivered, ClientStutters DEF vars
<1>2. CASE ServerReceives
  BY <1>2, SameDelivered, MailStutters DEF ServerReceives, Run, Known
<1>3. CASE ServerProcesses \/ ServerChecks \/ ServerCalls
  BY <1>3, ServerProcessesIsMail, ServerChecksIsMail, ServerCallsIsMail
<1>4. CASE ClientReceives \/ Elapse
  BY <1>4, ClientReceivesIsMail, ElapseIsMail
<1>5. CASE NetworkStep
  BY <1>5, SameDelivered, ClientStutters DEF NetworkStep, Unreachable
<1>6. ASSUME NEW a \in Addr, ClientChecks(a) \/ ClientCalls(a)
      PROVE  UNCHANGED Mail!mailVars
  <2>1. UNCHANGED serverVars /\ polled' = polled
    BY <1>6 DEF ClientChecks, ClientCheckForResends, ClientCalls, Connect, Disconnect,
       Send, ClientJoinGroup, ClientLeaveGroup, clientVars
  <2>2. deliveredOf' = deliveredOf
    BY <1>6, <2>1, ClientKeepsQueues, SameQueues DEF MailInv
  <2> QED
    BY <2>1, <2>2, ClientStutters
<1> QED
  BY <1>1, <1>2, <1>3, <1>4, <1>5, <1>6, ClientProcessesIsMail, ClientPollsIsMail DEF Next

LEMMA InitIsMail == Init => Mail!MailInit
<1>1. Range(<<>>) = {}
  BY DEF Range
<1> QED
  BY <1>1 DEF Init, ServerInit, ClientInit, NewClient, Mail!MailInit, Members, Known

LEMMA MailInvAlways == NoWrap => (Spec => []MailInv)
<1> SUFFICES ASSUME NoWrap PROVE Spec => []MailInv
  OBVIOUS
<1>1. Init => MailInv
  BY InitTyped, InitAgrees, InitKeeps, InitMailed DEF MailInv
<1>2. MailInv /\ [Next]_vars => MailInv'
  BY NextTyped, NextAgrees, NextKeeps, NextMailed DEF MailInv
<1> QED
  BY <1>1, <1>2, PTL DEF Spec

\* As long as no counter comes near 2^32, server, clients and network implement
\* GroupMail, whatever is lost, copied or reordered: a broadcast is owed to
\* all the members its group has at that moment but for the one it is told to
\* leave out (BroadcastToGroup), a payload of SendTo to its one receiver, what is
\* owed stays so until it is delivered or its receiver forgotten, and only what
\* was posted to a client is delivered to it.
THEOREM UdpIsGroupMail == NoWrap => (Spec => IsGroupMail)
<1> SUFFICES ASSUME NoWrap PROVE Spec => IsGroupMail
  OBVIOUS
<1>1. Spec => []MailInv
  BY MailInvAlways
<1>2. MailInv /\ MailInv' /\ [Next]_vars => [Mail!MailNext]_(Mail!mailVars)
  BY StepIsMail
<1> QED
  BY <1>1, <1>2, InitIsMail, PTL DEF Spec, IsGroupMail, Mail!MailSpec
=============================================================================
