-------------------------- MODULE ENetManagerProofs --------------------------
(***************************************************************************)
(* Proofs about ENetManager, for any number of peers, groups, host places  *)
(* and connections, and callbacks that stop and start the host.            *)
(***************************************************************************)
EXTENDS ENetManager, TLAPS

USE DEF Pointer

----------------------------------------------------------------------------
(* Where the peers in use are.                                             *)

\* Only the peers of the present host are in use, a client uses one, and its
\* ServerPeer is that one.
PeersInHost ==
    /\ Host = "none" => \A p \in Pointer : peer[p] = "free"
    /\ \A p \in Pointer : peer[p] # "free" => p[1] = block
    /\ Host = "client" => \A p \in Pointer : peer[p] # "free" => p = <<block, 1>>
    /\ ServerPeer # NullPeer => ServerPeer = <<block, 1>>

\* The peer of a disconnect is in use during the callback only if the callback
\* has started a client.
BackInCallback ==
    /\ at = "callback" /\ Event.type = "disconnect"
    /\ ServerPeer = Event.peer /\ ServerPeer # NullPeer
    => peer[ServerPeer] = "free" \/ reborn

HostInv == ENetTypeOK /\ PeersInHost /\ ServerPeerIsConnection /\ BackInCallback

\* The connections a group was told of are past or present ones of their peers.
AddedInPast ==
    \A g \in Group : \A p \in Pointer, n \in Nat :
        <<p, n>> \in added[g] => n <= life[p]

\* A peer is not in a group before it has connected.
NotBefore ==
    \A g \in Group : \A p \in Pointer :
        peer[p] = "connecting" => <<p, life[p]>> \notin added[g]

\* A group holds the peers whose present connection it was told of.
GroupsHold ==
    \A g \in Group : \A p \in Pointer :
        p \in ClientGroups[g] <=> peer[p] = "connected" /\ <<p, life[p]>> \in added[g]

GroupInv == AddedInPast /\ NotBefore /\ GroupsHold

IInv == HostInv /\ GroupInv

LEMMA FirstSlot == ASSUME NEW b \in Block PROVE <<b, 1>> \in Pointer
  BY ENetAssumption

----------------------------------------------------------------------------
LEMMA InitInv == Init => IInv
  <1> SUFFICES ASSUME Init PROVE IInv
    OBVIOUS
  <1>1. ENetTypeOK
    BY NullAssumption DEF Init, ENetTypeOK, NoEvent
  <1>2. PeersInHost /\ BackInCallback
    BY DEF Init, PeersInHost, BackInCallback
  <1>3. ServerPeerIsConnection
    BY DEF Init, ServerPeerIsConnection
  <1>4. GroupInv
    BY DEF Init, GroupInv, AddedInPast, NotBefore, GroupsHold
  <1> QED
    BY <1>1, <1>2, <1>3, <1>4 DEF IInv, HostInv

----------------------------------------------------------------------------
(* The host: type, place of the peers, ServerPeer.                         *)

LEMMA StartKeepsHost ==
  ASSUME HostInv, StartServer \/ StartClient \/ StartClientFails
  PROVE  HostInv'
  <1> USE NullAssumption, ENetAssumption, FirstSlot DEF HostInv
  <1>1. CASE StartServer
    <2> USE <1>1 DEF StartServer, CreateHost, tickVars, MayRestart, GameRuns
    <2>1. ENetTypeOK' BY DEF ENetTypeOK
    <2>2. ServerPeer = NullPeer BY DEF ENetTypeOK
    <2>3. PeersInHost' BY <2>2 DEF PeersInHost, ENetTypeOK
    <2>4. ServerPeerIsConnection' BY <2>2 DEF ServerPeerIsConnection
    <2>5. BackInCallback' BY <2>2 DEF BackInCallback
    <2> QED BY <2>1, <2>3, <2>4, <2>5
  <1>2. CASE StartClient
    <2> USE <1>2 DEF StartClient, CreateHost, tickVars, MayRestart, GameRuns
    <2>1. ENetTypeOK' BY DEF ENetTypeOK
    <2>2. \A p \in Pointer : peer[p] = "free" BY DEF PeersInHost
    <2>3. <<block', 1>> \in Pointer BY FirstSlot
    <2>4. ServerPeer' = <<block', 1>> /\ peer'[<<block', 1>>] = "connecting"
      BY <2>3 DEF ENetTypeOK
    <2>5. PeersInHost'
      <3>1. \A p \in Pointer : peer'[p] # "free" => p = <<block', 1>>
        BY <2>2, <2>3 DEF ENetTypeOK
      <3> QED BY <3>1, <2>4 DEF PeersInHost
    <2>6. ServerPeerIsConnection' BY <2>4 DEF ServerPeerIsConnection
    <2>7. BackInCallback' BY <2>4 DEF BackInCallback, ENetTypeOK
    <2> QED BY <2>1, <2>5, <2>6, <2>7
  <1>3. CASE StartClientFails
    <2> USE <1>3 DEF StartClientFails, CreateHost, tickVars, MayRestart, GameRuns
    <2>1. ENetTypeOK' BY DEF ENetTypeOK
    <2>2. ServerPeer = NullPeer BY DEF ENetTypeOK
    <2>3. \A p \in Pointer : peer'[p] = "free" BY DEF PeersInHost
    <2>4. PeersInHost' BY <2>2, <2>3 DEF PeersInHost
    <2>5. ServerPeerIsConnection' BY <2>2, <2>3, FirstSlot DEF ServerPeerIsConnection
    <2>6. BackInCallback' BY <2>2 DEF BackInCallback
    <2> QED BY <2>1, <2>4, <2>5, <2>6
  <1> QED BY <1>1, <1>2, <1>3

LEMMA StopKeepsHost == ASSUME HostInv, Stop PROVE HostInv'
  <1> USE NullAssumption DEF HostInv, Stop, tickVars
  <1>1. ENetTypeOK' BY DEF ENetTypeOK
  <1>2. PeersInHost' BY DEF PeersInHost
  <1>3. ServerPeerIsConnection' BY DEF ServerPeerIsConnection
  <1>4. BackInCallback' BY DEF BackInCallback
  <1> QED BY <1>1, <1>2, <1>3, <1>4

LEMMA ServiceKeepsHost ==
  ASSUME HostInv, NEW p \in Pointer,
         ServiceConnect(p) \/ ServiceReceive(p) \/ ServiceDisconnect(p)
  PROVE  HostInv'
  <1> USE NullAssumption, ENetAssumption, FirstSlot DEF HostInv, Service
  <1>1. at = "loop" /\ at' = "callback" /\ Host # "none"
    BY DEF ServiceConnect, ServiceReceive, ServiceDisconnect
  <1>2. block' = block /\ ServerPeer' = ServerPeer /\ Host' = Host /\ reborn' = reborn
    BY DEF ServiceConnect, ServiceReceive, ServiceDisconnect
  <1>3. ServerPeer # NullPeer => peer[ServerPeer] # "free"
    BY <1>1 DEF ServerPeerIsConnection
  <1>4. CASE ServiceConnect(p)
    <2> USE <1>4 DEF ServiceConnect
    <2>1. ENetTypeOK' BY <1>2 DEF ENetTypeOK
    <2>2. peer' = [peer EXCEPT ![p] = "connected"] /\ p[1] = block OBVIOUS
    <2>3. Host = "client" => p = <<block, 1>> BY DEF PeersInHost
    <2>4. PeersInHost' BY <1>1, <1>2, <2>2, <2>3 DEF PeersInHost, ENetTypeOK
    <2>5. ServerPeer # NullPeer => peer'[ServerPeer] # "free"
      BY <1>3, <2>2 DEF ENetTypeOK
    <2>6. ServerPeerIsConnection'
      <3>1. Host = "client" => peer[<<block, 1>>] # "free"
        BY <2>3
      <3> QED BY <1>2, <2>5, <3>1 DEF ServerPeerIsConnection
    <2>7. BackInCallback' BY DEF BackInCallback
    <2> QED BY <2>1, <2>4, <2>6, <2>7
  <1>5. CASE ServiceReceive(p)
    <2> USE <1>5 DEF ServiceReceive
    <2>1. ENetTypeOK' BY <1>2 DEF ENetTypeOK
    <2>2. PeersInHost' BY <1>2 DEF PeersInHost
    <2>3. ServerPeerIsConnection' BY <1>2, <1>3 DEF ServerPeerIsConnection
    <2>4. BackInCallback' BY DEF BackInCallback
    <2> QED BY <2>1, <2>2, <2>3, <2>4
  <1>6. CASE ServiceDisconnect(p)
    <2> USE <1>6 DEF ServiceDisconnect
    <2>1. ENetTypeOK' BY <1>2 DEF ENetTypeOK, WithoutPeer
    <2>2. peer' = [peer EXCEPT ![p] = "free"] OBVIOUS
    <2>3. PeersInHost' BY <1>1, <1>2, <2>2 DEF PeersInHost, ENetTypeOK
    <2>4. ServerPeerIsConnection'
      <3>1. Host = "client" /\ peer'[<<block, 1>>] # "free" => peer[<<block, 1>>] # "free"
        BY <2>2, FirstSlot DEF ENetTypeOK
      <3>2. ServerPeer # NullPeer /\ peer'[ServerPeer] = "free" => ServerPeer = p
        BY <1>3, <2>2 DEF ENetTypeOK
      <3> QED BY <1>1, <1>2, <3>1, <3>2 DEF ServerPeerIsConnection
    <2>5. BackInCallback' BY <1>2, <2>2 DEF BackInCallback, ENetTypeOK
    <2> QED BY <2>1, <2>3, <2>4, <2>5
  <1> QED BY <1>4, <1>5, <1>6

LEMMA TickKeepsHost ==
  ASSUME HostInv, Tick \/ ServiceNothing \/ ServiceNull
  PROVE  HostInv'
  <1> USE DEF HostInv, Tick, ServiceNothing, ServiceNull, hostVars
  <1>1. ENetTypeOK' BY DEF ENetTypeOK
  <1>2. PeersInHost' BY DEF PeersInHost
  <1>3. ServerPeerIsConnection' BY DEF ServerPeerIsConnection
  <1>4. BackInCallback' BY DEF BackInCallback
  <1> QED BY <1>1, <1>2, <1>3, <1>4

LEMMA EndCallbackKeepsHost == ASSUME HostInv, EndCallback PROVE HostInv'
  <1> USE NullAssumption DEF HostInv, EndCallback
  <1>1. ENetTypeOK' BY DEF ENetTypeOK
  <1>2. PeersInHost' BY DEF PeersInHost
  <1>3. ServerPeerIsConnection'
    <2>1. CASE Event.type = "disconnect" /\ Event.peer = ServerPeer
      BY <2>1 DEF ServerPeerIsConnection, BackInCallback, ENetTypeOK
    <2>2. CASE ~(Event.type = "disconnect" /\ Event.peer = ServerPeer)
      BY <2>2 DEF ServerPeerIsConnection
    <2> QED BY <2>1, <2>2
  <1>4. BackInCallback' BY DEF BackInCallback
  <1> QED BY <1>1, <1>2, <1>3, <1>4

GroupStep ==
    \E p \in Pointer :
        \/ RemovePeerFromAllGroups(p)
        \/ \E g \in Group : AddPeerToGroup(p, g) \/ RemovePeerFromGroup(p, g)

LEMMA GroupsKeepHost == ASSUME HostInv, GroupStep PROVE HostInv'
  <1>1. UNCHANGED <<hostVars, tickVars>>
    BY DEF GroupStep, RemovePeerFromAllGroups, AddPeerToGroup, RemovePeerFromGroup
  <1>2. ClientGroups' \in [Group -> SUBSET Pointer]
    BY DEF GroupStep, RemovePeerFromAllGroups, AddPeerToGroup, RemovePeerFromGroup,
           WithoutPeer, HostInv, ENetTypeOK
  <1>3. added' \in [Group -> SUBSET (Pointer \X Nat)]
    BY DEF GroupStep, RemovePeerFromAllGroups, AddPeerToGroup, RemovePeerFromGroup,
           HostInv, ENetTypeOK
  <1>4. ENetTypeOK' BY <1>1, <1>2, <1>3 DEF HostInv, ENetTypeOK, hostVars, tickVars
  <1>5. PeersInHost' BY <1>1 DEF HostInv, PeersInHost, hostVars
  <1>6. ServerPeerIsConnection'
    BY <1>1 DEF HostInv, ServerPeerIsConnection, hostVars, tickVars
  <1>7. BackInCallback' BY <1>1 DEF HostInv, BackInCallback, hostVars, tickVars
  <1> QED BY <1>4, <1>5, <1>6, <1>7 DEF HostInv

----------------------------------------------------------------------------
(* The groups.                                                             *)

LEMMA StartKeepsGroups ==
  ASSUME IInv, StartServer \/ StartClient \/ StartClientFails
  PROVE  GroupInv'
  <1> USE FirstSlot DEF IInv, HostInv, GroupInv, CreateHost
  <1>1. UNCHANGED <<added, ClientGroups>>
    BY DEF StartServer, StartClient, StartClientFails
  <1>2. \A p \in Pointer : peer[p] = "free"
    BY DEF StartServer, StartClient, StartClientFails, PeersInHost
  <1>3. \A g \in Group : \A p \in Pointer : p \notin ClientGroups[g]
    BY <1>2 DEF GroupsHold
  <1>4. CASE UNCHANGED <<peer, life>>
    BY <1>1, <1>4 DEF AddedInPast, NotBefore, GroupsHold
  <1>5. CASE StartClient
    <2> DEFINE q == <<block', 1>>
    <2>1. q \in Pointer BY <1>5 DEF StartClient
    <2>2. /\ peer' = [peer EXCEPT ![q] = "connecting"]
          /\ life' = [life EXCEPT ![q] = @ + 1]
      BY <1>5 DEF StartClient
    <2> HIDE DEF q
    <2>3. \A p \in Pointer : life[p] \in Nat /\ life'[p] \in Nat /\ life[p] <= life'[p]
      BY <2>1, <2>2 DEF ENetTypeOK
    <2>4. AddedInPast' BY <1>1, <2>3 DEF AddedInPast
    <2>5. NotBefore'
      <3>1. ASSUME NEW p \in Pointer, peer'[p] = "connecting" PROVE p = q
        BY <1>2, <2>2, <3>1 DEF ENetTypeOK
      <3>2. life'[q] > life[q] BY <2>1, <2>2 DEF ENetTypeOK
      <3>3. \A g \in Group : <<q, life'[q]>> \notin added[g]
        BY <2>1, <2>3, <3>2 DEF AddedInPast
      <3> QED BY <1>1, <3>1, <3>3 DEF NotBefore
    <2>6. GroupsHold'
      <3>1. \A p \in Pointer : peer'[p] # "connected"
        BY <1>2, <2>2 DEF ENetTypeOK
      <3> QED BY <1>1, <1>3, <3>1 DEF GroupsHold
    <2> QED BY <2>4, <2>5, <2>6
  <1> QED BY <1>4, <1>5 DEF StartServer, StartClientFails

LEMMA StopKeepsGroupInv == ASSUME IInv, Stop PROVE GroupInv'
  <1> USE DEF IInv, GroupInv, Stop
  <1>1. AddedInPast' BY DEF AddedInPast
  <1>2. NotBefore' /\ GroupsHold' BY DEF NotBefore, GroupsHold
  <1> QED BY <1>1, <1>2

LEMMA ServiceKeepsGroups ==
  ASSUME IInv, NEW q \in Pointer,
         ServiceConnect(q) \/ ServiceReceive(q) \/ ServiceDisconnect(q)
  PROVE  GroupInv'
  <1> USE DEF IInv, HostInv, GroupInv, Service
  <1>1. added' = added
    BY DEF ServiceConnect, ServiceReceive, ServiceDisconnect
  <1>2. CASE ServiceConnect(q)
    <2>1. peer' = [peer EXCEPT ![q] = "connected"] /\ ClientGroups' = ClientGroups
      BY <1>2 DEF ServiceConnect
    <2>2. \/ peer[q] = "free" /\ life' = [life EXCEPT ![q] = @ + 1]
          \/ peer[q] = "connecting" /\ life' = life
      BY <1>2 DEF ServiceConnect
    <2>3. \A p \in Pointer : life[p] \in Nat /\ life'[p] \in Nat /\ life[p] <= life'[p]
      BY <2>2 DEF ENetTypeOK
    <2>4. \A g \in Group : <<q, life'[q]>> \notin added[g]
      <3>1. CASE peer[q] = "connecting" /\ life' = life
        BY <3>1 DEF NotBefore
      <3>2. CASE life' = [life EXCEPT ![q] = @ + 1]
        <4>1. life'[q] > life[q] BY <3>2, <2>3 DEF ENetTypeOK
        <4> QED BY <4>1, <2>3 DEF AddedInPast
      <3> QED BY <2>2, <3>1, <3>2
    <2>5. AddedInPast' BY <1>1, <2>3 DEF AddedInPast
    <2>6. NotBefore'
      <3>1. \A p \in Pointer \ {q} : peer'[p] = peer[p] /\ life'[p] = life[p]
        BY <2>1, <2>2 DEF ENetTypeOK
      <3> QED BY <1>1, <2>4, <3>1 DEF NotBefore
    <2>7. GroupsHold'
      <3>1. \A p \in Pointer \ {q} : peer'[p] = peer[p] /\ life'[p] = life[p]
        BY <2>1, <2>2 DEF ENetTypeOK
      <3>2. \A g \in Group : q \notin ClientGroups[g]
        BY <2>2 DEF GroupsHold
      <3> QED BY <1>1, <2>1, <2>4, <3>1, <3>2 DEF GroupsHold
    <2> QED BY <2>5, <2>6, <2>7
  <1>3. CASE ServiceReceive(q)
    BY <1>1, <1>3 DEF ServiceReceive, AddedInPast, NotBefore, GroupsHold
  <1>4. CASE ServiceDisconnect(q)
    <2>1. /\ peer' = [peer EXCEPT ![q] = "free"]
          /\ ClientGroups' = WithoutPeer(q)
          /\ life' = life
      BY <1>4 DEF ServiceDisconnect
    <2>2. AddedInPast' BY <1>1, <2>1 DEF AddedInPast
    <2>3. NotBefore' BY <1>1, <2>1 DEF NotBefore, ENetTypeOK
    <2>4. GroupsHold'
      <3>1. \A g \in Group : \A p \in Pointer :
               p \in ClientGroups'[g] <=> p \in ClientGroups[g] /\ p # q
        BY <2>1 DEF WithoutPeer
      <3>2. \A p \in Pointer :
               peer'[p] = "connected" <=> peer[p] = "connected" /\ p # q
        BY <2>1 DEF ENetTypeOK
      <3> QED BY <1>1, <2>1, <3>1, <3>2 DEF GroupsHold
    <2> QED BY <2>2, <2>3, <2>4
  <1> QED BY <1>2, <1>3, <1>4

LEMMA OthersKeepGroups ==
  ASSUME IInv, UNCHANGED <<peer, life, added, ClientGroups>>
  PROVE  GroupInv'
  BY DEF IInv, GroupInv, AddedInPast, NotBefore, GroupsHold

LEMMA GroupStepKeepsGroups == ASSUME IInv, GroupStep PROVE GroupInv'
  <1> USE DEF IInv, HostInv, GroupInv
  <1>1. PICK q \in Pointer :
           \/ RemovePeerFromAllGroups(q)
           \/ \E g \in Group : AddPeerToGroup(q, g) \/ RemovePeerFromGroup(q, g)
    BY DEF GroupStep
  <1>2. peer[q] = "connected" /\ UNCHANGED <<peer, life>>
    BY <1>1 DEF RemovePeerFromAllGroups, AddPeerToGroup, RemovePeerFromGroup, hostVars
  <1>3. life[q] \in Nat BY DEF ENetTypeOK
  <1>4. \A g \in Group : \A p \in Pointer, n \in Nat :
           p # q \/ n # life[q] => (<<p, n>> \in added'[g] <=> <<p, n>> \in added[g])
    BY <1>1 DEF RemovePeerFromAllGroups, AddPeerToGroup, RemovePeerFromGroup, ENetTypeOK
  <1>5. \A g \in Group : \A p \in Pointer :
           p # q => (p \in ClientGroups'[g] <=> p \in ClientGroups[g])
    BY <1>1 DEF RemovePeerFromAllGroups, AddPeerToGroup, RemovePeerFromGroup,
                WithoutPeer, ENetTypeOK
  <1>6. \A g \in Group : q \in ClientGroups'[g] <=> <<q, life[q]>> \in added'[g]
    BY <1>1, <1>2 DEF RemovePeerFromAllGroups, AddPeerToGroup, RemovePeerFromGroup,
                WithoutPeer, ENetTypeOK, GroupsHold
  <1>7. AddedInPast' BY <1>2, <1>3, <1>4 DEF AddedInPast
  <1>8. \A p \in Pointer : life[p] \in Nat BY DEF ENetTypeOK
  <1>9. NotBefore' BY <1>2, <1>4, <1>8 DEF NotBefore
  <1>10. GroupsHold' BY <1>2, <1>4, <1>5, <1>6, <1>8 DEF GroupsHold
  <1> QED BY <1>7, <1>9, <1>10

----------------------------------------------------------------------------
LEMMA StepInv == IInv /\ [Next]_vars => IInv'
  <1> SUFFICES ASSUME IInv, [Next]_vars PROVE IInv'
    OBVIOUS
  <1>1. HostInv BY DEF IInv
  <1>2. CASE StartServer \/ StartClient \/ StartClientFails
    BY <1>1, <1>2, StartKeepsHost, StartKeepsGroups DEF IInv
  <1>3. CASE Stop
    BY <1>1, <1>3, StopKeepsHost, StopKeepsGroupInv DEF IInv
  <1>4. CASE Tick \/ ServiceNothing \/ ServiceNull
    <2>1. UNCHANGED <<peer, life, added, ClientGroups>>
      BY <1>4 DEF Tick, ServiceNothing, ServiceNull, hostVars
    <2> QED BY <1>1, <1>4, <2>1, TickKeepsHost, OthersKeepGroups DEF IInv
  <1>5. CASE EndCallback
    <2>1. UNCHANGED <<peer, life, added, ClientGroups>>
      BY <1>5 DEF EndCallback
    <2> QED BY <1>1, <1>5, <2>1, EndCallbackKeepsHost, OthersKeepGroups DEF IInv
  <1>6. CASE \E p \in Pointer :
                ServiceConnect(p) \/ ServiceReceive(p) \/ ServiceDisconnect(p)
    BY <1>1, <1>6, ServiceKeepsHost, ServiceKeepsGroups DEF IInv
  <1>7. CASE GroupStep
    BY <1>1, <1>7, GroupsKeepHost, GroupStepKeepsGroups DEF IInv
  <1>8. CASE UNCHANGED vars
    <2> USE <1>8 DEF vars, hostVars, tickVars
    <2>1. ENetTypeOK' BY <1>1 DEF HostInv, ENetTypeOK
    <2>2. PeersInHost' /\ ServerPeerIsConnection' /\ BackInCallback'
      BY <1>1 DEF HostInv, PeersInHost, ServerPeerIsConnection, BackInCallback
    <2>3. GroupInv' BY OthersKeepGroups
    <2> QED BY <2>1, <2>2, <2>3 DEF IInv, HostInv
  <1> QED BY <1>2, <1>3, <1>4, <1>5, <1>6, <1>7, <1>8 DEF Next, GroupStep

LEMMA Invariance == Spec => []IInv
  BY InitInv, StepInv, PTL DEF Spec

LEMMA GroupsFromInv == IInv => GroupsMatchClients
  <1> SUFFICES ASSUME IInv, NEW g \in Group
               PROVE  /\ \A p \in ClientGroups[g] : peer[p] = "connected"
                      /\ Reached(g) = {c \in added[g] : peer[c[1]] = "connected"
                                                        /\ life[c[1]] = c[2]}
    BY DEF GroupsMatchClients
  <1> DEFINE told == {c \in added[g] : peer[c[1]] = "connected" /\ life[c[1]] = c[2]}
  <1> USE DEF IInv, HostInv, GroupInv
  <1>1. ClientGroups[g] \subseteq Pointer /\ added[g] \subseteq Pointer \X Nat
    BY DEF ENetTypeOK
  <1>2. \A p \in ClientGroups[g] : peer[p] = "connected"
    BY <1>1 DEF GroupsHold
  <1>3. Reached(g) \subseteq told
    BY <1>1 DEF Reached, GroupsHold
  <1>4. told \subseteq Reached(g)
    <2> SUFFICES ASSUME NEW c \in told PROVE c \in Reached(g)
      OBVIOUS
    <2>1. c = <<c[1], life[c[1]]>> /\ c[1] \in Pointer
      BY <1>1
    <2>2. c[1] \in ClientGroups[g]
      BY <2>1 DEF GroupsHold
    <2> QED BY <2>1, <2>2 DEF Reached
  <1> QED BY <1>2, <1>3, <1>4

\* Every variable of the manager keeps its type, and only a client has a
\* ServerPeer, for any number of peers and whatever callbacks do.
THEOREM ENetTypeCorrect == Spec => []ENetTypeOK
  <1>1. IInv => ENetTypeOK BY DEF IInv, HostInv
  <1> QED BY <1>1, Invariance, PTL

\* A packet for a group reaches the clients the game has put into it and nobody
\* else, for any number of peers, groups, hosts and connections (Tick, Stop).
THEOREM GroupsAlwaysMatch == Spec => []GroupsMatchClients
  BY GroupsFromInv, Invariance, PTL

\* ServerPeer is the connection of the client, but for a client that was started
\* by the callback which reported the end of the one before (Tick, StartClient).
THEOREM ServerPeerAlwaysConnection == Spec => []ServerPeerIsConnection
  <1>1. IInv => ServerPeerIsConnection BY DEF IInv, HostInv
  <1> QED BY <1>1, Invariance, PTL
=============================================================================
