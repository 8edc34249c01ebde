---------------------------- MODULE ENetManager -----------------------------
(***************************************************************************)
(* FENetManager: the ENet host it owns, its groups of peers, and Tick,     *)
(* which takes events from the host and calls the game back out of the     *)
(* middle of its loop. Everything runs on one thread, but the game may     *)
(* call any operation from a callback.                                     *)
(*                                                                         *)
(* A group holds pointers to peers. ENet keeps the peers of a host in one  *)
(* array and uses a peer again once its client is gone; a later host may   *)
(* get its array at the place of an earlier one. So a pointer is a block   *)
(* and a slot in it, and life counts the connections it has stood for.     *)
(***************************************************************************)
EXTENDS Integers

CONSTANTS
    Block,        \* places of a host's array of peers
    MaxClients,   \* slots in the array of a server; a client has slot 1 only
    Group,        \* group names
    NullPeer,
    MaxLife,      \* bound: connections of a pointer
    StopsInside   \* whether callbacks call Stop, StartServer and StartClient

ASSUME ENetAssumption ==
    /\ MaxClients \in Nat \ {0}
    /\ MaxLife \in Nat
    /\ StopsInside \in BOOLEAN

Pointer == Block \X (1 .. MaxClients)

ASSUME NullAssumption == NullPeer \notin Pointer

VARIABLES
    Host,           \* "none", "server" or "client"
    block,          \* where the peers of the host are (or were)
    peer,           \* pointer -> "free", "connecting" or "connected"
    ServerPeer,
    ClientGroups,   \* group -> its peers; one without any is not in the map
    at,             \* "out" of Tick, in its "loop" or in a "callback"
    Event,          \* the event last taken: its type and its peer
    crashed,        \* enet_host_service was given a null host
    \* History, read only by the bound on connections and by the properties:
    life,           \* pointer -> connections it has stood for
    added,          \* group -> the connections the game put in it and not out
    reborn          \* the host was started by a callback of OnClientDisconnected

hostVars == <<Host, block, peer, ServerPeer, life, reborn>>
tickVars == <<at, Event, crashed>>
vars == <<hostVars, tickVars, ClientGroups, added>>

----------------------------------------------------------------------------
(* State. *)

\* Every variable has its type; only a client has a ServerPeer, and the callbacks
\* see the event they were called for.
ENetTypeOK ==
    /\ Host \in {"none", "server", "client"}
    /\ block \in Block
    /\ peer \in [Pointer -> {"free", "connecting", "connected"}]
    /\ ServerPeer \in Pointer \cup {NullPeer}
    /\ ClientGroups \in [Group -> SUBSET Pointer]
    /\ at \in {"out", "loop", "callback"}
    /\ Event \in [type : {"none", "connect", "receive", "disconnect"},
                  peer : Pointer \cup {NullPeer}]
    /\ at = "callback" => Event.type # "none"
    /\ crashed \in BOOLEAN
    /\ life \in [Pointer -> Nat]
    /\ added \in [Group -> SUBSET (Pointer \X Nat)]
    /\ reborn \in BOOLEAN
    /\ ServerPeer # NullPeer => Host = "client"

NoEvent == [type |-> "none", peer |-> NullPeer]

Init ==
    /\ Host = "none"
    /\ block \in Block
    /\ peer = [p \in Pointer |-> "free"]
    /\ ServerPeer = NullPeer
    /\ ClientGroups = [g \in Group |-> {}]
    /\ at = "out"
    /\ Event = NoEvent
    /\ crashed = FALSE
    /\ life = [p \in Pointer |-> 0]
    /\ added = [g \in Group |-> {}]
    /\ reborn = FALSE

----------------------------------------------------------------------------
(* Start and Stop. *)

\* Where the game can call the manager.
GameRuns == at \in {"out", "callback"} /\ ~crashed
MayRestart == GameRuns /\ (at = "callback" => StopsInside)

\* enet_host_create, at any place.
CreateHost(kind) ==
    /\ MayRestart
    /\ Host = "none"
    /\ Host' = kind
    /\ block' \in Block
    /\ reborn' = (at = "callback" /\ Event.type = "disconnect")

StartServer ==
    /\ CreateHost("server")
    /\ UNCHANGED <<peer, ServerPeer, life, tickVars, ClientGroups, added>>

\* enet_host_connect takes the one peer of the host.
StartClient ==
    LET p == <<block', 1>>
    IN  /\ CreateHost("client")
        /\ life[p] < MaxLife
        /\ peer' = [peer EXCEPT ![p] = "connecting"]
        /\ life' = [life EXCEPT ![p] = @ + 1]
        /\ ServerPeer' = p
        /\ UNCHANGED <<tickVars, ClientGroups, added>>

\* enet_host_connect fails: the host stays.
StartClientFails ==
    /\ CreateHost("client")
    /\ UNCHANGED <<peer, ServerPeer, life, tickVars, ClientGroups, added>>

\* Mutant of Stop: the groups outlive the host.
StopKeepsGroups ==
    /\ MayRestart
    /\ Host # "none"
    /\ Host' = "none"
    /\ peer' = [p \in Pointer |-> "free"]
    /\ ServerPeer' = NullPeer
    /\ UNCHANGED <<block, life, reborn, tickVars, ClientGroups, added>>

\* Mutant of Stop: ServerPeer outlives the host.
StopKeepsServerPeer ==
    /\ MayRestart
    /\ Host # "none"
    /\ Host' = "none"
    /\ peer' = [p \in Pointer |-> "free"]
    /\ ClientGroups' = [g \in Group |-> {}]
    /\ UNCHANGED <<block, life, reborn, ServerPeer, tickVars, added>>

\* Stop, and the destructor.
Stop ==
    /\ MayRestart
    /\ Host # "none"
    /\ Host' = "none"
    /\ peer' = [p \in Pointer |-> "free"]
    /\ ServerPeer' = NullPeer
    /\ ClientGroups' = [g \in Group |-> {}]
    /\ UNCHANGED <<block, life, reborn, tickVars, added>>

----------------------------------------------------------------------------
(* Tick. *)

Tick ==
    /\ at = "out"
    /\ Host # "none"
    /\ at' = "loop"
    /\ UNCHANGED <<hostVars, Event, crashed, ClientGroups, added>>

\* enet_host_service, external, with event e; it touches the host's memory.
Service(e) ==
    /\ at = "loop"
    /\ Host # "none"
    /\ at' = "callback"
    /\ Event' = e
    /\ UNCHANGED <<Host, block, ServerPeer, crashed, added, reborn>>

\* A client has connected to the server, or the client to its server.
ServiceConnect(p) ==
    /\ Service([type |-> "connect", peer |-> p])
    /\ p[1] = block
    /\ \/ /\ Host = "server"
          /\ peer[p] = "free"
          /\ life[p] < MaxLife
          /\ life' = [life EXCEPT ![p] = @ + 1]
       \/ /\ Host = "client"
          /\ peer[p] = "connecting"
          /\ UNCHANGED life
    /\ peer' = [peer EXCEPT ![p] = "connected"]
    /\ UNCHANGED ClientGroups

ServiceReceive(p) ==
    /\ Service([type |-> "receive", peer |-> p])
    /\ peer[p] = "connected"
    /\ UNCHANGED <<peer, life, ClientGroups>>

\* RemovePeerFromAllGroups.
WithoutPeer(p) == [g \in Group |-> ClientGroups[g] \ {p}]

\* The connection has ended, or could not be made: the peer is free again, and
\* leaves its groups before the callback.
ServiceDisconnect(p) ==
    /\ Service([type |-> "disconnect", peer |-> p])
    /\ peer[p] # "free"
    /\ peer' = [peer EXCEPT ![p] = "free"]
    /\ ClientGroups' = WithoutPeer(p)
    /\ UNCHANGED life

ServiceNothing ==
    /\ at = "loop"
    /\ Host # "none"
    /\ at' = "out"
    /\ UNCHANGED <<hostVars, Event, crashed, ClientGroups, added>>

\* A callback has called Stop.
ServiceNull ==
    /\ at = "loop"
    /\ Host = "none"
    /\ ~crashed
    /\ crashed' = TRUE
    /\ UNCHANGED <<hostVars, at, Event, ClientGroups, added>>

\* Mutant of EndCallback: a host without its server is a client no more.
EndCallbackOnAny ==
    /\ at = "callback"
    /\ at' = "loop"
    /\ ServerPeer' = IF Event.peer = ServerPeer THEN NullPeer ELSE ServerPeer
    /\ UNCHANGED <<Host, block, peer, life, reborn, Event, crashed, ClientGroups, added>>

\* The callback returns. Only now is ServerPeer compared with the event's peer.
EndCallback ==
    /\ at = "callback"
    /\ at' = "loop"
    /\ ServerPeer' = IF Event.type = "disconnect" /\ Event.peer = ServerPeer
                     THEN NullPeer ELSE ServerPeer
    /\ UNCHANGED <<Host, block, peer, life, reborn, Event, crashed, ClientGroups, added>>

----------------------------------------------------------------------------
(* Groups. *)

\* The game groups the peers it has been told of and not been told the end of.
AddPeerToGroup(p, g) ==
    /\ GameRuns
    /\ peer[p] = "connected"
    /\ ClientGroups' = [ClientGroups EXCEPT ![g] = @ \cup {p}]
    /\ added' = [added EXCEPT ![g] = @ \cup {<<p, life[p]>>}]
    /\ UNCHANGED <<hostVars, tickVars>>

RemovePeerFromGroup(p, g) ==
    /\ GameRuns
    /\ peer[p] = "connected"
    /\ ClientGroups' = [ClientGroups EXCEPT ![g] = @ \ {p}]
    /\ added' = [added EXCEPT ![g] = @ \ {<<p, life[p]>>}]
    /\ UNCHANGED <<hostVars, tickVars>>

RemovePeerFromAllGroups(p) ==
    /\ GameRuns
    /\ peer[p] = "connected"
    /\ ClientGroups' = WithoutPeer(p)
    /\ added' = [g \in Group |-> added[g] \ {<<p, life[p]>>}]
    /\ UNCHANGED <<hostVars, tickVars>>

\* SendPacketToGroup: the connections it reaches. Sending changes nothing here.
Reached(g) == {<<p, life[p]>> : p \in {q \in ClientGroups[g] : peer[q] = "connected"}}

Next ==
    \/ StartServer \/ StartClient \/ StartClientFails \/ Stop
    \/ Tick \/ ServiceNothing \/ ServiceNull \/ EndCallback
    \/ \E p \in Pointer :
          \/ ServiceConnect(p) \/ ServiceReceive(p) \/ ServiceDisconnect(p)
          \/ RemovePeerFromAllGroups(p)
          \/ \E g \in Group : AddPeerToGroup(p, g) \/ RemovePeerFromGroup(p, g)

Spec == Init /\ [][Next]_vars

----------------------------------------------------------------------------
(* Safety. *)

\* A packet for a group reaches the clients the game has put into it, all of them
\* and nobody else, although groups hold pointers, peers are used again for other
\* clients, and hosts come and go at the same place, also out of a callback; and
\* no pointer is kept to a peer that is gone (Tick, Stop).
GroupsMatchClients ==
    \A g \in Group :
        /\ \A p \in ClientGroups[g] : peer[p] = "connected"
        /\ Reached(g) = {c \in added[g] : peer[c[1]] = "connected" /\ life[c[1]] = c[2]}

\* SendPacketToServer works for as long as the client has its connection, and no
\* longer than the callback that reports the end. The exception: a client that
\* starts again inside OnClientDisconnected may get its peer at the same place,
\* and Tick then takes the new connection for the one that ended.
ServerPeerIsConnection ==
    /\ Host = "client" /\ peer[<<block, 1>>] # "free"
          => \/ ServerPeer = <<block, 1>>
             \/ ServerPeer = NullPeer /\ reborn
    /\ ServerPeer # NullPeer /\ peer[ServerPeer] = "free"
          => at = "callback" /\ Event = [type |-> "disconnect", peer |-> ServerPeer]
=============================================================================
