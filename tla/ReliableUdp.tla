---------------------------- MODULE ReliableUdp ----------------------------
(***************************************************************************)
(* HktCustomNet as a whole: one FHktReliableUdpServer, a                   *)
(* FHktReliableUdpClient at every endpoint, and the network between them.  *)
(***************************************************************************)
EXTENDS UdpServer, UdpClient

CONSTANTS
    Prompt,       \* whether a time unit is long enough for everything in flight
                  \* to arrive, be processed, and every due check to be made
    ClientQuits   \* whether games call Disconnect

ASSUME EnvironmentAssumption == Prompt \in BOOLEAN /\ ClientQuits \in BOOLEAN

vars == <<netVars, serverVars, clientVars>>

Init == NetInit /\ ServerInit /\ ClientInit

----------------------------------------------------------------------------
(* Steps. *)

\* The server's receiver thread and its Tick.
ServerReceives == (\E d \in toServer : Run(d)) /\ UNCHANGED clientVars

ServerProcesses ==
    /\ \E d \in Range(ReceivedPackets) : ProcessReceivedPacket(d)
    /\ UNCHANGED clientVars

ServerChecks == TickChecks /\ UNCHANGED clientVars

\* The server's game calls its API.
ServerCalls ==
    /\ \/ \E a \in Addr, p \in Payload : SendTo(a, p)
       \/ \E g \in GroupId, p \in Payload, x \in {{}} \cup {{a} : a \in Addr} :
             BroadcastToGroup(g, p, x)
       \/ \E a \in Addr, g \in GroupId : JoinGroup(a, g)
       \/ \E a \in Addr, g \in GroupId : LeaveGroup(a, g)
    /\ UNCHANGED clientVars

\* The client's receiver thread and its Tick.
ClientReceives == (\E d \in toClient : ClientRun(d)) /\ UNCHANGED serverVars

ClientProcesses(a) == ClientProcessPacket(a) /\ UNCHANGED serverVars

ClientChecks(a) == ClientCheckForResends(a) /\ UNCHANGED serverVars

\* A client's game calls its API.
ClientCalls(a) ==
    /\ \/ Connect(a)
       \/ ClientQuits /\ Disconnect(a)
       \/ Send(a)
       \/ \E g \in GroupId : ClientJoinGroup(a, g)
       \/ ClientLeaveGroup(a)
    /\ UNCHANGED serverVars

ClientPolls(a) == Poll(a) /\ UNCHANGED serverVars

\* The network and the port of a closed socket.
NetworkStep ==
    \/ Lose /\ UNCHANGED <<serverVars, clientVars>>
    \/ (\E d \in toClient : Unreachable(d)) /\ UNCHANGED serverVars

\* Nothing is in flight or queued, and no check is due.
Quiet ==
    /\ toServer = {} /\ toClient = {} /\ ReceivedPackets = <<>>
    /\ GivenUp \cup TimedOut = {}
    /\ \A a \in Known : Expired(Connections[a].Pending) = {}
    /\ \A a \in Addr : /\ client[a].IncomingPackets = <<>>
                       /\ client[a].bIsConnected => Expired(client[a].Pending) = {}

\* One unit of time passes.
Elapse ==
    /\ Prompt => Quiet
    /\ ServerAges
    /\ ClientsAge
    /\ UNCHANGED netVars

Next ==
    \/ ServerReceives \/ ServerProcesses \/ ServerChecks \/ ServerCalls
    \/ ClientReceives
    \/ \E a \in Addr : \/ ClientProcesses(a) \/ ClientChecks(a)
                       \/ ClientCalls(a) \/ ClientPolls(a)
    \/ NetworkStep
    \/ Elapse

Spec == Init /\ [][Next]_vars

----------------------------------------------------------------------------
(* Safety. *)

\* Every variable has its type.
TypeOK == NetTypeOK /\ ServerTypeOK /\ ClientTypeOK

\* The two records of group membership, the GroupIds of a connection and the
\* member map of a group, agree after every mixture of join, leave, disconnect,
\* give-up and timeout: a group lists exactly the connected clients that list
\* it, so BroadcastToGroup reaches all of them and nobody else, and no empty
\* group is left behind (JoinGroup, LeaveGroup, DisconnectClient).
GroupsConsistent ==
    /\ \A a \in Addr, g \in GroupId :
          a \in Members(g) <=> a \in Known /\ g \in Connections[a].GroupIds
    /\ \A g \in DOMAIN Groups : Groups[g] # {}

\* The game has, or can Poll, this payload.
Delivered(a, p) ==
    p \in polled[a] \/ p \in Range(client[a].ReceivedDataPackets)

\* A packet leaves the sender's PendingAckPackets only once its receiver has
\* processed it, whatever is lost, copied or reordered and however sessions
\* end and start: a client's Data is pending or was processed by the server; the
\* Data sent on a connection is pending there or was delivered to the client's
\* game (UpdateReceivedState at one end against ProcessAck at the other).
NoSilentLoss ==
    /\ \A a \in Addr : \A s \in 1 .. client[a].SentSequence :
          (\E p \in client[a].Pending : p.packet.seq = s) \/ s \in got[a]
    /\ \A a \in Known : \A d \in sentOn[a] :
          d \in Packets(Connections[a].Pending) \/ Delivered(a, d.body)

\* Why NoSilentLoss holds: as long as no counter comes within Window of SeqMod
\* (2^32 - 32 packets), no packet is ever confirmed. ReceivedSequence - 32 wraps
\* below 32, so from ReceivedSequence 0 every packet counts as too old, the
\* receive state never leaves its initial value at either end, every header
\* acknowledges sequence number 0 only, and that number is given to no packet:
\* what was sent stays in PendingAckPackets for as long as its owner keeps it.
NoWrap ==
    /\ MaxServerSeq + Window <= SeqMod
    /\ MaxClientSeq + Window <= SeqMod

AcksNothing(d) == d.acked = NothingReceived /\ d.seq + Window <= SeqMod

NothingAcked ==
    /\ \A a \in Known : Connections[a].Received = NothingReceived
    /\ \A a \in Addr : client[a].Received = NothingReceived
    /\ \A d \in toServer \cup toClient \cup Range(ReceivedPackets) : AcksNothing(d)
    /\ \A a \in Known : \A p \in Connections[a].Pending : AcksNothing(p.packet)
    /\ \A a \in Addr : /\ \A d \in Range(client[a].IncomingPackets) : AcksNothing(d)
                       /\ \A p \in client[a].Pending : AcksNothing(p.packet)

StaysPending ==
    /\ \A a \in Addr : \A s \in 1 .. client[a].SentSequence :
          \E p \in client[a].Pending : p.packet.seq = s
    /\ \A a \in Known : \A d \in sentOn[a] :
          /\ d.seq \in 1 .. Connections[a].SentSequence
          /\ d \in Packets(Connections[a].Pending)

NeverConfirmed == NoWrap => NothingAcked /\ StaysPending

----------------------------------------------------------------------------
(* Refinement. *)

Mail == INSTANCE GroupMail WITH
    Member <- Addr, Group <- GroupId, Message <- Payload, Alone <- NoBody,
    registered <- Known,
    audience <- [g \in GroupId |-> Members(g)],
    sent <- issued,
    owed <- [a \in Addr |->
                IF a \in Known THEN {p.packet.body : p \in Connections[a].Pending} ELSE {}],
    delivered <- [a \in Addr |-> polled[a] \cup Range(client[a].ReceivedDataPackets)]

\* Server, clients and network implement GroupMail: a broadcast is owed to all
\* the members its group has at that moment, but for the one it is told to leave
\* out, a client that comes back is in no group and is owed nothing, and what is
\* owed stays so until it is delivered or its receiver is forgotten.
IsGroupMail == Mail!MailSpec

----------------------------------------------------------------------------
(* Liveness. *)

\* The game threads tick for ever, the receiver threads run, the games poll,
\* and time passes. A Tick leaves its queue loop again and again: the server's
\* receiver thread sleeps 1 ms between two datagrams, which its loop does not,
\* and a client receives no more than the server sends. Hence strong fairness
\* for what comes after the loop, and for time.
Fairness ==
    /\ SF_vars(Elapse)
    /\ WF_vars(ServerReceives) /\ WF_vars(ServerProcesses) /\ SF_vars(ServerChecks)
    /\ WF_vars(ClientReceives) /\ WF_vars(NetworkStep)
    /\ \A a \in Addr : /\ WF_vars(ClientProcesses(a)) /\ SF_vars(ClientChecks(a))
                       /\ WF_vars(ClientPolls(a))

FairSpec == Spec /\ Fairness

\* A client that goes away for good is forgotten for good, even if its
\* Disconnect is lost, or its Connect is overtaken by it and makes the server
\* register a client that has gone (CheckForTimeouts).
SilentClientReaped ==
    \A a \in Addr : <>[](~client[a].open) => <>[](a \notin Known)

\* No packet waits for its confirmation for ever in a session that goes on: the
\* packet is confirmed, or its sender ends the session (the retry budget of
\* CheckForResends at either end).
ServerWaits(a, s) ==
    a \in Known /\ \E p \in Connections[a].Pending : p.packet.seq = s
ClientWaits(a, s) ==
    /\ client[a].bIsConnected /\ ~client[a].crashed
    /\ \E p \in client[a].Pending : p.packet.seq = s

PendingResolved ==
    \A a \in Addr :
        /\ \A s \in 1 .. MaxServerSeq : ServerWaits(a, s) ~> ~ServerWaits(a, s)
        /\ \A s \in 1 .. MaxClientSeq : ClientWaits(a, s) ~> ~ClientWaits(a, s)

----------------------------------------------------------------------------
(* What comments and tests of the repository say, and the code does not do.  *)

\* HktBaseTestsCustomNet.cpp:160: a client that has sent data over a working
\* network to a ticking server stays connected. Violated: the server's Acks
\* confirm nothing (NeverConfirmed), so CheckForResends gives up in the end.
StaysConnected ==
    [][\A a \in Addr : client[a].bIsConnected => client'[a].bIsConnected]_vars

\* HktReliableUdpClient.cpp: sequence numbers "already processed are ignored", so
\* a payload is queued for the game once. Violated: ProcessReceivedPackets
\* queues it whatever UpdateReceivedState made of its number.
NoDuplicateDelivery ==
    [][\A a \in Addr, p \in Payload :
          client'[a].ReceivedDataPackets = Append(client[a].ReceivedDataPackets, p)
              => ~Delivered(a, p)]_vars
=============================================================================
