----------------------------- MODULE UdpClient -----------------------------
(***************************************************************************)
(* FHktReliableUdpClient, one instance for every endpoint of Addr: its     *)
(* socket, its handshake flag, its sequence numbers and the two queues,    *)
(* IncomingPackets from the receiver thread (Run) to Tick and              *)
(* ReceivedDataPackets from Tick to the game (Poll).                       *)
(*                                                                         *)
(* Disconnect closes the socket and clears bIsConnected; every other field *)
(* outlives it, and a later Connect starts from what the last session left.*)
(***************************************************************************)
EXTENDS UdpNetwork

CONSTANT MaxConnects   \* bound: calls of Connect by one client

ASSUME ConnectAssumption == MaxConnects \in Nat

VARIABLES
    client,   \* endpoint -> the fields of its FHktReliableUdpClient
    \* History, read only by the bounds and the properties:
    polled,   \* payloads each game has taken with Poll
    connects  \* calls of Connect by each client

clientVars == <<client, polled, connects>>

----------------------------------------------------------------------------
(* State. *)

\* open: ClientSocket is not null and the receiver thread runs. crashed: the
\* process has dereferenced a null ClientSocket.
Client ==
    [open : BOOLEAN, bIsConnected : BOOLEAN, crashed : BOOLEAN,
     SentSequence : SeqNo, Received : ReceiveState, Pending : SUBSET PendingPacket,
     IncomingPackets : Seq(Datagram), ReceivedDataPackets : Seq(Body)]

NewClient ==
    [open |-> FALSE, bIsConnected |-> FALSE, crashed |-> FALSE,
     SentSequence |-> 0, Received |-> NothingReceived, Pending |-> {},
     IncomingPackets |-> <<>>, ReceivedDataPackets |-> <<>>]

ClientTypeOK ==
    /\ client \in [Addr -> Client]
    /\ polled \in [Addr -> SUBSET Body]
    /\ connects \in [Addr -> 0 .. MaxConnects]

ClientInit ==
    /\ client = [a \in Addr |-> NewClient]
    /\ polled = [a \in Addr |-> {}]
    /\ connects = [a \in Addr |-> 0]

Running(a) == ~client[a].crashed

----------------------------------------------------------------------------
(* SendPacket. Only Data is numbered and kept for retransmission. *)

Request(a, type, body) == Packet(a, type, 0, client[a].Received, body)

ClientData(a) ==
    Packet(a, "Data", Next32(client[a].SentSequence), client[a].Received, NoBody)

WithSent(c, d) ==
    [c EXCEPT !.SentSequence = Next32(@), !.Pending = AddPending(@, d)]

\* The packet Disconnect sends first, if the client takes itself for connected
\* (and SendPacket finds a socket).
Farewell(a) ==
    IF client[a].bIsConnected /\ client[a].open
    THEN {Request(a, "Disconnect", NoBody)}
    ELSE {}

Closed(c) == [c EXCEPT !.open = FALSE, !.bIsConnected = FALSE]

----------------------------------------------------------------------------
(* The public API. *)

\* Connect, on a client without a socket: open one, start the receiver thread,
\* send Connect. It is not sent again if it, or its Ack, is lost.
Connect(a) ==
    /\ Running(a)
    /\ ~client[a].open
    /\ connects[a] < MaxConnects
    /\ connects' = [connects EXCEPT ![a] = @ + 1]
    /\ client' = [client EXCEPT ![a].open = TRUE]
    /\ SendToServer({Request(a, "Connect", NoBody)})
    /\ UNCHANGED polled

Disconnect(a) ==
    /\ Running(a)
    /\ client[a].open \/ client[a].bIsConnected
    /\ SendToServer(Farewell(a))
    /\ client' = [client EXCEPT ![a] = Closed(@)]
    /\ UNCHANGED <<polled, connects>>

\* Send. The server drops the payload, so the model leaves it out.
Send(a) ==
    /\ Running(a)
    /\ client[a].bIsConnected
    /\ client[a].open
    /\ client[a].SentSequence < MaxClientSeq
    /\ SendToServer({ClientData(a)})
    /\ client' = [client EXCEPT ![a] = WithSent(@, ClientData(a))]
    /\ UNCHANGED <<polled, connects>>

ClientJoinGroup(a, g) ==
    /\ Running(a)
    /\ client[a].bIsConnected
    /\ client[a].open
    /\ SendToServer({Request(a, "JoinGroup", g)})
    /\ UNCHANGED clientVars

ClientLeaveGroup(a) ==
    /\ Running(a)
    /\ client[a].bIsConnected
    /\ client[a].open
    /\ SendToServer({Request(a, "LeaveGroup", NoBody)})
    /\ UNCHANGED clientVars

Poll(a) ==
    /\ Running(a)
    /\ client[a].ReceivedDataPackets # <<>>
    /\ polled' = [polled EXCEPT ![a] = @ \cup {Head(client[a].ReceivedDataPackets)}]
    /\ client' = [client EXCEPT ![a].ReceivedDataPackets = Tail(@)]
    /\ UNCHANGED <<connects, netVars>>

----------------------------------------------------------------------------
(* The receiver thread. *)

ClientRun(d) ==
    /\ Running(d.peer)
    /\ client[d.peer].open
    /\ Len(client[d.peer].IncomingPackets) < QueueCap
    /\ ArriveAtClient(d)
    /\ client' = [client EXCEPT ![d.peer].IncomingPackets = Append(@, d)]
    /\ UNCHANGED <<polled, connects>>

\* A datagram for a client without a socket goes nowhere.
Unreachable(d) ==
    /\ d \in toClient
    /\ client[d.peer].crashed \/ ~client[d.peer].open
    /\ toClient' = toClient \ {d}
    /\ UNCHANGED <<toServer, copies, clientVars>>

----------------------------------------------------------------------------
(* Tick. *)

\* The handshake: any Ack with LastAckedSequence 0, whatever Connect it answers
\* and whether or not there still is a socket.
CompletesHandshake(d) == d.type = "Ack" /\ d.acked.seq = 0

\* ProcessReceivedPackets: one iteration of its loop, with r the receive state
\* that UpdateReceivedState leaves.
Processed(c, d, r) ==
    [c EXCEPT
        !.IncomingPackets = Tail(@),
        !.bIsConnected = @ \/ CompletesHandshake(d),
        !.Pending = ProcessAck(@, d),
        !.Received = r,
        !.ReceivedDataPackets = IF d.type = "Data" THEN Append(@, d.body) ELSE @]

ClientProcessPacket(a) ==
    LET d == Head(client[a].IncomingPackets)
        isData == d.type = "Data"
    IN  /\ Running(a)
        /\ client[a].IncomingPackets # <<>>
        /\ isData => Len(client[a].ReceivedDataPackets) < QueueCap
        /\ \E r \in IF isData THEN UpdateReceivedState(client[a].Received, d.seq)
                    ELSE {client[a].Received} :
              client' = [client EXCEPT ![a] = Processed(@, d, r)]
        /\ UNCHANGED <<polled, connects, netVars>>

\* CheckForResends, once the queue has been seen empty. A packet that has used
\* up its retries ends the session; the packets stay pending all the same.
\* Without a socket the first retransmission dereferences null.
ClientCheckForResends(a) ==
    LET pending == client[a].Pending
    IN  /\ Running(a)
        /\ client[a].IncomingPackets = <<>>
        /\ client[a].bIsConnected
        /\ \E again \in ResendChoices(pending) :
              IF again # {} /\ ~client[a].open
              THEN client' = [client EXCEPT ![a].crashed = TRUE] /\ UNCHANGED netVars
              ELSE LET c == [client[a] EXCEPT !.Pending = ResendAll(@, again)]
                       stop == Exhausted(pending) # {}
                   IN  /\ client' = [client EXCEPT ![a] = IF stop THEN Closed(c) ELSE c]
                       /\ SendToServer(Packets(again) \cup
                                       IF stop THEN Farewell(a) ELSE {})
        /\ UNCHANGED <<polled, connects>>

\* The clocks of every client advance.
ClientsAge ==
    /\ client' = [a \in Addr |-> [client[a] EXCEPT !.Pending = AgePending(@)]]
    /\ UNCHANGED <<polled, connects>>
=============================================================================
