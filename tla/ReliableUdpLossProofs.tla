----------------------- MODULE ReliableUdpLossProofs -----------------------
(***************************************************************************)
(* NoSilentLoss for every value of the constants in which no counter comes *)
(* within Window of SeqMod (NoWrap), by way of the reason it holds,        *)
(* NeverConfirmed: the receive states never leave their initial value, so  *)
(* that nothing on the wire acknowledges a packet, so that every packet    *)
(* sent stays pending.                                                     *)
(***************************************************************************)
EXTENDS ReliableUdpTypeProofs

----------------------------------------------------------------------------
(* The inductive invariant, part by part. *)

\* A connection c on which the packets S have been sent.
ConnectionKeeps(c, S) ==
    /\ c.Received = NothingReceived
    /\ \A d \in Packets(c.Pending) : AcksNothing(d)
    /\ c.SentSequence <= MaxServerSeq
    /\ \A d \in S : d.seq \in 1 .. c.SentSequence /\ d \in Packets(c.Pending)

ServerKeeps(C, S) == \A a \in DOMAIN C : ConnectionKeeps(C[a], S[a])

ClientKeeps(c) ==
    /\ c.Received = NothingReceived
    /\ \A d \in Packets(c.Pending) : AcksNothing(d)
    /\ \A d \in Range(c.IncomingPackets) : AcksNothing(d)
    /\ c.SentSequence <= MaxClientSeq
    /\ \A s \in 1 .. c.SentSequence : \E d \in Packets(c.Pending) : d.seq = s

WireAcksNothing ==
    \A d \in toServer \cup toClient \cup Range(ReceivedPackets) : AcksNothing(d)

Kept ==
    /\ WireAcksNothing
    /\ ServerKeeps(Connections, sentOn)
    /\ \A a \in Addr : ClientKeeps(client[a])

----------------------------------------------------------------------------
(* Lemmas about the pieces. *)

LEMMA RequestAcksNothing ==
    ASSUME NEW a, NEW t, NEW b, NEW r, r = NothingReceived
    PROVE  AcksNothing(Packet(a, t, 0, r, b))
BY SeqAssumption DEF AcksNothing, Packet

\* A header that acknowledges sequence number 0 only confirms no numbered packet.
LEMMA ProcessAckKeeps ==
    ASSUME NEW S, NEW d, AcksNothing(d), NEW e \in Packets(S), e.seq # 0
    PROVE  e \in Packets(ProcessAck(S, d))
<1>1. PICK p \in S : e = p.packet
  BY DEF Packets
<1>2. AckedBy(d.acked) = {0}
  BY NothingReceivedAcks0 DEF AcksNothing
<1>3. p \in ProcessAck(S, d)
  BY <1>1, <1>2 DEF ProcessAck
<1> QED
  BY <1>1, <1>3 DEF Packets

LEMMA ProcessAckPackets ==
    ASSUME NEW S, NEW d PROVE Packets(ProcessAck(S, d)) \subseteq Packets(S)
BY ProcessAckTyped DEF Packets

\* Adding a packet with a new number keeps the others.
LEMMA AddPendingPackets ==
    ASSUME NEW S, NEW d
    PROVE  /\ d \in Packets(AddPending(S, d))
           /\ Packets(AddPending(S, d)) \subseteq Packets(S) \cup {d}
           /\ \A e \in Packets(S) : e.seq # d.seq => e \in Packets(AddPending(S, d))
<1> DEFINE new == [packet |-> d, age |-> 0, Retries |-> 0]
<1>1. AddPending(S, d) = {p \in S : p.packet.seq # d.seq} \cup {new}
  BY DEF AddPending
<1>2. new.packet = d
  OBVIOUS
<1> HIDE DEF new
<1> QED
  BY <1>1, <1>2 DEF Packets

LEMMA NewConnectionKeeps == ConnectionKeeps(NewConnection, {})
<1>1. Packets({}) = {}
  BY DEF Packets
<1> QED
  BY <1>1, BoundAssumption DEF ConnectionKeeps, NewConnection

LEMMA HeardFromKeeps ==
    ASSUME NEW c \in Connection, NEW S, ConnectionKeeps(c, S), NEW d, AcksNothing(d)
    PROVE  ConnectionKeeps(HeardFrom(c, d), S)
<1>1. /\ HeardFrom(c, d).Received = c.Received
      /\ HeardFrom(c, d).SentSequence = c.SentSequence
      /\ HeardFrom(c, d).Pending = ProcessAck(c.Pending, d)
  BY HeardFromTyped
<1>2. c.SentSequence \in Nat
  BY DEF Connection, SeqNo
<1>3. \A e \in S : e \in Packets(ProcessAck(c.Pending, d))
  <2> SUFFICES ASSUME NEW e \in S PROVE e \in Packets(ProcessAck(c.Pending, d))
    OBVIOUS
  <2>1. e \in Packets(c.Pending) /\ e.seq # 0
    BY <1>2 DEF ConnectionKeeps
  <2> QED
    BY <2>1, ProcessAckKeeps
<1> QED
  BY <1>1, <1>3, ProcessAckPackets DEF ConnectionKeeps

\* Ages, retries, groups and the like do not matter.
LEMMA SameConnectionKeeps ==
    ASSUME NEW c, NEW S, ConnectionKeeps(c, S), NEW e,
           e.Received = c.Received, e.SentSequence = c.SentSequence,
           Packets(e.Pending) = Packets(c.Pending)
    PROVE  ConnectionKeeps(e, S)
BY DEF ConnectionKeeps

LEMMA SentConnectionKeeps ==
    ASSUME NoWrap, NEW a, NEW p, NEW c \in Connection, NEW S, ConnectionKeeps(c, S),
           c.SentSequence < MaxServerSeq, NEW e,
           e.Received = c.Received, e.SentSequence = Next32(c.SentSequence),
           e.Pending = AddPending(c.Pending, DataFor(a, c, p))
    PROVE  ConnectionKeeps(e, S \cup {DataFor(a, c, p)}) /\ AcksNothing(DataFor(a, c, p))
<1> DEFINE d == DataFor(a, c, p)
<1>1. c.SentSequence \in SeqNo /\ c.SentSequence \in Nat
  BY DEF Connection, SeqNo
<1>2. Next32(c.SentSequence) = c.SentSequence + 1
  BY <1>1, BoundAssumption, SeqAssumption DEF Next32
<1>3. d.seq = c.SentSequence + 1 /\ d.acked = NothingReceived
  BY <1>2 DEF DataFor, Packet, ConnectionKeeps
<1>4. MaxServerSeq + Window <= SeqMod /\ MaxServerSeq \in Nat
  BY BoundAssumption, SeqAssumption DEF NoWrap
<1>5. AcksNothing(d)
  BY <1>1, <1>3, <1>4, SeqAssumption DEF AcksNothing
<1> HIDE DEF d
<1>6. /\ d \in Packets(e.Pending)
      /\ Packets(e.Pending) \subseteq Packets(c.Pending) \cup {d}
      /\ \A x \in Packets(c.Pending) : x.seq # d.seq => x \in Packets(e.Pending)
  BY AddPendingPackets DEF d
<1>7. ASSUME NEW x \in S
      PROVE  x.seq \in 1 .. e.SentSequence /\ x \in Packets(e.Pending)
  <2>1. x.seq \in 1 .. c.SentSequence /\ x \in Packets(c.Pending)
    BY DEF ConnectionKeeps
  <2>2. x.seq # d.seq /\ x.seq \in 1 .. e.SentSequence
    BY <1>1, <1>2, <1>3, <2>1
  <2> QED
    BY <1>6, <2>1, <2>2
<1>8. d.seq \in 1 .. e.SentSequence /\ e.SentSequence <= MaxServerSeq
  BY <1>1, <1>2, <1>3, <1>4
<1>9. ConnectionKeeps(e, S \cup {d})
  BY <1>5, <1>6, <1>7, <1>8 DEF ConnectionKeeps
<1> QED
  BY <1>5, <1>9 DEF d

----------------------------------------------------------------------------
(* The same of a client. *)

LEMMA SameClientKeeps ==
    ASSUME NEW c, ClientKeeps(c), NEW e,
           e.Received = c.Received, e.SentSequence = c.SentSequence,
           Packets(e.Pending) = Packets(c.Pending),
           \A d \in Range(e.IncomingPackets) : AcksNothing(d)
    PROVE  ClientKeeps(e)
BY DEF ClientKeeps

LEMMA ClosedKeeps ==
    ASSUME NEW c \in Client, ClientKeeps(c)
    PROVE  ClientKeeps(Closed(c))
BY SameClientKeeps DEF Closed, Client, ClientKeeps

LEMMA ClientResendKeeps ==
    ASSUME NEW c \in Client, ClientKeeps(c), NEW again \in ResendChoices(c.Pending)
    PROVE  /\ [c EXCEPT !.Pending = ResendAll(@, again)] \in Client
           /\ ClientKeeps([c EXCEPT !.Pending = ResendAll(@, again)])
           /\ \A d \in Packets(again) : AcksNothing(d)
<1> DEFINE P == ResendAll(c.Pending, again)
           e == [c EXCEPT !.Pending = P]
<1>1. c.Pending \in SUBSET PendingPacket
  BY DEF Client
<1>2. P \in SUBSET PendingPacket /\ Packets(P) = Packets(c.Pending) /\ again \subseteq c.Pending
  BY <1>1, ResendAllTyped
<1> HIDE DEF P
<1>3. /\ e \in Client /\ e.Received = c.Received /\ e.SentSequence = c.SentSequence
      /\ e.Pending = P /\ e.IncomingPackets = c.IncomingPackets
  BY <1>2 DEF Client
<1> HIDE DEF e
<1>4. ClientKeeps(e)
  BY <1>2, <1>3, SameClientKeeps DEF ClientKeeps
<1>5. \A d \in Packets(again) : AcksNothing(d)
  BY <1>2 DEF Packets, ClientKeeps
<1> QED
  BY <1>3, <1>4, <1>5 DEF e, P

LEMMA ClientSentKeeps ==
    ASSUME NoWrap, TypeOK, NEW a \in Addr, ClientKeeps(client[a]),
           client[a].SentSequence < MaxClientSeq
    PROVE  ClientKeeps(WithSent(client[a], ClientData(a))) /\ AcksNothing(ClientData(a))
<1> DEFINE c == client[a]
           d == ClientData(a)
           P == AddPending(c.Pending, d)
           n == Next32(c.SentSequence)
           e == WithSent(c, d)
<1>1. c \in Client
  BY DEF TypeOK, ClientTypeOK
<1>2. c.SentSequence \in SeqNo /\ c.SentSequence \in Nat
  BY <1>1 DEF Client, SeqNo
<1>3. MaxClientSeq + Window <= SeqMod /\ MaxClientSeq \in Nat
  BY BoundAssumption, SeqAssumption DEF NoWrap
<1>4. n = c.SentSequence + 1
  BY <1>2, <1>3, SeqAssumption DEF Next32
<1>5. d.seq = n /\ d.acked = NothingReceived
  BY DEF ClientData, Packet, ClientKeeps
<1>6. AcksNothing(d)
  BY <1>2, <1>3, <1>4, <1>5, SeqAssumption DEF AcksNothing
<1> HIDE DEF d
<1>7. /\ d \in Packets(P) /\ Packets(P) \subseteq Packets(c.Pending) \cup {d}
      /\ \A x \in Packets(c.Pending) : x.seq # d.seq => x \in Packets(P)
  BY AddPendingPackets
<1>8. e = [c EXCEPT !.SentSequence = n, !.Pending = P]
  BY DEF WithSent
<1> HIDE DEF P, n, e
<1>9. /\ e.Received = c.Received /\ e.SentSequence = n
      /\ e.Pending = P /\ e.IncomingPackets = c.IncomingPackets
  BY <1>1, <1>8 DEF Client
<1>10. ASSUME NEW s \in 1 .. n PROVE \E x \in Packets(P) : x.seq = s
  <2>1. CASE s = n
    BY <1>5, <1>7, <2>1
  <2>2. CASE s # n
    <3>1. s \in 1 .. c.SentSequence
      BY <1>2, <1>4, <2>2
    <3>2. PICK x \in Packets(c.Pending) : x.seq = s
      BY <3>1 DEF ClientKeeps
    <3> QED
      BY <1>5, <1>7, <2>2, <3>2
  <2> QED
    BY <2>1, <2>2
<1>11. n <= MaxClientSeq
  BY <1>2, <1>3, <1>4
<1>12. ClientKeeps(e)
  BY <1>6, <1>7, <1>9, <1>10, <1>11 DEF ClientKeeps
<1> QED
  BY <1>6, <1>12 DEF d, e

LEMMA ProcessedKeeps ==
    ASSUME NEW c \in Client, ClientKeeps(c), c.IncomingPackets # <<>>,
           NEW d, d = Head(c.IncomingPackets),
           NEW r \in IF d.type = "Data" THEN UpdateReceivedState(c.Received, d.seq)
                     ELSE {c.Received}
    PROVE  ClientKeeps(Processed(c, d, r))
<1> DEFINE P == ProcessAck(c.Pending, d)
           b == c.bIsConnected \/ CompletesHandshake(d)
           queue == IF d.type = "Data" THEN Append(c.ReceivedDataPackets, d.body)
                                       ELSE c.ReceivedDataPackets
           rest == Tail(c.IncomingPackets)
           e == [c EXCEPT !.IncomingPackets = rest, !.bIsConnected = b, !.Pending = P,
                          !.Received = r, !.ReceivedDataPackets = queue]
<1>1. c.IncomingPackets \in Seq(Datagram) /\ c.SentSequence \in SeqNo
  BY DEF Client
<1>2. d \in Datagram /\ d \in Range(c.IncomingPackets)
      /\ Range(rest) \subseteq Range(c.IncomingPackets)
  BY <1>1, TailTyped
<1>3. d.seq \in SeqNo
  BY <1>2 DEF Datagram
<1>4. AcksNothing(d)
  BY <1>2 DEF ClientKeeps
<1>5. r = NothingReceived
  BY <1>3, <1>4, FirstPacketsTooOld DEF ClientKeeps, AcksNothing
<1>6. Processed(c, d, r) = e
  BY DEF Processed
<1>7. ASSUME NEW s \in 1 .. c.SentSequence PROVE \E x \in Packets(P) : x.seq = s
  <2>1. PICK x \in Packets(c.Pending) : x.seq = s
    BY DEF ClientKeeps
  <2>2. x.seq # 0
    BY <1>1, <2>1 DEF SeqNo
  <2> QED
    BY <1>4, <2>1, <2>2, ProcessAckKeeps
<1>8. Packets(P) \subseteq Packets(c.Pending)
  BY ProcessAckPackets
<1> HIDE DEF P, b, queue, rest
<1>9. /\ e.Received = r /\ e.SentSequence = c.SentSequence
      /\ e.Pending = P /\ e.IncomingPackets = rest
  BY DEF Client
<1> HIDE DEF e
<1> QED
  BY <1>2, <1>5, <1>6, <1>7, <1>8, <1>9 DEF ClientKeeps

----------------------------------------------------------------------------
(* The server's steps keep the invariant. *)

\* A packet taken from the queue acknowledges nothing, and neither does the rest.
LEMMA DequeueKeeps ==
    ASSUME TypeOK, Kept, NEW d, Dequeue(d)
    PROVE  /\ d \in Datagram /\ d.peer \in Addr /\ d.seq \in SeqNo /\ AcksNothing(d)
           /\ \A x \in Range(ReceivedPackets') : AcksNothing(x)
<1>1. ReceivedPackets \in Seq(Datagram) /\ ReceivedPackets # <<>>
  BY DEF Dequeue, TypeOK, ServerTypeOK
<1>2. d \in Range(ReceivedPackets) /\ Range(ReceivedPackets') \subseteq Range(ReceivedPackets)
  BY <1>1, TailTyped DEF Dequeue
<1> QED
  BY <1>2, DequeueTyped DEF Kept, WireAcksNothing

LEMMA HeardKeeps ==
    ASSUME TypeOK, Kept, NEW d, Dequeue(d), d.peer \in Known
    PROVE  /\ ServerKeeps(Heard(d), sentOn)
           /\ ConnsTyped(Heard(d)) /\ DOMAIN Heard(d) = Known
<1>1. ConnsTyped(Connections) /\ AcksNothing(d)
  BY DequeueKeeps DEF TypeOK, ServerTypeOK, ConnsTyped, Known
<1>2. /\ ConnsTyped(Heard(d)) /\ DOMAIN Heard(d) = Known
      /\ \A a \in Known \ {d.peer} : Heard(d)[a] = Connections[a]
      /\ Heard(d)[d.peer] = HeardFrom(Connections[d.peer], d)
  BY <1>1, HeardTyped
<1>3. ConnectionKeeps(HeardFrom(Connections[d.peer], d), sentOn[d.peer])
  BY <1>1, HeardFromKeeps DEF ConnsTyped, Known, Kept, ServerKeeps
<1> QED
  BY <1>2, <1>3 DEF Kept, ServerKeeps, Known

\* A step of the server alone.
LEMMA ServerStepKeeps ==
    ASSUME Kept, UNCHANGED clientVars,
           ServerKeeps(Connections', sentOn'), NEW S, SendToClients(S),
           \A d \in S \cup Range(ReceivedPackets') : AcksNothing(d)
    PROVE  Kept'
BY DEF Kept, WireAcksNothing, SendToClients, clientVars, ClientKeeps

LEMMA SilentServerStepKeeps ==
    ASSUME Kept, UNCHANGED clientVars, UNCHANGED netVars,
           ServerKeeps(Connections', sentOn'),
           \A d \in Range(ReceivedPackets') : AcksNothing(d)
    PROVE  Kept'
BY DEF Kept, WireAcksNothing, netVars, clientVars, ClientKeeps

\* Group membership does not matter.
LEMMA GroupStepKeeps ==
    ASSUME NEW C, ConnsTyped(C), ServerKeeps(C, sentOn), NEW a \in Addr, NEW g \in GroupId,
           Join(C, a, g) \/ Leave(C, a, g)
    PROVE  ServerKeeps(Connections', sentOn)
<1>1. CASE Connections' = C
  BY <1>1
<1>2. CASE /\ a \in DOMAIN C
           /\ \/ Connections' = [C EXCEPT ![a].GroupIds = @ \cup {g}]
              \/ Connections' = [C EXCEPT ![a].GroupIds = @ \ {g}]
  <2>1. C[a] \in Connection
    BY <1>2 DEF ConnsTyped
  <2>2. /\ Connections'[a].Received = C[a].Received
        /\ Connections'[a].SentSequence = C[a].SentSequence
        /\ Connections'[a].Pending = C[a].Pending
    BY <1>2, <2>1 DEF Connection, ConnsTyped
  <2>3. ConnectionKeeps(Connections'[a], sentOn[a])
    BY <1>2, <2>2, SameConnectionKeeps DEF ServerKeeps
  <2> QED
    BY <1>2, <2>3 DEF ServerKeeps, ConnsTyped
<1> QED
  BY <1>1, <1>2 DEF Join, Leave

LEMMA ServerProcessesKeeps ==
    ASSUME TypeOK, Kept, ServerProcesses PROVE Kept'
<1>1. PICK d : ProcessReceivedPacket(d) /\ Dequeue(d)
  BY DEF ServerProcesses, ProcessReceivedPacket, HandleNewConnection, IgnoreUnknown,
         HandleData, HandleDisconnect, HandleGroupRequest, HandleOther
<1>2. UNCHANGED clientVars
  BY DEF ServerProcesses
<1>3. /\ d \in Datagram /\ d.peer \in Addr /\ d.seq \in SeqNo /\ AcksNothing(d)
      /\ \A x \in Range(ReceivedPackets') : AcksNothing(x)
  BY <1>1, DequeueKeeps
<1>4. CASE HandleNewConnection(d)
  <2>1. /\ Connections' = Put(Connections, d.peer, NewConnection)
        /\ sentOn' = [sentOn EXCEPT ![d.peer] = {}]
        /\ SendToClients({SendAck(d.peer, NewConnection)})
    BY <1>4 DEF HandleNewConnection
  <2>2. \A a \in Addr : sentOn'[a] = IF a = d.peer THEN {} ELSE sentOn[a]
    BY <2>1 DEF TypeOK, ServerTypeOK
  <2>3. Known \subseteq Addr
    BY DEF TypeOK, ServerTypeOK
  <2>4. ServerKeeps(Connections', sentOn')
    BY <1>3, <2>1, <2>2, <2>3, NewConnectionKeeps DEF Put, Kept, ServerKeeps, Known
  <2>5. AcksNothing(SendAck(d.peer, NewConnection))
    BY RequestAcksNothing DEF SendAck, NewConnection
  <2> QED
    BY <1>2, <1>3, <2>1, <2>4, <2>5, ServerStepKeeps
<1>5. CASE IgnoreUnknown(d)
  <2>1. ServerKeeps(Connections', sentOn')
    BY <1>5 DEF IgnoreUnknown, Kept
  <2> QED
    BY <1>2, <1>3, <1>5, <2>1, SilentServerStepKeeps DEF IgnoreUnknown
<1>6. CASE HandleData(d)
  <2>1. d.peer \in Known /\ sentOn' = sentOn
    BY <1>6 DEF HandleData
  <2>2. /\ ServerKeeps(Heard(d), sentOn)
        /\ ConnsTyped(Heard(d)) /\ DOMAIN Heard(d) = Known
    BY <1>1, <2>1, HeardKeeps
  <2>3. PICK r \in UpdateReceivedState(Connections[d.peer].Received, d.seq) :
           /\ Connections' = [Heard(d) EXCEPT ![d.peer].Received = r]
           /\ SendToClients({SendAck(d.peer,
                                 [Heard(d) EXCEPT ![d.peer].Received = r][d.peer])})
    BY <1>6 DEF HandleData
  <2>4. r = NothingReceived
    BY <1>3, <2>1, FirstPacketsTooOld
       DEF Kept, ServerKeeps, ConnectionKeeps, Known, AcksNothing
  <2>5. Heard(d)[d.peer] \in Connection /\ Heard(d)[d.peer].Received = NothingReceived
    BY <2>1, <2>2 DEF ConnsTyped, ServerKeeps, ConnectionKeeps
  <2>6. [Heard(d) EXCEPT ![d.peer].Received = r] = Heard(d)
    BY <2>1, <2>2, <2>4, <2>5 DEF ConnsTyped, Connection
  <2>7. AcksNothing(SendAck(d.peer, Heard(d)[d.peer]))
    BY <2>5, RequestAcksNothing DEF SendAck
  <2> QED
    BY <1>2, <1>3, <2>1, <2>2, <2>3, <2>6, <2>7, ServerStepKeeps
<1>7. CASE HandleDisconnect(d)
  <2>1. ServerKeeps(Heard(d), sentOn)
    BY <1>1, <1>7, HeardKeeps DEF HandleDisconnect
  <2>2. ServerKeeps(Connections', sentOn')
    BY <1>7, <2>1 DEF HandleDisconnect, DisconnectClients, Restrict, ServerKeeps
  <2> QED
    BY <1>2, <1>3, <1>7, <2>2, SilentServerStepKeeps DEF HandleDisconnect
<1>8. CASE HandleGroupRequest(d)
  <2>1. ServerKeeps(Heard(d), sentOn) /\ ConnsTyped(Heard(d))
    BY <1>1, <1>8, HeardKeeps DEF HandleGroupRequest
  <2>2. ServerKeeps(Connections', sentOn')
    BY <1>3, <1>8, <2>1, GroupStepKeeps DEF HandleGroupRequest
  <2> QED
    BY <1>2, <1>3, <1>8, <2>2, SilentServerStepKeeps DEF HandleGroupRequest
<1>9. CASE HandleOther(d)
  <2>1. ServerKeeps(Connections', sentOn')
    BY <1>1, <1>9, HeardKeeps DEF HandleOther
  <2> QED
    BY <1>2, <1>3, <1>9, <2>1, SilentServerStepKeeps DEF HandleOther
<1> QED
  BY <1>1, <1>4, <1>5, <1>6, <1>7, <1>8, <1>9 DEF ProcessReceivedPacket

LEMMA ServerChecksKeeps ==
    ASSUME TypeOK, Kept, ServerChecks PROVE Kept'
<1> DEFINE resent(a, again) ==
               [Connections[a] EXCEPT
                   !.Pending = ResendAll(@, again \cap Connections[a].Pending)]
           after(again) == [a \in Known |-> resent(a, again)]
<1>1. PICK again \in SUBSET UNION {Connections[a].Pending : a \in Known} :
         /\ \A a \in Known : again \cap Connections[a].Pending
                                \in ResendChoices(Connections[a].Pending)
         /\ SendToClients(Packets(again))
         /\ DisconnectClients(after(again), GivenUp \cup TimedOut)
  BY DEF ServerChecks, TickChecks
<1>2. UNCHANGED clientVars /\ ReceivedPackets' = ReceivedPackets /\ sentOn' = sentOn
  BY DEF ServerChecks, TickChecks
<1>3. ASSUME NEW a \in Known
      PROVE  ConnectionKeeps(resent(a, again), sentOn[a])
  <2> DEFINE P == ResendAll(Connections[a].Pending, again \cap Connections[a].Pending)
  <2>1. Connections[a] \in Connection /\ ConnectionKeeps(Connections[a], sentOn[a])
    BY DEF TypeOK, ServerTypeOK, Kept, ServerKeeps, Known
  <2>2. Connections[a].Pending \in SUBSET PendingPacket
    BY <2>1 DEF Connection
  <2>2a. again \cap Connections[a].Pending \in ResendChoices(Connections[a].Pending)
    BY <1>1
  <2>3. P \in SUBSET PendingPacket /\ Packets(P) = Packets(Connections[a].Pending)
    BY <2>2, <2>2a, ResendAllTyped
  <2>4. resent(a, again) = [Connections[a] EXCEPT !.Pending = P]
    OBVIOUS
  <2> HIDE DEF P, resent
  <2>5. /\ resent(a, again).Received = Connections[a].Received
        /\ resent(a, again).SentSequence = Connections[a].SentSequence
        /\ resent(a, again).Pending = P
    BY <2>1, <2>4 DEF Connection
  <2> QED
    BY <2>1, <2>3, <2>5, SameConnectionKeeps
<1>4. ServerKeeps(Connections', sentOn')
  <2> HIDE DEF resent
  <2> QED
    BY <1>1, <1>2, <1>3 DEF DisconnectClients, Restrict, ServerKeeps
<1>5. \A d \in Packets(again) : AcksNothing(d)
  BY <1>1 DEF Packets, Kept, ServerKeeps, ConnectionKeeps, Known
<1> QED
  BY <1>1, <1>2, <1>4, <1>5, ServerStepKeeps DEF Kept, WireAcksNothing

LEMMA SendToAllKeeps ==
    ASSUME NoWrap, TypeOK, Kept, UNCHANGED clientVars, UNCHANGED ReceivedPackets,
           NEW T \in SUBSET Known, NEW o, \A a \in T : MaySend(a, o.msg), SendToAll(T, o)
    PROVE  Kept'
<1> DEFINE data(a) == DataFor(a, Connections[a], o.msg)
           sent(a) == [Connections[a] EXCEPT
                          !.SentSequence = Next32(@),
                          !.Pending = AddPending(@, data(a))]
<1>1. /\ Connections' = [a \in Known |-> IF a \in T THEN sent(a) ELSE Connections[a]]
      /\ SendToClients({data(a) : a \in T})
      /\ sentOn' = [a \in Addr |-> IF a \in T THEN sentOn[a] \cup {data(a)} ELSE sentOn[a]]
  BY DEF SendToAll
<1>2. ASSUME NEW a \in T
      PROVE  ConnectionKeeps(sent(a), sentOn[a] \cup {data(a)}) /\ AcksNothing(data(a))
  <2> DEFINE P == AddPending(Connections[a].Pending, data(a))
             n == Next32(Connections[a].SentSequence)
  <2>1. Connections[a] \in Connection /\ ConnectionKeeps(Connections[a], sentOn[a])
    BY DEF TypeOK, ServerTypeOK, Kept, ServerKeeps, Known
  <2>2. Connections[a].SentSequence < MaxServerSeq
    BY DEF MaySend
  <2>3. sent(a) = [Connections[a] EXCEPT !.SentSequence = n, !.Pending = P]
    OBVIOUS
  <2> HIDE DEF P, n, sent
  <2>4. /\ sent(a).Received = Connections[a].Received
        /\ sent(a).SentSequence = n /\ sent(a).Pending = P
    BY <2>1, <2>3 DEF Connection
  <2> QED
    BY <2>1, <2>2, <2>4, SentConnectionKeeps DEF P, n
<1> HIDE DEF data, sent
<1>3. Known \subseteq Addr
  BY DEF TypeOK, ServerTypeOK
<1>4. ServerKeeps(Connections', sentOn')
  BY <1>1, <1>2, <1>3 DEF ServerKeeps, Kept, Known
<1>5. \A d \in {data(a) : a \in T} \cup Range(ReceivedPackets') : AcksNothing(d)
  BY <1>2 DEF Kept, WireAcksNothing
<1> QED
  BY <1>1, <1>4, <1>5, ServerStepKeeps

LEMMA ServerCallsKeeps ==
    ASSUME NoWrap, TypeOK, Kept, ServerCalls PROVE Kept'
<1>1. UNCHANGED clientVars
  BY DEF ServerCalls
<1>2. CASE \E a \in Addr, p \in Payload : SendTo(a, p)
  <2>1. PICK a \in Addr, p \in Payload : SendTo(a, p)
    BY <1>2
  <2>2. {a} \in SUBSET Known /\ \A x \in {a} : MaySend(x, p)
    BY <2>1 DEF SendTo, MaySend
  <2> QED
    BY <1>1, <2>1, <2>2, SendToAllKeeps DEF SendTo, DirectOrder
<1>3. CASE \E g \in GroupId, p \in Payload, x \in {{}} \cup {{a} : a \in Addr} :
              BroadcastToGroup(g, p, x)
  <2>1. PICK g \in GroupId, p \in Payload, x \in {{}} \cup {{a} : a \in Addr} :
              BroadcastToGroup(g, p, x)
    BY <1>3
  <2> DEFINE T == (Groups[g] \ x) \cap Known
  <2>2. /\ T \in SUBSET Known /\ SendToAll(T, GroupOrder(g, p, x))
        /\ \A a \in T : MaySend(a, GroupOrder(g, p, x).msg)
    BY <2>1 DEF BroadcastToGroup, GroupOrder
  <2> HIDE DEF T
  <2> QED
    BY <1>1, <2>1, <2>2, SendToAllKeeps DEF BroadcastToGroup
<1>4. CASE \E a \in Addr, g \in GroupId : JoinGroup(a, g) \/ LeaveGroup(a, g)
  <2>1. PICK a \in Addr, g \in GroupId : JoinGroup(a, g) \/ LeaveGroup(a, g)
    BY <1>4
  <2>2. ConnsTyped(Connections) /\ ServerKeeps(Connections, sentOn)
    BY DEF TypeOK, ServerTypeOK, ConnsTyped, Known, Kept
  <2>3. Join(Connections, a, g) \/ Leave(Connections, a, g)
    BY <2>1 DEF JoinGroup, LeaveGroup
  <2>4. ServerKeeps(Connections', sentOn)
    BY <2>2, <2>3, GroupStepKeeps
  <2>5. sentOn' = sentOn /\ ReceivedPackets' = ReceivedPackets /\ UNCHANGED netVars
    BY <2>1 DEF JoinGroup, LeaveGroup
  <2> QED
    BY <1>1, <2>4, <2>5, SilentServerStepKeeps DEF Kept, WireAcksNothing
<1> QED
  BY <1>2, <1>3, <1>4 DEF ServerCalls

LEMMA ServerReceivesKeeps ==
    ASSUME TypeOK, Kept, ServerReceives PROVE Kept'
<1>1. PICK d \in toServer : Run(d)
  BY DEF ServerReceives
<1>2. d \in Datagram /\ ReceivedPackets \in Seq(Datagram) /\ AcksNothing(d)
  BY DEF TypeOK, NetTypeOK, ServerTypeOK, Kept, WireAcksNothing
<1>3. Range(ReceivedPackets') \subseteq Range(ReceivedPackets) \cup {d}
  BY <1>1, <1>2, AppendTyped DEF Run
<1>4. toServer' \subseteq toServer /\ toClient' = toClient
  BY <1>1 DEF Run, ArriveAtServer
<1>5. WireAcksNothing'
  BY <1>2, <1>3, <1>4 DEF Kept, WireAcksNothing
<1>6. Connections' = Connections /\ sentOn' = sentOn /\ client' = client
  BY <1>1 DEF Run, ServerReceives, clientVars
<1> QED
  BY <1>5, <1>6 DEF Kept

----------------------------------------------------------------------------
(* The clients' steps, the network's and time's keep the invariant. *)

\* A step of one client alone.
LEMMA ClientStepKeeps ==
    ASSUME TypeOK, Kept, UNCHANGED serverVars, NEW a \in Addr, NEW c, ClientKeeps(c),
           client' = [client EXCEPT ![a] = c],
           \/ UNCHANGED netVars
           \/ \E S : SendToServer(S) /\ \A d \in S : AcksNothing(d)
    PROVE  Kept'
<1>1. WireAcksNothing'
  BY DEF Kept, WireAcksNothing, SendToServer, netVars, serverVars
<1>2. \A x \in Addr : ClientKeeps(client'[x])
  BY DEF Kept, TypeOK, ClientTypeOK
<1>3. ServerKeeps(Connections', sentOn')
  BY DEF Kept, serverVars
<1> QED
  BY <1>1, <1>2, <1>3 DEF Kept

LEMMA RequestKeeps ==
    ASSUME Kept, NEW a \in Addr, NEW t, NEW b
    PROVE  AcksNothing(Request(a, t, b))
BY RequestAcksNothing DEF Request, Kept, ClientKeeps

LEMMA FarewellKeeps ==
    ASSUME Kept, NEW a \in Addr
    PROVE  \A d \in Farewell(a) : AcksNothing(d)
BY RequestKeeps DEF Farewell

LEMMA ClientReceivesKeeps ==
    ASSUME TypeOK, Kept, ClientReceives PROVE Kept'
<1>1. PICK d \in toClient : ClientRun(d)
  BY DEF ClientReceives
<1>2. d \in Datagram /\ AcksNothing(d)
  BY DEF TypeOK, NetTypeOK, Kept, WireAcksNothing
<1>3. d.peer \in Addr
  BY <1>2 DEF Datagram
<1> DEFINE c == client[d.peer]
           queue == Append(c.IncomingPackets, d)
           e == [c EXCEPT !.IncomingPackets = queue]
<1>4. c \in Client /\ ClientKeeps(c)
  BY <1>3 DEF TypeOK, ClientTypeOK, Kept
<1>5. c.IncomingPackets \in Seq(Datagram)
  BY <1>4 DEF Client
<1>6. Range(queue) \subseteq Range(c.IncomingPackets) \cup {d}
  BY <1>2, <1>5, AppendTyped
<1>7. client' = [client EXCEPT ![d.peer] = e]
  BY <1>1 DEF ClientRun
<1> HIDE DEF queue
<1>8. /\ e.Received = c.Received /\ e.SentSequence = c.SentSequence
      /\ e.Pending = c.Pending /\ e.IncomingPackets = queue
  BY <1>4 DEF Client
<1> HIDE DEF e
<1>9. ClientKeeps(e)
  BY <1>2, <1>4, <1>6, <1>8, SameClientKeeps DEF ClientKeeps
<1>10. \A a \in Addr : ClientKeeps(client'[a])
  BY <1>3, <1>7, <1>9 DEF Kept, TypeOK, ClientTypeOK
<1>11. toServer' = toServer /\ toClient' \subseteq toClient
  BY <1>1 DEF ClientRun, ArriveAtClient
<1>12. WireAcksNothing' /\ ServerKeeps(Connections', sentOn')
  BY <1>11 DEF Kept, WireAcksNothing, ClientReceives, serverVars
<1> QED
  BY <1>10, <1>12 DEF Kept

LEMMA ClientProcessesKeeps ==
    ASSUME TypeOK, Kept, NEW a \in Addr, ClientProcesses(a) PROVE Kept'
<1> DEFINE d == Head(client[a].IncomingPackets)
<1>1. client[a] \in Client /\ ClientKeeps(client[a]) /\ client[a].IncomingPackets # <<>>
  BY DEF ClientProcesses, ClientProcessPacket, TypeOK, ClientTypeOK, Kept
<1>2. PICK r \in IF d.type = "Data" THEN UpdateReceivedState(client[a].Received, d.seq)
                ELSE {client[a].Received} :
         client' = [client EXCEPT ![a] = Processed(@, d, r)]
  BY DEF ClientProcesses, ClientProcessPacket
<1>3. ClientKeeps(Processed(client[a], d, r))
  BY <1>1, ProcessedKeeps
<1>4. client' = [client EXCEPT ![a] = Processed(client[a], d, r)]
  BY <1>2
<1> QED
  BY <1>3, <1>4, ClientStepKeeps DEF ClientProcesses, ClientProcessPacket

LEMMA ClientChecksKeeps ==
    ASSUME TypeOK, Kept, NEW a \in Addr, ClientChecks(a) PROVE Kept'
<1> DEFINE pending == client[a].Pending
           stop == Exhausted(pending) # {}
           resent(again) == [client[a] EXCEPT !.Pending = ResendAll(@, again)]
           out(again) == Packets(again) \cup IF stop THEN Farewell(a) ELSE {}
<1>1. PICK again \in ResendChoices(pending) :
         IF again # {} /\ ~client[a].open
         THEN client' = [client EXCEPT ![a].crashed = TRUE] /\ UNCHANGED netVars
         ELSE /\ client' = [client EXCEPT ![a] =
                              IF stop THEN Closed(resent(again)) ELSE resent(again)]
              /\ SendToServer(out(again))
  BY DEF ClientChecks, ClientCheckForResends
<1>2. client[a] \in Client /\ ClientKeeps(client[a])
  BY DEF TypeOK, ClientTypeOK, Kept
<1>3. UNCHANGED serverVars
  BY DEF ClientChecks
<1>4. CASE again # {} /\ ~client[a].open
  <2> DEFINE e == [client[a] EXCEPT !.crashed = TRUE]
  <2>1. client' = [client EXCEPT ![a] = e]
    BY <1>1, <1>4
  <2>2. /\ e.Received = client[a].Received /\ e.SentSequence = client[a].SentSequence
        /\ e.Pending = pending /\ e.IncomingPackets = client[a].IncomingPackets
    BY <1>2 DEF Client
  <2> HIDE DEF e
  <2>3. ClientKeeps(e)
    BY <1>2, <2>2, SameClientKeeps DEF ClientKeeps
  <2> QED
    BY <1>1, <1>3, <1>4, <2>1, <2>3, ClientStepKeeps
<1>5. CASE ~(again # {} /\ ~client[a].open)
  <2>1. /\ resent(again) \in Client /\ ClientKeeps(resent(again))
        /\ \A d \in Packets(again) : AcksNothing(d)
    BY <1>2, ClientResendKeeps
  <2> HIDE DEF resent
  <2>2. ClientKeeps(IF stop THEN Closed(resent(again)) ELSE resent(again))
    BY <2>1, ClosedKeeps
  <2>3. \A d \in out(again) : AcksNothing(d)
    BY <2>1, FarewellKeeps
  <2> HIDE DEF out
  <2> QED
    BY <1>1, <1>3, <1>5, <2>2, <2>3, ClientStepKeeps
<1> QED
  BY <1>4, <1>5

LEMMA ClientCallsKeeps ==
    ASSUME NoWrap, TypeOK, Kept, NEW a \in Addr, ClientCalls(a) PROVE Kept'
<1>1. client[a] \in Client /\ ClientKeeps(client[a])
  BY DEF TypeOK, ClientTypeOK, Kept
<1>2. UNCHANGED serverVars
  BY DEF ClientCalls
<1>3. CASE Connect(a)
  <2> DEFINE e == [client[a] EXCEPT !.open = TRUE]
  <2>1. client' = [client EXCEPT ![a] = e]
    BY <1>3 DEF Connect
  <2>2. /\ e.Received = client[a].Received /\ e.SentSequence = client[a].SentSequence
        /\ e.Pending = client[a].Pending /\ e.IncomingPackets = client[a].IncomingPackets
    BY <1>1 DEF Client
  <2> HIDE DEF e
  <2>3. ClientKeeps(e)
    BY <1>1, <2>2, SameClientKeeps DEF ClientKeeps
  <2>4. SendToServer({Request(a, "Connect", NoBody)})
    BY <1>3 DEF Connect
  <2>5. \E S : SendToServer(S) /\ \A d \in S : AcksNothing(d)
    BY <2>4, RequestKeeps
  <2> QED
    BY <1>2, <2>1, <2>3, <2>5, ClientStepKeeps
<1>4. CASE Disconnect(a)
  <2>1. client' = [client EXCEPT ![a] = Closed(client[a])] /\ SendToServer(Farewell(a))
    BY <1>4 DEF Disconnect
  <2> QED
    BY <1>1, <1>2, <2>1, ClosedKeeps, FarewellKeeps, ClientStepKeeps
<1>5. CASE Send(a)
  <2>1. /\ client' = [client EXCEPT ![a] = WithSent(client[a], ClientData(a))]
        /\ SendToServer({ClientData(a)}) /\ client[a].SentSequence < MaxClientSeq
    BY <1>5 DEF Send
  <2>2. /\ ClientKeeps(WithSent(client[a], ClientData(a)))
        /\ AcksNothing(ClientData(a))
    BY <1>1, <2>1, ClientSentKeeps
  <2>3. \E S : SendToServer(S) /\ \A d \in S : AcksNothing(d)
    BY <2>1, <2>2
  <2> QED
    BY <1>2, <2>1, <2>2, <2>3, ClientStepKeeps
<1>6. CASE (\E g \in GroupId : ClientJoinGroup(a, g)) \/ ClientLeaveGroup(a)
  <2>1. PICK d : SendToServer({d}) /\ AcksNothing(d)
    BY <1>6, RequestKeeps DEF ClientJoinGroup, ClientLeaveGroup
  <2>2. client' = client
    BY <1>6 DEF ClientJoinGroup, ClientLeaveGroup, clientVars
  <2>3. WireAcksNothing'
    BY <1>2, <2>1 DEF Kept, WireAcksNothing, SendToServer, serverVars
  <2> QED
    BY <1>2, <2>2, <2>3 DEF Kept, serverVars
<1> QED
  BY <1>3, <1>4, <1>5, <1>6 DEF ClientCalls

LEMMA ClientPollsKeeps ==
    ASSUME TypeOK, Kept, NEW a \in Addr, ClientPolls(a) PROVE Kept'
<1> DEFINE queue == Tail(client[a].ReceivedDataPackets)
           e == [client[a] EXCEPT !.ReceivedDataPackets = queue]
<1>1. client[a] \in Client /\ ClientKeeps(client[a])
  BY DEF TypeOK, ClientTypeOK, Kept
<1>2. client' = [client EXCEPT ![a] = e] /\ UNCHANGED serverVars /\ UNCHANGED netVars
  BY DEF ClientPolls, Poll
<1> HIDE DEF queue
<1>3. /\ e.Received = client[a].Received /\ e.SentSequence = client[a].SentSequence
      /\ e.Pending = client[a].Pending /\ e.IncomingPackets = client[a].IncomingPackets
  BY <1>1 DEF Client
<1> HIDE DEF e
<1>4. ClientKeeps(e)
  BY <1>1, <1>3, SameClientKeeps DEF ClientKeeps
<1> QED
  BY <1>2, <1>4, ClientStepKeeps

LEMMA NetworkStepKeeps ==
    ASSUME Kept, NetworkStep PROVE Kept'
<1>1. /\ toServer' \subseteq toServer /\ toClient' \subseteq toClient
      /\ UNCHANGED <<serverVars, clientVars>>
  BY DEF NetworkStep, Lose, Unreachable
<1> QED
  BY <1>1 DEF Kept, WireAcksNothing, serverVars, clientVars

LEMMA ElapseKeeps ==
    ASSUME TypeOK, Kept, Elapse PROVE Kept'
<1> DEFINE older(a) == [Connections[a] EXCEPT !.idle = OlderBy1(@, ClientTimeout),
                                              !.Pending = AgePending(@)]
           aged(a) == [client[a] EXCEPT !.Pending = AgePending(@)]
<1>1. ASSUME NEW a \in Known PROVE ConnectionKeeps(older(a), sentOn[a])
  <2> DEFINE P == AgePending(Connections[a].Pending)
             i == OlderBy1(Connections[a].idle, ClientTimeout)
  <2>1. Connections[a] \in Connection /\ ConnectionKeeps(Connections[a], sentOn[a])
    BY DEF TypeOK, ServerTypeOK, Kept, ServerKeeps, Known
  <2>2. Connections[a].Pending \in SUBSET PendingPacket
    BY <2>1 DEF Connection
  <2>3. Packets(P) = Packets(Connections[a].Pending)
    BY <2>2, AgePendingTyped
  <2>4. older(a) = [Connections[a] EXCEPT !.idle = i, !.Pending = P]
    OBVIOUS
  <2> HIDE DEF P, i, older
  <2>5. /\ older(a).Received = Connections[a].Received
        /\ older(a).SentSequence = Connections[a].SentSequence
        /\ older(a).Pending = P
    BY <2>1, <2>4 DEF Connection
  <2> QED
    BY <2>1, <2>3, <2>5, SameConnectionKeeps
<1>2. ASSUME NEW a \in Addr PROVE ClientKeeps(aged(a))
  <2> DEFINE P == AgePending(client[a].Pending)
  <2>1. client[a] \in Client /\ ClientKeeps(client[a])
    BY DEF TypeOK, ClientTypeOK, Kept
  <2>2. client[a].Pending \in SUBSET PendingPacket
    BY <2>1 DEF Client
  <2>3. Packets(P) = Packets(client[a].Pending)
    BY <2>2, AgePendingTyped
  <2>4. aged(a) = [client[a] EXCEPT !.Pending = P]
    OBVIOUS
  <2> HIDE DEF P, aged
  <2>5. /\ aged(a).Received = client[a].Received
        /\ aged(a).SentSequence = client[a].SentSequence
        /\ aged(a).Pending = P /\ aged(a).IncomingPackets = client[a].IncomingPackets
    BY <2>1, <2>4 DEF Client
  <2> QED
    BY <2>1, <2>3, <2>5, SameClientKeeps DEF ClientKeeps
<1>3. /\ Connections' = [a \in Known |-> older(a)]
      /\ client' = [a \in Addr |-> aged(a)]
      /\ ReceivedPackets' = ReceivedPackets /\ sentOn' = sentOn /\ UNCHANGED netVars
  BY DEF Elapse, ServerAges, ClientsAge
<1> HIDE DEF older, aged
<1> QED
  BY <1>1, <1>2, <1>3 DEF Kept, ServerKeeps, WireAcksNothing, netVars

LEMMA InitKeeps == Init => Kept
<1> SUFFICES ASSUME Init PROVE Kept
  OBVIOUS
<1>1. Packets({}) = {} /\ Range(<<>>) = {}
  BY DEF Packets, Range
<1>2. ClientKeeps(NewClient)
  BY <1>1, BoundAssumption DEF ClientKeeps, NewClient
<1> QED
  BY <1>1, <1>2 DEF Init, NetInit, ServerInit, ClientInit, Kept, WireAcksNothing, ServerKeeps

LEMMA NextKeeps ==
    ASSUME NoWrap, TypeOK, Kept, [Next]_vars PROVE Kept'
<1>1. CASE UNCHANGED vars
  BY <1>1 DEF vars, netVars, serverVars, clientVars, Kept, WireAcksNothing
<1>2. CASE ServerReceives \/ ServerProcesses \/ ServerChecks \/ ServerCalls
  BY <1>2, ServerReceivesKeeps, ServerProcessesKeeps, ServerChecksKeeps, ServerCallsKeeps
<1>3. CASE ClientReceives \/ NetworkStep \/ Elapse
  BY <1>3, ClientReceivesKeeps, NetworkStepKeeps, ElapseKeeps
<1>4. ASSUME NEW a \in Addr,
             ClientProcesses(a) \/ ClientChecks(a) \/ ClientCalls(a) \/ ClientPolls(a)
      PROVE  Kept'
  BY <1>4, ClientProcessesKeeps, ClientChecksKeeps, ClientCallsKeeps, ClientPollsKeeps
<1> QED
  BY <1>1, <1>2, <1>3, <1>4 DEF Next

----------------------------------------------------------------------------
(* What the invariant gives. *)

LEMMA KeptMeansStaysPending ==
    ASSUME Kept PROVE NothingAcked /\ StaysPending
<1>1. NothingAcked
  BY DEF Kept, WireAcksNothing, ServerKeeps, ConnectionKeeps, ClientKeeps, NothingAcked,
         Known, Packets
<1>2. ASSUME NEW a \in Addr, NEW s \in 1 .. client[a].SentSequence
      PROVE  \E p \in client[a].Pending : p.packet.seq = s
  BY DEF Kept, ClientKeeps, Packets
<1> QED
  BY <1>1, <1>2 DEF StaysPending, Kept, ServerKeeps, ConnectionKeeps, Known

LEMMA StaysPendingLosesNothing ==
    ASSUME StaysPending PROVE NoSilentLoss
BY DEF StaysPending, NoSilentLoss

\* No packet is ever confirmed at either end, for any number of clients, packets,
\* sessions, losses, copies and retries, as long as the counters stay away from
\* 2^32 (UpdateReceivedState against ProcessAck).
THEOREM NeverConfirmedAlways == Spec => []NeverConfirmed
<1> DEFINE Inv == TypeOK /\ (NoWrap => Kept)
<1>1. Init => Inv
  BY InitTyped, InitKeeps
<1>2. Inv /\ [Next]_vars => Inv'
  BY NextTyped, NextKeeps DEF NoWrap
<1>3. Inv => NeverConfirmed
  BY KeptMeansStaysPending DEF NeverConfirmed
<1> QED
  BY <1>1, <1>2, <1>3, PTL DEF Spec

\* No packet leaves PendingAckPackets before its receiver has processed it, on
\* the same condition and because of the theorem above.
THEOREM NoSilentLossAlways == Spec => [](NoWrap => NoSilentLoss)
<1>1. NeverConfirmed => (NoWrap => NoSilentLoss)
  BY StaysPendingLosesNothing DEF NeverConfirmed
<1> QED
  BY <1>1, NeverConfirmedAlways, PTL
=============================================================================
