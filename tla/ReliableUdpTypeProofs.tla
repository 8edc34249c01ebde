----------------------- MODULE ReliableUdpTypeProofs -----------------------
(***************************************************************************)
(* The type invariant of ReliableUdp, for every value of its constants:    *)
(* any number of clients, groups, payloads and retries, any SeqMod and     *)
(* Window, any network of UdpNetwork. Before it, lemmas about the          *)
(* operators of UdpHeader and about the pieces the steps share; then one   *)
(* lemma for every step.                                                   *)
(***************************************************************************)
EXTENDS ReliableUdp, TLAPS

----------------------------------------------------------------------------
(* UdpHeader: what each operator returns, and what it leaves alone.        *)

\* A header built from typed parts is a datagram.
LEMMA PacketTyped ==
    ASSUME NEW a \in Addr, NEW t \in PacketType, NEW s \in SeqNo,
           NEW r \in ReceiveState, NEW b \in Body
    PROVE  Packet(a, t, s, r, b) \in Datagram
BY DEF Packet, Datagram

LEMMA NothingReceivedTyped == NothingReceived \in ReceiveState
BY SeqAssumption DEF NothingReceived, ReceiveState, SeqNo, Bit

\* The counters stay 32-bit numbers, and the number 0 is not reached before the
\* counter wraps.
LEMMA Next32Typed ==
    ASSUME NEW x \in SeqNo
    PROVE  /\ Next32(x) \in SeqNo
           /\ x + 1 < SeqMod => Next32(x) = x + 1
BY SeqAssumption DEF Next32, SeqNo

\* UpdateReceivedState leaves a well-formed receive state, whichever way the
\* undefined shift goes.
LEMMA UpdateReceivedStateTyped ==
    ASSUME NEW r \in ReceiveState, NEW s \in SeqNo,
           NEW u \in UpdateReceivedState(r, s)
    PROVE  u \in ReceiveState
<1>1. CASE TooOld(r, s)
  BY <1>1 DEF UpdateReceivedState
<1>2. CASE ~TooOld(r, s) /\ s > r.seq
  <2>1. u = Advance(r, s)
    BY <1>2 DEF UpdateReceivedState
  <2>2. ShiftLeft(r.bits, s - r.seq) \cup {0} \subseteq Bit
    BY SeqAssumption DEF ShiftLeft, Bit
  <2>3. {0} \subseteq Bit
    BY SeqAssumption DEF Bit
  <2> QED
    BY <2>1, <2>2, <2>3 DEF Advance, ReceiveState
<1>3. CASE ~TooOld(r, s) /\ ~(s > r.seq)
  <2>1. u \in MarkBehind(r, s)
    BY <1>3 DEF UpdateReceivedState
  <2>2. CASE r.seq - s = 0
    <3>1. Window - 1 \in Bit
      BY SeqAssumption DEF Bit
    <3> QED
      BY <2>1, <2>2, <3>1 DEF MarkBehind, ReceiveState
  <2>3. CASE r.seq - s # 0
    <3>1. r.seq \in SeqNo /\ r.seq - s - 1 \in Bit
      BY SeqAssumption, <1>3, <2>3 DEF TooOld, Minus, Bit, ReceiveState, SeqNo
    <3> QED
      BY <2>1, <2>3, <3>1 DEF MarkBehind, ReceiveState
  <2> QED
    BY <2>2, <2>3
<1> QED
  BY <1>1, <1>2, <1>3

\* What a receive state confirms. A packet that is next in order, or behind the
\* newest one, and not too old, is confirmed to its peer from then on; nothing
\* else is that was not before, and everything that was still is, but for the
\* number Window below the newest. A packet that is too old (which every packet
\* is before number Window has come) changes nothing. Only a copy of the newest
\* packet may confirm more (the undefined shift), and a gap does (the next
\* theorem).
THEOREM InOrderConfirmsReceived ==
    ASSUME NEW r \in ReceiveState, NEW s \in SeqNo,
           s <= r.seq + 1, s # r.seq,
           NEW u \in UpdateReceivedState(r, s)
    PROVE  IF TooOld(r, s)
           THEN AckedBy(u) = AckedBy(r)
           ELSE /\ AckedBy(u) \subseteq AckedBy(r) \cup {s}
                /\ s \in AckedBy(u)
                /\ AckedBy(r) \ {Minus(r.seq, Window)} \subseteq AckedBy(u)
<1>0. r.seq \in SeqNo /\ r.bits \subseteq Bit
  BY DEF ReceiveState
<1>1. CASE TooOld(r, s)
  BY <1>1 DEF UpdateReceivedState
<1>2. CASE ~TooOld(r, s) /\ s > r.seq
  <2>1. s = r.seq + 1 /\ u = Advance(r, s)
    BY <1>0, <1>2 DEF UpdateReceivedState, SeqNo
  <2>2. /\ u.seq = s /\ 0 \in u.bits
        /\ u.bits = ShiftLeft(r.bits, 1) \cup {0}
    <3>1. s - r.seq = 1
      BY <1>0, <2>1 DEF SeqNo
    <3>2. Window = 1 => ShiftLeft(r.bits, 1) = {}
      BY <1>0 DEF ShiftLeft, Bit
    <3>3. 1 >= Window => Window = 1
      BY SeqAssumption
    <3> QED
      BY <2>1, <3>1, <3>2, <3>3 DEF Advance
  <2>3. Minus(s, 0 + 1) = r.seq
    BY <1>0, <2>1 DEF Minus, SeqNo
  <2>4. ASSUME NEW b \in ShiftLeft(r.bits, 1)
        PROVE  Minus(s, b + 1) \in AckedBy(r)
    <3>1. b \in Bit /\ b - 1 \in r.bits /\ b - 1 \in Bit
      BY <1>0 DEF ShiftLeft
    <3>2. Minus(s, b + 1) = Minus(r.seq, (b - 1) + 1)
      BY <1>0, <2>1, <3>1, SeqAssumption DEF Minus, SeqNo, Bit
    <3> QED
      BY <3>1, <3>2 DEF AckedBy
  <2>5. r.seq \in AckedBy(r)
    BY DEF AckedBy
  <2>6. ASSUME NEW b \in u.bits PROVE Minus(u.seq, b + 1) \in AckedBy(r)
    BY <2>2, <2>3, <2>4, <2>5
  <2>7. AckedBy(u) \subseteq AckedBy(r) \cup {s} /\ s \in AckedBy(u)
    BY <2>2, <2>6 DEF AckedBy
  <2>8. r.seq \in AckedBy(u)
    BY <2>2, <2>3 DEF AckedBy
  <2>9. ASSUME NEW b \in r.bits, Minus(r.seq, b + 1) # Minus(r.seq, Window)
        PROVE  Minus(r.seq, b + 1) \in AckedBy(u)
    <3>1. b \in Bit /\ b + 1 # Window
      BY <1>0, <2>9
    <3>2. b + 1 \in ShiftLeft(r.bits, 1)
      BY <1>0, <3>1, SeqAssumption DEF ShiftLeft, Bit
    <3>3. Minus(s, (b + 1) + 1) = Minus(r.seq, b + 1)
      BY <1>0, <2>1, <3>1, SeqAssumption DEF Minus, SeqNo, Bit
    <3> QED
      BY <2>2, <3>2, <3>3 DEF AckedBy
  <2> QED
    BY <1>2, <2>7, <2>8, <2>9 DEF AckedBy
<1>3. CASE ~TooOld(r, s) /\ ~(s > r.seq)
  <2>1. s < r.seq
    BY <1>0, <1>3 DEF SeqNo
  <2>2. u = [r EXCEPT !.bits = @ \cup {r.seq - s - 1}]
    BY <1>0, <1>3, <2>1 DEF UpdateReceivedState, MarkBehind, SeqNo
  <2>3. u.seq = r.seq /\ u.bits = r.bits \cup {r.seq - s - 1}
    BY <2>2 DEF ReceiveState
  <2>4. Minus(r.seq, (r.seq - s - 1) + 1) = s
    BY <1>0, <2>1 DEF Minus, SeqNo
  <2>5. AckedBy(u) = AckedBy(r) \cup {s}
    BY <2>3, <2>4 DEF AckedBy
  <2> QED
    BY <1>3, <2>5
<1> QED
  BY <1>1, <1>2, <1>3

\* After a gap, and once numbers are past Window, UpdateReceivedState does two
\* things that an acknowledgement may not do: it confirms the number just before
\* the one that arrived, which nobody has seen (it sets bit 0 for the packet it
\* has already put into ReceivedSequence), and it stops confirming the newest
\* packet there was.
THEOREM GapConfirmsUnreceived ==
    ASSUME NEW r \in ReceiveState, NEW s \in SeqNo,
           r.seq >= Window, s > r.seq + 1,
           NEW u \in UpdateReceivedState(r, s)
    PROVE  /\ s - 1 \in AckedBy(u) \ (AckedBy(r) \cup {s})
           /\ r.seq \in AckedBy(r) \ AckedBy(u)
<1>0. r.seq \in SeqNo /\ r.bits \subseteq Bit
  BY DEF ReceiveState
<1>1. u = Advance(r, s)
  BY <1>0, SeqAssumption DEF UpdateReceivedState, TooOld, Minus, SeqNo
<1>2. /\ u.seq = s
      /\ 0 \in u.bits
      /\ u.bits \subseteq {0} \cup ShiftLeft(r.bits, s - r.seq)
  BY <1>1 DEF Advance
<1>3. s - 1 \in AckedBy(u)
  <2>1. Minus(s, 0 + 1) = s - 1
    BY <1>0 DEF Minus, SeqNo
  <2> QED
    BY <1>2, <2>1 DEF AckedBy
<1>4. s - 1 \notin AckedBy(r) \cup {s}
  <2>1. ASSUME NEW b \in r.bits PROVE Minus(r.seq, b + 1) < s - 1
    BY <1>0, SeqAssumption DEF Minus, SeqNo, Bit
  <2>2. r.seq < s - 1 /\ s - 1 < s
    BY <1>0 DEF SeqNo
  <2>3. ASSUME s - 1 \in AckedBy(r) PROVE FALSE
    <3>1. CASE s - 1 = r.seq
      BY <3>1, <2>2, <1>0 DEF SeqNo
    <3>2. CASE \E b \in r.bits : s - 1 = Minus(r.seq, b + 1)
      <4>1. PICK b \in r.bits : s - 1 = Minus(r.seq, b + 1)
        BY <3>2
      <4>2. s - 1 < s - 1
        BY <2>1, <4>1
      <4> QED
        BY <4>2 DEF SeqNo
    <3> QED
      BY <2>3, <3>1, <3>2 DEF AckedBy
  <2> QED
    BY <2>2, <2>3 DEF SeqNo
<1>5. r.seq \in AckedBy(r)
  BY DEF AckedBy
<1>6. r.seq \notin AckedBy(u)
  <2>1. ASSUME NEW b \in u.bits PROVE Minus(s, b + 1) # r.seq
    <3>1. CASE b = 0
      BY <3>1, <1>0 DEF Minus, SeqNo
    <3>2. CASE b \in ShiftLeft(r.bits, s - r.seq)
      <4>1. b \in Bit /\ b - (s - r.seq) \in Bit
        BY <3>2, <1>0 DEF ShiftLeft
      <4> QED
        BY <4>1, <1>0, SeqAssumption DEF Minus, SeqNo, Bit
    <3> QED
      BY <1>2, <3>1, <3>2
  <2>2. r.seq # s
    BY <1>0 DEF SeqNo
  <2> QED
    BY <1>2, <2>1, <2>2 DEF AckedBy
<1> QED
  BY <1>3, <1>4, <1>5, <1>6

\* The wrap-around of the guard: before anything has been received, every packet
\* but the last Window numbers counts as too old.
LEMMA FirstPacketsTooOld ==
    ASSUME NEW s \in SeqNo, s + Window <= SeqMod
    PROVE  UpdateReceivedState(NothingReceived, s) = {NothingReceived}
BY SeqAssumption DEF UpdateReceivedState, TooOld, Minus, NothingReceived, SeqNo

\* The initial receive state acknowledges sequence number 0 only.
LEMMA NothingReceivedAcks0 ==
    AckedBy(NothingReceived) = {0}
BY DEF AckedBy, NothingReceived

LEMMA AddPendingTyped ==
    ASSUME NEW S \in SUBSET PendingPacket, NEW d \in Datagram
    PROVE  AddPending(S, d) \in SUBSET PendingPacket
BY TimingAssumption DEF AddPending, PendingPacket

LEMMA ProcessAckTyped ==
    ASSUME NEW S, NEW d
    PROVE  ProcessAck(S, d) \subseteq S
BY DEF ProcessAck

\* A packet sent again is counted once more, and never beyond MaxRetries.
LEMMA ResentTyped ==
    ASSUME NEW S \in SUBSET PendingPacket, NEW R \in ResendChoices(S), NEW p \in R
    PROVE  /\ p \in S
           /\ Resent(p) \in PendingPacket
           /\ Resent(p).packet = p.packet
<1>1. p \in Expired(S) /\ p \notin Exhausted(S)
  BY DEF ResendChoices
<1>2. p \in S /\ p \in PendingPacket
  BY <1>1 DEF Expired
<1>3. p.Retries \in 0 .. MaxRetries /\ ~(p.Retries >= MaxRetries)
  BY <1>1, <1>2 DEF Exhausted, PendingPacket
<1>4. p.Retries + 1 \in 0 .. MaxRetries /\ 0 \in 0 .. ResendTimeout + 1
  BY <1>3, TimingAssumption
<1> QED
  BY <1>2, <1>4 DEF Resent, PendingPacket

LEMMA ResendAllTyped ==
    ASSUME NEW S \in SUBSET PendingPacket, NEW R \in ResendChoices(S)
    PROVE  /\ R \subseteq S
           /\ ResendAll(S, R) \in SUBSET PendingPacket
           /\ Packets(ResendAll(S, R)) = Packets(S)
<1>1. \A p \in R : p \in S /\ Resent(p) \in PendingPacket /\ Resent(p).packet = p.packet
  BY ResentTyped
<1>2. R \subseteq S /\ ResendAll(S, R) \in SUBSET PendingPacket
  BY <1>1 DEF ResendAll
<1>3. ASSUME NEW d \in Packets(S) PROVE d \in Packets(ResendAll(S, R))
  <2>1. PICK p \in S : d = p.packet
    BY DEF Packets
  <2>2. CASE p \in R
    <3>1. Resent(p) \in ResendAll(S, R) /\ Resent(p).packet = d
      BY <1>1, <2>1, <2>2 DEF ResendAll
    <3> QED
      BY <3>1 DEF Packets
  <2>3. CASE p \notin R
    BY <2>1, <2>3 DEF ResendAll, Packets
  <2> QED
    BY <2>2, <2>3
<1>4. ASSUME NEW d \in Packets(ResendAll(S, R)) PROVE d \in Packets(S)
  <2>1. PICK q \in ResendAll(S, R) : d = q.packet
    BY DEF Packets
  <2>2. CASE q \in S
    BY <2>1, <2>2 DEF Packets
  <2>3. CASE \E p \in R : q = Resent(p)
    BY <1>1, <2>1, <2>3 DEF Packets
  <2> QED
    BY <2>1, <2>2, <2>3 DEF ResendAll
<1> QED
  BY <1>2, <1>3, <1>4

LEMMA AgePendingTyped ==
    ASSUME NEW S \in SUBSET PendingPacket
    PROVE  /\ AgePending(S) \in SUBSET PendingPacket
           /\ Packets(AgePending(S)) = Packets(S)
<1> DEFINE Older(p) == [p EXCEPT !.age = OlderBy1(@, ResendTimeout)]
<1>1. \A p \in S : Older(p) \in PendingPacket /\ Older(p).packet = p.packet
  BY TimingAssumption DEF PendingPacket, OlderBy1
<1>2. AgePending(S) = {Older(p) : p \in S}
  BY DEF AgePending
<1> HIDE DEF Older
<1> QED
  BY <1>1, <1>2 DEF Packets

\* Age of a connection.
LEMMA IdleTyped ==
    ASSUME NEW i \in 0 .. ClientTimeout + 1
    PROVE  OlderBy1(i, ClientTimeout) \in 0 .. ClientTimeout + 1
BY TimingAssumption DEF OlderBy1

----------------------------------------------------------------------------
(* Queues. *)

LEMMA AppendTyped ==
    ASSUME NEW S, NEW q \in Seq(S), NEW e \in S
    PROVE  /\ Append(q, e) \in Seq(S)
           /\ Range(Append(q, e)) \subseteq Range(q) \cup {e}
BY DEF Range

LEMMA TailTyped ==
    ASSUME NEW S, NEW q \in Seq(S), q # <<>>
    PROVE  /\ Head(q) \in S /\ Head(q) \in Range(q)
           /\ Tail(q) \in Seq(S)
           /\ Range(Tail(q)) \subseteq Range(q)
<1>1. Len(q) \in Nat \ {0} /\ q \in [1 .. Len(q) -> S]
  OBVIOUS
<1>2. Head(q) = q[1] /\ 1 \in DOMAIN q
  BY <1>1
<1>3. Tail(q) \in Seq(S) /\ Len(Tail(q)) = Len(q) - 1
  BY <1>1
<1>4. \A i \in 1 .. Len(q) - 1 : Tail(q)[i] = q[i + 1]
  BY <1>1
<1>5. \A i \in DOMAIN Tail(q) : i \in 1 .. Len(q) - 1 /\ i + 1 \in DOMAIN q
  BY <1>1, <1>3
<1> QED
  BY <1>1, <1>2, <1>3, <1>4, <1>5 DEF Range

----------------------------------------------------------------------------
(* Types of the server's pieces. Conns stands for the connections in the
   middle of a handler. *)

ConnsTyped(C) == DOMAIN C \subseteq Addr /\ C \in [DOMAIN C -> Connection]
GroupsTyped(G) == DOMAIN G \subseteq GroupId /\ G \in [DOMAIN G -> SUBSET Addr]

LEMMA NewConnectionTyped == NewConnection \in Connection
BY NothingReceivedTyped, SeqAssumption, TimingAssumption
   DEF NewConnection, Connection, SeqNo

LEMMA HeardFromTyped ==
    ASSUME NEW c \in Connection, NEW d
    PROVE  /\ HeardFrom(c, d) \in Connection
           /\ HeardFrom(c, d).GroupIds = c.GroupIds
           /\ HeardFrom(c, d).Received = c.Received
           /\ HeardFrom(c, d).SentSequence = c.SentSequence
           /\ HeardFrom(c, d).Pending = ProcessAck(c.Pending, d)
<1> DEFINE P == ProcessAck(c.Pending, d)
<1>1. c.Pending \in SUBSET PendingPacket
  BY DEF Connection
<1>2. P \in SUBSET PendingPacket /\ 0 \in 0 .. ClientTimeout + 1
  BY <1>1, ProcessAckTyped, TimingAssumption
<1>3. HeardFrom(c, d) = [c EXCEPT !.idle = 0, !.Pending = P]
  BY DEF HeardFrom
<1> HIDE DEF P
<1>4. [c EXCEPT !.idle = 0, !.Pending = P] \in Connection
  BY <1>2 DEF Connection
<1>5. /\ [c EXCEPT !.idle = 0, !.Pending = P].GroupIds = c.GroupIds
      /\ [c EXCEPT !.idle = 0, !.Pending = P].Received = c.Received
      /\ [c EXCEPT !.idle = 0, !.Pending = P].SentSequence = c.SentSequence
      /\ [c EXCEPT !.idle = 0, !.Pending = P].Pending = P
  BY <1>2 DEF Connection
<1> QED
  BY <1>3, <1>4, <1>5 DEF P

LEMMA HeardTyped ==
    ASSUME ConnsTyped(Connections), NEW d, d.peer \in Known
    PROVE  /\ ConnsTyped(Heard(d)) /\ DOMAIN Heard(d) = Known
           /\ \A a \in Known \ {d.peer} : Heard(d)[a] = Connections[a]
           /\ Heard(d)[d.peer] = HeardFrom(Connections[d.peer], d)
<1>1. HeardFrom(Connections[d.peer], d) \in Connection
  BY HeardFromTyped DEF ConnsTyped, Known
<1>2. Heard(d) = [Connections EXCEPT ![d.peer] = HeardFrom(Connections[d.peer], d)]
  BY DEF Heard
<1> QED
  BY <1>1, <1>2 DEF ConnsTyped, Known

LEMMA JoinTyped ==
    ASSUME NEW C, ConnsTyped(C), GroupsTyped(Groups),
           NEW a \in Addr, NEW g \in GroupId, Join(C, a, g)
    PROVE  ConnsTyped(Connections') /\ GroupsTyped(Groups')
<1>1. CASE a \in DOMAIN C /\ g \notin C[a].GroupIds
  <2>1. C[a] \in Connection /\ C[a].GroupIds \cup {g} \in SUBSET GroupId
    BY <1>1 DEF ConnsTyped, Connection
  <2>2. Connections' = [C EXCEPT ![a].GroupIds = @ \cup {g}]
    BY <1>1 DEF Join
  <2>3. ConnsTyped(Connections')
    BY <2>1, <2>2 DEF ConnsTyped, Connection
  <2>4. Members(g) \cup {a} \in SUBSET Addr
    BY DEF Members, GroupsTyped
  <2>5. Groups' = Put(Groups, g, Members(g) \cup {a})
    BY <1>1 DEF Join
  <2>6. /\ Groups' \in [DOMAIN Groups \cup {g} -> SUBSET Addr]
        /\ DOMAIN Groups' = DOMAIN Groups \cup {g}
    BY <2>4, <2>5 DEF GroupsTyped, Put
  <2>7. GroupsTyped(Groups')
    BY <2>6 DEF GroupsTyped
  <2> QED
    BY <2>3, <2>7
<1>2. CASE ~(a \in DOMAIN C /\ g \notin C[a].GroupIds)
  BY <1>2 DEF Join
<1> QED
  BY <1>1, <1>2

LEMMA LeaveTyped ==
    ASSUME NEW C, ConnsTyped(C), GroupsTyped(Groups),
           NEW a \in Addr, NEW g \in GroupId, Leave(C, a, g)
    PROVE  ConnsTyped(Connections') /\ GroupsTyped(Groups')
<1>1. CASE a \in DOMAIN C /\ g \in C[a].GroupIds
  <2>1. C[a] \in Connection /\ C[a].GroupIds \ {g} \in SUBSET GroupId
    BY <1>1 DEF ConnsTyped, Connection
  <2>2. Connections' = [C EXCEPT ![a].GroupIds = @ \ {g}]
    BY <1>1 DEF Leave
  <2>3. ConnsTyped(Connections')
    BY <2>1, <2>2 DEF ConnsTyped, Connection
  <2>4. GroupsTyped(Restrict(Groups, DOMAIN Groups \ {g}))
    BY DEF GroupsTyped, Restrict
  <2>5. GroupsTyped([Groups EXCEPT ![g] = @ \ {a}])
    BY DEF GroupsTyped
  <2>6. GroupsTyped(Groups')
    BY <1>1, <2>4, <2>5 DEF Leave
  <2> QED
    BY <2>3, <2>6
<1>2. CASE ~(a \in DOMAIN C /\ g \in C[a].GroupIds)
  BY <1>2 DEF Leave
<1> QED
  BY <1>1, <1>2

LEMMA DisconnectTyped ==
    ASSUME NEW C, ConnsTyped(C), GroupsTyped(Groups), NEW gone,
           DisconnectClients(C, gone)
    PROVE  ConnsTyped(Connections') /\ GroupsTyped(Groups')
BY DEF DisconnectClients, ConnsTyped, GroupsTyped, Restrict

LEMMA DataForTyped ==
    ASSUME NEW a \in Addr, NEW c \in Connection, NEW p \in Payload
    PROVE  DataFor(a, c, p) \in Datagram
BY PacketTyped, Next32Typed DEF DataFor, Connection, PacketType, Body

LEMMA SendAckTyped ==
    ASSUME NEW a \in Addr, NEW c \in Connection
    PROVE  SendAck(a, c) \in Datagram
BY PacketTyped, SeqAssumption DEF SendAck, Connection, PacketType, SeqNo, Body

LEMMA OrdersTyped ==
    ASSUME NEW p \in Payload, NEW g \in GroupId, NEW x \in SUBSET Addr
    PROVE  DirectOrder(p) \in Order /\ GroupOrder(g, p, x) \in Order
<1>1. x \cap Members(g) \in SUBSET Addr
  OBVIOUS
<1> QED
  BY <1>1 DEF DirectOrder, GroupOrder, Order

LEMMA SendToAllTyped ==
    ASSUME ConnsTyped(Connections), NetTypeOK,
           issued \in [Addr -> SUBSET Order], sentOn \in [Addr -> SUBSET Datagram],
           NEW T \in SUBSET Known, NEW o \in Order, SendToAll(T, o)
    PROVE  /\ ConnsTyped(Connections') /\ NetTypeOK'
           /\ issued' \in [Addr -> SUBSET Order]
           /\ sentOn' \in [Addr -> SUBSET Datagram]
<1> DEFINE data(a) == DataFor(a, Connections[a], o.msg)
           sent(a) == [Connections[a] EXCEPT
                          !.SentSequence = Next32(@),
                          !.Pending = AddPending(@, data(a))]
<1>1. \A a \in Known : Connections[a] \in Connection /\ a \in Addr
  BY DEF ConnsTyped, Known
<1>2. \A a \in Known : data(a) \in Datagram
  <2>1. o.msg \in Payload
    BY DEF Order
  <2> QED
    BY <1>1, <2>1, DataForTyped
<1>3. ASSUME NEW a \in Known PROVE sent(a) \in Connection
  <2>1. /\ Next32(Connections[a].SentSequence) \in SeqNo
        /\ AddPending(Connections[a].Pending, data(a)) \in SUBSET PendingPacket
    BY <1>1, <1>2, Next32Typed, AddPendingTyped DEF Connection
  <2> HIDE DEF data
  <2> QED
    BY <1>1, <2>1 DEF Connection
<1>4. /\ Connections' = [a \in Known |-> IF a \in T THEN sent(a) ELSE Connections[a]]
      /\ SendToClients({data(a) : a \in T})
      /\ issued' = [a \in Addr |-> IF a \in T THEN issued[a] \cup {o} ELSE issued[a]]
      /\ sentOn' = [a \in Addr |-> IF a \in T THEN sentOn[a] \cup {data(a)} ELSE sentOn[a]]
  BY DEF SendToAll
<1> HIDE DEF data, sent
<1>5. ConnsTyped(Connections')
  BY <1>1, <1>3, <1>4 DEF ConnsTyped
<1>6. NetTypeOK'
  BY <1>2, <1>4 DEF NetTypeOK, SendToClients
<1>7. issued' \in [Addr -> SUBSET Order] /\ sentOn' \in [Addr -> SUBSET Datagram]
  BY <1>2, <1>4
<1> QED
  BY <1>5, <1>6, <1>7

----------------------------------------------------------------------------
(* The server's steps keep the types. *)

LEMMA ArriveTyped ==
    ASSUME NetTypeOK, NEW d, ArriveAtServer(d) \/ ArriveAtClient(d)
    PROVE  d \in Datagram /\ NetTypeOK'
<1>1. d \in Datagram
  BY DEF NetTypeOK, ArriveAtServer, ArriveAtClient
<1>2. toServer' \in SUBSET Datagram /\ toClient' \in SUBSET Datagram
  BY DEF NetTypeOK, ArriveAtServer, ArriveAtClient
<1>3. copies' = copies \/ (copies < MaxCopies /\ copies' = copies + 1)
  BY DEF ArriveAtServer, ArriveAtClient
<1>4. copies' \in 0 .. MaxCopies
  BY <1>3, NetworkAssumption DEF NetTypeOK
<1> QED
  BY <1>1, <1>2, <1>4 DEF NetTypeOK

LEMMA ServerReceivesTyped ==
    ASSUME TypeOK, ServerReceives PROVE TypeOK'
<1>1. PICK d \in toServer : Run(d)
  BY DEF ServerReceives
<1>2. d \in Datagram /\ NetTypeOK'
  BY <1>1, ArriveTyped DEF TypeOK, Run
<1>3. ReceivedPackets' \in Seq(Datagram)
  BY <1>1, <1>2, AppendTyped DEF TypeOK, ServerTypeOK, Run
<1>4. ServerTypeOK'
  BY <1>1, <1>3 DEF TypeOK, ServerTypeOK, Run, Known
<1>5. ClientTypeOK'
  BY DEF TypeOK, ClientTypeOK, ServerReceives, clientVars
<1> QED
  BY <1>2, <1>4, <1>5 DEF TypeOK

LEMMA DequeueTyped ==
    ASSUME TypeOK, NEW d, Dequeue(d)
    PROVE  /\ d \in Datagram /\ d.peer \in Addr /\ d.seq \in SeqNo
           /\ ReceivedPackets' \in Seq(Datagram)
<1>1. d \in Datagram /\ ReceivedPackets' \in Seq(Datagram)
  BY TailTyped DEF Dequeue, TypeOK, ServerTypeOK
<1> QED
  BY <1>1 DEF Datagram

LEMMA HandleNewConnectionTyped ==
    ASSUME TypeOK, NEW d, HandleNewConnection(d)
    PROVE  NetTypeOK' /\ ServerTypeOK'
<1>1. d \in Datagram /\ d.peer \in Addr /\ ReceivedPackets' \in Seq(Datagram)
  BY DequeueTyped DEF HandleNewConnection
<1>2. Connections' = Put(Connections, d.peer, NewConnection)
  BY DEF HandleNewConnection
<1>3. Known' \subseteq Addr /\ Connections' \in [Known' -> Connection]
  BY <1>1, <1>2, NewConnectionTyped DEF Put, Known, TypeOK, ServerTypeOK
<1>4. NetTypeOK'
  BY <1>1, SendAckTyped, NewConnectionTyped
     DEF HandleNewConnection, SendToClients, TypeOK, NetTypeOK
<1>5. sentOn' \in [Addr -> SUBSET Datagram]
  BY <1>1 DEF HandleNewConnection, TypeOK, ServerTypeOK
<1> QED
  BY <1>1, <1>3, <1>4, <1>5 DEF HandleNewConnection, TypeOK, ServerTypeOK

LEMMA HandleDataTyped ==
    ASSUME TypeOK, NEW d, HandleData(d)
    PROVE  NetTypeOK' /\ ServerTypeOK'
<1>1. /\ d \in Datagram /\ d.peer \in Addr /\ d.seq \in SeqNo
      /\ ReceivedPackets' \in Seq(Datagram)
  BY DequeueTyped DEF HandleData
<1>2. d.peer \in Known
  BY DEF HandleData
<1>3. PICK r \in UpdateReceivedState(Connections[d.peer].Received, d.seq) :
         /\ Connections' = [Heard(d) EXCEPT ![d.peer].Received = r]
         /\ SendToClients({SendAck(d.peer, [Heard(d) EXCEPT ![d.peer].Received = r][d.peer])})
  BY DEF HandleData
<1>4. r \in ReceiveState
  BY <1>1, <1>2, UpdateReceivedStateTyped DEF TypeOK, ServerTypeOK, Connection
<1>5. ConnsTyped(Heard(d)) /\ DOMAIN Heard(d) = Known
  BY <1>2, HeardTyped DEF TypeOK, ServerTypeOK, ConnsTyped, Known
<1>6. ConnsTyped([Heard(d) EXCEPT ![d.peer].Received = r])
  BY <1>2, <1>4, <1>5 DEF ConnsTyped, Connection
<1>7. [Heard(d) EXCEPT ![d.peer].Received = r][d.peer] \in Connection
  BY <1>2, <1>5, <1>6 DEF ConnsTyped
<1>8. NetTypeOK'
  BY <1>1, <1>3, <1>7, SendAckTyped DEF SendToClients, TypeOK, NetTypeOK
<1>9. got' \in [Addr -> SUBSET SeqNo]
  BY <1>1 DEF HandleData, TypeOK, ServerTypeOK
<1> QED
  BY <1>1, <1>3, <1>6, <1>8, <1>9
     DEF HandleData, TypeOK, ServerTypeOK, ConnsTyped, Known

LEMMA HandleDisconnectTyped ==
    ASSUME TypeOK, NEW d, HandleDisconnect(d)
    PROVE  NetTypeOK' /\ ServerTypeOK'
<1>1. d.peer \in Known /\ DisconnectClients(Heard(d), {d.peer})
  BY DEF HandleDisconnect
<1>2. ConnsTyped(Heard(d)) /\ GroupsTyped(Groups)
  BY <1>1, HeardTyped DEF TypeOK, ServerTypeOK, ConnsTyped, GroupsTyped, Known
<1>3. ConnsTyped(Connections') /\ GroupsTyped(Groups')
  BY <1>1, <1>2, DisconnectTyped
<1> QED
  BY <1>3, DequeueTyped DEF HandleDisconnect, TypeOK, ServerTypeOK, NetTypeOK,
     netVars, ConnsTyped, GroupsTyped, Known

LEMMA HandleGroupRequestTyped ==
    ASSUME TypeOK, NEW d, HandleGroupRequest(d)
    PROVE  NetTypeOK' /\ ServerTypeOK'
<1>1. d \in Datagram /\ d.peer \in Addr /\ d.peer \in Known /\ d.body \in GroupId
  BY DequeueTyped DEF HandleGroupRequest
<1>2. ConnsTyped(Heard(d)) /\ GroupsTyped(Groups)
  BY <1>1, HeardTyped DEF TypeOK, ServerTypeOK, ConnsTyped, GroupsTyped, Known
<1>3. Join(Heard(d), d.peer, d.body) \/ Leave(Heard(d), d.peer, d.body)
  BY DEF HandleGroupRequest
<1>4. ConnsTyped(Connections') /\ GroupsTyped(Groups')
  BY <1>1, <1>2, <1>3, JoinTyped, LeaveTyped
<1> QED
  BY <1>4, DequeueTyped DEF HandleGroupRequest, TypeOK, ServerTypeOK, NetTypeOK,
     netVars, ConnsTyped, GroupsTyped, Known

LEMMA HandleOtherTyped ==
    ASSUME TypeOK, NEW d, HandleOther(d)
    PROVE  NetTypeOK' /\ ServerTypeOK'
<1>1. ConnsTyped(Heard(d))
  BY HeardTyped DEF HandleOther, TypeOK, ServerTypeOK, ConnsTyped, Known
<1> QED
  BY <1>1, DequeueTyped DEF HandleOther, TypeOK, ServerTypeOK, NetTypeOK,
     netVars, ConnsTyped, Known

LEMMA ServerProcessesTyped ==
    ASSUME TypeOK, ServerProcesses PROVE TypeOK'
<1>1. PICK d : ProcessReceivedPacket(d)
  BY DEF ServerProcesses
<1>2. CASE IgnoreUnknown(d)
  BY <1>2, DequeueTyped
     DEF IgnoreUnknown, TypeOK, ServerTypeOK, NetTypeOK, netVars, Known,
         ServerProcesses, ClientTypeOK, clientVars
<1>3. NetTypeOK' /\ ServerTypeOK'
  BY <1>1, <1>2, HandleNewConnectionTyped, HandleDataTyped, HandleDisconnectTyped,
     HandleGroupRequestTyped, HandleOtherTyped DEF ProcessReceivedPacket, TypeOK
<1>4. ClientTypeOK'
  BY DEF TypeOK, ClientTypeOK, ServerProcesses, clientVars
<1> QED
  BY <1>3, <1>4 DEF TypeOK

LEMMA ServerChecksTyped ==
    ASSUME TypeOK, ServerChecks PROVE TypeOK'
<1> DEFINE after(again) == [a \in Known |->
               [Connections[a] EXCEPT !.Pending = ResendAll(@, again \cap @)]]
<1>1. PICK again \in SUBSET UNION {Connections[a].Pending : a \in Known} :
         /\ \A a \in Known : again \cap Connections[a].Pending
                               \in ResendChoices(Connections[a].Pending)
         /\ SendToClients(Packets(again))
         /\ DisconnectClients(after(again), GivenUp \cup TimedOut)
  BY DEF ServerChecks, TickChecks
<1>2. \A a \in Known : Connections[a] \in Connection
  BY DEF TypeOK, ServerTypeOK
<1>3. \A p \in again : p.packet \in Datagram
  BY <1>1, <1>2 DEF Connection, PendingPacket
<1>4. NetTypeOK'
  BY <1>1, <1>3 DEF SendToClients, Packets, TypeOK, NetTypeOK
<1>5. ASSUME NEW a \in Known
      PROVE  [Connections[a] EXCEPT !.Pending = ResendAll(@, again \cap @)] \in Connection
  <2>1. Connections[a].Pending \in SUBSET PendingPacket
    BY <1>2 DEF Connection
  <2>2. again \cap Connections[a].Pending \in ResendChoices(Connections[a].Pending)
    BY <1>1
  <2>3. ResendAll(Connections[a].Pending, again \cap Connections[a].Pending)
            \in SUBSET PendingPacket
    BY <2>1, <2>2, ResendAllTyped
  <2> QED
    BY <1>2, <2>3 DEF Connection
<1>6. ConnsTyped(after(again)) /\ GroupsTyped(Groups)
  BY <1>5 DEF ConnsTyped, GroupsTyped, TypeOK, ServerTypeOK
<1> HIDE DEF after
<1>7. ConnsTyped(Connections') /\ GroupsTyped(Groups')
  BY <1>1, <1>6, DisconnectTyped
<1>8. ServerTypeOK'
  BY <1>7 DEF ServerChecks, TickChecks, TypeOK, ServerTypeOK, ConnsTyped, GroupsTyped, Known
<1>9. ClientTypeOK'
  BY DEF TypeOK, ClientTypeOK, ServerChecks, clientVars
<1> QED
  BY <1>4, <1>8, <1>9 DEF TypeOK

LEMMA SendingTyped ==
    ASSUME TypeOK, NEW T \in SUBSET Known, NEW o \in Order, SendToAll(T, o),
           UNCHANGED <<Groups, ReceivedPackets, got>>
    PROVE  NetTypeOK' /\ ServerTypeOK'
BY SendToAllTyped DEF TypeOK, ServerTypeOK, ConnsTyped, Known

LEMMA ServerCallsTyped ==
    ASSUME TypeOK, ServerCalls PROVE TypeOK'
<1> SUFFICES NetTypeOK' /\ ServerTypeOK'
  BY DEF TypeOK, ClientTypeOK, ServerCalls, clientVars
<1>1. CASE \E a \in Addr, p \in Payload : SendTo(a, p)
  <2>1. PICK a \in Addr, p \in Payload : SendTo(a, p)
    BY <1>1
  <2>2. {a} \in SUBSET Known
    BY <2>1 DEF SendTo, MaySend
  <2>3. DirectOrder(p) \in Order
    BY <2>1 DEF DirectOrder, Order
  <2> QED
    BY <2>1, <2>2, <2>3, SendingTyped DEF SendTo
<1>2. CASE \E g \in GroupId, p \in Payload, x \in {{}} \cup {{a} : a \in Addr} :
              BroadcastToGroup(g, p, x)
  <2>1. PICK g \in GroupId, p \in Payload, x \in {{}} \cup {{a} : a \in Addr} :
              BroadcastToGroup(g, p, x)
    BY <1>2
  <2>2. (Groups[g] \ x) \cap Known \in SUBSET Known
    OBVIOUS
  <2>3. GroupOrder(g, p, x) \in Order
    BY <2>1, OrdersTyped
  <2> QED
    BY <2>1, <2>2, <2>3, SendingTyped DEF BroadcastToGroup
<1>3. CASE \E a \in Addr, g \in GroupId : JoinGroup(a, g) \/ LeaveGroup(a, g)
  <2>1. PICK a \in Addr, g \in GroupId : JoinGroup(a, g) \/ LeaveGroup(a, g)
    BY <1>3
  <2>2. ConnsTyped(Connections) /\ GroupsTyped(Groups)
    BY DEF TypeOK, ServerTypeOK, ConnsTyped, GroupsTyped, Known
  <2>3. ConnsTyped(Connections') /\ GroupsTyped(Groups')
    BY <2>1, <2>2, JoinTyped, LeaveTyped DEF JoinGroup, LeaveGroup
  <2> QED
    BY <2>1, <2>3 DEF JoinGroup, LeaveGroup, TypeOK, ServerTypeOK, NetTypeOK, netVars,
       ConnsTyped, GroupsTyped, Known
<1> QED
  BY <1>1, <1>2, <1>3 DEF ServerCalls

----------------------------------------------------------------------------
(* The clients' steps, the network's and time's keep the types. *)

\* A step of one client, once its new record and the packets it sends are known
\* to be typed.
LEMMA ClientStepTyped ==
    ASSUME TypeOK, UNCHANGED serverVars, NEW a \in Addr, NEW c \in Client,
           client' = [client EXCEPT ![a] = c], NetTypeOK',
           polled' \in [Addr -> SUBSET Body],
           connects' \in [Addr -> 0 .. MaxConnects]
    PROVE  TypeOK'
<1>1. ServerTypeOK'
  BY DEF TypeOK, ServerTypeOK, serverVars, Known
<1>2. client' \in [Addr -> Client]
  BY DEF TypeOK, ClientTypeOK
<1> QED
  BY <1>1, <1>2 DEF TypeOK, ClientTypeOK

LEMMA RequestTyped ==
    ASSUME TypeOK, NEW a \in Addr, NEW t \in PacketType, NEW b \in GroupId \cup {NoBody}
    PROVE  Request(a, t, b) \in Datagram
BY PacketTyped, SeqAssumption DEF Request, TypeOK, ClientTypeOK, Client, SeqNo, Body

LEMMA FarewellTyped ==
    ASSUME TypeOK, NEW a \in Addr
    PROVE  Farewell(a) \subseteq Datagram
BY RequestTyped DEF Farewell, PacketType

LEMMA ClientDataTyped ==
    ASSUME TypeOK, NEW a \in Addr
    PROVE  ClientData(a) \in Datagram /\ WithSent(client[a], ClientData(a)) \in Client
<1>1. client[a] \in Client
  BY DEF TypeOK, ClientTypeOK
<1>2. ClientData(a) \in Datagram /\ Next32(client[a].SentSequence) \in SeqNo
  BY <1>1, PacketTyped, Next32Typed DEF ClientData, Client, PacketType, Body
<1>3. AddPending(client[a].Pending, ClientData(a)) \in SUBSET PendingPacket
  BY <1>1, <1>2, AddPendingTyped DEF Client
<1>4. WithSent(client[a], ClientData(a)) \in Client
  BY <1>1, <1>2, <1>3 DEF WithSent, Client
<1> QED
  BY <1>2, <1>4

LEMMA SendToServerTyped ==
    ASSUME NetTypeOK, NEW S \in SUBSET Datagram, SendToServer(S)
    PROVE  NetTypeOK'
BY DEF NetTypeOK, SendToServer

LEMMA ClosedTyped ==
    ASSUME NEW c \in Client
    PROVE  Closed(c) \in Client
BY DEF Closed, Client

LEMMA ClientReceivesTyped ==
    ASSUME TypeOK, ClientReceives PROVE TypeOK'
<1>1. PICK d \in toClient : ClientRun(d)
  BY DEF ClientReceives
<1>2. d \in Datagram /\ NetTypeOK' /\ d.peer \in Addr
  BY <1>1, ArriveTyped DEF TypeOK, ClientRun, Datagram
<1> DEFINE c == [client[d.peer] EXCEPT !.IncomingPackets = Append(@, d)]
<1>3. client[d.peer] \in Client
  BY <1>2 DEF TypeOK, ClientTypeOK
<1>4. Append(client[d.peer].IncomingPackets, d) \in Seq(Datagram)
  BY <1>2, <1>3, AppendTyped DEF Client
<1>5. c \in Client
  BY <1>3, <1>4 DEF Client
<1>6. client' = [client EXCEPT ![d.peer] = c]
  BY <1>1 DEF ClientRun
<1> HIDE DEF c
<1> QED
  BY <1>1, <1>2, <1>5, <1>6, ClientStepTyped
     DEF ClientRun, ClientReceives, TypeOK, ClientTypeOK

LEMMA ProcessedTyped ==
    ASSUME NEW c \in Client, c.IncomingPackets # <<>>, NEW r \in ReceiveState
    PROVE  Processed(c, Head(c.IncomingPackets), r) \in Client
<1> DEFINE d == Head(c.IncomingPackets)
           queue == IF d.type = "Data" THEN Append(c.ReceivedDataPackets, d.body)
                                       ELSE c.ReceivedDataPackets
           P == ProcessAck(c.Pending, d)
           b == c.bIsConnected \/ CompletesHandshake(d)
<1>1. c.IncomingPackets \in Seq(Datagram) /\ c.ReceivedDataPackets \in Seq(Body)
      /\ c.Pending \in SUBSET PendingPacket /\ c.bIsConnected \in BOOLEAN
  BY DEF Client
<1>2. Tail(c.IncomingPackets) \in Seq(Datagram)
  BY <1>1, TailTyped
<1>3. queue \in Seq(Body)
  <2>1. d \in Datagram
    BY <1>1, TailTyped
  <2>2. d.body \in Body
    BY <2>1 DEF Datagram
  <2> QED
    BY <1>1, <2>2, AppendTyped
<1>4. P \in SUBSET PendingPacket
  BY <1>1, ProcessAckTyped
<1>5. b \in BOOLEAN
  BY <1>1 DEF CompletesHandshake
<1>6. Processed(c, d, r) =
         [c EXCEPT !.IncomingPackets = Tail(c.IncomingPackets), !.bIsConnected = b,
                   !.Pending = P, !.Received = r, !.ReceivedDataPackets = queue]
  BY DEF Processed
<1> HIDE DEF queue, P, b
<1> QED
  BY <1>2, <1>3, <1>4, <1>5, <1>6 DEF Client, d

LEMMA ClientProcessesTyped ==
    ASSUME TypeOK, NEW a \in Addr, ClientProcesses(a) PROVE TypeOK'
<1> DEFINE d == Head(client[a].IncomingPackets)
<1>1. client[a] \in Client /\ client[a].IncomingPackets # <<>>
  BY DEF ClientProcesses, ClientProcessPacket, TypeOK, ClientTypeOK
<1>2. client[a].IncomingPackets \in Seq(Datagram) /\ client[a].Received \in ReceiveState
  BY <1>1 DEF Client
<1>3. d \in Datagram
  BY <1>1, <1>2, TailTyped
<1>3a. d.seq \in SeqNo
  BY <1>3 DEF Datagram
<1>4. PICK r \in IF d.type = "Data" THEN UpdateReceivedState(client[a].Received, d.seq)
                ELSE {client[a].Received} :
         client' = [client EXCEPT ![a] = Processed(@, d, r)]
  BY DEF ClientProcesses, ClientProcessPacket
<1>5. r \in ReceiveState
  BY <1>2, <1>3a, UpdateReceivedStateTyped
<1>6. Processed(client[a], d, r) \in Client
  BY <1>1, <1>5, ProcessedTyped
<1>7. client' = [client EXCEPT ![a] = Processed(client[a], d, r)]
  BY <1>4
<1> QED
  BY <1>6, <1>7, ClientStepTyped
     DEF ClientProcesses, ClientProcessPacket, TypeOK, ClientTypeOK, NetTypeOK, netVars

LEMMA ClientChecksTyped ==
    ASSUME TypeOK, NEW a \in Addr, ClientChecks(a) PROVE TypeOK'
<1> DEFINE pending == client[a].Pending
           stop == Exhausted(pending) # {}
           resent(again) == [client[a] EXCEPT !.Pending = ResendAll(@, again)]
<1>1. PICK again \in ResendChoices(pending) :
         IF again # {} /\ ~client[a].open
         THEN client' = [client EXCEPT ![a].crashed = TRUE] /\ UNCHANGED netVars
         ELSE /\ client' = [client EXCEPT ![a] =
                              IF stop THEN Closed(resent(again)) ELSE resent(again)]
              /\ SendToServer(Packets(again) \cup IF stop THEN Farewell(a) ELSE {})
  BY DEF ClientChecks, ClientCheckForResends
<1>2. client[a] \in Client /\ pending \in SUBSET PendingPacket
  BY DEF TypeOK, ClientTypeOK, Client
<1>3. again \subseteq pending /\ ResendAll(pending, again) \in SUBSET PendingPacket
  BY <1>2, ResendAllTyped
<1>4. UNCHANGED serverVars /\ UNCHANGED <<polled, connects>>
  BY DEF ClientChecks, ClientCheckForResends
<1>5. CASE again # {} /\ ~client[a].open
  <2>1. [client[a] EXCEPT !.crashed = TRUE] \in Client
    BY <1>2 DEF Client
  <2>2. client' = [client EXCEPT ![a] = [client[a] EXCEPT !.crashed = TRUE]]
    BY <1>1, <1>5
  <2>3. NetTypeOK'
    BY <1>1, <1>5 DEF TypeOK, NetTypeOK, netVars
  <2> QED
    BY <1>4, <2>1, <2>2, <2>3, ClientStepTyped DEF TypeOK, ClientTypeOK
<1>6. CASE ~(again # {} /\ ~client[a].open)
  <2>1. resent(again) \in Client
    BY <1>2, <1>3 DEF Client
  <2>2. (IF stop THEN Closed(resent(again)) ELSE resent(again)) \in Client
    BY <2>1, ClosedTyped
  <2>3. Packets(again) \subseteq Datagram
    BY <1>2, <1>3 DEF Packets, PendingPacket
  <2>4. NetTypeOK'
    BY <1>1, <1>6, <2>3, FarewellTyped, SendToServerTyped DEF TypeOK
  <2> QED
    BY <1>1, <1>4, <1>6, <2>2, <2>4, ClientStepTyped DEF TypeOK, ClientTypeOK
<1> QED
  BY <1>5, <1>6

LEMMA ClientCallsTyped ==
    ASSUME TypeOK, NEW a \in Addr, ClientCalls(a) PROVE TypeOK'
<1>1. client[a] \in Client
  BY DEF TypeOK, ClientTypeOK
<1>2. UNCHANGED serverVars
  BY DEF ClientCalls
<1>3. CASE Connect(a)
  <2>1. [client[a] EXCEPT !.open = TRUE] \in Client
    BY <1>1 DEF Client
  <2>2. client' = [client EXCEPT ![a] = [client[a] EXCEPT !.open = TRUE]]
    BY <1>3 DEF Connect
  <2>3. NetTypeOK'
    BY <1>3, RequestTyped, SendToServerTyped DEF Connect, TypeOK, PacketType
  <2>4. connects' \in [Addr -> 0 .. MaxConnects]
    <3>1. connects[a] \in 0 .. MaxConnects /\ connects[a] < MaxConnects
      BY <1>3 DEF Connect, TypeOK, ClientTypeOK
    <3>2. connects[a] + 1 \in 0 .. MaxConnects
      BY <3>1, ConnectAssumption
    <3> QED
      BY <1>3, <3>2 DEF Connect, TypeOK, ClientTypeOK
  <2> QED
    BY <1>2, <1>3, <2>1, <2>2, <2>3, <2>4, ClientStepTyped
       DEF Connect, TypeOK, ClientTypeOK
<1>4. CASE Disconnect(a)
  <2>1. client' = [client EXCEPT ![a] = Closed(client[a])]
    BY <1>4 DEF Disconnect
  <2>2. NetTypeOK'
    BY <1>4, FarewellTyped, SendToServerTyped DEF Disconnect, TypeOK
  <2> QED
    BY <1>1, <1>2, <1>4, <2>1, <2>2, ClosedTyped, ClientStepTyped
       DEF Disconnect, TypeOK, ClientTypeOK
<1>5. CASE Send(a)
  <2>1. client' = [client EXCEPT ![a] = WithSent(client[a], ClientData(a))]
    BY <1>5 DEF Send
  <2>2. NetTypeOK'
    BY <1>5, ClientDataTyped, SendToServerTyped DEF Send, TypeOK
  <2> QED
    BY <1>2, <1>5, <2>1, <2>2, ClientDataTyped, ClientStepTyped
       DEF Send, TypeOK, ClientTypeOK
<1>6. CASE (\E g \in GroupId : ClientJoinGroup(a, g)) \/ ClientLeaveGroup(a)
  <2>1. PICK d \in Datagram : SendToServer({d}) /\ UNCHANGED clientVars
    BY <1>6, RequestTyped DEF ClientJoinGroup, ClientLeaveGroup, PacketType
  <2>2. NetTypeOK'
    BY <2>1, SendToServerTyped DEF TypeOK
  <2>3. ServerTypeOK'
    BY <1>2 DEF TypeOK, ServerTypeOK, serverVars, Known
  <2>4. ClientTypeOK'
    BY <2>1 DEF TypeOK, ClientTypeOK, clientVars
  <2> QED
    BY <2>2, <2>3, <2>4 DEF TypeOK
<1> QED
  BY <1>3, <1>4, <1>5, <1>6 DEF ClientCalls

LEMMA ClientPollsTyped ==
    ASSUME TypeOK, NEW a \in Addr, ClientPolls(a) PROVE TypeOK'
<1> DEFINE queue == client[a].ReceivedDataPackets
<1>1. client[a] \in Client /\ queue \in Seq(Body) /\ queue # <<>>
  BY DEF ClientPolls, Poll, TypeOK, ClientTypeOK, Client
<1>2. Tail(queue) \in Seq(Body) /\ Head(queue) \in Body
  BY <1>1, TailTyped
<1>3. [client[a] EXCEPT !.ReceivedDataPackets = Tail(queue)] \in Client
  BY <1>1, <1>2 DEF Client
<1>4. client' = [client EXCEPT ![a] =
                    [client[a] EXCEPT !.ReceivedDataPackets = Tail(queue)]]
  BY DEF ClientPolls, Poll
<1>5. polled' \in [Addr -> SUBSET Body]
  BY <1>2 DEF ClientPolls, Poll, TypeOK, ClientTypeOK
<1> QED
  BY <1>3, <1>4, <1>5, ClientStepTyped
     DEF ClientPolls, Poll, TypeOK, ClientTypeOK, NetTypeOK, netVars

LEMMA NetworkStepTyped ==
    ASSUME TypeOK, NetworkStep PROVE TypeOK'
<1>1. NetTypeOK'
  BY DEF NetworkStep, Lose, Unreachable, TypeOK, NetTypeOK
<1>2. UNCHANGED <<serverVars, clientVars>>
  BY DEF NetworkStep, Unreachable
<1> QED
  BY <1>1, <1>2 DEF TypeOK, ServerTypeOK, ClientTypeOK, serverVars, clientVars, Known

LEMMA ElapseTyped ==
    ASSUME TypeOK, Elapse PROVE TypeOK'
<1>1. ASSUME NEW a \in Known
      PROVE  [Connections[a] EXCEPT !.idle = OlderBy1(@, ClientTimeout),
                                    !.Pending = AgePending(@)] \in Connection
  <2>1. Connections[a] \in Connection
    BY DEF TypeOK, ServerTypeOK
  <2>2. /\ OlderBy1(Connections[a].idle, ClientTimeout) \in 0 .. ClientTimeout + 1
        /\ AgePending(Connections[a].Pending) \in SUBSET PendingPacket
    BY <2>1, IdleTyped, AgePendingTyped DEF Connection
  <2> QED
    BY <2>1, <2>2 DEF Connection
<1>2. ServerTypeOK'
  BY <1>1 DEF Elapse, ServerAges, TypeOK, ServerTypeOK, Known
<1>3. ASSUME NEW a \in Addr
      PROVE  [client[a] EXCEPT !.Pending = AgePending(@)] \in Client
  <2>1. client[a] \in Client
    BY DEF TypeOK, ClientTypeOK
  <2>2. AgePending(client[a].Pending) \in SUBSET PendingPacket
    BY <2>1, AgePendingTyped DEF Client
  <2> QED
    BY <2>1, <2>2 DEF Client
<1>4. ClientTypeOK'
  BY <1>3 DEF Elapse, ClientsAge, TypeOK, ClientTypeOK
<1>5. NetTypeOK'
  BY DEF Elapse, TypeOK, NetTypeOK, netVars
<1> QED
  BY <1>2, <1>4, <1>5 DEF TypeOK

LEMMA InitTyped == Init => TypeOK
<1> SUFFICES ASSUME Init PROVE TypeOK
  OBVIOUS
<1>1. NetTypeOK
  BY NetworkAssumption DEF Init, NetInit, NetTypeOK
<1>2. ServerTypeOK
  BY DEF Init, ServerInit, ServerTypeOK, Known
<1>3. NewClient \in Client
  BY NothingReceivedTyped, SeqAssumption DEF NewClient, Client, SeqNo
<1>4. ClientTypeOK
  BY <1>3, ConnectAssumption DEF Init, ClientInit, ClientTypeOK
<1> QED
  BY <1>1, <1>2, <1>4 DEF TypeOK

LEMMA NextTyped == TypeOK /\ [Next]_vars => TypeOK'
<1> SUFFICES ASSUME TypeOK, [Next]_vars PROVE TypeOK'
  OBVIOUS
<1>1. CASE UNCHANGED vars
  BY <1>1 DEF vars, netVars, serverVars, clientVars, TypeOK, NetTypeOK,
     ServerTypeOK, ClientTypeOK, Known
<1>2. CASE ServerReceives \/ ServerProcesses \/ ServerChecks \/ ServerCalls
  BY <1>2, ServerReceivesTyped, ServerProcessesTyped, ServerChecksTyped, ServerCallsTyped
<1>3. CASE ClientReceives \/ NetworkStep \/ Elapse
  BY <1>3, ClientReceivesTyped, NetworkStepTyped, ElapseTyped
<1>4. ASSUME NEW a \in Addr,
             ClientProcesses(a) \/ ClientChecks(a) \/ ClientCalls(a) \/ ClientPolls(a)
      PROVE  TypeOK'
  BY <1>4, ClientProcessesTyped, ClientChecksTyped, ClientCallsTyped, ClientPollsTyped
<1> QED
  BY <1>1, <1>2, <1>3, <1>4 DEF Next

\* Every variable keeps its type in every behaviour: in particular no counter
\* leaves 32 bits, no age its range and no packet its retry budget.
THEOREM TypeCorrect == Spec => []TypeOK
BY InitTyped, NextTyped, PTL DEF Spec
=============================================================================
