----------------------------- MODULE UdpHeader -----------------------------
(***************************************************************************)
(* The vocabulary that FHktReliableUdpServer and FHktReliableUdpClient     *)
(* share: the packet header (HktReliableUdpHeader.h), the packets kept for *)
(* retransmission (FPendingPacket), and the sequence-number arithmetic,    *)
(* which both classes carry as identical private methods.                  *)
(*                                                                         *)
(* A uint32 sequence number is a number below SeqMod (2^32 in the code);   *)
(* the 32-bit AckBitfield is the set of the positions of its 1 bits, all   *)
(* below Window (32 in the code).                                          *)
(***************************************************************************)
EXTENDS Integers, Sequences, FiniteSets

CONSTANTS
    Addr,           \* client endpoints ("ip:port", the key of Connections)
    GroupId,        \* group numbers that appear in requests
    Payload,        \* game payloads the server sends
    NoBody,         \* an empty packet body
    SeqMod,         \* 2^32
    Window,         \* 32, the width of AckBitfield
    ResendTimeout,  \* time units after which an unconfirmed packet is resent
    MaxRetries,     \* retransmissions before the peer is given up
    ClientTimeout,  \* ClientTimeoutDuration, in the same time units
    MaxServerSeq,   \* bound: packets the server numbers on one connection
    MaxClientSeq,   \* bound: packets a client numbers in its lifetime
    QueueCap        \* bound: packets waiting in a queue (the code has none)

ASSUME SeqAssumption ==
    /\ SeqMod \in Nat
    /\ Window \in Nat \ {0}
    /\ Window < SeqMod

ASSUME TimingAssumption ==
    /\ ResendTimeout \in Nat
    /\ MaxRetries \in Nat
    /\ ClientTimeout \in Nat

ASSUME BoundAssumption ==
    /\ MaxServerSeq \in 0 .. SeqMod - 1
    /\ MaxClientSeq \in 0 .. SeqMod - 1
    /\ QueueCap \in Nat \ {0}

ASSUME BodyAssumption == NoBody \notin GroupId

----------------------------------------------------------------------------
(* Packets. *)

SeqNo == 0 .. SeqMod - 1
Bit == 0 .. Window - 1

\* EPacketType. Ping and Pong are declared there too, but nothing sends them.
PacketType == {"Data", "Ack", "Connect", "Disconnect", "JoinGroup", "LeaveGroup"}

\* What a side knows of its peer's packets: ReceivedSequence and
\* ReceivedAckBitfield.
ReceiveState == [seq : SeqNo, bits : SUBSET Bit]

NothingReceived == [seq |-> 0, bits |-> {}]

\* What can follow a header.
Body == Payload \cup GroupId \cup {NoBody}

\* A packet on the wire: FPacketHeader and the bytes that follow it. peer is
\* the client endpoint at the other end (the server has a single one).
Datagram ==
    [peer : Addr, type : PacketType, seq : SeqNo, acked : ReceiveState,
     body : Body]

\* Every header carries the sender's receive state, as a piggybacked Ack.
Packet(a, type, seq, received, body) ==
    [peer |-> a, type |-> type, seq |-> seq, acked |-> received, body |-> body]

\* FPendingPacket: the bytes as first sent, the time since they were last
\* sent, and the number of retransmissions. A TMap<uint32, FPendingPacket> is
\* a set of these in which every sequence number occurs once.
PendingPacket ==
    [packet : Datagram, age : 0 .. ResendTimeout + 1, Retries : 0 .. MaxRetries]

\* TMap::Add, which replaces an entry with the same key.
AddPending(pending, d) ==
    {p \in pending : p.packet.seq # d.seq}
        \cup {[packet |-> d, age |-> 0, Retries |-> 0]}

----------------------------------------------------------------------------
(* uint32 arithmetic. *)

Minus(x, y) == IF x >= y THEN x - y ELSE x - y + SeqMod
Next32(x) == IF x + 1 = SeqMod THEN 0 ELSE x + 1

ShiftLeft(bits, n) == {b \in Bit : b - n \in bits}

----------------------------------------------------------------------------
(* Acknowledgement. *)

\* Mutant of TooOld: the guard without the wrap-around.
TooOldUnwrapped(received, incoming) ==
    received.seq >= Window /\ incoming <= received.seq - Window

\* The guard of UpdateReceivedState. The subtraction wraps below 0.
TooOld(received, incoming) == incoming <= Minus(received.seq, Window)

\* A packet ahead of ReceivedSequence.
Advance(received, incoming) ==
    LET diff == incoming - received.seq
    IN  [seq  |-> incoming,
         bits |-> IF diff >= Window THEN {0}
                  ELSE ShiftLeft(received.bits, diff) \cup {0}]

\* A packet behind ReceivedSequence, or a copy of the last one: then the shift
\* 1 << (0 - 1) is undefined, and either sets the top bit (the shift count is
\* masked, as x86 and ARM64 do) or sets none.
MarkBehind(received, incoming) ==
    LET diff == received.seq - incoming
    IN  IF diff = 0
        THEN {received, [received EXCEPT !.bits = @ \cup {Window - 1}]}
        ELSE {[received EXCEPT !.bits = @ \cup {diff - 1}]}

\* UpdateReceivedState: the receive states it can leave behind.
UpdateReceivedState(received, incoming) ==
    IF TooOld(received, incoming) THEN {received}
    ELSE IF incoming > received.seq THEN {Advance(received, incoming)}
    ELSE MarkBehind(received, incoming)

\* The sequence numbers a header confirms.
AckedBy(acked) == {acked.seq} \cup {Minus(acked.seq, b + 1) : b \in acked.bits}

\* ProcessAck: what stays pending once a packet has been looked at.
ProcessAck(pending, d) == {p \in pending : p.packet.seq \notin AckedBy(d.acked)}

----------------------------------------------------------------------------
(* Retransmission. *)

Expired(pending) == {p \in pending : p.age > ResendTimeout}

\* Mutant of Exhausted: one retry too many.
ExhaustedLate(pending) == {p \in Expired(pending) : p.Retries > MaxRetries}

\* The packets at which CheckForResends stops and gives the peer up.
Exhausted(pending) == {p \in Expired(pending) : p.Retries >= MaxRetries}

\* Mutant of Resent: the retry is not counted.
ResentUncounted(p) == [p EXCEPT !.age = 0]

Resent(p) == [p EXCEPT !.age = 0, !.Retries = @ + 1]

\* The pending packets once those in again have been sent once more.
ResendAll(pending, again) == (pending \ again) \cup {Resent(p) : p \in again}

\* The packets of one peer a pass may send again: all the expired ones, unless
\* it stops at an exhausted one. TMap order is unspecified, so it may meet any
\* of the others before that.
ResendChoices(pending) ==
    IF Exhausted(pending) = {} THEN {Expired(pending)}
    ELSE SUBSET (Expired(pending) \ Exhausted(pending))

Packets(pending) == {p.packet : p \in pending}

\* Time passes. Beyond the threshold an age makes no further difference.
OlderBy1(age, limit) == IF age > limit THEN age ELSE age + 1

AgePending(pending) ==
    {[p EXCEPT !.age = OlderBy1(@, ResendTimeout)] : p \in pending}
=============================================================================
