---------------------------- MODULE UdpNetwork -----------------------------
(***************************************************************************)
(* The UDP network between the clients and the server, external to the     *)
(* repository: datagrams arrive in any order, may be lost (Lossy) and may  *)
(* arrive more than once (at most MaxCopies times in a behaviour). Two     *)
(* identical datagrams in flight, such as a packet and its retransmission, *)
(* are one member of the set: that both arrive is a copy like any other.   *)
(***************************************************************************)
EXTENDS UdpHeader

CONSTANTS
    Lossy,      \* whether datagrams may be lost
    MaxCopies   \* bound: deliveries that leave the datagram in flight

ASSUME NetworkAssumption == Lossy \in BOOLEAN /\ MaxCopies \in Nat

VARIABLES
    toServer,   \* datagrams in flight to the server
    toClient,   \* datagrams in flight to the clients
    copies      \* duplicate deliveries so far

netVars == <<toServer, toClient, copies>>

NetTypeOK ==
    /\ toServer \in SUBSET Datagram
    /\ toClient \in SUBSET Datagram
    /\ copies \in 0 .. MaxCopies

NetInit == toServer = {} /\ toClient = {} /\ copies = 0

\* d arrives at the server, or at its client; a copy may stay in flight.
ArriveAtServer(d) ==
    /\ d \in toServer
    /\ \/ toServer' = toServer \ {d} /\ copies' = copies
       \/ copies < MaxCopies /\ copies' = copies + 1 /\ toServer' = toServer
    /\ UNCHANGED toClient

ArriveAtClient(d) ==
    /\ d \in toClient
    /\ \/ toClient' = toClient \ {d} /\ copies' = copies
       \/ copies < MaxCopies /\ copies' = copies + 1 /\ toClient' = toClient
    /\ UNCHANGED toServer

SendToServer(S) == toServer' = toServer \cup S /\ UNCHANGED <<toClient, copies>>
SendToClients(S) == toClient' = toClient \cup S /\ UNCHANGED <<toServer, copies>>

\* The network drops a datagram.
Lose ==
    /\ Lossy
    /\ \/ \E d \in toServer : toServer' = toServer \ {d} /\ UNCHANGED toClient
       \/ \E d \in toClient : toClient' = toClient \ {d} /\ UNCHANGED toServer
    /\ UNCHANGED copies
=============================================================================
