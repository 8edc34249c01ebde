---------------------------- MODULE RpcTransport ----------------------------
(***************************************************************************)
(* gRPC between FHktRpcProxy and FHktRpcService, as the two use it: one    *)
(* stream per SyncGroup call, on which the server has at most one Write    *)
(* outstanding, and one question and answer per ExecuteBehavior call. A    *)
(* packet is named by the request that carried it to the server.           *)
(*                                                                         *)
(* The server never finishes a stream and the client never cancels one, so *)
(* a stream ends only when its connection breaks.                          *)
(***************************************************************************)
EXTENDS Integers, Sequences, FiniteSets

CONSTANTS
    Call,     \* SyncGroup calls
    Request,  \* ExecuteBehavior calls
    Client,   \* FHktRpcProxy objects
    Owner,    \* the proxy that makes each call
    GroupId,  \* group numbers in use
    Worker    \* completion queues of the server, each with its thread

ASSUME OwnerAssumption == Owner \in [Call \cup Request -> Client]
ASSUME DistinctAssumption == Call \cap Request = {}

VARIABLES
    link,   \* stream of each call: "none", "open" or "broken"
    wire,   \* packets the server's transport has taken, not read by the client
    op,     \* the server's Write on each stream: "none", "writing", "sent", "failed"
    asked,  \* each ExecuteBehavior, at the client: "none", "waiting", "answered", "failed"
    group   \* the group_id in each call

transportVars == <<link, wire, op, asked, group>>

NoGroup == -1   \* what a session holds before it knows its group; also a legal group_id

TransportTypeOK ==
    /\ link \in [Call -> {"none", "open", "broken"}]
    /\ wire \in [Call -> Seq(Request)]
    /\ op \in [Call -> {"none", "writing", "sent", "failed"}]
    /\ asked \in [Request -> {"none", "waiting", "answered", "failed"}]
    /\ group \in [Call \cup Request -> GroupId \cup {NoGroup}]

TransportInit ==
    /\ link = [c \in Call |-> "none"]
    /\ wire = [c \in Call |-> <<>>]
    /\ op = [c \in Call |-> "none"]
    /\ asked = [r \in Request |-> "none"]
    /\ group = [x \in Call \cup Request |-> NoGroup]

\* The transport takes packet p of the Write outstanding on c. Behind a
\* connection that is broken, the loss may not have been noticed yet.
Transmit(c, p) ==
    /\ op[c] = "writing"
    /\ op' = [op EXCEPT ![c] = "sent"]
    /\ wire' = IF link[c] = "open" THEN [wire EXCEPT ![c] = Append(@, p)] ELSE wire
    /\ UNCHANGED <<link, asked, group>>

Refuse(c) ==
    /\ op[c] = "writing"
    /\ link[c] = "broken"
    /\ op' = [op EXCEPT ![c] = "failed"]
    /\ UNCHANGED <<link, wire, asked, group>>

\* The connection of a call is lost, with the last part of what is on the wire.
Break(c) ==
    /\ link[c] = "open"
    /\ link' = [link EXCEPT ![c] = "broken"]
    /\ \E n \in 0 .. Len(wire[c]) : wire' = [wire EXCEPT ![c] = SubSeq(@, 1, n)]
    /\ UNCHANGED <<op, asked, group>>

\* The client of an unanswered ExecuteBehavior loses its connection.
BreakRequest(r) ==
    /\ asked[r] = "waiting"
    /\ asked' = [asked EXCEPT ![r] = "failed"]
    /\ UNCHANGED <<link, wire, op, group>>
=============================================================================
