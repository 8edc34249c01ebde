------------------------------ MODULE RpcProxy ------------------------------
(***************************************************************************)
(* FHktRpcProxy: the stream call behind SyncGroup, driven by completions   *)
(* on the proxy's worker thread, the unary call behind ExecuteBehavior,    *)
(* and the destructor. The callback of the game runs on that thread; its   *)
(* calls are recorded in delivered.                                        *)
(***************************************************************************)
EXTENDS RpcTransport

CONSTANT Empty   \* the packet of a Response nothing was read into

ASSUME EmptyAssumption == Empty \notin Request

VARIABLES
    stream,     \* call -> its FStreamCall
    delivered,  \* call -> packets given to the game's callback
    proxy       \* "open", "closing" (in the destructor), "gone" or "aborted" (with
                \* the program it is part of)

proxyVars == <<stream, delivered, proxy>>

----------------------------------------------------------------------------
(* State. *)

\* waiting: the operation whose completion comes next.
StreamCall ==
    [State : {"none", "READING", "FINISHING", "deleted"},
     waiting : {"none", "StartCall", "Read", "Finish"},
     Response : Request \cup {Empty}]

ProxyTypeOK ==
    /\ stream \in [Call -> StreamCall]
    /\ delivered \in [Call -> Seq(Request \cup {Empty})]
    /\ proxy \in [Client -> {"open", "closing", "gone", "aborted"}]

ProxyInit ==
    /\ stream = [c \in Call |-> [State |-> "none", waiting |-> "none", Response |-> Empty]]
    /\ delivered = [c \in Call |-> <<>>]
    /\ proxy = [p \in Client |-> "open"]

----------------------------------------------------------------------------
(* The game calls the proxy. *)

\* SyncGroup: the call starts in READING.
SyncGroup(c, g) ==
    /\ proxy[Owner[c]] = "open"
    /\ stream[c].State = "none"
    /\ stream' = [stream EXCEPT ![c].State = "READING", ![c].waiting = "StartCall"]
    /\ link' = [link EXCEPT ![c] = "open"]
    /\ group' = [group EXCEPT ![c] = g]
    /\ UNCHANGED <<delivered, proxy, wire, op, asked>>

ExecuteBehavior(r, g) ==
    /\ proxy[Owner[r]] = "open"
    /\ asked[r] = "none"
    /\ asked' = [asked EXCEPT ![r] = "waiting"]
    /\ group' = [group EXCEPT ![r] = g]
    /\ UNCHANGED <<proxyVars, link, wire, op>>

----------------------------------------------------------------------------
(* FStreamCall::Proceed, by state and bOk. *)

\* Whether the worker thread runs.
Running(p) == proxy[p] \in {"open", "closing"}

\* Starting an operation of p. Once the destructor has shut the queue down gRPC
\* forbids it: it may take the operation all the same, or abort the program.
Start(p) ==
    \/ UNCHANGED proxy
    \/ proxy[p] = "closing" /\ proxy' = [proxy EXCEPT ![p] = "aborted"]

\* READING, ok: the completion of StartCall, which has read nothing, or of Read.
Received(c) ==
    \/ /\ stream[c].waiting = "StartCall"
       /\ stream' = [stream EXCEPT ![c].waiting = "Read"]
       /\ UNCHANGED wire
    \/ /\ stream[c].waiting = "Read"
       /\ wire[c] # <<>>
       /\ stream' = [stream EXCEPT ![c].Response = Head(wire[c])]
       /\ wire' = [wire EXCEPT ![c] = Tail(@)]

\* The callback, then the next Read.
ProceedReading(c) ==
    /\ Running(Owner[c])
    /\ stream[c].State = "READING"
    /\ Received(c)
    /\ delivered' = [delivered EXCEPT ![c] = Append(@, stream'[c].Response)]
    /\ Start(Owner[c])
    /\ UNCHANGED <<link, op, asked, group>>

\* READING, not ok: nothing more to read.
ProceedEnded(c) ==
    /\ Running(Owner[c])
    /\ stream[c].State = "READING"
    /\ link[c] = "broken"
    /\ wire[c] = <<>>
    /\ stream' = [stream EXCEPT ![c].State = "FINISHING", ![c].waiting = "Finish"]
    /\ Start(Owner[c])
    /\ UNCHANGED <<delivered, transportVars>>

\* Mutant of ProceedFinished: asks for the status once more.
ProceedFinishedAgain(c) ==
    /\ Running(Owner[c])
    /\ stream[c].State = "FINISHING"
    /\ delivered' = [delivered EXCEPT ![c] = Append(@, stream[c].Response)]
    /\ stream' = [stream EXCEPT ![c].State = "deleted", ![c].waiting = "Finish"]
    /\ UNCHANGED <<proxy, transportVars>>

\* FINISHING: the callback is called once more, with the Response last read.
ProceedFinished(c) ==
    /\ Running(Owner[c])
    /\ stream[c].State = "FINISHING"
    /\ delivered' = [delivered EXCEPT ![c] = Append(@, stream[c].Response)]
    /\ stream' = [stream EXCEPT ![c].State = "deleted", ![c].waiting = "none"]
    /\ UNCHANGED <<proxy, transportVars>>

----------------------------------------------------------------------------
(* ~FHktRpcProxy. *)

BeginDestroy(p) ==
    /\ proxy[p] = "open"
    /\ proxy' = [proxy EXCEPT ![p] = "closing"]
    /\ UNCHANGED <<stream, delivered, transportVars>>

\* Next returns false once every pending operation has completed; then the
\* worker thread ends and is joined.
Drained(p) ==
    /\ \A c \in Call : Owner[c] = p => stream[c].waiting = "none"
    /\ \A r \in Request : Owner[r] = p => asked[r] # "waiting"

EndDestroy(p) ==
    /\ proxy[p] = "closing"
    /\ Drained(p)
    /\ proxy' = [proxy EXCEPT ![p] = "gone"]
    /\ UNCHANGED <<stream, delivered, transportVars>>
=============================================================================
