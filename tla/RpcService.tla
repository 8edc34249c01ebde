----------------------------- MODULE RpcService -----------------------------
(***************************************************************************)
(* FHktRpcService: a worker thread per completion queue, a handler waiting *)
(* on every queue for the next SyncGroup and the next ExecuteBehavior,     *)
(* the stream sessions and the groups they register in.                    *)
(*                                                                         *)
(* A worker processes the completions of its queue one after another.      *)
(* While it is inside a broadcast nothing of its own queue is processed,   *)
(* but the other workers go on: every lock release and every access to     *)
(* NextBehaviorId, which no lock protects, is a step of its own.           *)
(*                                                                         *)
(* A session serves one call for its whole life and is named by it here.   *)
(***************************************************************************)
EXTENDS RpcTransport

CONSTANT NoRequest   \* a worker that serves no request

ASSUME NoRequestAssumption == NoRequest \notin Request

VARIABLES
    session,         \* call -> "none", "matched", "live" or "deleted"
    home,            \* call -> workers whose queue its session is on: none or one
    Sessions,        \* group -> the sessions registered in it
    OutgoingMessages,
    bIsWriting,
    worker,          \* worker -> where it is in an ExecuteBehavior
    served,          \* request -> "none", "matched", "working", "finished"
    NextBehaviorId,
    behaviorId,      \* request -> id given to its packet, 0 before
    raced,           \* history: two workers were incrementing NextBehaviorId at once
    server,          \* "running", "shutdown" (in the destructor), "stopped"
    stray            \* history: calls whose session was written to after its deletion

sessionVars == <<session, home, Sessions, OutgoingMessages, bIsWriting, stray>>
idVars == <<NextBehaviorId, behaviorId, raced>>
unaryVars == <<worker, served, idVars>>
serviceVars == <<sessionVars, unaryVars, server>>

----------------------------------------------------------------------------
(* State. *)

\* at: "idle" (in Next), "number" (has read NextBehaviorId), "lookup", "send".
\* matched: the request gRPC has paired with the handler waiting on the queue.
WorkerState ==
    [at : {"idle", "number", "lookup", "send"}, req : Request \cup {NoRequest},
     matched : Request \cup {NoRequest}, id : Nat, TempSessions : SUBSET Call]

ServiceTypeOK ==
    /\ session \in [Call -> {"none", "matched", "live", "deleted"}]
    /\ home \in [Call -> SUBSET Worker]
    /\ Sessions \in [GroupId -> SUBSET Call]
    /\ OutgoingMessages \in [Call -> Seq(Request)]
    /\ bIsWriting \in [Call -> BOOLEAN]
    /\ worker \in [Worker -> WorkerState]
    /\ \A w \in Worker : worker[w].at = "idle" <=> worker[w].req = NoRequest
    /\ served \in [Request -> {"none", "matched", "working", "finished"}]
    /\ NextBehaviorId \in Nat
    /\ behaviorId \in [Request -> Nat]
    /\ raced \in BOOLEAN
    /\ server \in {"running", "shutdown", "stopped"}
    /\ stray \in SUBSET Call

IdleWorker ==
    [at |-> "idle", req |-> NoRequest, matched |-> NoRequest, id |-> 0,
     TempSessions |-> {}]

ServiceInit ==
    /\ session = [c \in Call |-> "none"]
    /\ home = [c \in Call |-> {}]
    /\ Sessions = [g \in GroupId |-> {}]
    /\ OutgoingMessages = [c \in Call |-> <<>>]
    /\ bIsWriting = [c \in Call |-> FALSE]
    /\ worker = [w \in Worker |-> IdleWorker]
    /\ served = [r \in Request |-> "none"]
    /\ NextBehaviorId = 0
    /\ behaviorId = [r \in Request |-> 0]
    /\ raced = FALSE
    /\ server = "running"
    /\ stray = {}

Idle(w) == worker[w].at = "idle" /\ server # "stopped"

\* Mutant of AtHome: one completion queue for all workers.
AtAnyWorker(c) == \E w \in Worker : Idle(w)

\* The worker of the session's queue takes its next completion.
AtHome(c) == \E w \in home[c] : Idle(w)

----------------------------------------------------------------------------
(* gRPC pairs incoming calls with waiting handlers: one of each kind waits   *)
(* on every queue, and a new one once the last has been processed.           *)

MatchCall(c, w) ==
    /\ server = "running"
    /\ link[c] # "none"
    /\ session[c] = "none"
    /\ \A d \in Call : session[d] = "matched" => w \notin home[d]
    /\ session' = [session EXCEPT ![c] = "matched"]
    /\ home' = [home EXCEPT ![c] = {w}]
    /\ UNCHANGED <<Sessions, OutgoingMessages, bIsWriting, stray, unaryVars, server, transportVars>>

\* Mutant of MatchRequest: no new handler once a request has been paired.
MatchFirstRequest(r, w) ==
    /\ server = "running"
    /\ asked[r] # "none"
    /\ \A s \in Request : served[s] = "none"
    /\ worker[w].matched = NoRequest
    /\ served' = [served EXCEPT ![r] = "matched"]
    /\ worker' = [worker EXCEPT ![w].matched = r]
    /\ UNCHANGED <<sessionVars, idVars, server, transportVars>>

MatchRequest(r, w) ==
    /\ server = "running"
    /\ asked[r] # "none"
    /\ served[r] = "none"
    /\ worker[w].matched = NoRequest
    /\ served' = [served EXCEPT ![r] = "matched"]
    /\ worker' = [worker EXCEPT ![w].matched = r]
    /\ UNCHANGED <<sessionVars, idVars, server, transportVars>>

----------------------------------------------------------------------------
(* Stream sessions. *)

\* FConnectOperation: a handler for the next client, then register the session.
ConnectOperation(c) ==
    /\ AtHome(c)
    /\ session[c] = "matched"
    /\ session' = [session EXCEPT ![c] = "live"]
    /\ Sessions' = [Sessions EXCEPT ![group[c]] = @ \cup {c}]
    /\ UNCHANGED <<home, OutgoingMessages, bIsWriting, stray, unaryVars, server, transportVars>>

\* Mutant of WriteOperation: the flag is cleared whatever the queue holds.
WriteOperationForgetsQueue(c) ==
    /\ AtHome(c)
    /\ op[c] = "sent"
    /\ OutgoingMessages' = [OutgoingMessages EXCEPT ![c] = Tail(@)]
    /\ op' = [op EXCEPT ![c] = "none"]
    /\ bIsWriting' = [bIsWriting EXCEPT ![c] = FALSE]
    /\ UNCHANGED <<session, home, Sessions, stray, unaryVars, server,
                   link, wire, asked, group>>

\* FWriteOperation: the next message, if there is one.
WriteOperation(c) ==
    LET more == Len(OutgoingMessages[c]) > 1
    IN  /\ AtHome(c)
        /\ op[c] = "sent"
        /\ OutgoingMessages' = [OutgoingMessages EXCEPT ![c] = Tail(@)]
        /\ op' = [op EXCEPT ![c] = IF more THEN "writing" ELSE "none"]
        /\ bIsWriting' = [bIsWriting EXCEPT ![c] = more]
        /\ UNCHANGED <<session, home, Sessions, stray, unaryVars, server,
                       link, wire, asked, group>>

\* Mutant of WriteFailed: the session is deleted and stays registered.
WriteFailedOnly(c) ==
    /\ AtHome(c)
    /\ op[c] = "failed"
    /\ session' = [session EXCEPT ![c] = "deleted"]
    /\ OutgoingMessages' = [OutgoingMessages EXCEPT ![c] = <<>>]
    /\ bIsWriting' = [bIsWriting EXCEPT ![c] = FALSE]
    /\ op' = [op EXCEPT ![c] = "none"]
    /\ UNCHANGED <<home, Sessions, stray, unaryVars, server, link, wire, asked, group>>

\* A Write that failed: the session leaves its group, unless that is NoGroup,
\* and is deleted.
WriteFailed(c) ==
    /\ AtHome(c)
    /\ op[c] = "failed"
    /\ session' = [session EXCEPT ![c] = "deleted"]
    /\ Sessions' = IF group[c] = NoGroup THEN Sessions
                   ELSE [Sessions EXCEPT ![group[c]] = @ \ {c}]
    /\ OutgoingMessages' = [OutgoingMessages EXCEPT ![c] = <<>>]
    /\ bIsWriting' = [bIsWriting EXCEPT ![c] = FALSE]
    /\ op' = [op EXCEPT ![c] = "none"]
    /\ UNCHANGED <<home, stray, unaryVars, server, link, wire, asked, group>>

\* Mutant of Write: every message is written at once.
WriteAtOnce(c, p) ==
    IF session[c] = "live"
    THEN /\ OutgoingMessages' = [OutgoingMessages EXCEPT ![c] = Append(@, p)]
         /\ bIsWriting' = [bIsWriting EXCEPT ![c] = TRUE]
         /\ op' = [op EXCEPT ![c] = "writing"]
         /\ UNCHANGED stray
    ELSE /\ stray' = stray \cup {c}
         /\ UNCHANGED <<OutgoingMessages, bIsWriting, op>>

\* Write. On a session that is gone it is undefined; here it leaves a mark.
Write(c, p) ==
    IF session[c] = "live"
    THEN /\ OutgoingMessages' = [OutgoingMessages EXCEPT ![c] = Append(@, p)]
         /\ bIsWriting' = [bIsWriting EXCEPT ![c] = TRUE]
         /\ op' = IF bIsWriting[c] THEN op ELSE [op EXCEPT ![c] = "writing"]
         /\ UNCHANGED stray
    ELSE /\ stray' = stray \cup {c}
         /\ UNCHANGED <<OutgoingMessages, bIsWriting, op>>

----------------------------------------------------------------------------
(* FUnaryCallHandler: ExecuteBehavior. *)

\* PROCESS: a handler for the next request, and the read of ++NextBehaviorId.
BeginRequest(w) ==
    /\ Idle(w)
    /\ worker[w].matched # NoRequest
    /\ worker' = [worker EXCEPT ![w].at = "number", ![w].req = worker[w].matched,
                                ![w].matched = NoRequest, ![w].id = NextBehaviorId + 1]
    /\ served' = [served EXCEPT ![worker[w].matched] = "working"]
    /\ raced' = (raced \/ \E v \in Worker : worker[v].at = "number")
    /\ UNCHANGED <<sessionVars, NextBehaviorId, behaviorId, server, transportVars>>

\* Mutant of NumberRequest: the request is answered before the broadcast.
NumberAndFinish(w) ==
    /\ worker[w].at = "number"
    /\ NextBehaviorId' = worker[w].id
    /\ behaviorId' = [behaviorId EXCEPT ![worker[w].req] = worker[w].id]
    /\ worker' = [worker EXCEPT ![w].at = "lookup", ![w].id = 0]
    /\ served' = [served EXCEPT ![worker[w].req] = "finished"]
    /\ UNCHANGED <<sessionVars, raced, server, transportVars>>

\* Mutant of NumberRequest: the new number is not written back.
NumberUnsaved(w) ==
    /\ worker[w].at = "number"
    /\ behaviorId' = [behaviorId EXCEPT ![worker[w].req] = worker[w].id]
    /\ worker' = [worker EXCEPT ![w].at = "lookup", ![w].id = 0]
    /\ UNCHANGED <<sessionVars, served, NextBehaviorId, raced, server, transportVars>>

\* The write of ++NextBehaviorId, and set_behavior_id.
NumberRequest(w) ==
    /\ worker[w].at = "number"
    /\ NextBehaviorId' = worker[w].id
    /\ behaviorId' = [behaviorId EXCEPT ![worker[w].req] = worker[w].id]
    /\ worker' = [worker EXCEPT ![w].at = "lookup", ![w].id = 0]
    /\ UNCHANGED <<sessionVars, served, raced, server, transportVars>>

\* BroadcastToGroup and the first half of Broadcast: find the group and copy its
\* sessions. Groups are never removed, so the two locks make one step.
CopySessions(w) ==
    /\ worker[w].at = "lookup"
    /\ worker' = [worker EXCEPT ![w].at = "send",
                                ![w].TempSessions = Sessions[group[worker[w].req]]]
    /\ UNCHANGED <<sessionVars, served, idVars, server, transportVars>>

\* The second half of Broadcast, one session after another, in the order of a
\* hash map.
WriteToSession(w, c) ==
    /\ worker[w].at = "send"
    /\ c \in worker[w].TempSessions
    /\ worker' = [worker EXCEPT ![w].TempSessions = @ \ {c}]
    /\ Write(c, worker[w].req)
    /\ UNCHANGED <<session, home, Sessions, served, idVars, server, link, wire, asked, group>>

\* Mutant of FinishRequest: the broadcast ends at the first session.
FinishRequestEarly(w) ==
    /\ worker[w].at = "send"
    /\ served' = [served EXCEPT ![worker[w].req] = "finished"]
    /\ worker' = [worker EXCEPT ![w].at = "idle", ![w].req = NoRequest,
                                ![w].TempSessions = {}]
    /\ UNCHANGED <<sessionVars, idVars, server, transportVars>>

\* Mutant of FinishRequest: the worker keeps its request.
FinishRequestKeeps(w) ==
    /\ worker[w].at = "send"
    /\ worker[w].TempSessions = {}
    /\ served' = [served EXCEPT ![worker[w].req] = "finished"]
    /\ worker' = [worker EXCEPT ![w].at = "idle"]
    /\ UNCHANGED <<sessionVars, idVars, server, transportVars>>

\* Finish, after the broadcast. The handler is deleted when the worker takes the
\* completion of Finish, whether or not the answer went out.
FinishRequest(w) ==
    /\ worker[w].at = "send"
    /\ worker[w].TempSessions = {}
    /\ served' = [served EXCEPT ![worker[w].req] = "finished"]
    /\ worker' = [worker EXCEPT ![w].at = "idle", ![w].req = NoRequest]
    /\ UNCHANGED <<sessionVars, idVars, server, transportVars>>

----------------------------------------------------------------------------
(* ~FHktRpcService. *)

\* Server->Shutdown: no call is paired any more.
BeginShutdown ==
    /\ server = "running"
    /\ server' = "shutdown"
    /\ UNCHANGED <<sessionVars, unaryVars, transportVars>>

\* It returns once every call is over, since it is given no deadline; then the
\* queues are shut down and the workers joined.
CallsOver ==
    /\ \A c \in Call : /\ session[c] # "matched"
                       /\ session[c] = "live" => link[c] = "broken" /\ op[c] = "none"
    /\ \A r \in Request : served[r] \in {"none", "finished"}
    /\ \A w \in Worker : worker[w].at = "idle"

EndShutdown ==
    /\ server = "shutdown"
    /\ CallsOver
    /\ server' = "stopped"
    /\ UNCHANGED <<sessionVars, unaryVars, transportVars>>
=============================================================================
