-------------------------------- MODULE Rpc --------------------------------
(***************************************************************************)
(* HktGrpc as a whole: one FHktRpcService, the FHktRpcProxy of every       *)
(* client, and gRPC between them.                                          *)
(***************************************************************************)
EXTENDS RpcService, RpcProxy, Functions

CONSTANTS
    MayBreak,   \* the calls whose connection may break
    Leaving,    \* the proxies a game destroys
    ServerEnds  \* whether the service is destroyed

ASSUME EndingsAssumption ==
    MayBreak \subseteq Call \cup Request /\ Leaving \subseteq Client /\ ServerEnds \in BOOLEAN

VARIABLES
    before   \* history: what had happened when each ExecuteBehavior was called

vars == <<transportVars, serviceVars, proxyVars, before>>

Before == [live : SUBSET Call, answered : SUBSET Request]

Init ==
    /\ TransportInit /\ ServiceInit /\ ProxyInit
    /\ before = [r \in Request |-> [live |-> {}, answered |-> {}]]

----------------------------------------------------------------------------
(* Steps. *)

ClientCalls ==
    /\ \/ \E c \in Call, g \in GroupId : SyncGroup(c, g) /\ UNCHANGED before
       \/ \E r \in Request, g \in GroupId :
             /\ ExecuteBehavior(r, g)
             /\ before' = [before EXCEPT ![r] =
                              [live |-> {c \in Call : session[c] = "live"},
                               answered |-> {s \in Request : asked[s] = "answered"}]]
       \/ \E p \in Leaving : BeginDestroy(p) /\ UNCHANGED before
    /\ UNCHANGED serviceVars

\* The proxy's worker thread.
ClientThread(p) ==
    /\ \/ \E c \in Call : /\ Owner[c] = p
                          /\ \/ ProceedReading(c) \/ ProceedEnded(c) \/ ProceedFinished(c)
       \/ EndDestroy(p)
    /\ UNCHANGED <<serviceVars, before>>

\* The answer to an ExecuteBehavior arrives.
Answer(r) ==
    /\ asked[r] = "waiting"
    /\ served[r] = "finished"
    /\ asked' = [asked EXCEPT ![r] = "answered"]
    /\ UNCHANGED <<link, wire, op, group, serviceVars, proxyVars, before>>

\* A server that shuts down turns away what it has not paired with a handler.
TurnedAway(x) ==
    /\ server # "running"
    /\ IF x \in Call THEN session[x] = "none" ELSE served[x] = "none"

\* The connections of a program that aborts are closed.
MustBreak(x) == TurnedAway(x) \/ proxy[Owner[x]] = "aborted"

Breaks(x) ==
    /\ x \in MayBreak \/ MustBreak(x)
    /\ IF x \in Call THEN Break(x) ELSE BreakRequest(x)
    /\ UNCHANGED <<serviceVars, proxyVars, before>>

Transports(c) ==
    /\ Transmit(c, Head(OutgoingMessages[c])) \/ Refuse(c)
    /\ UNCHANGED <<serviceVars, proxyVars, before>>

Pairs ==
    /\ \E w \in Worker : \/ \E c \in Call : MatchCall(c, w)
                         \/ \E r \in Request : MatchRequest(r, w)
    /\ UNCHANGED <<proxyVars, before>>

SessionSteps(c) ==
    /\ ConnectOperation(c) \/ WriteOperation(c) \/ WriteFailed(c)
    /\ UNCHANGED <<proxyVars, before>>

RequestSteps(w) ==
    /\ \/ BeginRequest(w) \/ NumberRequest(w) \/ CopySessions(w)
       \/ \E c \in Call : WriteToSession(w, c)
       \/ FinishRequest(w)
    /\ UNCHANGED <<proxyVars, before>>

ServerDestructor ==
    /\ ServerEnds /\ (BeginShutdown \/ EndShutdown)
    /\ UNCHANGED <<proxyVars, before>>

Next ==
    \/ ClientCalls
    \/ \E p \in Client : ClientThread(p)
    \/ \E r \in Request : Answer(r)
    \/ \E x \in Call \cup Request : Breaks(x)
    \/ \E c \in Call : Transports(c) \/ SessionSteps(c)
    \/ Pairs
    \/ \E w \in Worker : RequestSteps(w)
    \/ ServerDestructor

Spec == Init /\ [][Next]_vars

----------------------------------------------------------------------------
(* Safety. *)

\* Every variable has its type, and a worker holds a request while it serves one.
RpcTypeOK ==
    /\ TransportTypeOK /\ ServiceTypeOK /\ ProxyTypeOK
    /\ before \in [Request -> Before]

\* bIsWriting, the queue and the Write outstanding on the stream agree, whichever
\* workers write to the session while its own takes completions: no message is
\* left in the queue of a session that does not write, and no Write is started
\* while one is outstanding, which gRPC forbids (Write, FWriteOperation).
WriterBusy ==
    \A c \in Call :
        /\ bIsWriting[c] <=> OutgoingMessages[c] # <<>>
        /\ bIsWriting[c] <=> op[c] # "none"

\* A group refers to live sessions of its own only, so that a broadcast copies no
\* pointer to a deleted session (RegisterSession, ~FStreamSessionHandler). Not so
\* for group -1: the destructor takes that number for "never registered".
RegisteredAreLive ==
    \A g \in GroupId \ {NoGroup} : \A c \in Sessions[g] :
        session[c] = "live" /\ group[c] = g

\* The sessions a broadcast has still to write to may have been deleted since it
\* copied them, but only by another worker: what confines the race is that a
\* session is deleted by the thread of its own queue, and with one queue there
\* would be none (TGroup::Broadcast, FAsyncOperation::Proceed).
DanglingElsewhere ==
    \A w \in Worker : \A c \in worker[w].TempSessions :
        session[c] = "deleted" => group[c] = NoGroup \/ w \notin home[c]

\* The packets on their way to a subscriber.
Underway(c) ==
    IF link[c] = "open"
    THEN wire[c] \o (IF op[c] = "sent" THEN Tail(OutgoingMessages[c])
                     ELSE OutgoingMessages[c])
    ELSE wire[c]

\* The packets its game was given, without the empty callback when the call
\* starts and the repetition of the last one when it ends.
Given(c) ==
    CASE delivered[c] = <<>> -> <<>>
      [] stream[c].State = "deleted" -> SubSeq(delivered[c], 2, Len(delivered[c]) - 1)
      [] OTHER -> Tail(delivered[c])

Through(c) == Given(c) \o Underway(c)

Subscription == INSTANCE Feed WITH
    Subscriber <- Call, Message <- Request, Nothing <- Empty,
    phase <- [c \in Call |-> CASE link[c] = "none" -> "closed"
                               [] link[c] = "open" -> "open"
                               [] link[c] = "broken" /\ stream[c].State = "deleted" -> "over"
                               [] OTHER -> "ended"],
    queue <- [c \in Call |-> Underway(c)],
    seen <- delivered

\* Queue, Write, stream and FStreamCall together implement Feed, callback by
\* callback: one with an empty packet when the stream is ready, then what is
\* broadcast to the subscriber, each packet once and in order, then, when the
\* connection has broken and cost a last part of it, the last one again.
IsFeed == Subscription!FeedSpec

\* An answer to ExecuteBehavior means that the packet is on its way to everyone
\* who was subscribed to the group when it was called, however many workers
\* broadcast, connect and disconnect meanwhile.
AnsweredArePosted ==
    \A r \in Request : \A c \in before[r].live :
        asked[r] = "answered" /\ group[c] = group[r] /\ link[c] = "open"
            => r \in Range(Through(c))

\* A behavior executed after the answer to another reaches no subscriber before
\* that one, although different workers may broadcast them. (Two that overlap
\* may reach different subscribers in different orders.)
CausalOrder ==
    \A r \in Request : \A s \in before[r].answered : \A c \in Call :
        \A i, j \in DOMAIN Through(c) :
            Through(c)[i] = r /\ Through(c)[j] = s => j < i

\* Two behaviors are given one id only if two workers have incremented
\* NextBehaviorId, which nothing protects, at the same time; after that any two
\* may be, those of requests that do not overlap too.
IdsRepeatOnlyByRace ==
    ~raced => \A r, s \in Request :
                  r # s /\ behaviorId[r] # 0 => behaviorId[r] # behaviorId[s]

----------------------------------------------------------------------------
(* Liveness. *)

\* What the threads and gRPC do by themselves.
SystemStep ==
    \/ \E p \in Client : ClientThread(p)
    \/ \E r \in Request : Answer(r)
    \/ \E x \in Call \cup Request : MustBreak(x) /\ Breaks(x)
    \/ \E c \in Call : Transports(c) \/ SessionSteps(c)
    \/ Pairs
    \/ \E w \in Worker : RequestSteps(w)
    \/ server = "shutdown" /\ ServerDestructor

\* Worker threads loop over Next and block nowhere else, and gRPC completes every
\* operation. No step repeats itself, so it is enough that the system as a whole
\* does not stop while one of its threads has something to do.
FairSpec == Spec /\ WF_vars(SystemStep)

\* A packet written to a session arrives, unless the connection breaks.
PostedArrive ==
    \A c \in Call, r \in Request :
        r \in Range(Underway(c)) ~> r \in Range(Given(c)) \/ link[c] = "broken"

\* Every ExecuteBehavior is answered or fails, also while the service shuts down:
\* there always is, or will be, a handler to pair it with.
RequestsAnswered == \A r \in Request : asked[r] = "waiting" ~> asked[r] # "waiting"

\* The destructors wait for open subscriptions and for nothing else: once none is
\* open the service stops, and the proxy is gone, or has aborted because a
\* call started an operation after the queue was shut down. (Neither side ever
\* ends a stream, so a proxy and a service that are destroyed while one is open
\* wait for ever; this does not say that they end.)
HeldOnlyByStreams ==
    /\ \A p \in Client :
          proxy[p] = "closing" ~> \/ proxy[p] \in {"gone", "aborted"}
                                  \/ \E c \in Call : Owner[c] = p /\ link[c] = "open"
    /\ server = "shutdown" ~> server = "stopped" \/ \E c \in Call : link[c] = "open"

----------------------------------------------------------------------------
(* What comments of the repository say, and the code does not do.           *)

\* HktRpcProxy.h:124: the callback is called because a message has been read.
\* Violated: a call begins in READING, so the completion of StartCall, which
\* reads nothing, calls it with the empty Response (line 125).
CallbackOnRead == \A c \in Call : Empty \notin Range(delivered[c])
=============================================================================
