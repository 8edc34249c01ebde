------------------------------ MODULE RpcProofs ------------------------------
(***************************************************************************)
(* Proofs about Rpc, for any number of calls, requests, workers and groups.*)
(***************************************************************************)
EXTENDS Rpc, SequenceTheorems, TLAPS

----------------------------------------------------------------------------
(* The inductive invariant.                                                *)

\* Nothing is served before it was called, and a call knows its group.
CallsKnown ==
    /\ \A c \in Call : stream[c].State = "none" <=> link[c] = "none"
    /\ \A c \in Call : session[c] # "none" => link[c] # "none"
    /\ \A c \in Call : link[c] # "none" => group[c] \in GroupId

RequestsKnown ==
    /\ \A r \in Request : asked[r] # "none" => group[r] \in GroupId
    /\ \A r \in Request : served[r] # "none" => asked[r] # "none"
    /\ \A w \in Worker : worker[w].matched # NoRequest => served[worker[w].matched] # "none"
    /\ \A w \in Worker : worker[w].req # NoRequest => served[worker[w].req] # "none"

\* A session is registered in its own group only, after it was paired; deleted
\* ones are in group NoGroup.
Registered ==
    \A g \in GroupId : \A c \in Sessions[g] :
        /\ group[c] = g
        /\ \/ session[c] = "live"
           \/ g = NoGroup /\ session[c] = "deleted"

\* A session is on one queue.
OneHome == \A c \in Call : \A v, w \in home[c] : v = w

\* Only a worker inside a broadcast holds copies of session pointers, and those
\* are of sessions that were once registered.
CopiesInBroadcast ==
    \A w \in Worker :
        /\ worker[w].at # "send" => worker[w].TempSessions = {}
        /\ \A c \in worker[w].TempSessions : session[c] \in {"live", "deleted"}

\* Only a live session has a Write outstanding.
WritersLive == \A c \in Call : op[c] # "none" => session[c] = "live"

\* Until two workers are numbering at once, the one that is has the next number,
\* and every number given is below it.
IdsInOrder ==
    ~raced =>
        /\ \A v, w \in Worker :
              worker[v].at = "number" /\ worker[w].at = "number" => v = w
        /\ \A w \in Worker : worker[w].at = "number" => worker[w].id = NextBehaviorId + 1
        /\ \A r \in Request : behaviorId[r] <= NextBehaviorId

KnownInv == CallsKnown /\ RequestsKnown
WriterInv == WriterBusy /\ WritersLive
SessionInv == Registered /\ OneHome /\ CopiesInBroadcast /\ DanglingElsewhere
IdInv == IdsInOrder /\ IdsRepeatOnlyByRace

IInv == RpcTypeOK /\ KnownInv /\ WriterInv /\ SessionInv /\ IdInv

----------------------------------------------------------------------------
(* What each part depends on.                                              *)

LEMMA KnownFrame ==
  ASSUME KnownInv, UNCHANGED <<stream, session, link, group, asked, served, worker>>
  PROVE  KnownInv'
  BY DEF KnownInv, CallsKnown, RequestsKnown

LEMMA WriterFrame ==
  ASSUME WriterInv, UNCHANGED <<bIsWriting, OutgoingMessages, op, session>>
  PROVE  WriterInv'
  BY DEF WriterInv, WriterBusy, WritersLive

LEMMA SessionFrame ==
  ASSUME SessionInv, UNCHANGED <<Sessions, session, group, home, worker>>
  PROVE  SessionInv'
  BY DEF SessionInv, Registered, OneHome, CopiesInBroadcast, DanglingElsewhere

LEMMA IdFrame ==
  ASSUME IdInv, UNCHANGED <<idVars, worker>>
  PROVE  IdInv'
  BY DEF IdInv, IdsInOrder, IdsRepeatOnlyByRace, idVars

LEMMA ServiceFrame ==
  ASSUME ServiceTypeOK, UNCHANGED serviceVars
  PROVE  ServiceTypeOK'
  BY DEF ServiceTypeOK, serviceVars, sessionVars, unaryVars, idVars

LEMMA ProxyFrame ==
  ASSUME ProxyTypeOK, UNCHANGED proxyVars
  PROVE  ProxyTypeOK'
  BY DEF ProxyTypeOK, proxyVars

LEMMA TransportFrame ==
  ASSUME TransportTypeOK, UNCHANGED transportVars
  PROVE  TransportTypeOK'
  BY DEF TransportTypeOK, transportVars

LEMMA BeforeFrame ==
  ASSUME before \in [Request -> Before], UNCHANGED before
  PROVE  before' \in [Request -> Before]
  OBVIOUS

----------------------------------------------------------------------------
LEMMA InitInv == Init => IInv
  <1> SUFFICES ASSUME Init PROVE IInv
    OBVIOUS
  <1> USE DEF Init, TransportInit, ServiceInit, ProxyInit, IdleWorker
  <1>1. TransportTypeOK BY DEF TransportTypeOK
  <1>2. ServiceTypeOK
    <2>1. IdleWorker \in WorkerState BY DEF WorkerState
    <2>2. worker \in [Worker -> WorkerState] BY <2>1
    <2>3. \A w \in Worker : worker[w].at = "idle" /\ worker[w].req = NoRequest OBVIOUS
    <2>4. \A w \in Worker : worker[w].at = "idle" <=> worker[w].req = NoRequest BY <2>3
    <2>5. /\ session \in [Call -> {"none", "matched", "live", "deleted"}]
          /\ home \in [Call -> SUBSET Worker]
          /\ Sessions \in [GroupId -> SUBSET Call]
          /\ OutgoingMessages \in [Call -> Seq(Request)]
          /\ bIsWriting \in [Call -> BOOLEAN]
      OBVIOUS
    <2>6. /\ served \in [Request -> {"none", "matched", "working", "finished"}]
          /\ NextBehaviorId \in Nat
          /\ behaviorId \in [Request -> Nat]
          /\ raced \in BOOLEAN
          /\ server \in {"running", "shutdown", "stopped"}
          /\ stray \in SUBSET Call
      OBVIOUS
    <2> QED BY ONLY <2>2, <2>4, <2>5, <2>6 DEF ServiceTypeOK
  <1>3. ProxyTypeOK BY DEF ProxyTypeOK, StreamCall
  <1>4. before \in [Request -> Before] BY DEF Before
  <1>5. KnownInv BY DEF KnownInv, CallsKnown, RequestsKnown
  <1>6. WriterInv BY DEF WriterInv, WriterBusy, WritersLive
  <1>7. SessionInv
    BY DEF SessionInv, Registered, OneHome, CopiesInBroadcast, DanglingElsewhere
  <1>8. IdInv BY DEF IdInv, IdsInOrder, IdsRepeatOnlyByRace
  <1> QED BY <1>1, <1>2, <1>3, <1>4, <1>5, <1>6, <1>7, <1>8 DEF IInv, RpcTypeOK

----------------------------------------------------------------------------
(* The clients.                                                            *)

LEMMA SyncGroupInv ==
  ASSUME IInv, NEW c \in Call, NEW g \in GroupId, SyncGroup(c, g),
         UNCHANGED <<before, serviceVars>>
  PROVE  IInv'
  <1> USE DEF IInv, RpcTypeOK, SyncGroup
  <1>1. UNCHANGED <<sessionVars, unaryVars, delivered, proxy, wire, op, asked, before>>
    BY DEF serviceVars
  <1>2. stream[c].State = "none" /\ link[c] = "none" /\ session[c] = "none"
    BY DEF KnownInv, CallsKnown
  <1>3. TransportTypeOK' BY <1>1 DEF TransportTypeOK
  <1>4. ProxyTypeOK'
    <2>1. stream[c] \in StreamCall BY DEF ProxyTypeOK
    <2>2. [stream[c] EXCEPT !.State = "READING", !.waiting = "StartCall"] \in StreamCall
      BY <2>1 DEF StreamCall
    <2>3. stream' \in [Call -> StreamCall] BY <2>1, <2>2 DEF ProxyTypeOK
    <2> QED BY <1>1, <2>3 DEF ProxyTypeOK
  <1>5. ServiceTypeOK' BY ServiceFrame
  <1>6. \A x \in Call \cup Request : x # c => group'[x] = group[x]
    BY DEF TransportTypeOK
  <1>7. KnownInv'
    <2>1. CallsKnown'
      BY <1>1, <1>2, <1>6 DEF KnownInv, CallsKnown, TransportTypeOK, ProxyTypeOK, StreamCall,
           sessionVars
    <2>2. RequestsKnown'
      BY <1>1, <1>6, DistinctAssumption DEF KnownInv, RequestsKnown, unaryVars
    <2> QED BY <2>1, <2>2 DEF KnownInv
  <1>8. WriterInv' BY <1>1, WriterFrame DEF sessionVars
  <1>9. SessionInv'
    <2> USE <1>1 DEF SessionInv, sessionVars, unaryVars
    <2>1. Registered' BY <1>2, <1>6 DEF Registered, ServiceTypeOK
    <2>2. OneHome' BY DEF OneHome
    <2>3. CopiesInBroadcast' BY DEF CopiesInBroadcast
    <2>4. DanglingElsewhere'
      BY <1>2, <1>6 DEF DanglingElsewhere, ServiceTypeOK, WorkerState
    <2> QED BY <2>1, <2>2, <2>3, <2>4
  <1>10. IdInv' BY <1>1, IdFrame DEF unaryVars
  <1> QED BY <1>1, <1>3, <1>4, <1>5, <1>7, <1>8, <1>9, <1>10, BeforeFrame

LEMMA ExecuteBehaviorInv ==
  ASSUME IInv, NEW r \in Request, NEW g \in GroupId, ExecuteBehavior(r, g),
         UNCHANGED serviceVars,
         before' = [before EXCEPT ![r] =
                       [live |-> {c \in Call : session[c] = "live"},
                        answered |-> {s \in Request : asked[s] = "answered"}]]
  PROVE  IInv'
  <1> USE DEF IInv, RpcTypeOK, ExecuteBehavior
  <1>1. UNCHANGED <<sessionVars, unaryVars, proxyVars, link, wire, op>>
    BY DEF serviceVars
  <1>2. asked[r] = "none" OBVIOUS
  <1>3. TransportTypeOK' BY <1>1 DEF TransportTypeOK
  <1>4. ServiceTypeOK' /\ ProxyTypeOK' BY <1>1, ServiceFrame, ProxyFrame
  <1>5. before' \in [Request -> Before] BY DEF Before
  <1>6. \A x \in Call \cup Request : x # r => group'[x] = group[x]
    BY DEF TransportTypeOK
  <1>7. \A c \in Call : group'[c] = group[c] BY <1>6, DistinctAssumption
  <1>8. KnownInv'
    <2>1. CallsKnown'
      BY <1>1, <1>7 DEF KnownInv, CallsKnown, sessionVars, proxyVars
    <2>2. RequestsKnown'
      BY <1>1, <1>6 DEF KnownInv, RequestsKnown, unaryVars, TransportTypeOK
    <2> QED BY <2>1, <2>2 DEF KnownInv
  <1>9. WriterInv' BY <1>1, WriterFrame DEF sessionVars
  <1>10. SessionInv'
    <2> USE <1>1 DEF SessionInv, sessionVars, unaryVars
    <2>1. Registered' BY <1>7 DEF Registered, ServiceTypeOK
    <2>2. OneHome' BY DEF OneHome
    <2>3. CopiesInBroadcast' BY DEF CopiesInBroadcast
    <2>4. DanglingElsewhere'
      BY <1>7 DEF DanglingElsewhere, ServiceTypeOK, WorkerState
    <2> QED BY <2>1, <2>2, <2>3, <2>4
  <1>11. IdInv' BY <1>1, IdFrame DEF unaryVars
  <1> QED BY <1>3, <1>4, <1>5, <1>8, <1>9, <1>10, <1>11

\* Starting an operation leaves the proxy in a state of its type.
LEMMA StartType ==
  ASSUME ProxyTypeOK, NEW p \in Client, Start(p)
  PROVE  proxy' \in [Client -> {"open", "closing", "gone", "aborted"}]
  BY DEF Start, ProxyTypeOK

\* The worker thread of a proxy takes packets off the wire.
LEMMA ClientThreadInv ==
  ASSUME IInv, NEW p \in Client, ClientThread(p)
  PROVE  IInv'
  <1> USE DEF IInv, RpcTypeOK, ClientThread
  <1>1. UNCHANGED <<serviceVars, before>> OBVIOUS
  <1>2. UNCHANGED <<link, op, asked, group>>
    BY DEF ProceedReading, ProceedEnded, ProceedFinished, EndDestroy, transportVars
  <1>3. ServiceTypeOK' BY <1>1, ServiceFrame
  <1>4. /\ TransportTypeOK' /\ ProxyTypeOK'
        /\ \A c \in Call : stream'[c].State = "none" <=> stream[c].State = "none"
    <2>1. ASSUME NEW c \in Call, ProceedReading(c) PROVE <1>4
      <3> USE <2>1 DEF ProceedReading, Received
      <3>1. wire[c] \in Seq(Request) BY DEF TransportTypeOK
      <3>2. wire' \in [Call -> Seq(Request)]
        <4>1. wire[c] # <<>> => Tail(wire[c]) \in Seq(Request) BY <3>1
        <4> QED BY <4>1 DEF TransportTypeOK
      <3>3. stream' \in [Call -> StreamCall]
        <4>1. wire[c] # <<>> => Head(wire[c]) \in Request BY <3>1
        <4>2. stream[c] \in StreamCall BY DEF ProxyTypeOK
        <4>3. CASE stream' = [stream EXCEPT ![c].waiting = "Read"]
          <5>1. [stream[c] EXCEPT !.waiting = "Read"] \in StreamCall
            BY <4>2 DEF StreamCall
          <5> QED BY <4>3, <5>1 DEF ProxyTypeOK
        <4>4. CASE wire[c] # <<>> /\ stream' = [stream EXCEPT ![c].Response = Head(wire[c])]
          <5>1. [stream[c] EXCEPT !.Response = Head(wire[c])] \in StreamCall
            BY <4>1, <4>2, <4>4 DEF StreamCall
          <5> QED BY <4>4, <5>1 DEF ProxyTypeOK
        <4> QED BY <4>3, <4>4
      <3>4. delivered' \in [Call -> Seq(Request \cup {Empty})]
        <4>1. stream'[c].Response \in Request \cup {Empty} BY <3>3 DEF StreamCall
        <4> QED BY <4>1 DEF ProxyTypeOK
      <3>5. \A d \in Call : stream'[d].State = stream[d].State
        BY DEF ProxyTypeOK, StreamCall
      <3>6. proxy' \in [Client -> {"open", "closing", "gone", "aborted"}]
        BY <2>1, StartType, OwnerAssumption
      <3> QED BY <1>2, <3>2, <3>3, <3>4, <3>5, <3>6 DEF TransportTypeOK, ProxyTypeOK
    <2>2. ASSUME NEW c \in Call, ProceedEnded(c) PROVE <1>4
      <3> USE <2>2 DEF ProceedEnded
      <3>1. TransportTypeOK' BY TransportFrame
      <3>2. stream' \in [Call -> StreamCall] BY DEF ProxyTypeOK, StreamCall
      <3>3. proxy' \in [Client -> {"open", "closing", "gone", "aborted"}]
        BY <2>2, StartType, OwnerAssumption
      <3> QED BY <3>1, <3>2, <3>3 DEF ProxyTypeOK, StreamCall
    <2>3. ASSUME NEW c \in Call, ProceedFinished(c) PROVE <1>4
      <3> USE <2>3 DEF ProceedFinished
      <3>1. TransportTypeOK' BY TransportFrame
      <3>2. stream' \in [Call -> StreamCall] BY DEF ProxyTypeOK, StreamCall
      <3>3. stream[c].Response \in Request \cup {Empty} BY DEF ProxyTypeOK, StreamCall
      <3>4. delivered' \in [Call -> Seq(Request \cup {Empty})]
        BY <3>3 DEF ProxyTypeOK
      <3> QED BY <3>1, <3>2, <3>4 DEF ProxyTypeOK, StreamCall
    <2>4. CASE EndDestroy(p)
      BY <2>4, TransportFrame DEF EndDestroy, ProxyTypeOK
    <2> QED BY <2>1, <2>2, <2>3, <2>4
  <1>5. KnownInv'
    BY <1>1, <1>2, <1>4 DEF KnownInv, CallsKnown, RequestsKnown, serviceVars, sessionVars,
         unaryVars
  <1>6. WriterInv' BY <1>1, <1>2, WriterFrame DEF serviceVars, sessionVars
  <1>7. SessionInv' BY <1>1, <1>2, SessionFrame DEF serviceVars, sessionVars, unaryVars
  <1>8. IdInv' BY <1>1, IdFrame DEF serviceVars, unaryVars
  <1> QED BY <1>1, <1>3, <1>4, <1>5, <1>6, <1>7, <1>8, BeforeFrame

LEMMA BeginDestroyInv ==
  ASSUME IInv, NEW p \in Client, BeginDestroy(p), UNCHANGED <<before, serviceVars>>
  PROVE  IInv'
  <1> USE DEF IInv, RpcTypeOK, BeginDestroy
  <1>1. UNCHANGED <<sessionVars, unaryVars, link, op, asked, group>>
    BY DEF serviceVars, transportVars
  <1>2. TransportTypeOK' /\ ServiceTypeOK' BY TransportFrame, ServiceFrame
  <1>3. ProxyTypeOK' BY DEF ProxyTypeOK
  <1>4. KnownInv' BY <1>1, KnownFrame DEF sessionVars, unaryVars
  <1>5. WriterInv' BY <1>1, WriterFrame DEF sessionVars
  <1>6. SessionInv' BY <1>1, SessionFrame DEF sessionVars, unaryVars
  <1>7. IdInv' BY <1>1, IdFrame DEF unaryVars
  <1> QED BY <1>2, <1>3, <1>4, <1>5, <1>6, <1>7, BeforeFrame

LEMMA ClientCallsInv == ASSUME IInv, ClientCalls PROVE IInv'
  BY SyncGroupInv, ExecuteBehaviorInv, BeginDestroyInv, EndingsAssumption DEF ClientCalls

----------------------------------------------------------------------------
(* gRPC.                                                                   *)

LEMMA AnswerInv == ASSUME IInv, NEW r \in Request, Answer(r) PROVE IInv'
  <1> USE DEF IInv, RpcTypeOK, Answer
  <1>1. UNCHANGED <<sessionVars, unaryVars, stream, link, wire, op, group>>
    BY DEF serviceVars, proxyVars
  <1>2. TransportTypeOK' BY DEF TransportTypeOK
  <1>3. ServiceTypeOK' /\ ProxyTypeOK' BY ServiceFrame, ProxyFrame
  <1>4. KnownInv'
    <2>1. CallsKnown' BY <1>1 DEF KnownInv, CallsKnown, sessionVars
    <2>2. RequestsKnown'
      BY <1>1 DEF KnownInv, RequestsKnown, unaryVars, TransportTypeOK
    <2> QED BY <2>1, <2>2 DEF KnownInv
  <1>5. WriterInv' BY <1>1, WriterFrame DEF sessionVars
  <1>6. SessionInv' BY <1>1, SessionFrame DEF sessionVars, unaryVars
  <1>7. IdInv' BY <1>1, IdFrame DEF unaryVars
  <1> QED BY <1>2, <1>3, <1>4, <1>5, <1>6, <1>7, BeforeFrame

LEMMA BreaksInv == ASSUME IInv, NEW x \in Call \cup Request, Breaks(x) PROVE IInv'
  <1> USE DEF IInv, RpcTypeOK, Breaks
  <1>1. /\ UNCHANGED <<sessionVars, unaryVars, serviceVars, proxyVars, stream, op, group,
                       before>>
        /\ (Break(x) /\ x \in Call) \/ (BreakRequest(x) /\ x \in Request)
    BY DEF serviceVars, proxyVars, Break, BreakRequest
  <1>2. /\ TransportTypeOK'
        /\ \A c \in Call : link'[c] = "none" <=> link[c] = "none"
        /\ \A r \in Request : asked'[r] = "none" <=> asked[r] = "none"
    <2>1. CASE Break(x) /\ x \in Call
      <3>1. wire[x] \in Seq(Request) BY <2>1 DEF TransportTypeOK
      <3>2. \A n \in 0 .. Len(wire[x]) : SubSeq(wire[x], 1, n) \in Seq(Request)
        BY <3>1
      <3>3. wire' \in [Call -> Seq(Request)] BY <2>1, <3>2 DEF Break, TransportTypeOK
      <3> QED BY <2>1, <3>3 DEF Break, TransportTypeOK
    <2>2. CASE BreakRequest(x) /\ x \in Request
      BY <2>2 DEF BreakRequest, TransportTypeOK
    <2> QED BY <1>1, <2>1, <2>2
  <1>3. ServiceTypeOK' /\ ProxyTypeOK' BY <1>1, ServiceFrame, ProxyFrame
  <1>4. KnownInv'
    <2>1. CallsKnown' BY <1>1, <1>2 DEF KnownInv, CallsKnown, sessionVars
    <2>2. RequestsKnown' BY <1>1, <1>2 DEF KnownInv, RequestsKnown, unaryVars
    <2> QED BY <2>1, <2>2 DEF KnownInv
  <1>5. WriterInv' BY <1>1, WriterFrame DEF sessionVars
  <1>6. SessionInv' BY <1>1, SessionFrame DEF sessionVars, unaryVars
  <1>7. IdInv' BY <1>1, IdFrame DEF unaryVars
  <1> QED BY <1>1, <1>2, <1>3, <1>4, <1>5, <1>6, <1>7, BeforeFrame

\* While a Write is outstanding the queue of its session is not empty.
LEMMA TransportsInv == ASSUME IInv, NEW c \in Call, Transports(c) PROVE IInv'
  <1> USE DEF IInv, RpcTypeOK, Transports
  <1>1. UNCHANGED <<sessionVars, unaryVars, stream, link, asked, group>>
    BY DEF serviceVars, proxyVars, Transmit, Refuse
  <1>2. OutgoingMessages[c] \in Seq(Request) /\ wire[c] \in Seq(Request)
    BY DEF ServiceTypeOK, TransportTypeOK
  <1>3. op[c] = "writing" /\ OutgoingMessages[c] # <<>>
    BY DEF Transmit, Refuse, WriterInv, WriterBusy
  <1>4. Head(OutgoingMessages[c]) \in Request BY <1>2, <1>3
  <1>5. Append(wire[c], Head(OutgoingMessages[c])) \in Seq(Request) BY <1>2, <1>4
  <1>6. op' \in [Call -> {"none", "writing", "sent", "failed"}] /\ wire' \in [Call -> Seq(Request)]
    BY <1>5 DEF Transmit, Refuse, TransportTypeOK
  <1>7. TransportTypeOK' BY <1>1, <1>6 DEF TransportTypeOK
  <1>8. ServiceTypeOK' /\ ProxyTypeOK' BY ServiceFrame, ProxyFrame
  <1>9. KnownInv' BY <1>1, KnownFrame DEF sessionVars, unaryVars
  <1>10. WriterInv'
    <2>1. \A d \in Call : op'[d] = "none" <=> op[d] = "none"
      BY <1>3 DEF Transmit, Refuse, TransportTypeOK
    <2> QED BY <1>1, <2>1 DEF WriterInv, WriterBusy, WritersLive, sessionVars
  <1>11. SessionInv' BY <1>1, SessionFrame DEF sessionVars, unaryVars
  <1>12. IdInv' BY <1>1, IdFrame DEF unaryVars
  <1> QED BY <1>7, <1>8, <1>9, <1>10, <1>11, <1>12, BeforeFrame

----------------------------------------------------------------------------
(* The service.                                                            *)

SessionTypes ==
    /\ session \in [Call -> {"none", "matched", "live", "deleted"}]
    /\ home \in [Call -> SUBSET Worker]
    /\ Sessions \in [GroupId -> SUBSET Call]
    /\ OutgoingMessages \in [Call -> Seq(Request)]
    /\ bIsWriting \in [Call -> BOOLEAN]
    /\ stray \in SUBSET Call

WorkerTypes ==
    /\ worker \in [Worker -> WorkerState]
    /\ \A w \in Worker : worker[w].at = "idle" <=> worker[w].req = NoRequest

CounterTypes ==
    /\ served \in [Request -> {"none", "matched", "working", "finished"}]
    /\ NextBehaviorId \in Nat
    /\ behaviorId \in [Request -> Nat]
    /\ raced \in BOOLEAN
    /\ server \in {"running", "shutdown", "stopped"}

LEMMA ServiceTypes == ServiceTypeOK <=> SessionTypes /\ WorkerTypes /\ CounterTypes
  BY DEF ServiceTypeOK, SessionTypes, WorkerTypes, CounterTypes

LEMMA ServiceTypesNext ==
  ServiceTypeOK' <=> SessionTypes' /\ WorkerTypes' /\ CounterTypes'
  BY DEF ServiceTypeOK, SessionTypes, WorkerTypes, CounterTypes

LEMMA MatchCallInv ==
  ASSUME IInv, NEW c \in Call, NEW w \in Worker, MatchCall(c, w),
         UNCHANGED <<proxyVars, before>>
  PROVE  IInv'
  <1> USE DEF IInv, RpcTypeOK, MatchCall
  <1>1. UNCHANGED <<Sessions, OutgoingMessages, bIsWriting, stray, stream, link, op,
                    asked, group, worker, served, idVars>>
    BY DEF unaryVars, proxyVars, transportVars
  <1>2. SessionTypes /\ WorkerTypes /\ CounterTypes BY ServiceTypes
  <1>3. ServiceTypeOK'
    <2>1. SessionTypes' BY <1>1, <1>2 DEF SessionTypes
    <2>2. WorkerTypes' BY <1>1, <1>2 DEF WorkerTypes
    <2>3. CounterTypes' BY <1>1, <1>2 DEF CounterTypes, idVars
    <2> QED BY <2>1, <2>2, <2>3, ServiceTypesNext
  <1>4. TransportTypeOK' /\ ProxyTypeOK' BY TransportFrame, ProxyFrame
  <1>5. KnownInv'
    <2>1. CallsKnown' BY <1>1, <1>2 DEF KnownInv, CallsKnown, SessionTypes
    <2>2. RequestsKnown' BY <1>1 DEF KnownInv, RequestsKnown
    <2> QED BY <2>1, <2>2 DEF KnownInv
  <1>6. WriterInv' BY <1>1, <1>2 DEF WriterInv, WriterBusy, WritersLive, SessionTypes
  <1>7. SessionInv'
    <2> USE <1>1, <1>2 DEF SessionInv, SessionTypes
    <2>1. Registered' BY DEF Registered
    <2>2. OneHome' BY DEF OneHome
    <2>3. CopiesInBroadcast' BY DEF CopiesInBroadcast, WorkerTypes, WorkerState
    <2>4. \A v \in Worker : c \notin worker[v].TempSessions
      BY DEF CopiesInBroadcast
    <2>5. DanglingElsewhere'
      BY <2>4 DEF DanglingElsewhere, WorkerTypes, WorkerState
    <2> QED BY <2>1, <2>2, <2>3, <2>5
  <1>8. IdInv' BY <1>1, IdFrame
  <1> QED BY <1>3, <1>4, <1>5, <1>6, <1>7, <1>8, BeforeFrame

LEMMA MatchRequestInv ==
  ASSUME IInv, NEW r \in Request, NEW w \in Worker, MatchRequest(r, w),
         UNCHANGED <<proxyVars, before>>
  PROVE  IInv'
  <1> USE DEF IInv, RpcTypeOK, MatchRequest
  <1>1. UNCHANGED <<sessionVars, idVars, stream, link, op, asked, group>>
    BY DEF proxyVars, transportVars
  <1>2. SessionTypes /\ WorkerTypes /\ CounterTypes BY ServiceTypes
  <1>3. worker' = [worker EXCEPT ![w] = [worker[w] EXCEPT !.matched = r]]
    BY <1>2 DEF WorkerTypes, WorkerState
  <1>4. \A v \in Worker :
           /\ worker'[v].at = worker[v].at
           /\ worker'[v].req = worker[v].req
           /\ worker'[v].id = worker[v].id
           /\ worker'[v].TempSessions = worker[v].TempSessions
           /\ worker'[v].matched = IF v = w THEN r ELSE worker[v].matched
    BY <1>2, <1>3 DEF WorkerTypes, WorkerState
  <1>5. worker' \in [Worker -> WorkerState]
    <2>1. [worker[w] EXCEPT !.matched = r] \in WorkerState
      BY <1>2 DEF WorkerTypes, WorkerState
    <2> QED BY <1>2, <1>3, <2>1 DEF WorkerTypes
  <1>6. ServiceTypeOK'
    <2>1. SessionTypes' BY <1>1, <1>2 DEF SessionTypes, sessionVars
    <2>2. WorkerTypes' BY <1>2, <1>4, <1>5 DEF WorkerTypes
    <2>3. CounterTypes' BY <1>1, <1>2 DEF CounterTypes, idVars
    <2> QED BY <2>1, <2>2, <2>3, ServiceTypesNext
  <1>7. TransportTypeOK' /\ ProxyTypeOK' BY TransportFrame, ProxyFrame
  <1>8. KnownInv'
    <2>1. CallsKnown' BY <1>1 DEF KnownInv, CallsKnown, sessionVars
    <2>2. \A s \in Request : served'[s] # "none" <=> s = r \/ served[s] # "none"
      BY <1>2 DEF CounterTypes
    <2>3. \A v \in Worker : worker[v].req \in Request \cup {NoRequest}
                            /\ worker[v].matched \in Request \cup {NoRequest}
      BY <1>2 DEF WorkerTypes, WorkerState
    <2>4. RequestsKnown'
      BY <1>1, <1>4, <2>2, <2>3 DEF KnownInv, RequestsKnown
    <2> QED BY <2>1, <2>4 DEF KnownInv
  <1>9. WriterInv' BY <1>1, WriterFrame DEF sessionVars
  <1>10. SessionInv'
    <2> USE <1>1, <1>4 DEF SessionInv, sessionVars
    <2>1. Registered' /\ OneHome' BY DEF Registered, OneHome
    <2>2. CopiesInBroadcast' BY DEF CopiesInBroadcast
    <2>3. DanglingElsewhere' BY DEF DanglingElsewhere
    <2> QED BY <2>1, <2>2, <2>3
  <1>11. IdInv'
    BY <1>1, <1>4 DEF IdInv, IdsInOrder, IdsRepeatOnlyByRace, idVars
  <1> QED BY <1>6, <1>7, <1>8, <1>9, <1>10, <1>11, BeforeFrame

LEMMA PairsInv == ASSUME IInv, Pairs PROVE IInv'
  BY MatchCallInv, MatchRequestInv DEF Pairs

\* A session that is connected registers in the group its call names.
LEMMA ConnectOperationInv ==
  ASSUME IInv, NEW c \in Call, ConnectOperation(c), UNCHANGED <<proxyVars, before>>
  PROVE  IInv'
  <1> USE DEF IInv, RpcTypeOK, ConnectOperation
  <1>1. UNCHANGED <<home, OutgoingMessages, bIsWriting, stray, stream, link, op,
                    asked, group, worker, served, idVars>>
    BY DEF unaryVars, proxyVars, transportVars
  <1>2. SessionTypes /\ WorkerTypes /\ CounterTypes BY ServiceTypes
  <1>3. Sessions' \in [GroupId -> SUBSET Call] BY <1>2 DEF SessionTypes
  <1>4. ServiceTypeOK'
    <2>1. SessionTypes' BY <1>1, <1>2, <1>3 DEF SessionTypes
    <2>2. WorkerTypes' BY <1>1, <1>2 DEF WorkerTypes
    <2>3. CounterTypes' BY <1>1, <1>2 DEF CounterTypes, idVars
    <2> QED BY <2>1, <2>2, <2>3, ServiceTypesNext
  <1>5. TransportTypeOK' /\ ProxyTypeOK' BY TransportFrame, ProxyFrame
  <1>6. KnownInv'
    <2>1. CallsKnown' BY <1>1, <1>2 DEF KnownInv, CallsKnown, SessionTypes
    <2>2. RequestsKnown' BY <1>1 DEF KnownInv, RequestsKnown
    <2> QED BY <2>1, <2>2 DEF KnownInv
  <1>7. WriterInv' BY <1>1, <1>2 DEF WriterInv, WriterBusy, WritersLive, SessionTypes
  <1>8. SessionInv'
    <2> USE <1>1, <1>2 DEF SessionInv
    <2>1. \A g \in GroupId : \A d \in Sessions'[g] :
             (d \in Sessions[g]) \/ (d = c /\ group[c] = g)
      <3>1. \A g \in GroupId :
               Sessions'[g] = IF g = group[c] THEN Sessions[g] \cup {c} ELSE Sessions[g]
        BY DEF SessionTypes
      <3> QED BY <3>1
    <2>2. \A d \in Call : session'[d] = IF d = c THEN "live" ELSE session[d]
      BY DEF SessionTypes
    <2>3. Registered'
      <3> SUFFICES ASSUME NEW g \in GroupId, NEW d \in Sessions'[g]
                   PROVE  /\ group[d] = g
                          /\ \/ session'[d] = "live"
                             \/ g = NoGroup /\ session'[d] = "deleted"
        BY DEF Registered
      <3>1. d \in Call BY <1>3
      <3>2. CASE d = c BY <2>1, <2>2, <3>1, <3>2 DEF Registered
      <3>3. CASE d # c BY <2>1, <2>2, <3>1, <3>3 DEF Registered
      <3> QED BY <3>2, <3>3
    <2>4. OneHome' BY DEF OneHome
    <2>5. CopiesInBroadcast'
      BY <2>2 DEF CopiesInBroadcast, WorkerTypes, WorkerState
    <2>6. DanglingElsewhere'
      BY <2>2 DEF DanglingElsewhere, WorkerTypes, WorkerState
    <2> QED BY <2>3, <2>4, <2>5, <2>6
  <1>9. IdInv' BY <1>1, IdFrame
  <1> QED BY <1>4, <1>5, <1>6, <1>7, <1>8, <1>9, BeforeFrame

LEMMA WriteOperationInv ==
  ASSUME IInv, NEW c \in Call, WriteOperation(c), UNCHANGED <<proxyVars, before>>
  PROVE  IInv'
  <1> USE DEF IInv, RpcTypeOK, WriteOperation
  <1>1. UNCHANGED <<session, home, Sessions, stray, stream, link, wire, asked, group,
                    worker, served, idVars, server>>
    BY DEF unaryVars, proxyVars
  <1>2. SessionTypes /\ WorkerTypes /\ CounterTypes BY ServiceTypes
  <1>3. OutgoingMessages[c] \in Seq(Request) /\ OutgoingMessages[c] # <<>>
    BY <1>2 DEF SessionTypes, WriterInv, WriterBusy
  <1>4. /\ Tail(OutgoingMessages[c]) \in Seq(Request)
        /\ Tail(OutgoingMessages[c]) # <<>> <=> Len(OutgoingMessages[c]) > 1
    <2>1. /\ Tail(OutgoingMessages[c]) \in Seq(Request)
          /\ Len(Tail(OutgoingMessages[c])) = Len(OutgoingMessages[c]) - 1
      BY <1>3, HeadTailProperties
    <2>2. Tail(OutgoingMessages[c]) = <<>> <=> Len(Tail(OutgoingMessages[c])) = 0
      BY <2>1, EmptySeq
    <2>3. Len(OutgoingMessages[c]) \in Nat BY <1>3, LenProperties
    <2> QED BY <2>1, <2>2, <2>3
  <1>5. ServiceTypeOK'
    <2>1. OutgoingMessages' \in [Call -> Seq(Request)]
      BY <1>2, <1>4 DEF SessionTypes
    <2>2. bIsWriting' \in [Call -> BOOLEAN]
      <3>1. (Len(OutgoingMessages[c]) > 1) \in BOOLEAN OBVIOUS
      <3> QED BY <1>2, <3>1 DEF SessionTypes
    <2>3. SessionTypes' BY <1>1, <1>2, <2>1, <2>2 DEF SessionTypes
    <2>4. WorkerTypes' BY <1>1, <1>2 DEF WorkerTypes
    <2>5. CounterTypes' BY <1>1, <1>2 DEF CounterTypes, idVars
    <2> QED BY <2>3, <2>4, <2>5, ServiceTypesNext
  <1>6. op' \in [Call -> {"none", "writing", "sent", "failed"}]
    BY DEF TransportTypeOK
  <1>7. TransportTypeOK' /\ ProxyTypeOK' BY <1>1, <1>6, ProxyFrame DEF TransportTypeOK
  <1>8. KnownInv' BY <1>1, KnownFrame
  <1>9. WriterInv'
    <2>1. ASSUME NEW d \in Call, d # c
          PROVE  /\ OutgoingMessages'[d] = OutgoingMessages[d]
                 /\ bIsWriting'[d] = bIsWriting[d] /\ op'[d] = op[d]
      BY <1>2, <2>1 DEF SessionTypes, TransportTypeOK
    <2>2. /\ OutgoingMessages'[c] = Tail(OutgoingMessages[c])
          /\ bIsWriting'[c] = (Len(OutgoingMessages[c]) > 1)
          /\ op'[c] = IF Len(OutgoingMessages[c]) > 1 THEN "writing" ELSE "none"
      BY <1>2 DEF SessionTypes, TransportTypeOK
    <2>3. (bIsWriting'[c] <=> OutgoingMessages'[c] # <<>>) /\ (bIsWriting'[c] <=> op'[c] # "none")
      <3>1. CASE Len(OutgoingMessages[c]) > 1
        <4>1. bIsWriting'[c] BY ONLY <2>2, <3>1
        <4>2. OutgoingMessages'[c] # <<>> BY ONLY <1>4, <2>2, <3>1
        <4>3. op'[c] = "writing" BY ONLY <2>2, <3>1
        <4> QED BY <4>1, <4>2, <4>3
      <3>2. CASE ~(Len(OutgoingMessages[c]) > 1)
        <4>1. ~bIsWriting'[c] BY ONLY <2>2, <3>2
        <4>2. OutgoingMessages'[c] = <<>> BY ONLY <1>4, <2>2, <3>2
        <4>3. op'[c] = "none" BY ONLY <2>2, <3>2
        <4> QED BY <4>1, <4>2, <4>3
      <3> QED BY <3>1, <3>2
    <2>4. op[c] = "sent" OBVIOUS
    <2> QED BY <1>1, <2>1, <2>3, <2>4 DEF WriterInv, WriterBusy, WritersLive
  <1>10. SessionInv' BY <1>1, SessionFrame
  <1>11. IdInv' BY <1>1, IdFrame
  <1> QED BY <1>5, <1>7, <1>8, <1>9, <1>10, <1>11, BeforeFrame

\* The worker that deletes a session is the only one on its queue, and is not
\* inside a broadcast.
LEMMA WriteFailedInv ==
  ASSUME IInv, NEW c \in Call, WriteFailed(c), UNCHANGED <<proxyVars, before>>
  PROVE  IInv'
  <1> USE DEF IInv, RpcTypeOK, WriteFailed
  <1>1. UNCHANGED <<home, stray, stream, link, wire, asked, group,
                    worker, served, idVars, server>>
    BY DEF unaryVars, proxyVars
  <1>2. SessionTypes /\ WorkerTypes /\ CounterTypes BY ServiceTypes
  <1>3. Sessions' \in [GroupId -> SUBSET Call] BY <1>2 DEF SessionTypes
  <1>4. ServiceTypeOK'
    <2>1. OutgoingMessages' \in [Call -> Seq(Request)] BY <1>2 DEF SessionTypes
    <2>2. SessionTypes' BY <1>1, <1>2, <1>3, <2>1 DEF SessionTypes
    <2>3. WorkerTypes' BY <1>1, <1>2 DEF WorkerTypes
    <2>4. CounterTypes' BY <1>1, <1>2 DEF CounterTypes, idVars
    <2> QED BY <2>2, <2>3, <2>4, ServiceTypesNext
  <1>5. op' \in [Call -> {"none", "writing", "sent", "failed"}]
    BY DEF TransportTypeOK
  <1>6. TransportTypeOK' /\ ProxyTypeOK' BY <1>1, <1>5, ProxyFrame DEF TransportTypeOK
  <1>7. session[c] = "live" BY DEF WriterInv, WritersLive
  <1>8. \A d \in Call : session'[d] = IF d = c THEN "deleted" ELSE session[d]
    BY <1>2 DEF SessionTypes
  <1>9. KnownInv'
    <2>1. CallsKnown' BY <1>1, <1>7, <1>8 DEF KnownInv, CallsKnown
    <2>2. RequestsKnown' BY <1>1 DEF KnownInv, RequestsKnown
    <2> QED BY <2>1, <2>2 DEF KnownInv
  <1>10. WriterInv'
    <2>1. ASSUME NEW d \in Call, d # c
          PROVE  /\ OutgoingMessages'[d] = OutgoingMessages[d]
                 /\ bIsWriting'[d] = bIsWriting[d] /\ op'[d] = op[d]
      BY <1>2, <2>1 DEF SessionTypes, TransportTypeOK
    <2>2. OutgoingMessages'[c] = <<>> /\ ~bIsWriting'[c] /\ op'[c] = "none"
      BY <1>2 DEF SessionTypes, TransportTypeOK
    <2> QED BY <1>8, <2>1, <2>2 DEF WriterInv, WriterBusy, WritersLive
  <1>11. SessionInv'
    <2> USE <1>1, <1>2 DEF SessionInv
    <2>1. \A g \in GroupId : Sessions'[g] \subseteq Sessions[g]
      BY DEF SessionTypes
    <2>2. \A g \in GroupId : c \in Sessions'[g] => g = NoGroup
      <3>1. \A g \in GroupId : c \in Sessions[g] => group[c] = g BY DEF Registered
      <3>2. CASE group[c] = NoGroup BY <2>1, <3>1, <3>2
      <3>3. CASE group[c] # NoGroup
        BY <2>1, <3>1, <3>3 DEF SessionTypes
      <3> QED BY <3>2, <3>3
    <2>3. Registered'
      BY <1>3, <1>8, <2>1, <2>2 DEF Registered, SessionTypes
    <2>4. OneHome' BY DEF OneHome
    <2>5. CopiesInBroadcast'
      BY <1>8 DEF CopiesInBroadcast, WorkerTypes, WorkerState
    <2>6. \A w \in home[c] : w \in Worker => worker[w].TempSessions = {}
      BY DEF AtHome, Idle, OneHome, CopiesInBroadcast
    <2>7. DanglingElsewhere'
      BY <1>8, <2>6 DEF DanglingElsewhere, WorkerTypes, WorkerState
    <2> QED BY <2>3, <2>4, <2>5, <2>7
  <1>12. IdInv' BY <1>1, IdFrame
  <1> QED BY <1>4, <1>6, <1>9, <1>10, <1>11, <1>12, BeforeFrame

LEMMA SessionStepsInv == ASSUME IInv, NEW c \in Call, SessionSteps(c) PROVE IInv'
  BY ConnectOperationInv, WriteOperationInv, WriteFailedInv DEF SessionSteps

LEMMA BeginRequestInv ==
  ASSUME IInv, NEW w \in Worker, BeginRequest(w), UNCHANGED <<proxyVars, before>>
  PROVE  IInv'
  <1> USE DEF IInv, RpcTypeOK, BeginRequest
  <1> DEFINE r == worker[w].matched
  <1>1. UNCHANGED <<sessionVars, NextBehaviorId, behaviorId, stream, link, op, asked, group>>
    BY DEF proxyVars, transportVars
  <1>2. SessionTypes /\ WorkerTypes /\ CounterTypes BY ServiceTypes
  <1>3. r \in Request /\ NextBehaviorId + 1 \in Nat
    BY <1>2 DEF WorkerTypes, WorkerState, CounterTypes
  <1>4. worker[w] \in WorkerState BY <1>2 DEF WorkerTypes
  <1>5. worker' = [worker EXCEPT ![w] =
           [worker[w] EXCEPT !.at = "number", !.req = r, !.matched = NoRequest,
                             !.id = NextBehaviorId + 1]]
    BY <1>2 DEF WorkerTypes, WorkerState
  <1> HIDE DEF r
  <1>6. [worker[w] EXCEPT !.at = "number", !.req = r, !.matched = NoRequest,
                          !.id = NextBehaviorId + 1] \in WorkerState
    BY <1>3, <1>4 DEF WorkerState
  <1>7. \A v \in Worker : v # w => worker'[v] = worker[v]
    BY <1>2, <1>5 DEF WorkerTypes
  <1>8. /\ worker'[w].at = "number" /\ worker'[w].req = r /\ worker'[w].matched = NoRequest
        /\ worker'[w].id = NextBehaviorId + 1
        /\ worker'[w].TempSessions = worker[w].TempSessions
    BY <1>2, <1>4, <1>5 DEF WorkerTypes, WorkerState
  <1>9. worker[w].at = "idle" BY DEF Idle
  <1>10. ServiceTypeOK'
    <2>1. SessionTypes' BY <1>1, <1>2 DEF SessionTypes, sessionVars
    <2>2. worker' \in [Worker -> WorkerState] BY <1>2, <1>5, <1>6 DEF WorkerTypes
    <2>3. WorkerTypes'
      BY <1>2, <1>3, <1>7, <1>8, <2>2, NoRequestAssumption DEF WorkerTypes
    <2>4. CounterTypes' BY <1>1, <1>2, <1>3 DEF CounterTypes
    <2> QED BY <2>1, <2>3, <2>4, ServiceTypesNext
  <1>11. TransportTypeOK' /\ ProxyTypeOK' BY TransportFrame, ProxyFrame
  <1>12. KnownInv'
    <2>1. CallsKnown' BY <1>1 DEF KnownInv, CallsKnown, sessionVars
    <2>2. served[r] # "none" /\ served' = [served EXCEPT ![r] = "working"]
      BY <1>3 DEF KnownInv, RequestsKnown, r
    <2>3. \A s \in Request : served'[s] # "none" <=> served[s] # "none"
      BY <1>2, <2>2 DEF CounterTypes
    <2>4. \A v \in Worker : /\ worker[v].req \in Request \cup {NoRequest}
                            /\ worker[v].matched \in Request \cup {NoRequest}
      BY <1>2 DEF WorkerTypes, WorkerState
    <2>5. \A s \in Request : /\ asked'[s] # "none" => group'[s] \in GroupId
                             /\ served'[s] # "none" => asked'[s] # "none"
      BY <1>1, <2>3 DEF KnownInv, RequestsKnown
    <2>6. \A v \in Worker : worker[v].matched # NoRequest => served'[worker[v].matched] # "none"
      BY <2>3, <2>4 DEF KnownInv, RequestsKnown
    <2>7. \A v \in Worker : worker[v].req # NoRequest => served'[worker[v].req] # "none"
      BY <2>3, <2>4 DEF KnownInv, RequestsKnown
    <2>8. served'[r] # "none" BY <1>3, <2>2, <2>3
    <2>9. RequestsKnown'
      BY <1>7, <1>8, <2>5, <2>6, <2>7, <2>8 DEF RequestsKnown
    <2> QED BY <2>1, <2>9 DEF KnownInv
  <1>13. WriterInv' BY <1>1, WriterFrame DEF sessionVars
  <1>14. SessionInv'
    <2> USE <1>1 DEF SessionInv, sessionVars
    <2>1. worker'[w].TempSessions = {} BY <1>8, <1>9 DEF CopiesInBroadcast
    <2>2. Registered' /\ OneHome' BY DEF Registered, OneHome
    <2>3. CopiesInBroadcast' BY <1>7, <2>1 DEF CopiesInBroadcast
    <2>4. DanglingElsewhere' BY <1>7, <2>1 DEF DanglingElsewhere
    <2> QED BY <2>2, <2>3, <2>4
  <1>15. IdInv'
    <2> USE <1>1 DEF IdInv
    <2>1. raced' = (raced \/ \E v \in Worker : worker[v].at = "number") OBVIOUS
    <2>2. ~raced' => ~raced /\ \A v \in Worker : worker[v].at # "number" BY <2>1
    <2>3. IdsInOrder' BY <1>7, <1>8, <2>2 DEF IdsInOrder
    <2>4. IdsRepeatOnlyByRace' BY <2>2 DEF IdsRepeatOnlyByRace
    <2> QED BY <2>3, <2>4
  <1> QED BY <1>10, <1>11, <1>12, <1>13, <1>14, <1>15, BeforeFrame

\* With nobody else numbering, the number given is above all others.
LEMMA NumberRequestInv ==
  ASSUME IInv, NEW w \in Worker, NumberRequest(w), UNCHANGED <<proxyVars, before>>
  PROVE  IInv'
  <1> USE DEF IInv, RpcTypeOK, NumberRequest
  <1> DEFINE r == worker[w].req
  <1>1. UNCHANGED <<sessionVars, served, raced, stream, link, op, asked, group>>
    BY DEF proxyVars, transportVars
  <1>2. SessionTypes /\ WorkerTypes /\ CounterTypes BY ServiceTypes
  <1>3. worker[w] \in WorkerState /\ r \in Request /\ worker[w].id \in Nat
    BY <1>2 DEF WorkerTypes, WorkerState
  <1>4. worker' = [worker EXCEPT ![w] = [worker[w] EXCEPT !.at = "lookup", !.id = 0]]
    BY <1>2 DEF WorkerTypes, WorkerState
  <1>5. behaviorId' = [behaviorId EXCEPT ![r] = worker[w].id] /\ NextBehaviorId' = worker[w].id
    OBVIOUS
  <1> HIDE DEF r
  <1>6. [worker[w] EXCEPT !.at = "lookup", !.id = 0] \in WorkerState
    BY <1>3 DEF WorkerState
  <1>7. \A v \in Worker : v # w => worker'[v] = worker[v]
    BY <1>2, <1>4 DEF WorkerTypes
  <1>8. /\ worker'[w].at = "lookup" /\ worker'[w].req = worker[w].req
        /\ worker'[w].matched = worker[w].matched
        /\ worker'[w].TempSessions = worker[w].TempSessions
    BY <1>2, <1>3, <1>4 DEF WorkerTypes, WorkerState
  <1>9. worker[w].at = "number" OBVIOUS
  <1>10. ServiceTypeOK'
    <2>1. SessionTypes' BY <1>1, <1>2 DEF SessionTypes, sessionVars
    <2>2. worker' \in [Worker -> WorkerState] BY <1>2, <1>4, <1>6 DEF WorkerTypes
    <2>3. WorkerTypes' BY <1>2, <1>7, <1>8, <1>9, <2>2 DEF WorkerTypes
    <2>4. CounterTypes'
      BY <1>1, <1>2, <1>3, <1>5 DEF CounterTypes, unaryVars
    <2> QED BY <2>1, <2>3, <2>4, ServiceTypesNext
  <1>11. TransportTypeOK' /\ ProxyTypeOK' BY TransportFrame, ProxyFrame
  <1>12. KnownInv'
    <2>1. CallsKnown' BY <1>1 DEF KnownInv, CallsKnown, sessionVars
    <2>2. \A v \in Worker : worker'[v].req = worker[v].req /\ worker'[v].matched = worker[v].matched
      BY <1>7, <1>8
    <2>3. RequestsKnown' BY <1>1, <2>2 DEF KnownInv, RequestsKnown
    <2> QED BY <2>1, <2>3 DEF KnownInv
  <1>13. WriterInv' BY <1>1, WriterFrame DEF sessionVars
  <1>14. SessionInv'
    <2> USE <1>1 DEF SessionInv, sessionVars
    <2>1. worker'[w].TempSessions = {} BY <1>8, <1>9 DEF CopiesInBroadcast
    <2>2. Registered' /\ OneHome' BY DEF Registered, OneHome
    <2>3. CopiesInBroadcast' BY <1>7, <2>1 DEF CopiesInBroadcast
    <2>4. DanglingElsewhere' BY <1>7, <2>1 DEF DanglingElsewhere
    <2> QED BY <2>2, <2>3, <2>4
  <1>15. IdInv'
    <2>a. raced => raced' BY <1>1
    <2>b. raced' => IdInv' BY ONLY DEF IdInv, IdsInOrder, IdsRepeatOnlyByRace
    <2> SUFFICES ASSUME ~raced PROVE IdInv'
      BY <2>a, <2>b
    <2>1. /\ \A v \in Worker : worker[v].at = "number" => v = w
          /\ worker[w].id = NextBehaviorId + 1
          /\ \A s \in Request : behaviorId[s] <= NextBehaviorId
      BY <1>9 DEF IdInv, IdsInOrder
    <2>2. \A v \in Worker : worker'[v].at # "number" BY <1>7, <1>8, <2>1
    <2>3. \A s \in Request : behaviorId'[s] = IF s = r THEN NextBehaviorId + 1 ELSE behaviorId[s]
      BY <1>2, <1>5, <2>1 DEF CounterTypes
    <2>4. NextBehaviorId' = NextBehaviorId + 1 BY <1>5, <2>1
    <2>5. \A s \in Request : behaviorId[s] \in Nat BY <1>2 DEF CounterTypes
    <2>6. NextBehaviorId \in Nat BY <1>2 DEF CounterTypes
    <2>7. IdsInOrder'
      <3>1. \A s \in Request : behaviorId'[s] <= NextBehaviorId'
        BY ONLY <2>1, <2>3, <2>4, <2>5, <2>6
      <3> QED BY ONLY <2>2, <3>1 DEF IdsInOrder
    <2>8. IdsRepeatOnlyByRace'
      BY <2>1, <2>3, <2>5, <2>6 DEF IdInv, IdsRepeatOnlyByRace
    <2> QED BY <2>7, <2>8 DEF IdInv
  <1> QED BY <1>10, <1>11, <1>12, <1>13, <1>14, <1>15, BeforeFrame

\* What is copied is registered: live, or deleted in group NoGroup.
LEMMA CopySessionsInv ==
  ASSUME IInv, NEW w \in Worker, CopySessions(w), UNCHANGED <<proxyVars, before>>
  PROVE  IInv'
  <1> USE DEF IInv, RpcTypeOK, CopySessions
  <1> DEFINE g == group[worker[w].req]
  <1>1. UNCHANGED <<sessionVars, served, idVars, server, stream, link, op, asked, group>>
    BY DEF proxyVars, transportVars
  <1>2. SessionTypes /\ WorkerTypes /\ CounterTypes BY ServiceTypes
  <1>3. worker[w] \in WorkerState /\ worker[w].req \in Request
    BY <1>2 DEF WorkerTypes, WorkerState
  <1>4. g \in GroupId
    <2>1. worker[w].req # NoRequest BY <1>3, NoRequestAssumption
    <2> QED BY <1>3, <2>1 DEF KnownInv, RequestsKnown
  <1>5. Sessions[g] \subseteq Call BY <1>2, <1>4 DEF SessionTypes
  <1>6. worker' = [worker EXCEPT ![w] = [worker[w] EXCEPT !.at = "send",
                                                        !.TempSessions = Sessions[g]]]
    BY <1>2 DEF WorkerTypes, WorkerState
  <1> HIDE DEF g
  <1>7. [worker[w] EXCEPT !.at = "send", !.TempSessions = Sessions[g]] \in WorkerState
    BY <1>3, <1>5 DEF WorkerState
  <1>8. \A v \in Worker : v # w => worker'[v] = worker[v]
    BY <1>2, <1>6 DEF WorkerTypes
  <1>9. /\ worker'[w].at = "send" /\ worker'[w].req = worker[w].req
        /\ worker'[w].matched = worker[w].matched
        /\ worker'[w].id = worker[w].id
        /\ worker'[w].TempSessions = Sessions[g]
    <2>1. worker'[w] = [worker[w] EXCEPT !.at = "send", !.TempSessions = Sessions[g]]
      BY <1>2, <1>6 DEF WorkerTypes
    <2> QED BY ONLY <1>3, <2>1 DEF WorkerState
  <1>10. worker[w].at = "lookup" OBVIOUS
  <1>11. ServiceTypeOK'
    <2>1. SessionTypes' BY <1>1, <1>2 DEF SessionTypes, sessionVars
    <2>2. worker' \in [Worker -> WorkerState] BY <1>2, <1>6, <1>7 DEF WorkerTypes
    <2>3. WorkerTypes' BY <1>2, <1>8, <1>9, <1>10, <2>2 DEF WorkerTypes
    <2>4. CounterTypes' BY <1>1, <1>2 DEF CounterTypes, idVars
    <2> QED BY <2>1, <2>3, <2>4, ServiceTypesNext
  <1>12. TransportTypeOK' /\ ProxyTypeOK' BY TransportFrame, ProxyFrame
  <1>13. KnownInv'
    <2>1. CallsKnown' BY <1>1 DEF KnownInv, CallsKnown, sessionVars
    <2>2. \A v \in Worker : worker'[v].req = worker[v].req /\ worker'[v].matched = worker[v].matched
      BY <1>8, <1>9
    <2>3. RequestsKnown' BY <1>1, <2>2 DEF KnownInv, RequestsKnown
    <2> QED BY <2>1, <2>3 DEF KnownInv
  <1>14. WriterInv' BY <1>1, WriterFrame DEF sessionVars
  <1>15. SessionInv'
    <2> USE <1>1 DEF SessionInv, sessionVars
    <2>1. \A c \in Sessions[g] : /\ session[c] \in {"live", "deleted"}
                                 /\ session[c] = "deleted" => group[c] = NoGroup
      BY <1>4 DEF Registered
    <2>2. Registered' /\ OneHome' BY DEF Registered, OneHome
    <2>3. CopiesInBroadcast' BY <1>8, <1>9, <2>1 DEF CopiesInBroadcast
    <2>4. DanglingElsewhere' BY <1>8, <1>9, <2>1 DEF DanglingElsewhere
    <2> QED BY <2>2, <2>3, <2>4
  <1>16. IdInv'
    <2>1. \A v \in Worker : /\ worker'[v].at = "number" <=> worker[v].at = "number"
                            /\ worker'[v].id = worker[v].id
      BY <1>8, <1>9, <1>10
    <2>2. UNCHANGED <<raced, NextBehaviorId, behaviorId>> BY <1>1 DEF idVars
    <2>3. IdsInOrder /\ IdsRepeatOnlyByRace BY DEF IdInv
    <2>4. IdsInOrder' BY ONLY <2>1, <2>2, <2>3 DEF IdsInOrder
    <2>5. IdsRepeatOnlyByRace' BY ONLY <2>2, <2>3 DEF IdsRepeatOnlyByRace
    <2> QED BY <2>4, <2>5 DEF IdInv
  <1> QED BY <1>11, <1>12, <1>13, <1>14, <1>15, <1>16, BeforeFrame

LEMMA WriteToSessionInv ==
  ASSUME IInv, NEW w \in Worker, NEW c \in Call, WriteToSession(w, c),
         UNCHANGED <<proxyVars, before>>
  PROVE  IInv'
  <1> USE DEF IInv, RpcTypeOK, WriteToSession
  <1>1. UNCHANGED <<session, home, Sessions, served, idVars, server, stream, link, wire,
                    asked, group>>
    BY DEF proxyVars
  <1>2. SessionTypes /\ WorkerTypes /\ CounterTypes BY ServiceTypes
  <1>3. worker[w] \in WorkerState /\ worker[w].req \in Request /\ worker[w].at = "send"
    BY <1>2 DEF WorkerTypes, WorkerState
  <1>4. worker' = [worker EXCEPT ![w] =
                      [worker[w] EXCEPT !.TempSessions = worker[w].TempSessions \ {c}]]
    BY <1>2 DEF WorkerTypes, WorkerState
  <1>5. [worker[w] EXCEPT !.TempSessions = worker[w].TempSessions \ {c}] \in WorkerState
    BY <1>3 DEF WorkerState
  <1>6. \A v \in Worker : v # w => worker'[v] = worker[v]
    BY <1>2, <1>4 DEF WorkerTypes
  <1>7. worker'[w] = [worker[w] EXCEPT !.TempSessions = worker[w].TempSessions \ {c}]
    BY <1>2, <1>4 DEF WorkerTypes
  <1>8. \A v \in Worker :
           /\ worker'[v].at = worker[v].at /\ worker'[v].req = worker[v].req
           /\ worker'[v].matched = worker[v].matched /\ worker'[v].id = worker[v].id
           /\ worker'[v].TempSessions \subseteq worker[v].TempSessions
    <2>1. /\ worker'[w].at = worker[w].at /\ worker'[w].req = worker[w].req
          /\ worker'[w].matched = worker[w].matched /\ worker'[w].id = worker[w].id
          /\ worker'[w].TempSessions \subseteq worker[w].TempSessions
      BY ONLY <1>3, <1>7 DEF WorkerState
    <2> QED BY <1>6, <2>1
  <1>9. WorkerTypes'
    <2>1. worker' \in [Worker -> WorkerState] BY <1>2, <1>4, <1>5 DEF WorkerTypes
    <2> QED BY <1>2, <1>8, <2>1 DEF WorkerTypes
  <1>10. CounterTypes' BY <1>1, <1>2 DEF CounterTypes, idVars
  <1>11. /\ SessionTypes' /\ WriterInv'
         /\ op' \in [Call -> {"none", "writing", "sent", "failed"}]
    <2>1. CASE session[c] = "live"
      <3> DEFINE p == worker[w].req
      <3>1. /\ OutgoingMessages' = [OutgoingMessages EXCEPT ![c] = Append(@, p)]
            /\ bIsWriting' = [bIsWriting EXCEPT ![c] = TRUE]
            /\ op' = IF bIsWriting[c] THEN op ELSE [op EXCEPT ![c] = "writing"]
            /\ stray' = stray
        BY <2>1 DEF Write
      <3> HIDE DEF p
      <3>2. OutgoingMessages[c] \in Seq(Request) /\ p \in Request
        BY <1>2, <1>3 DEF SessionTypes, p
      <3>3. Append(OutgoingMessages[c], p) \in Seq(Request) /\ Append(OutgoingMessages[c], p) # <<>>
        BY <3>2, AppendProperties
      <3>4. SessionTypes' BY <1>1, <1>2, <3>1, <3>3 DEF SessionTypes
      <3>5. op' \in [Call -> {"none", "writing", "sent", "failed"}]
        BY <3>1 DEF TransportTypeOK
      <3>6. ASSUME NEW d \in Call, d # c
            PROVE  /\ OutgoingMessages'[d] = OutgoingMessages[d]
                   /\ bIsWriting'[d] = bIsWriting[d] /\ op'[d] = op[d]
        BY <1>2, <3>1, <3>6 DEF SessionTypes, TransportTypeOK
      <3>7. OutgoingMessages'[c] # <<>> BY <1>2, <3>1, <3>3 DEF SessionTypes
      <3>8. bIsWriting'[c] BY <1>2, <3>1 DEF SessionTypes
      <3>9. op'[c] # "none"
        <4>1. bIsWriting[c] => op[c] # "none" BY DEF WriterInv, WriterBusy
        <4> QED BY <3>1, <4>1 DEF TransportTypeOK
      <3>10. WriterBusy' BY <3>6, <3>7, <3>8, <3>9 DEF WriterInv, WriterBusy
      <3>11. WritersLive' BY <1>1, <2>1, <3>6 DEF WriterInv, WritersLive
      <3> QED BY <3>4, <3>5, <3>10, <3>11 DEF WriterInv
    <2>2. CASE session[c] # "live"
      <3>1. UNCHANGED <<OutgoingMessages, bIsWriting, op>> /\ stray' = stray \cup {c}
        BY <2>2 DEF Write
      <3>2. SessionTypes' BY <1>1, <1>2, <3>1 DEF SessionTypes
      <3> QED BY <1>1, <3>1, <3>2, WriterFrame DEF TransportTypeOK
    <2> QED BY <2>1, <2>2
  <1>12. ServiceTypeOK' BY <1>9, <1>10, <1>11, ServiceTypesNext
  <1>13. TransportTypeOK' /\ ProxyTypeOK' BY <1>1, <1>11, ProxyFrame DEF TransportTypeOK
  <1>14. KnownInv'
    <2>1. CallsKnown' BY <1>1 DEF KnownInv, CallsKnown
    <2>2. RequestsKnown' BY <1>1, <1>8 DEF KnownInv, RequestsKnown
    <2> QED BY <2>1, <2>2 DEF KnownInv
  <1>15. SessionInv'
    <2> USE <1>1 DEF SessionInv
    <2>1. Registered' /\ OneHome' BY DEF Registered, OneHome
    <2>2. CopiesInBroadcast'
      <3> SUFFICES ASSUME NEW v \in Worker
                   PROVE  /\ worker'[v].at # "send" => worker'[v].TempSessions = {}
                          /\ \A d \in worker'[v].TempSessions : session'[d] \in {"live", "deleted"}
        BY DEF CopiesInBroadcast
      <3> QED BY <1>8 DEF CopiesInBroadcast
    <2>3. DanglingElsewhere' BY <1>8 DEF DanglingElsewhere
    <2> QED BY <2>1, <2>2, <2>3
  <1>16. IdInv'
    <2>1. UNCHANGED <<raced, NextBehaviorId, behaviorId>> BY <1>1 DEF idVars
    <2>2. IdsInOrder /\ IdsRepeatOnlyByRace BY DEF IdInv
    <2>3. IdsInOrder' BY ONLY <1>8, <2>1, <2>2 DEF IdsInOrder
    <2>4. IdsRepeatOnlyByRace' BY ONLY <2>1, <2>2 DEF IdsRepeatOnlyByRace
    <2> QED BY <2>3, <2>4 DEF IdInv
  <1> QED BY <1>11, <1>12, <1>13, <1>14, <1>15, <1>16, BeforeFrame

LEMMA FinishRequestInv ==
  ASSUME IInv, NEW w \in Worker, FinishRequest(w), UNCHANGED <<proxyVars, before>>
  PROVE  IInv'
  <1> USE DEF IInv, RpcTypeOK, FinishRequest
  <1>1. UNCHANGED <<sessionVars, idVars, server, stream, link, op, asked, group>>
    BY DEF proxyVars, transportVars
  <1>2. SessionTypes /\ WorkerTypes /\ CounterTypes BY ServiceTypes
  <1>3. worker[w] \in WorkerState /\ worker[w].req \in Request
    BY <1>2 DEF WorkerTypes, WorkerState
  <1>4. worker' = [worker EXCEPT ![w] = [worker[w] EXCEPT !.at = "idle", !.req = NoRequest]]
    BY <1>2 DEF WorkerTypes, WorkerState
  <1>5. [worker[w] EXCEPT !.at = "idle", !.req = NoRequest] \in WorkerState
    BY <1>3 DEF WorkerState
  <1>6. \A v \in Worker : v # w => worker'[v] = worker[v]
    BY <1>2, <1>4 DEF WorkerTypes
  <1>7. worker'[w] = [worker[w] EXCEPT !.at = "idle", !.req = NoRequest]
    BY <1>2, <1>4 DEF WorkerTypes
  <1>8. /\ worker'[w].at = "idle" /\ worker'[w].req = NoRequest
        /\ worker'[w].matched = worker[w].matched /\ worker'[w].id = worker[w].id
        /\ worker'[w].TempSessions = worker[w].TempSessions
    BY ONLY <1>3, <1>7 DEF WorkerState
  <1>9. worker[w].at = "send" /\ worker[w].TempSessions = {} OBVIOUS
  <1>10. served' = [served EXCEPT ![worker[w].req] = "finished"] OBVIOUS
  <1>11. ServiceTypeOK'
    <2>1. SessionTypes' BY <1>1, <1>2 DEF SessionTypes, sessionVars
    <2>2. worker' \in [Worker -> WorkerState] BY <1>2, <1>4, <1>5 DEF WorkerTypes
    <2>3. WorkerTypes' BY <1>2, <1>6, <1>8, <2>2 DEF WorkerTypes
    <2>4. CounterTypes' BY <1>1, <1>2, <1>10 DEF CounterTypes, idVars
    <2> QED BY <2>1, <2>3, <2>4, ServiceTypesNext
  <1>12. TransportTypeOK' /\ ProxyTypeOK' BY TransportFrame, ProxyFrame
  <1>13. KnownInv'
    <2>1. CallsKnown' BY <1>1 DEF KnownInv, CallsKnown, sessionVars
    <2>2. served[worker[w].req] # "none"
      BY <1>3, NoRequestAssumption DEF KnownInv, RequestsKnown
    <2>3. \A s \in Request : served'[s] # "none" <=> served[s] # "none"
      BY <1>2, <1>3, <1>10, <2>2 DEF CounterTypes
    <2>4. \A v \in Worker : /\ worker[v].req \in Request \cup {NoRequest}
                            /\ worker[v].matched \in Request \cup {NoRequest}
      BY <1>2 DEF WorkerTypes, WorkerState
    <2>5. \A v \in Worker : /\ worker'[v].matched = worker[v].matched
                            /\ worker'[v].req \in {worker[v].req, NoRequest}
      BY <1>6, <1>8
    <2>6. RequestsKnown' BY <1>1, <2>3, <2>4, <2>5 DEF KnownInv, RequestsKnown
    <2> QED BY <2>1, <2>6 DEF KnownInv
  <1>14. WriterInv' BY <1>1, WriterFrame DEF sessionVars
  <1>15. SessionInv'
    <2> USE <1>1 DEF SessionInv, sessionVars
    <2>1. Registered' /\ OneHome' BY DEF Registered, OneHome
    <2>2. CopiesInBroadcast' BY <1>6, <1>8, <1>9 DEF CopiesInBroadcast
    <2>3. DanglingElsewhere' BY <1>6, <1>8, <1>9 DEF DanglingElsewhere
    <2> QED BY <2>1, <2>2, <2>3
  <1>16. IdInv'
    <2>1. UNCHANGED <<raced, NextBehaviorId, behaviorId>> BY <1>1 DEF idVars
    <2>2. IdsInOrder /\ IdsRepeatOnlyByRace BY DEF IdInv
    <2>3. \A v \in Worker : /\ worker'[v].at = "number" <=> worker[v].at = "number"
                            /\ worker'[v].id = worker[v].id
      BY <1>6, <1>8, <1>9
    <2>4. IdsInOrder' BY ONLY <2>1, <2>2, <2>3 DEF IdsInOrder
    <2>5. IdsRepeatOnlyByRace' BY ONLY <2>1, <2>2 DEF IdsRepeatOnlyByRace
    <2> QED BY <2>4, <2>5 DEF IdInv
  <1> QED BY <1>11, <1>12, <1>13, <1>14, <1>15, <1>16, BeforeFrame

LEMMA RequestStepsInv == ASSUME IInv, NEW w \in Worker, RequestSteps(w) PROVE IInv'
  BY BeginRequestInv, NumberRequestInv, CopySessionsInv, WriteToSessionInv,
     FinishRequestInv DEF RequestSteps

LEMMA ServerDestructorInv == ASSUME IInv, ServerDestructor PROVE IInv'
  <1> USE DEF IInv, RpcTypeOK, ServerDestructor, BeginShutdown, EndShutdown
  <1>1. UNCHANGED <<sessionVars, unaryVars, proxyVars, transportVars, stream, link, op,
                    asked, group>>
    BY DEF transportVars, proxyVars
  <1>2. ServiceTypeOK'
    BY <1>1 DEF ServiceTypeOK, sessionVars, unaryVars, idVars
  <1>3. TransportTypeOK' /\ ProxyTypeOK' BY <1>1, TransportFrame, ProxyFrame
  <1>4. KnownInv' BY <1>1, KnownFrame DEF sessionVars, unaryVars
  <1>5. WriterInv' BY <1>1, WriterFrame DEF sessionVars
  <1>6. SessionInv' BY <1>1, SessionFrame DEF sessionVars, unaryVars
  <1>7. IdInv' BY <1>1, IdFrame DEF unaryVars
  <1> QED BY <1>2, <1>3, <1>4, <1>5, <1>6, <1>7, BeforeFrame

----------------------------------------------------------------------------
LEMMA StepInv == IInv /\ [Next]_vars => IInv'
  <1> SUFFICES ASSUME IInv, [Next]_vars PROVE IInv'
    OBVIOUS
  <1>1. CASE Next
    BY <1>1, ClientCallsInv, ClientThreadInv, AnswerInv, BreaksInv, TransportsInv,
       SessionStepsInv, PairsInv, RequestStepsInv, ServerDestructorInv DEF Next
  <1>2. CASE UNCHANGED vars
    <2>1. UNCHANGED <<transportVars, serviceVars, sessionVars, unaryVars, proxyVars, before,
                      stream, link, op, asked, group>>
      BY <1>2 DEF vars, transportVars, serviceVars, proxyVars
    <2>2. RpcTypeOK'
      BY <2>1, TransportFrame, ServiceFrame, ProxyFrame, BeforeFrame DEF IInv, RpcTypeOK
    <2>3. KnownInv' BY <2>1, KnownFrame DEF IInv, sessionVars, unaryVars
    <2>4. WriterInv' BY <2>1, WriterFrame DEF IInv, sessionVars
    <2>5. SessionInv' BY <2>1, SessionFrame DEF IInv, sessionVars, unaryVars
    <2>6. IdInv' BY <2>1, IdFrame DEF IInv, unaryVars
    <2> QED BY <2>2, <2>3, <2>4, <2>5, <2>6 DEF IInv
  <1> QED BY <1>1, <1>2

LEMMA Invariance == Spec => []IInv
  BY InitInv, StepInv, PTL DEF Spec

\* Every variable keeps its type, and a worker has a request exactly while it
\* serves one, for any number of workers, calls and requests.
THEOREM RpcTypeCorrect == Spec => []RpcTypeOK
  <1>1. IInv => RpcTypeOK BY DEF IInv
  <1> QED BY <1>1, Invariance, PTL

\* The queue of a session, bIsWriting and the Write outstanding on its stream
\* agree, whichever workers write to it (Write, FWriteOperation).
THEOREM WriterAlwaysBusy == Spec => []WriterBusy
  <1>1. IInv => WriterBusy BY DEF IInv, WriterInv
  <1> QED BY <1>1, Invariance, PTL

\* A group other than -1 holds live sessions of its own only (RegisterSession,
\* ~FStreamSessionHandler).
THEOREM RegisteredAlwaysLive == Spec => []RegisteredAreLive
  <1>1. IInv => RegisteredAreLive BY DEF IInv, SessionInv, Registered, RegisteredAreLive
  <1> QED BY <1>1, Invariance, PTL

\* A broadcast meets a deleted session only if it runs on another worker than the
\* one the session belongs to, or in group -1 (TGroup::Broadcast).
THEOREM DanglingAlwaysElsewhere == Spec => []DanglingElsewhere
  <1>1. IInv => DanglingElsewhere BY DEF IInv, SessionInv
  <1> QED BY <1>1, Invariance, PTL

\* Behavior ids are distinct until two workers increment NextBehaviorId at once
\* (FUnaryCallHandler::Proceed).
THEOREM IdsAlwaysDistinct == Spec => []IdsRepeatOnlyByRace
  <1>1. IInv => IdsRepeatOnlyByRace BY DEF IInv, IdInv
  <1> QED BY <1>1, Invariance, PTL
=============================================================================
