# HktBase: a verification project

TLA+ modules that model the core of the HktBase plugin, the TLC configurations
that check them on small instances, and theorems about them whose proofs TLAPS
checks for every value of the constants. The code under `src/` is the
reference; `PROJECT.json` names, for every definition, the lines it stands for.

## 1. The system

HktBase is an Unreal Engine plugin: the base of a game server and its clients
that exchange *behaviors* (typed payloads about a subject). It has four code
modules and one of tests, about 3 500 lines; nearly all other lines of the
repository are the vendored headers of gRPC, protobuf, abseil and ENet.

| Part | State | Operations | Interacts with |
| --- | --- | --- | --- |
| **HktCustomNet server** `FHktReliableUdpServer` | `Connections` (per endpoint: sequence numbers, receive state, pending packets, groups, time last heard), `Groups`, the queue `ReceivedPackets` | `Start`, `Stop`, `Tick` (process queue, resend, time out), `SendTo`, `BroadcastToGroup`, `JoinGroup`, `LeaveGroup`; a receiver thread `Run` | clients over UDP; its receiver thread through a locked queue; the game through calls |
| **HktCustomNet client** `FHktReliableUdpClient` | socket, `bIsConnected`, sequence numbers, receive state, `PendingAckPackets`, `IncomingPackets`, `ReceivedDataPackets` | `Connect`, `Disconnect`, `Send`, `JoinGroup`, `LeaveGroup`, `Tick`, `Poll`; a receiver thread `Run` | the server over UDP; its game |
| **HktCustomNet header** `FPacketHeader`, `FPendingPacket` | none | the acknowledgement and retransmission arithmetic that both classes carry as identical private methods | both |
| **HktBase graph** `FHktGraph` | behaviors by id (owning), subject and tag indexes (raw pointers) | `AddBehavior`, `FindBehavior`, `RemoveBehavior`, `RemoveSubject` | its one caller |
| **HktBase behaviors and factory** | type ids by first use, creators by type id | `GetBehaviorTypeId`, `Register`, `CreateBehavior`, requests | static initialisers; other binary images and processes, through headers |
| **HktBase event bus** `THktEventBus` | delegates by node and tag | `GetEvent`, `Broadcast` | handlers that may call back |
| **HktENet** `FENetManager` | ENet host, server peer, peer groups | `StartServer`, `StartClient`, `Stop`, `Tick`, sends, groups | the ENet library; delegates called out of `Tick` |
| **HktGrpc service** `FHktRpcService` | per session: outgoing queue, writing flag; groups of session pointers; the id counter | request, stream and write completions on several worker threads, `BroadcastToGroup` | gRPC completion queues; proxies |
| **HktGrpc proxy** `FHktRpcProxy` | one object per call | `ExecuteBehavior`, `SyncGroup`, completions on a worker thread | the service; a callback of the game |
| Serializer, attributes, status, module start-up, generated and vendored code | none, or a lookup table | conversions | |

The behaviours that are hard here:

* **Unreliable delivery.** HktCustomNet builds reliability on UDP: loss,
  reordering and duplication meet sequence numbers, piggybacked
  acknowledgements (a number and a 32-bit field), retransmissions that carry
  the header of their first sending, a handshake that is sent once, and
  sessions that end at one side only.
* **Numbers.** uint32 sequence numbers are subtracted without a check for
  wrap-around, and one shift count may be negative. Type ids depend on the
  order in which each binary first uses a type.
* **Two records of one fact.** Group membership is kept in `GroupIds` and in
  `Groups`; five operations change both. `FHktGraph` keeps each behavior in
  two maps. `FENetManager` keeps peers whose slots ENet reuses. A session of the
  service has a queue, a flag and an operation at gRPC.
* **Threads.** A receiver thread on either side of HktCustomNet; several
  completion-queue workers in HktGrpc that broadcast to sessions others delete.
* **Callbacks.** `FENetManager::Tick` and the event bus call handlers that may
  call back into them.

What makes each part correct: HktCustomNet loses no packet silently, resolves
every packet, keeps a live client and forgets a dead one, completes its
handshake and keeps the two membership records equal; `FHktGraph` holds no
pointer to a destroyed behavior and removes what it is told to; a header is
turned into a behavior of the type that was sent; `FENetManager` keeps no
pointer to a disconnected peer; the gRPC sessions write in order, one write at
a time, and never to a deleted session, and a subscription loses nothing but a
last part when its connection breaks. `PROJECT.json` lists the hazards, each at
its line, with the properties that cover it.

## 2. Modules and how they correspond to the code

| Module | Models | State and actions |
| --- | --- | --- |
| `UdpHeader` | `HktReliableUdpHeader.h` and the private methods both classes share | constants and operators: datagrams, pending packets, `UpdateReceivedState`, `ProcessAck`, `Expired`, `Exhausted`, `ResendChoices` |
| `UdpNetwork` | the UDP network (external) | `toServer`, `toClient`: sets of datagrams in flight; arrival (with or without a copy left behind), sending, `Lose` |
| `UdpServer` | `FHktReliableUdpServer` | `Run`; one action for each kind of packet in `ProcessReceivedPackets`; `TickChecks` (`CheckForResends` then `CheckForTimeouts`); the public calls |
| `UdpClient` | `FHktReliableUdpClient`, one for each endpoint | the public calls; `ClientRun`; `ClientProcessPacket`; `ClientCheckForResends` |
| `ReliableUdp` | their composition | `Next`, fairness, the properties |
| `GroupMail` | abstract: what the server promises its game | members, audiences, the orders each member was a receiver of, what is owed to it |
| `HktGraph` | `FHktGraph` | one action for each operation that changes state |
| `BehaviorTypes` | `GetBehaviorTypeId`, `FBehaviorRegistrar`, `FHktBehaviorFactory` | `Id`, `Counter` per binary image, `Creators`; the next registrar of an image; making a header |
| `ENetManager` | `FENetManager` and the ENet host as it uses it | `Host`, `peer`, `ServerPeer`, `ClientGroups`, where `Tick` is; one action for each event, callback end and public call |
| `RpcTransport` | gRPC between the two classes (external) | streams, the packets on them, the server's Write, unary calls; `Transmit`, `Refuse`, `Break` |
| `RpcService` | `FHktRpcService` | workers and where they are in an `ExecuteBehavior`, sessions, groups, queues; one action for each completion and each step of a broadcast |
| `RpcProxy` | `FHktRpcProxy` | the stream call as a state machine of its completions, the unary call, the destructor |
| `Rpc` | service, proxies and gRPC | `Next`, fairness, the properties |
| `Feed` | abstract: what a subscription gives its caller | `Open`, `Post`, `Greet`, `Deliver`, `End`, `Close` |
| `MCReliableUdp`, `MCHktGraph`, `MCBehaviorTypes`, `MCRpc` | instances for TLC | constants, symmetry |
| `...Proofs` | theorems and lemmas about the module (section 4) | |

### Granularity

*HktCustomNet.* A `Tick` is several actions, since the receiver thread runs
meanwhile: one for each packet it dequeues, and one for all the checks that
follow the loop (the queue must have been seen empty). Between them only the
receiver thread of the same object can act on the same state, and it only
appends to the queue; the network, the other processes and time go on. Public
calls are single actions because the game calls them from the thread that
ticks, as the tests and the comments of the header do.

*HktGrpc.* A worker is between two completions (`idle`) or inside an
`ExecuteBehavior`, which is cut where other workers can tell: the read and the
write of the unprotected `++NextBehaviorId`, the copy of the group's sessions
under its lock, each `Write` to a session under the session's lock, `Finish`.
The other completions take their locks once and are one action each. A session
is served by the worker of its own queue, which may not be the one that
broadcasts to it.

*FENetManager* has one thread, but `Tick` calls the game in the middle of its
loop: an event is taken (`Service...`), the game then calls what it likes (every
action that needs `GameRuns`), and `EndCallback` does what the code does after
the callback.

### Abstractions

* A sequence number is a number below `SeqMod`, 2^32 in the code; the
  acknowledgement field is the set of its 1 bits, `Window` = 32 of them.
  `Minus` wraps as uint32 subtraction does; the guard `TooOld`, line 312 of the
  server, is built on it. The shift by -1 at line 328 is undefined behaviour: either
  outcome that builds produce, no bit or the top bit, is allowed.
* Times are ages in whole units, saturated just above the threshold each is
  compared with, since nothing else is done with them.
* `Connections` and `Groups` are functions on the keys present; a
  `TMap<uint32, FPendingPacket>` is a set of pending packets, where `AddPending`
  replaces as `TMap::Add` does. `TMap` order is unspecified, so when
  `CheckForResends` meets a packet that has used up its retries it may have
  resent any of the others before (`ResendChoices`).
* The payload of a client's Data is left out: the server drops it (a TODO at
  its line 171). A server payload is a model value.
* `issued`, `sentOn`, `got`, `polled` and `connects` are history: read by the
  properties and by the bounds only. So are `replaced` and `removed` of `HktGraph`,
  `added`, `life` and `reborn` of `ENetManager`, `raced`, `stray` and `before`
  of the Rpc modules, and `headers` of `BehaviorTypes`.
* `crashed` stands for a client that has dereferenced its null `ClientSocket`,
  and for a `Tick` of `FENetManager` that services a null host.
* In `HktGraph` a behavior is an object: what its getters return, and the address
  at which it is kept. A pointer is an address; a new behavior is
  allocated where the graph owns no other, which may be where one was destroyed.
  Adding a used id destroys the behavior that had it, as `Emplace` does, and
  leaves the pointers to it; `replaced` keeps their addresses. No function of the
  repository reads through these pointers, so a dangling one does nothing yet.
* In `ENetManager` a peer pointer is a place of the host's array and a slot in
  it; `life` counts the connections it has stood for, so that one pointer can be
  told from another of the same value. A game groups only peers it has been told
  of and not been told the end of. ENet is taken to be initialised, and a
  callback does not call `Tick`.
* In the Rpc modules a packet is named by the `ExecuteBehavior` that carried it.
  gRPC is modelled by what the two classes rely on: it pairs a call with a
  handler that waits, completes every operation, delivers a stream in order,
  and a break takes a last part of what is on the wire. A Write behind a broken
  connection may succeed or fail. `Server->Shutdown` without a deadline
  returns when every call is over. What a Write to a deleted session would do
  is undefined; it leaves a mark in `stray` and nothing else, and the properties
  say when it can happen. So a passing `rpc` run says what is true while the pointers
  are good, and `DanglingElsewhere` which are not.
* A `Read` or `Finish` that the proxy starts on a completion queue it has shut down is
  against the rules of gRPC. gRPC may take it or abort the program (`Start` of
  `RpcProxy`): an aborted proxy does nothing more, and its connections break.
* In `BehaviorTypes` an image is a binary that has static variables of its own
  for inline functions: the program in a monolithic build, each module library in
  an editor build.

## 3. What TLC checks

Runs that pass:

| Run | Question | Properties |
| --- | --- | --- |
| `loss` | a client that connects twice sends two packets and is sent one, over a network that loses, copies and reorders | `TypeOK`, `NoSilentLoss`, `NeverConfirmed`, `IsGroupMail` |
| `broadcast` | two clients and a group, joined and left from both ends; a payload to one client, or to the group with or without one of them; give-ups and timeouts, on a network that delivers in time | `GroupsConsistent`, `NoSilentLoss`, `IsGroupMail` |
| `liveness` | does any packet wait for ever in a session that goes on, and is a client that has gone for good forgotten for good? | `PendingResolved`, `SilentClientReaped` |
| `graph` | does a tag node refer to a destroyed behavior, other than one destroyed because its id was added again? | `GraphTypeOK`, `RefsAlive` |
| `rpc` | two workers, two behaviors, a subscription that starts, breaks and is torn down: is what they share consistent, and is the subscription a `Feed`? | `RpcTypeOK`, `WriterBusy`, `RegisteredAreLive`, `DanglingElsewhere`, `AnsweredArePosted`, `CausalOrder`, `IdsRepeatOnlyByRace`, `IsFeed` |
| `rpc_live` | do packets arrive, are requests answered or failed, and do destructors end where no stream holds them up? | `PostedArrive`, `RequestsAnswered`, `HeldOnlyByStreams` |
| `enet` | hosts and peers come and go, also out of callbacks: is a group its clients, and `ServerPeer` the connection? | `ENetTypeOK`, `GroupsMatchClients`, `ServerPeerIsConnection` |

Runs that show a disagreement between the code and what a comment or a test of
the repository says (`PROJECT.json`, "findings", quotes each):

| Run | What happens |
| --- | --- |
| `stays_connected` | A client that sends one packet over a perfect network gives the server up after its retries: `ReceivedSequence - 32` wraps, every packet of a new connection counts as too old, the receive state never moves, and every Ack acknowledges number 0. |
| `duplicate` | A retransmission of a packet the game already has is queued for it again. |
| `graph_remove` | `RemoveBehavior` returns early when the subject has no index node; `RemoveSubject`, or removing any behavior without an indexed tag, takes the node away. |
| `type_ids` | A module other than HktBase that first uses another type than HktBase did gives it the same number, and the factory takes its header for the wrong type. |
| `callback` | The callback of `SyncGroup` is called with an empty message before anything has been read: the call starts in `READING`, so the completion of `StartCall` passes for that of a `Read`. |

### Refinements

* `IsFeed`: `Rpc` implements `Feed`, callback by callback. What is posted and not
  yet seen is the session's queue (without the packet whose Write has been taken)
  behind what is on the wire; what is seen is the list of callbacks as the game got
  them. `Feed` therefore says what the code does, not what its comments say: an empty
  callback first (`Greet`; the run `callback` is about it), then what is posted, each
  packet once and in order, and at the end the last callback again (`Close`), because
  `FINISHING` calls it once more with the `Response` that is still there.
* `IsGroupMail`: `ReliableUdp` implements `GroupMail`. A payload is an *order*: the
  message, the group it is for, and who is left out (`ExcludeAddr`, one endpoint at
  most). The two share the orders, not only the payloads, so an order for a group must
  reach the whole audience but the one it names. What is owed to a member
  is what its connection keeps pending. A client that comes back is in no group and
  is owed nothing; nothing owed is dropped before it is delivered. A broadcast that
  reaches nobody changes nothing on either side.

### Bounds, and why they are enough

* `SeqMod` 8 and `Window` 2: the counters of the runs stay below
  `SeqMod - Window`, as the code's stay below 2^32 - 32 for any session of
  practical length, and two bits suffice for a field with a newest and an
  older position, a shift and its overflow. The proofs have no such bound.
* `MaxServerSeq`, `MaxClientSeq` at most 2: a packet lost behind a later one
  that is received needs two. `MaxRetries` at most 1 and `ResendTimeout` 0:
  a packet is resent once and given up at the next expiry; 10 only repeats the step.
  `ClientTimeout` 4 keeps the order of the code (11 timeouts of 0.2 s come
  before 5 s) where the order matters; the smaller values elsewhere let
  the timeout and the give-up come in either order. Resends are in `liveness`
  and the violation runs; `loss` and `broadcast` have no retry,
  since a resend puts a copy in flight, which `loss` has without it.
* `QueueCap` 1: a queue is filled and emptied by different threads; a datagram
  that waits in the network set stands for one that waits in the queue, and
  the set has no order, so longer queues add no order of arrival.
* `MaxCopies` 1, `MaxConnects` at most 2: a stale copy from one session in the
  next needs no more. The second session is in `loss`, with one client
  and no group; the two clients of `broadcast` have one session each and do not call
  `Disconnect`, but the server forgets them by give-up and by timeout, and a client
  it has forgotten is in no group (`Forget` of `GroupMail`), whether it comes back or
  not. The two together would be millions of states; the theorems cover
  both at once. A second group
  multiplies the states and meets no other code, and the theorem covers any number.
* Each payload goes to an endpoint at most once, so that a delivery names its
  send.
* `Prompt` (`broadcast`, `stays_connected`, `duplicate`): a unit of time passes only when
  nothing is in flight, queued or due. The network is then fast against the
  timeouts, and what goes wrong is not the network's doing.
* Graph: two ids, two subjects, two tags, every combination, and three addresses:
  one more than ids, so that one is always free. Ids and addresses are used
  again without limit. A dangling pointer needs one id added twice; a subject
  that loses its node to the removal of a behavior needs two behaviors.
* Rpc: one subscription, two behaviors, two workers, and the groups 1 and -1. The
  races are between two workers, and two packets make an order and a
  queue behind a Write. Sessions meet only in the set a broadcast
  copies, so a second subscription multiplies the states (`CausalOrder` is about each
  subscription by itself); the theorems have no bound. Calls are made once,
  so an instance comes to rest: no deadlock check. For liveness, one worker and
  one group.
* ENet: two slots, two groups, each pointer used three times, one place for the
  host's array: that a new host gets the place of an old one is the case in which
  a pointer kept too long means something else. The theorems allow any number
  of places. A null host ends the program, hence no deadlock check.
* Type ids: two images and three types.

### Fairness

The liveness runs of HktCustomNet use `FairSpec`. The game ticks for ever, the
receiver threads run, games poll, time passes, and the network delivers or drops
what it holds. Weak fairness would be enough for a loop that is never
interrupted; the checks of a `Tick` and the passing of time are disabled again
and again (a queue refilled, work due), so they need strong fairness. The code
justifies it: the server's receiver thread sleeps 1 ms between two datagrams,
and the client's receives no more than the server sends, while the dequeue loops
do not pause, so a `Tick` leaves its loop again and again. Calls of the
games (`Connect`, `Send`, `SendTo`, `Disconnect`, groups) have no fairness.

In `Rpc` no step of the threads repeats itself, so weak fairness of everything
the threads and gRPC do by themselves (`SystemStep`) is enough: the workers loop
over `Next` and block nowhere else. Calls of the game, the beginning of a
destructor and the break of a connection have no fairness.

## 4. What is proved

*HktCustomNet.* The theorems hold for any number of endpoints, groups and
payloads, any width of the counters and the field, any retry budgets, timeouts
and bounds that satisfy the assumptions of `UdpHeader`, `UdpNetwork`, `UdpClient`
and `ReliableUdp` (numbers are naturals, `0 < Window < SeqMod`, counters stop
below `SeqMod`, a group number is not the empty body).

* `TypeCorrect` (`Spec => []TypeOK`): counters stay in range, no packet
  exceeds its retry budget, whichever way the undefined shift goes. `TypeOK` is
  inductive: a packet is resent only if it is expired and not exhausted, so its
  retries stay within `MaxRetries`.
* `GroupsAlwaysConsistent` (`Spec => []GroupsConsistent`): the two records of
  membership agree. Inductive together with `TypeOK`; the two clauses need each
  other, since `Leave` removes a group only when the other record says it is
  empty, and there is one lemma for each of join, leave and disconnect.
* `NeverConfirmedAlways` and `NoSilentLossAlways`
  (`Spec => []NeverConfirmed`, `Spec => [](NoWrap => NoSilentLoss)`): while
  counters stay `Window` below `SeqMod`, no packet is forgotten before its
  receiver has processed it. `NoSilentLoss` is not inductive: it says nothing
  of the headers in flight, which could confirm anything. The strengthening
  `Kept` says that every header anywhere (in flight, queued, pending, or to be
  made from a receive state) acknowledges number 0 only, that
  the counters stay within their bounds, and that all the Data a client ever
  numbered, and all a connection numbered, is still pending. It is preserved because `TooOld` holds of
  every number below `SeqMod - Window + 1` at receive state 0 (`FirstPacketsTooOld` in
  `ReliableUdpTypeProofs`). So the code keeps its promise for a reason its authors
  did not intend: nothing is ever confirmed. Once line 312 is corrected the
  theorem has to be proved anew, and `loss` shows that it then fails: with
  the guard written without the wrap-around (`TooOldUnwrapped`), the shift at
  line 321 confirms a packet that was lost.
* `UdpIsGroupMail` (`NoWrap => (Spec => IsGroupMail)`, in `ReliableUdpMailProofs`):
  the refinement, one lemma for every action. The step of a broadcast, which is owed
  to every member but the one it excludes, needs to know that the
  group's members are the connections that name it (`GroupsConsistent`); that
  nothing owed is dropped needs `Kept`; and that a delivery is of something sent needs
  `Mailed`: connections keep nothing but what they sent in this session, and every
  Data packet on its way to a client carries a payload the game has sent to it.
  `NoWrap` stands before the implication: the theorem is about builds in which
  the bounds on the counters stay `Window` below `SeqMod`, not about single states.
* `InOrderConfirmsReceived` and `GapConfirmsUnreceived` say what
  `UpdateReceivedState` does to what is confirmed. For a packet next in order or
  behind the newest: nothing, if it counts as too old, which below `Window` every one
  does; otherwise it confirms that packet and nothing else that is new, and only the
  number that leaves the field may cease to be confirmed. A copy of the newest
  packet, which may do more (the undefined shift), is left out. After a
  gap it confirms the number just before the one that arrived, which has not
  arrived, and stops confirming the newest one that had. So a correction
  of the guard alone brings silent loss; lines 318-325 have to be corrected with it.

*FHktGraph.* `RefsAlwaysAlive` (`GraphSpec => []RefsAlive`): a tag node refers to
behaviors the graph owns, of that subject and with that tag, or to the address of one
that an addition with a used id has destroyed; for any ids, subjects, tags and
addresses, and with no assumption on ids. The strengthening (`GraphInv`) adds that
behaviors are kept under their own ids: `RemoveBehavior` takes a behavior's id out of
the map, and an addition destroys what has the same id and nothing more. That a
pointer is to a behavior of that subject and tag is part of `RefsAlive`, since
`RemoveBehavior` looks for it only there.
`GraphTypeCorrect` (`GraphTypeOK`) is inductive by itself.
`RemovedGoneWhileIndexed` is the other side of `graph_remove`: as long as behaviors
that share a subject have tags (`SharedTagged`) and no subject is removed, what
`RemoveBehavior` was called for is gone. Untagged behaviors are what `THktBehavior`
makes; a subject with one of them and no other, as in the test, is within the
condition. The invariant (`AllIndexed`) says that the subject of every behavior has its
node, and that a behavior with tags is found under one of them, so that no node
goes that another behavior needs; the run leaves the condition with `RemoveSubject`.

*Type ids.* `OwnAlwaysAsSent` (`Build => (Spec => []OwnAsSent)`), the positive
side of `type_ids`: as long as only HktBase registers types, a header made in the
image of HktBase (in a monolithic build, any header) is understood as it was
meant or refused. The invariant: numbers of an image are distinct
and below its counter, a creator is registered under the number of its type in
HktBase's image, and a header carries the number its image gave.

*FENetManager*, for any places, slots, groups and bounds (`ENetManagerProofs`):
`ENetTypeCorrect`, `ServerPeerAlwaysConnection` and `GroupsAlwaysMatch`. The
host part of the invariant (`HostInv`) says that only peers of the present host
are in use, and what the callback of a disconnect may find; the group part
(`GroupInv`) that the connections the game has grouped are past or present ones
of their pointers, and that a group's pointers are exactly the present ones.

*HktGrpc*, for any proxies, calls, requests, groups and workers (`RpcProofs`):
`RpcTypeCorrect`, `WriterAlwaysBusy`, `RegisteredAlwaysLive`,
`DanglingAlwaysElsewhere`, `IdsAlwaysDistinct`. One inductive invariant has
four parts besides the types, each with a frame lemma, so that an action is
asked only about the parts whose state it changes: `KnownInv` (what of a call or
request exists on the server comes from one the client made), `WriterInv`
(`WriterBusy`, and a session with a Write is live), `SessionInv` (what a group
holds are live sessions of that group, but for -1; a session has one home; a worker
holds copies only while it broadcasts, and of a session it serves itself
only while that session lives) and `IdInv` (without a race, at most one
worker is numbering, it is about to give the next number, and every number given
is at most the counter).

What a subscription gets is proved in `RpcFeedProofs`: `RpcIsFeed`
(`Spec => IsFeed`), `AnsweredAlwaysPosted` and `OrderAlwaysCausal`, all without a
condition. Three parts join the invariant. `StreamInv`: before a stream opens
nothing is on it, a Write fails and a session is deleted only when the connection is
broken, and the callbacks are an empty one, packets, and at the end the last one
again. `ServedInv`: a request has one worker at most, a
live session is registered in its group, an
answered request has been finished, and what was there when a request was called
existed then. `FlowInv`: no request is posted to a session twice (`PostedOnce`); whoever
was subscribed when it was called and still is, is in the copy of the worker that
broadcasts it or has been written to (`PostedOnTheWay`; `LiveRegistered` is what makes
the copy complete); and
`CausalOrder`, which is inductive with these, since a request can only be posted
behind one that was answered before it was called. Every step of `Rpc` does one of
five things to the feed of a call (`Keeps`, `Opens`, `Takes`, `Ends`,
`Broadcasts`), and the lemmas that say which serve the refinement and the two
invariants alike.

Only model-checked: the liveness properties (`PendingResolved`,
`SilentClientReaped`, `PostedArrive`, `RequestsAnswered`,
`HeldOnlyByStreams`), since TLAPS proves nothing about fairness and ENABLED; and
the violations, which are counterexamples. Every safety property and
every refinement of the passing runs is proved.

## 5. Observations

Met while modelling; each follows from the cited lines, and the repository
promises nothing about it or no interleaving is needed to see it.

* The client answers Data with nothing (its line 252), so the server gives up a
  connected client that ticks. A client's `LeaveGroup` has no body, which the
  server takes for malformed (its line 202).
* A `Connect` is sent once, and while the server still knows the endpoint it is not
  answered: after the loss of the Ack, a crash or a quick reconnect the handshake
  does not complete. Nothing says that it must.
* A second `AddBehavior` with a used id leaves pointers to a destroyed behavior in the
  tag nodes of `FHktGraph` (its line 51), and ids of `FHktRpcService` repeat.
* An Ack still queued at `Disconnect` sets `bIsConnected` at the next `Tick`; the
  resend pass of the client (line 345) then uses the null socket.
* `FENetManager::Stop` out of a callback leaves `Tick` with a null host, unless
  the callback also starts another; a failed `StartClient` keeps its host; a
  restart inside `OnClientDisconnected` may lose its new `ServerPeer` to the
  comparison after the callback, when the new peer has the old address.
* HktGrpc: overlapping broadcasts may reach different sessions in different
  orders. Group -1 means "not registered" but is a legal `group_id`: its
  sessions are never taken out of the group, and every later broadcast to it
  writes to freed memory. The proxy takes a 64-bit group number and the protocol has 32
  bits. A session whose client is gone is deleted only when something is written to
  it. The destructors of a service and of a subscribed proxy wait for each
  other, and nothing in the code ends a stream. The destructor of a proxy with a subscription
  shuts the completion queue down and lets its worker thread start the next `Read`,
  or `Finish`, on it, which gRPC's `completion_queue.h` (237-238) forbids. Destroying a service that never ran dereferences null. The callback of `SyncGroup`
  runs on the proxy's thread.
* `GetNextId` says that it starts at 1, because 0 may stand for "invalid", and
  starts at 0 (`HktBehavior.h`:26-28). A registrar in another module is ignored
  when its number is taken.

## 6. Not modelled, and why

* `Start`, `Stop` and `Exit` of the HktCustomNet server, a second `Connect` on an
  open client, a failed bind or an invalid address, datagrams shorter than a
  header: sequential, without another actor to interleave with, since `Stop`
  joins the receiver thread. The model starts from a server that has been started.
* `SendTo` from a thread other than the one that ticks: the lock is released
  between numbering, sending and keeping a packet. As nothing is ever confirmed,
  an Ack cannot come too early; what is left is a packet kept by a connection
  that has just been dropped.
* The event bus: a map and one engine delegate. What can go wrong (a
  subscription inside a handler moves the delegate) is in the engine's memory.
* Queues without bound, and a receiver that outruns the dequeue loop.
* Contents of flagments and their conversion to bytes; serializer, attributes,
  status, module start-up: no state worth a model. Generated and vendored code:
  not the program's own, and modelled only as far as it is used (`UdpNetwork`,
  `RpcTransport`, the ENet events).
* HktGrpc does not build at this commit (`HktRpcService.h` includes `HktBase.h`,
  which is not in the repository, and `SyncGroup` hands a protocol packet to
  `CreateBehavior`, which takes a header); its logic is complete and is modelled as
  written.

## 7. Plan

Done: every component with state of its own, but for what section 6 names.

Every safety property and refinement that a run checks is proved.

Left: `NoDuplicateDelivery` and `StaysConnected` have no such theorem beside their
runs as `type_ids` (`OwnAlwaysAsSent`) and `graph_remove`
(`RemovedGoneWhileIndexed`) do. A Data packet reaches the game once when nothing is
resent and the network makes no copies; what keeps a client connected (that it
sends nothing) is a matter of timeouts and liveness.
