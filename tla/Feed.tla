-------------------------------- MODULE Feed --------------------------------
(***************************************************************************)
(* What a SyncGroup call gives its caller, whoever writes to it: first a   *)
(* callback with nothing, then every message posted to the subscription,   *)
(* once and in order. When the connection breaks a last part of what was   *)
(* posted is lost, and after the rest the last callback is repeated.       *)
(***************************************************************************)
EXTENDS Integers, Sequences, Functions

CONSTANTS Subscriber, Message, Nothing

VARIABLES
    phase,   \* "closed" before the call, "open", "ended" (the connection
             \* is broken), "over"
    queue,   \* posted to the subscriber, not delivered yet
    seen     \* the packets of the callbacks

feedVars == <<phase, queue, seen>>

FeedInit ==
    /\ phase = [c \in Subscriber |-> "closed"]
    /\ queue = [c \in Subscriber |-> <<>>]
    /\ seen = [c \in Subscriber |-> <<>>]

----------------------------------------------------------------------------
Open(c) ==
    /\ phase[c] = "closed"
    /\ phase' = [phase EXCEPT ![c] = "open"]
    /\ UNCHANGED <<queue, seen>>

\* A message is posted to a subscriber once.
Post(c, m) ==
    /\ phase[c] = "open"
    /\ m \notin Range(queue[c]) \cup Range(seen[c])
    /\ queue' = [queue EXCEPT ![c] = Append(@, m)]
    /\ UNCHANGED <<phase, seen>>

\* The stream is ready.
Greet(c) ==
    /\ phase[c] # "closed"
    /\ seen[c] = <<>>
    /\ seen' = [seen EXCEPT ![c] = <<Nothing>>]
    /\ UNCHANGED <<phase, queue>>

Deliver(c) ==
    /\ seen[c] # <<>>
    /\ queue[c] # <<>>
    /\ queue' = [queue EXCEPT ![c] = Tail(@)]
    /\ seen' = [seen EXCEPT ![c] = Append(@, Head(queue[c]))]
    /\ UNCHANGED phase

End(c) ==
    /\ phase[c] = "open"
    /\ phase' = [phase EXCEPT ![c] = "ended"]
    /\ \E n \in 0 .. Len(queue[c]) :
          queue' = [queue EXCEPT ![c] = SubSeq(@, 1, n)]
    /\ UNCHANGED seen

\* What was not lost has been delivered.
Close(c) ==
    /\ phase[c] = "ended"
    /\ queue[c] = <<>>
    /\ phase' = [phase EXCEPT ![c] = "over"]
    /\ seen' = [seen EXCEPT ![c] =
                   Append(@, IF @ = <<>> THEN Nothing ELSE @[Len(@)])]
    /\ UNCHANGED queue

FeedNext ==
    \E c \in Subscriber :
        \/ Open(c) \/ Greet(c) \/ Deliver(c) \/ End(c) \/ Close(c)
        \/ \E m \in Message : Post(c, m)

FeedSpec == FeedInit /\ [][FeedNext]_feedVars
=============================================================================
