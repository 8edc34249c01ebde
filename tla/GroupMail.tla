----------------------------- MODULE GroupMail ------------------------------
(***************************************************************************)
(* What FHktReliableUdpServer promises the game that uses it: registered   *)
(* members, the audience of every group, and messages posted to a member   *)
(* or to a whole audience, with at most one member left out. A message is  *)
(* owed to each of its receivers until it has been delivered, for as long  *)
(* as the receiver stays registered. A member that is forgotten leaves     *)
(* every audience and is owed nothing.                                     *)
(***************************************************************************)
EXTENDS FiniteSets

CONSTANTS
    Member, Group, Message,
    Alone    \* stands for the group of a message posted to one member

VARIABLES
    registered,   \* members the server knows
    audience,     \* group -> its members
    sent,         \* member -> orders it ever was a receiver of
    owed,         \* member -> messages the server keeps for it
    delivered     \* member -> messages its game was given

mailVars == <<registered, audience, sent, owed, delivered>>

MailInit ==
    /\ registered = {}
    /\ audience = [g \in Group |-> {}]
    /\ sent = [c \in Member |-> {}]
    /\ owed = [c \in Member |-> {}]
    /\ delivered = [c \in Member |-> {}]

----------------------------------------------------------------------------
\* The server may learn with any message of a member what that member has got.
Settle(c) ==
    \E R \in SUBSET (owed[c] \cap delivered[c]) :
        owed' = [owed EXCEPT ![c] = @ \ R]

Register(c) ==
    /\ c \notin registered
    /\ registered' = registered \cup {c}
    /\ UNCHANGED <<audience, sent, owed, delivered>>

HearFrom(c) ==
    /\ c \in registered
    /\ UNCHANGED <<registered, audience, sent, delivered>>
    /\ Settle(c)

Join(c, g) ==
    /\ c \in registered
    /\ audience' = [audience EXCEPT ![g] = @ \cup {c}]
    /\ UNCHANGED <<registered, sent, delivered>>
    /\ Settle(c)

Leave(c, g) ==
    /\ c \in registered
    /\ audience' = [audience EXCEPT ![g] = @ \ {c}]
    /\ UNCHANGED <<registered, sent, delivered>>
    /\ Settle(c)

\* One or more members end their session or are given up.
Forget(S) ==
    /\ S # {} /\ S \subseteq registered
    /\ registered' = registered \ S
    /\ audience' = [g \in Group |-> audience[g] \ S]
    /\ owed' = [c \in Member |-> IF c \in S THEN {} ELSE owed[c]]
    /\ UNCHANGED <<sent, delivered>>

\* What a message was posted for: the order names the group whose audience it
\* is meant for and who was to be left out.
Order(m, g, X) == [msg |-> m, group |-> g, except |-> X]

Messages(c) == {o.msg : o \in sent[c]}

\* An order is carried out for its receivers S, all of them. A message is posted
\* to a member once.
Post(S, o) ==
    /\ S \subseteq registered
    /\ \A c \in S : o.msg \notin Messages(c)
    /\ sent' = [c \in Member |-> IF c \in S THEN sent[c] \cup {o} ELSE sent[c]]
    /\ owed' = [c \in Member |-> IF c \in S THEN owed[c] \cup {o.msg} ELSE owed[c]]
    /\ UNCHANGED <<registered, audience, delivered>>

PostTo(c, m) == Post({c}, Order(m, Alone, {}))

PostToGroup(g, m, X) == Post(audience[g] \ X, Order(m, g, X))

Deliver(c, m) ==
    /\ m \in Messages(c) \ delivered[c]
    /\ delivered' = [delivered EXCEPT ![c] = @ \cup {m}]
    /\ UNCHANGED <<registered, audience, sent, owed>>

MailNext ==
    \/ \E c \in Member : HearFrom(c) \/ Register(c)
    \/ \E c \in Member, g \in Group : Join(c, g) \/ Leave(c, g)
    \/ \E S \in SUBSET Member : Forget(S)
    \/ \E c \in Member, m \in Message : PostTo(c, m) \/ Deliver(c, m)
    \/ \E g \in Group, m \in Message, X \in {{}} \cup {{c} : c \in Member} :
          PostToGroup(g, m, X)

MailSpec == MailInit /\ [][MailNext]_mailVars
=============================================================================
