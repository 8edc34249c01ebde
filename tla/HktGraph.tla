----------------------------- MODULE HktGraph ------------------------------
(***************************************************************************)
(* FHktGraph (HktBase): owns behaviors by id and indexes raw pointers to   *)
(* them by subject and tag. Each public operation is one action, since the *)
(* graph is used from one thread. A behavior is an object: what its getters *)
(* return, and the address it is kept at while the graph owns it.          *)
(***************************************************************************)
CONSTANTS BehaviorId, SubjectId, Tag,
          Address   \* where behaviors are allocated; an address is used again

VARIABLES
    Behaviors,     \* FContext::Behaviors, a function on the ids in the map
    SubjectNodes,  \* FContext::SubjectNodes, on the subjects that have a node:
                   \* FSubjectNode::TagNodes, on its tags, the BehaviorRefs
    replaced,      \* history: addresses of the behaviors AddBehavior destroyed
    removed        \* history: the ids RemoveBehavior was called for last

graphVars == <<Behaviors, SubjectNodes, replaced, removed>>

Behavior == [at : Address, id : BehaviorId, subject : SubjectId, tags : SUBSET Tag]

IsPartialFunction(f, S) == DOMAIN f \subseteq S /\ f = [x \in DOMAIN f |-> f[x]]
WithoutKey(f, k) == [x \in DOMAIN f \ {k} |-> f[x]]

GraphInit ==
    /\ Behaviors = << >>
    /\ SubjectNodes = << >>
    /\ replaced = {}
    /\ removed = {}

HasTagNode(s, t) == s \in DOMAIN SubjectNodes /\ t \in DOMAIN SubjectNodes[s]

\* A bug: the map is keyed by the subject.
WithBehaviorBySubject(b) ==
    [i \in DOMAIN Behaviors \cup {b.subject} |->
        IF i = b.subject THEN b ELSE Behaviors[i]]

\* Behaviors.Emplace: destroys what the id stood for.
WithBehavior(b) ==
    [i \in DOMAIN Behaviors \cup {b.id} |-> IF i = b.id THEN b ELSE Behaviors[i]]

\* The tag nodes of b's subject once b is referred to under each of its tags.
WithRefs(b) ==
    [t \in {u \in Tag : u \in b.tags \/ HasTagNode(b.subject, u)} |->
        (IF HasTagNode(b.subject, t) THEN SubjectNodes[b.subject][t] ELSE {})
            \cup (IF t \in b.tags THEN {b.at} ELSE {})]

\* A bug: the search stops at the first tag that refers to b.
WithoutRefsFirstOnly(b) ==
    LET first == CHOOSE t \in b.tags : TRUE
    IN  [t \in DOMAIN SubjectNodes[b.subject] |->
            IF b.tags /= {} /\ t = first THEN SubjectNodes[b.subject][t] \ {b.at}
                                         ELSE SubjectNodes[b.subject][t]]

\* The tag nodes of b's subject once b is referred to under none of its tags;
\* nodes left empty stay.
WithoutRefs(b) ==
    [t \in DOMAIN SubjectNodes[b.subject] |->
        IF t \in b.tags THEN SubjectNodes[b.subject][t] \ {b.at}
                        ELSE SubjectNodes[b.subject][t]]

\* The behaviors the graph owns, and those an addition of b destroys.
Owned == {Behaviors[i] : i \in DOMAIN Behaviors}
ReplacedBy(b) == {o \in Owned : o.id = b.id}

\* A new behavior is allocated where no other is. If its id is in use, the
\* behavior that has it is destroyed, and the tag nodes still refer to it.
AddBehavior(b) ==
    /\ \A o \in Owned : o.at /= b.at
    /\ SubjectNodes' = [s \in DOMAIN SubjectNodes \cup {b.subject} |->
                           IF s = b.subject THEN WithRefs(b)
                                            ELSE SubjectNodes[s]]
    /\ Behaviors' = WithBehavior(b)
    /\ replaced' = replaced \cup {o.at : o \in ReplacedBy(b)}
    /\ removed' = removed \ {b.id}

\* bExist in RemoveBehavior.
Indexed(b) == \E t \in b.tags : HasTagNode(b.subject, t)

\* The whole node of the subject goes when no tag of b is in it, as it does for
\* every behavior without tags.
RemoveIndexed(b) ==
    /\ b.subject \in DOMAIN SubjectNodes
    /\ SubjectNodes' =
           IF Indexed(b)
           THEN [SubjectNodes EXCEPT ![b.subject] = WithoutRefs(b)]
           ELSE WithoutKey(SubjectNodes, b.subject)
    /\ Behaviors' = WithoutKey(Behaviors, b.id)

\* The early return: the subject has no node.
RemoveNothing(b) ==
    /\ b.subject \notin DOMAIN SubjectNodes
    /\ UNCHANGED <<Behaviors, SubjectNodes>>

RemoveBehavior(id) ==
    /\ id \in DOMAIN Behaviors
    /\ RemoveIndexed(Behaviors[id]) \/ RemoveNothing(Behaviors[id])
    /\ removed' = removed \cup {id}
    /\ UNCHANGED replaced

\* The behaviors of the subject stay in Behaviors.
RemoveSubject(s) ==
    /\ s \in DOMAIN SubjectNodes
    /\ SubjectNodes' = WithoutKey(SubjectNodes, s)
    /\ UNCHANGED <<Behaviors, replaced, removed>>

GraphNext ==
    \/ \E b \in Behavior : AddBehavior(b)
    \/ \E id \in BehaviorId : RemoveBehavior(id)
    \/ \E s \in SubjectId : RemoveSubject(s)

GraphSpec == GraphInit /\ [][GraphNext]_graphVars

----------------------------------------------------------------------------
\* Both maps have the types FContext declares, and every behavior is kept
\* under the id it returns from GetBehaviorId (HktGraph.cpp:51).
GraphTypeOK ==
    /\ IsPartialFunction(Behaviors, BehaviorId)
    /\ \A i \in DOMAIN Behaviors : Behaviors[i] \in Behavior /\ Behaviors[i].id = i
    /\ IsPartialFunction(SubjectNodes, SubjectId)
    /\ \A s \in DOMAIN SubjectNodes :
           /\ IsPartialFunction(SubjectNodes[s], Tag)
           /\ \A t \in DOMAIN SubjectNodes[s] : SubjectNodes[s][t] \subseteq Address
    /\ replaced \subseteq Address
    /\ removed \subseteq BehaviorId

\* A pointer in a tag node is that of a behavior the graph owns, of that subject
\* and with that tag, unless AddBehavior has destroyed a behavior at that address,
\* its id being added again (line 51): whatever subjects and behaviors were
\* removed and added in between, RemoveBehavior finds every reference to what
\* it destroys (lines 84-100), and a re-used id is the only way to a dangling one.
RefsAlive ==
    \A s \in DOMAIN SubjectNodes : \A t \in DOMAIN SubjectNodes[s] :
        \A a \in SubjectNodes[s][t] :
            \/ \E o \in Owned : o.at = a /\ o.subject = s /\ t \in o.tags
            \/ a \in replaced

\* A behavior for which RemoveBehavior has been called, and no AddBehavior
\* since, is not in the graph, as HktBaseTestsBase.cpp:77 expects. Violated:
\* RemoveBehavior returns early when the subject has no node (HktGraph.cpp:80-81),
\* and a subject with behaviors loses it to RemoveSubject, or to the removal
\* of any of its behaviors none of whose tags is indexed (lines 95-98).
RemovedIsGone == removed \cap DOMAIN Behaviors = {}
=============================================================================
