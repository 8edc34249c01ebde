-------------------------- MODULE HktGraphProofs ---------------------------
(* What FHktGraph refers to and what it removes, for any ids, subjects, tags *)
(* and addresses.                                                           *)
EXTENDS HktGraph, TLAPS

\* Every behavior is kept under its own id.
KeptById == \A i \in DOMAIN Behaviors : Behaviors[i].id = i

GraphInv == RefsAlive /\ KeptById

\* A reference that RefsAlive allows, from the variables it depends on.
Alive(s, t, a) ==
    \/ \E o \in Owned : o.at = a /\ o.subject = s /\ t \in o.tags
    \/ a \in replaced

\* Adding a behavior keeps the invariant: the only new references are to it,
\* and what it replaces is recorded.
LEMMA AddKeeps ==
    ASSUME NEW b \in Behavior, GraphInv, AddBehavior(b)
    PROVE  GraphInv'
<1>1. /\ DOMAIN Behaviors' = DOMAIN Behaviors \cup {b.id}
      /\ Behaviors'[b.id] = b
      /\ \A i \in DOMAIN Behaviors : i /= b.id => Behaviors'[i] = Behaviors[i]
  BY DEF AddBehavior, WithBehavior
<1>2. ASSUME NEW s, NEW t, NEW a, Alive(s, t, a)
      PROVE  Alive(s, t, a)'
  <2>1. CASE a \in replaced
    BY <2>1 DEF Alive, AddBehavior
  <2>2. ASSUME NEW i \in DOMAIN Behaviors, Behaviors[i].at = a,
               Behaviors[i].subject = s, t \in Behaviors[i].tags
        PROVE  Alive(s, t, a)'
    <3>1. CASE i = b.id
      <4>1. Behaviors[i] \in ReplacedBy(b)
        BY <3>1 DEF ReplacedBy, Owned, GraphInv, KeptById
      <4>2. a \in replaced'
        BY <2>2, <4>1 DEF AddBehavior
      <4> QED BY <4>2 DEF Alive
    <3>2. CASE i /= b.id
      <4>1. i \in DOMAIN Behaviors' /\ Behaviors'[i] = Behaviors[i]
        BY <1>1, <3>2
      <4> QED BY <2>2, <4>1 DEF Alive, Owned
    <3> QED BY <3>1, <3>2
  <2> QED BY <1>2, <2>1, <2>2 DEF Alive, Owned
<1>3. ASSUME NEW s \in DOMAIN SubjectNodes', NEW t \in DOMAIN SubjectNodes'[s],
             NEW a \in SubjectNodes'[s][t]
      PROVE  \/ a = b.at /\ s = b.subject /\ t \in b.tags
             \/ /\ s \in DOMAIN SubjectNodes
                /\ t \in DOMAIN SubjectNodes[s]
                /\ a \in SubjectNodes[s][t]
  <2>1. CASE s = b.subject
    <3>1. SubjectNodes'[s] = WithRefs(b)
      BY <2>1 DEF AddBehavior
    <3>2. a \in (IF HasTagNode(s, t) THEN SubjectNodes[s][t] ELSE {})
                    \cup (IF t \in b.tags THEN {b.at} ELSE {})
      BY <2>1, <3>1 DEF WithRefs
    <3> QED BY <2>1, <3>2 DEF HasTagNode
  <2>2. CASE s /= b.subject
    BY <2>2 DEF AddBehavior
  <2> QED BY <2>1, <2>2
<1>4. RefsAlive'
  <2> SUFFICES ASSUME NEW s \in DOMAIN SubjectNodes',
                      NEW t \in DOMAIN SubjectNodes'[s],
                      NEW a \in SubjectNodes'[s][t]
               PROVE  Alive(s, t, a)'
    BY DEF RefsAlive, Alive
  <2>1. CASE a = b.at /\ s = b.subject /\ t \in b.tags
    <3>1. b \in Owned'
      BY <1>1 DEF Owned
    <3> QED BY <2>1, <3>1 DEF Alive
  <2>2. CASE /\ s \in DOMAIN SubjectNodes
             /\ t \in DOMAIN SubjectNodes[s]
             /\ a \in SubjectNodes[s][t]
    <3>1. Alive(s, t, a)
      BY <2>2 DEF GraphInv, RefsAlive, Alive
    <3> QED BY <1>2, <3>1
  <2> QED BY <1>3, <2>1, <2>2
<1>5. KeptById'
  BY <1>1 DEF GraphInv, KeptById
<1> QED BY <1>4, <1>5 DEF GraphInv

\* Removing a behavior keeps the invariant: every reference to it is under
\* its subject and one of its tags, where RemoveBehavior looks.
LEMMA RemoveKeeps ==
    ASSUME NEW id \in BehaviorId, GraphInv, RemoveBehavior(id)
    PROVE  GraphInv'
<1> DEFINE b == Behaviors[id]
<1>1. id \in DOMAIN Behaviors /\ b.id = id /\ replaced' = replaced
  BY DEF RemoveBehavior, GraphInv, KeptById
<1>2. CASE RemoveNothing(b)
  BY <1>1, <1>2 DEF RemoveNothing, GraphInv, RefsAlive, Owned, KeptById
<1>3. CASE RemoveIndexed(b)
  <2>1. /\ DOMAIN Behaviors' = DOMAIN Behaviors \ {id}
        /\ \A i \in DOMAIN Behaviors' : Behaviors'[i] = Behaviors[i]
    BY <1>1, <1>3 DEF RemoveIndexed, WithoutKey
  <2>2. ASSUME NEW s \in DOMAIN SubjectNodes', NEW t \in DOMAIN SubjectNodes'[s],
               NEW a \in SubjectNodes'[s][t]
        PROVE  /\ s \in DOMAIN SubjectNodes
               /\ t \in DOMAIN SubjectNodes[s]
               /\ a \in SubjectNodes[s][t]
               /\ ~(a = b.at /\ s = b.subject /\ t \in b.tags)
    <3>1. CASE Indexed(b)
      <4>1. SubjectNodes' = [SubjectNodes EXCEPT ![b.subject] = WithoutRefs(b)]
        BY <1>3, <3>1 DEF RemoveIndexed
      <4>2. CASE s = b.subject
        <5>1. s \in DOMAIN SubjectNodes /\ SubjectNodes'[s] = WithoutRefs(b)
          BY <4>1, <4>2
        <5> QED BY <4>2, <5>1 DEF WithoutRefs
      <4>3. CASE s /= b.subject
        BY <4>1, <4>3
      <4> QED BY <4>2, <4>3
    <3>2. CASE ~Indexed(b)
      <4>1. SubjectNodes' = WithoutKey(SubjectNodes, b.subject)
        BY <1>3, <3>2 DEF RemoveIndexed
      <4> QED BY <4>1 DEF WithoutKey
    <3> QED BY <3>1, <3>2
  <2>3. RefsAlive'
    <3> SUFFICES ASSUME NEW s \in DOMAIN SubjectNodes',
                        NEW t \in DOMAIN SubjectNodes'[s],
                        NEW a \in SubjectNodes'[s][t]
                 PROVE  Alive(s, t, a)'
      BY DEF RefsAlive, Alive
    <3>1. Alive(s, t, a)
      BY <2>2 DEF GraphInv, RefsAlive, Alive
    <3>2. CASE a \in replaced
      BY <1>1, <3>2 DEF Alive
    <3>3. ASSUME NEW i \in DOMAIN Behaviors, Behaviors[i].at = a,
                 Behaviors[i].subject = s, t \in Behaviors[i].tags
          PROVE  Alive(s, t, a)'
      <4>1. i /= id
        BY <2>2, <3>3
      <4>2. Behaviors[i] \in Owned'
        BY <2>1, <4>1 DEF Owned
      <4> QED BY <3>3, <4>2 DEF Alive
    <3> QED BY <3>1, <3>2, <3>3 DEF Alive, Owned
  <2>4. KeptById'
    BY <2>1 DEF GraphInv, KeptById
  <2> QED BY <2>3, <2>4 DEF GraphInv
<1> QED BY <1>2, <1>3 DEF RemoveBehavior

\* Dropping a subject only drops references.
LEMMA RemoveSubjectKeeps ==
    ASSUME NEW s \in SubjectId, GraphInv, RemoveSubject(s)
    PROVE  GraphInv'
<1>1. /\ DOMAIN SubjectNodes' \subseteq DOMAIN SubjectNodes
      /\ \A x \in DOMAIN SubjectNodes' : SubjectNodes'[x] = SubjectNodes[x]
  BY DEF RemoveSubject, WithoutKey
<1> QED BY <1>1 DEF GraphInv, RefsAlive, Owned, KeptById, RemoveSubject

\* For any ids, subjects, tags and addresses and any order of calls of FHktGraph,
\* ids added again included, a pointer in a tag node is that of a behavior the
\* graph owns, of that subject and tag, or was left by the replacement of a
\* behavior at that address (HktGraph.cpp:51).
THEOREM RefsAlwaysAlive == GraphSpec => []RefsAlive
<1>1. GraphInit => GraphInv
  BY DEF GraphInit, GraphInv, RefsAlive, KeptById
<1>2. GraphInv /\ [GraphNext]_graphVars => GraphInv'
  <2> SUFFICES ASSUME GraphInv, [GraphNext]_graphVars PROVE GraphInv'
    OBVIOUS
  <2>1. CASE \E b \in Behavior : AddBehavior(b)
    BY <2>1, AddKeeps
  <2>2. CASE \E id \in BehaviorId : RemoveBehavior(id)
    BY <2>2, RemoveKeeps
  <2>3. CASE \E s \in SubjectId : RemoveSubject(s)
    BY <2>3, RemoveSubjectKeeps
  <2>4. CASE UNCHANGED graphVars
    BY <2>4 DEF graphVars, GraphInv, RefsAlive, Owned, KeptById
  <2> QED BY <2>1, <2>2, <2>3, <2>4 DEF GraphNext
<1>3. GraphInv => RefsAlive
  BY DEF GraphInv
<1> QED BY <1>1, <1>2, <1>3, PTL DEF GraphSpec

----------------------------------------------------------------------------
(* Types. GraphTypeOK is inductive.                                         *)

\* The tag nodes of one subject are of their type.
TagNodesOK(nodes) ==
    /\ IsPartialFunction(nodes, Tag)
    /\ \A t \in DOMAIN nodes : nodes[t] \subseteq Address

\* What adding and removing references makes of the tag nodes of a subject.
LEMMA WithRefsType ==
    ASSUME NEW b \in Behavior, GraphTypeOK
    PROVE  TagNodesOK(WithRefs(b))
<1> DEFINE N == WithRefs(b)
<1>1. /\ DOMAIN N \subseteq Tag
      /\ N = [t \in DOMAIN N |-> N[t]]
  BY DEF WithRefs
<1>2. ASSUME NEW t \in DOMAIN N PROVE N[t] \subseteq Address
  <2>1. N[t] = (IF HasTagNode(b.subject, t) THEN SubjectNodes[b.subject][t] ELSE {})
                   \cup (IF t \in b.tags THEN {b.at} ELSE {})
    BY DEF WithRefs
  <2>2. HasTagNode(b.subject, t) => SubjectNodes[b.subject][t] \subseteq Address
    BY DEF GraphTypeOK, HasTagNode
  <2> QED BY <2>1, <2>2 DEF Behavior
<1> QED BY <1>1, <1>2 DEF TagNodesOK, IsPartialFunction

LEMMA WithoutRefsType ==
    ASSUME NEW b \in Behavior, GraphTypeOK, b.subject \in DOMAIN SubjectNodes
    PROVE  TagNodesOK(WithoutRefs(b))
<1> DEFINE N == WithoutRefs(b)
<1>1. DOMAIN SubjectNodes[b.subject] \subseteq Tag
  BY DEF GraphTypeOK, IsPartialFunction
<1>2. /\ DOMAIN N \subseteq Tag
      /\ N = [t \in DOMAIN N |-> N[t]]
  BY <1>1 DEF WithoutRefs
<1>3. ASSUME NEW t \in DOMAIN N PROVE N[t] \subseteq Address
  <2>1. N[t] \subseteq SubjectNodes[b.subject][t] /\ t \in DOMAIN SubjectNodes[b.subject]
    BY DEF WithoutRefs
  <2> QED BY <2>1 DEF GraphTypeOK
<1> QED BY <1>2, <1>3 DEF TagNodesOK, IsPartialFunction

\* A key less keeps a function partial.
LEMMA WithoutKeyPartial ==
    ASSUME NEW f, NEW S, NEW k, IsPartialFunction(f, S)
    PROVE  /\ IsPartialFunction(WithoutKey(f, k), S)
           /\ DOMAIN WithoutKey(f, k) = DOMAIN f \ {k}
           /\ \A x \in DOMAIN f \ {k} : WithoutKey(f, k)[x] = f[x]
BY DEF IsPartialFunction, WithoutKey

\* The type of SubjectNodes, from that of the nodes of every subject.
LEMMA NodesType ==
    ASSUME GraphTypeOK
    PROVE  \A s \in DOMAIN SubjectNodes : TagNodesOK(SubjectNodes[s])
BY DEF GraphTypeOK, TagNodesOK

\* The same once the node of a subject is dropped.
LEMMA DroppedType ==
    ASSUME NEW k, GraphTypeOK
    PROVE  /\ IsPartialFunction(WithoutKey(SubjectNodes, k), SubjectId)
           /\ \A x \in DOMAIN WithoutKey(SubjectNodes, k) :
                  TagNodesOK(WithoutKey(SubjectNodes, k)[x])
<1>1. IsPartialFunction(SubjectNodes, SubjectId)
  BY DEF GraphTypeOK
<1>2. IsPartialFunction(WithoutKey(SubjectNodes, k), SubjectId)
  BY <1>1, WithoutKeyPartial
<1>3. /\ DOMAIN WithoutKey(SubjectNodes, k) = DOMAIN SubjectNodes \ {k}
      /\ \A x \in DOMAIN SubjectNodes \ {k} : WithoutKey(SubjectNodes, k)[x] = SubjectNodes[x]
  BY <1>1, WithoutKeyPartial
<1>4. ASSUME NEW x \in DOMAIN WithoutKey(SubjectNodes, k)
      PROVE  TagNodesOK(WithoutKey(SubjectNodes, k)[x])
  <2>1. x \in DOMAIN SubjectNodes /\ WithoutKey(SubjectNodes, k)[x] = SubjectNodes[x]
    BY <1>3
  <2> QED BY <2>1, NodesType
<1> QED BY <1>2, <1>4

LEMMA AddTypes ==
    ASSUME NEW b \in Behavior, GraphTypeOK, AddBehavior(b)
    PROVE  GraphTypeOK'
<1>1. b.id \in BehaviorId /\ b.subject \in SubjectId
  BY DEF Behavior
<1>2. IsPartialFunction(Behaviors', BehaviorId)
  BY <1>1 DEF AddBehavior, WithBehavior, GraphTypeOK, IsPartialFunction
<1>3. \A i \in DOMAIN Behaviors' : Behaviors'[i] \in Behavior /\ Behaviors'[i].id = i
  BY DEF AddBehavior, WithBehavior, GraphTypeOK
<1>4. IsPartialFunction(SubjectNodes', SubjectId)
  BY <1>1 DEF AddBehavior, GraphTypeOK, IsPartialFunction
<1>5. \A s \in DOMAIN SubjectNodes' : TagNodesOK(SubjectNodes'[s])
  <2> SUFFICES ASSUME NEW s \in DOMAIN SubjectNodes' PROVE TagNodesOK(SubjectNodes'[s])
    OBVIOUS
  <2>1. CASE s = b.subject
    BY <2>1, WithRefsType DEF AddBehavior
  <2>2. CASE s /= b.subject
    BY <2>2, NodesType DEF AddBehavior
  <2> QED BY <2>1, <2>2
<1>6. replaced' \subseteq Address /\ removed' \subseteq BehaviorId
  <2>1. \A o \in Owned : o.at \in Address
    BY DEF Owned, GraphTypeOK, Behavior
  <2> QED BY <2>1 DEF AddBehavior, ReplacedBy, GraphTypeOK
<1> QED BY <1>2, <1>3, <1>4, <1>5, <1>6 DEF GraphTypeOK, TagNodesOK

LEMMA RemoveTypes ==
    ASSUME NEW id \in BehaviorId, GraphTypeOK, RemoveBehavior(id)
    PROVE  GraphTypeOK'
<1> DEFINE b == Behaviors[id]
<1>1. id \in DOMAIN Behaviors /\ b \in Behavior /\ b.id = id
  BY DEF RemoveBehavior, GraphTypeOK
<1>2. replaced' \subseteq Address /\ removed' \subseteq BehaviorId
  BY <1>1 DEF RemoveBehavior, GraphTypeOK
<1>3. CASE RemoveNothing(b)
  BY <1>2, <1>3 DEF RemoveNothing, GraphTypeOK, IsPartialFunction
<1>4. CASE RemoveIndexed(b)
  <2>1. b.subject \in DOMAIN SubjectNodes
    BY <1>4 DEF RemoveIndexed
  <2>2. Behaviors' = WithoutKey(Behaviors, id)
    BY <1>1, <1>4 DEF RemoveIndexed
  <2>3. IsPartialFunction(Behaviors', BehaviorId)
    BY <2>2, WithoutKeyPartial DEF GraphTypeOK
  <2>4. \A i \in DOMAIN Behaviors' : Behaviors'[i] \in Behavior /\ Behaviors'[i].id = i
    BY <2>2 DEF WithoutKey, GraphTypeOK
  <2>5. CASE Indexed(b)
    <3>1. SubjectNodes' = [SubjectNodes EXCEPT ![b.subject] = WithoutRefs(b)]
      BY <1>4, <2>5 DEF RemoveIndexed
    <3>2. IsPartialFunction(SubjectNodes', SubjectId)
      BY <3>1 DEF GraphTypeOK, IsPartialFunction
    <3>3. \A s \in DOMAIN SubjectNodes' : TagNodesOK(SubjectNodes'[s])
      BY <1>1, <2>1, <3>1, WithoutRefsType, NodesType
    <3> QED BY <1>2, <2>3, <2>4, <3>2, <3>3 DEF GraphTypeOK, TagNodesOK
  <2>6. CASE ~Indexed(b)
    <3>1. SubjectNodes' = WithoutKey(SubjectNodes, b.subject)
      BY <1>4, <2>6 DEF RemoveIndexed
    <3>2. /\ IsPartialFunction(SubjectNodes', SubjectId)
          /\ \A s \in DOMAIN SubjectNodes' : TagNodesOK(SubjectNodes'[s])
      BY <3>1, DroppedType
    <3> QED BY <1>2, <2>3, <2>4, <3>2 DEF GraphTypeOK, TagNodesOK
  <2> QED BY <2>5, <2>6
<1> QED BY <1>3, <1>4 DEF RemoveBehavior

LEMMA RemoveSubjectTypes ==
    ASSUME NEW s \in SubjectId, GraphTypeOK, RemoveSubject(s)
    PROVE  GraphTypeOK'
<1>1. /\ IsPartialFunction(SubjectNodes', SubjectId)
      /\ \A x \in DOMAIN SubjectNodes' : TagNodesOK(SubjectNodes'[x])
  BY DroppedType DEF RemoveSubject
<1> QED BY <1>1 DEF RemoveSubject, GraphTypeOK, TagNodesOK, IsPartialFunction

\* Both maps keep the types FContext declares and every behavior stays under
\* the id it returns, for any ids, subjects, tags and addresses (HktGraph.cpp:51).
THEOREM GraphTypeCorrect == GraphSpec => []GraphTypeOK
<1>1. GraphInit => GraphTypeOK
  BY DEF GraphInit, GraphTypeOK, IsPartialFunction
<1>2. GraphTypeOK /\ [GraphNext]_graphVars => GraphTypeOK'
  <2> SUFFICES ASSUME GraphTypeOK, [GraphNext]_graphVars PROVE GraphTypeOK'
    OBVIOUS
  <2>1. CASE \E b \in Behavior : AddBehavior(b)
    BY <2>1, AddTypes
  <2>2. CASE \E id \in BehaviorId : RemoveBehavior(id)
    BY <2>2, RemoveTypes
  <2>3. CASE \E s \in SubjectId : RemoveSubject(s)
    BY <2>3, RemoveSubjectTypes
  <2>4. CASE UNCHANGED graphVars
    BY <2>4 DEF graphVars, GraphTypeOK, IsPartialFunction
  <2> QED BY <2>1, <2>2, <2>3, <2>4 DEF GraphNext
<1> QED BY <1>1, <1>2, PTL DEF GraphSpec

----------------------------------------------------------------------------
(* When RemoveBehavior does remove.                                         *)

\* How a caller may use the graph: two behaviors of one subject both have
\* tags, and no subject is removed. Without tags, as the behaviors of the
\* repository are (THktBehavior::GetTags), it keeps one behavior for a subject.
\* The violation needs the one or the other.
SharedTagged ==
    \A i, j \in DOMAIN Behaviors :
        i /= j /\ Behaviors[i].subject = Behaviors[j].subject => Behaviors[i].tags /= {}
SubjectStays == ~ \E s \in SubjectId : RemoveSubject(s)

\* Then every behavior has the node of its subject, and one with tags is found
\* under one of them, so that no node goes that another behavior needs.
NodeIn(N, s, t) == s \in DOMAIN N /\ t \in DOMAIN N[s]
IndexedIn(N, b) ==
    /\ b.subject \in DOMAIN N
    /\ b.tags = {} \/ \E t \in b.tags : NodeIn(N, b.subject, t)
AllIndexed == \A i \in DOMAIN Behaviors : IndexedIn(SubjectNodes, Behaviors[i])

RemovalInv == GraphTypeOK /\ AllIndexed /\ RemovedIsGone

\* An addition drops no node, of the subject or of a tag.
LEMMA AddIndexes ==
    ASSUME NEW b \in Behavior, RemovalInv, AddBehavior(b)
    PROVE  AllIndexed' /\ RemovedIsGone'
<1>1. /\ DOMAIN Behaviors' = DOMAIN Behaviors \cup {b.id}
      /\ Behaviors'[b.id] = b
      /\ \A i \in DOMAIN Behaviors : i /= b.id => Behaviors'[i] = Behaviors[i]
  BY DEF AddBehavior, WithBehavior
<1>2. b.subject \in DOMAIN SubjectNodes' /\ SubjectNodes'[b.subject] = WithRefs(b)
  BY DEF AddBehavior
<1>3. DOMAIN SubjectNodes \subseteq DOMAIN SubjectNodes'
  BY DEF AddBehavior
<1>4. ASSUME NEW s, NEW t \in Tag, NodeIn(SubjectNodes, s, t)
      PROVE  NodeIn(SubjectNodes', s, t)
  <2>1. CASE s = b.subject
    BY <1>2, <1>4, <2>1 DEF WithRefs, HasTagNode, NodeIn
  <2>2. CASE s /= b.subject
    BY <1>4, <2>2 DEF AddBehavior, NodeIn
  <2> QED BY <2>1, <2>2
<1>5. IndexedIn(SubjectNodes', b)
  <2>1. ASSUME NEW t \in b.tags PROVE NodeIn(SubjectNodes', b.subject, t)
    BY <1>2 DEF WithRefs, NodeIn, Behavior
  <2> QED BY <1>2, <2>1 DEF IndexedIn
<1>6. ASSUME NEW i \in DOMAIN Behaviors', i /= b.id
      PROVE  IndexedIn(SubjectNodes', Behaviors'[i])
  <2>1. i \in DOMAIN Behaviors /\ Behaviors'[i] = Behaviors[i]
    BY <1>1, <1>6
  <2>2. Behaviors[i].tags \subseteq Tag /\ IndexedIn(SubjectNodes, Behaviors[i])
    BY <2>1 DEF RemovalInv, GraphTypeOK, AllIndexed, Behavior
  <2>3. IndexedIn(SubjectNodes', Behaviors[i])
    BY <1>3, <1>4, <2>2 DEF IndexedIn
  <2> QED BY <2>1, <2>3
<1>7. AllIndexed'
  BY <1>1, <1>5, <1>6 DEF AllIndexed
<1>8. RemovedIsGone'
  BY <1>1 DEF AddBehavior, RemovalInv, RemovedIsGone
<1> QED BY <1>7, <1>8

\* A removal drops tag nodes only with the node of a subject no other behavior has.
LEMMA RemoveRemoves ==
    ASSUME NEW id \in BehaviorId, RemovalInv, SharedTagged, RemoveBehavior(id)
    PROVE  AllIndexed' /\ RemovedIsGone'
<1> DEFINE b == Behaviors[id]
<1>1. id \in DOMAIN Behaviors /\ b.id = id /\ IndexedIn(SubjectNodes, b)
  BY DEF RemoveBehavior, RemovalInv, GraphTypeOK, AllIndexed
<1>2. RemoveIndexed(b)
  BY <1>1 DEF RemoveBehavior, RemoveNothing, IndexedIn
<1>3. /\ DOMAIN Behaviors' = DOMAIN Behaviors \ {id}
      /\ \A i \in DOMAIN Behaviors' : Behaviors'[i] = Behaviors[i]
  BY <1>1, <1>2 DEF RemoveIndexed, WithoutKey
<1>4. ASSUME NEW i \in DOMAIN Behaviors'
      PROVE  IndexedIn(SubjectNodes', Behaviors'[i])
  <2> DEFINE o == Behaviors[i]
  <2>1. /\ i \in DOMAIN Behaviors /\ i /= id /\ Behaviors'[i] = o
        /\ IndexedIn(SubjectNodes, o)
    BY <1>3 DEF RemovalInv, AllIndexed
  <2>2. CASE Indexed(b)
    <3>1. SubjectNodes' = [SubjectNodes EXCEPT ![b.subject] = WithoutRefs(b)]
      BY <1>2, <2>2 DEF RemoveIndexed
    <3>2. DOMAIN WithoutRefs(b) = DOMAIN SubjectNodes[b.subject]
      BY DEF WithoutRefs
    <3>3. /\ DOMAIN SubjectNodes' = DOMAIN SubjectNodes
          /\ \A s \in DOMAIN SubjectNodes : DOMAIN SubjectNodes'[s] = DOMAIN SubjectNodes[s]
      BY <3>1, <3>2
    <3>4. IndexedIn(SubjectNodes', o)
      BY <2>1, <3>3 DEF IndexedIn, NodeIn
    <3> QED BY <2>1, <3>4
  <2>3. CASE ~Indexed(b)
    <3>1. SubjectNodes' = WithoutKey(SubjectNodes, b.subject)
      BY <1>2, <2>3 DEF RemoveIndexed
    <3>2. b.tags = {}
      BY <1>1, <2>3 DEF IndexedIn, NodeIn, Indexed, HasTagNode
    <3>3. o.subject /= b.subject
      BY <1>1, <2>1, <3>2 DEF SharedTagged
    <3>4. IndexedIn(SubjectNodes', o)
      BY <2>1, <3>1, <3>3 DEF IndexedIn, NodeIn, WithoutKey
    <3> QED BY <2>1, <3>4
  <2> QED BY <2>2, <2>3
<1>5. RemovedIsGone'
  BY <1>3 DEF RemoveBehavior, RemovalInv, RemovedIsGone
<1> QED BY <1>4, <1>5 DEF AllIndexed

\* The other side of the violation RemovedIsGone shows: as long as behaviors
\* that share a subject have tags and no subject is removed, what RemoveBehavior
\* is called for is gone (HktGraph.cpp:66-101), for any ids, subjects, tags and
\* addresses. The test of HktBaseTestsBase.cpp:60-77, with its one behavior without
\* tags, keeps to it.
THEOREM RemovedGoneWhileIndexed ==
    GraphSpec /\ []SharedTagged /\ [][SubjectStays]_graphVars => []RemovedIsGone
<1> DEFINE Rest == AllIndexed /\ RemovedIsGone
<1>1. GraphInit => Rest
  BY DEF GraphInit, AllIndexed, RemovedIsGone
<1>2. GraphTypeOK /\ Rest /\ SharedTagged /\ [GraphNext]_graphVars
          /\ [SubjectStays]_graphVars => Rest'
  <2> SUFFICES ASSUME RemovalInv, SharedTagged, [GraphNext]_graphVars,
                      [SubjectStays]_graphVars
               PROVE  Rest'
    BY DEF RemovalInv
  <2>1. CASE \E b \in Behavior : AddBehavior(b)
    BY <2>1, AddIndexes
  <2>2. CASE \E id \in BehaviorId : RemoveBehavior(id)
    BY <2>2, RemoveRemoves
  <2>3. CASE UNCHANGED graphVars
    BY <2>3 DEF graphVars, RemovalInv, AllIndexed, RemovedIsGone
  <2> QED BY <2>1, <2>2, <2>3 DEF GraphNext, SubjectStays
<1>3. Rest => RemovedIsGone
  OBVIOUS
<1> QED BY <1>1, <1>2, <1>3, GraphTypeCorrect, PTL DEF GraphSpec
=============================================================================
