------------------------ MODULE BehaviorTypesProofs ------------------------
(* What type ids are good for in every build: OwnAsSent.                   *)
EXTENDS BehaviorTypes, TLAPS

Types ==
    /\ DOMAIN Id = Image
    /\ Counter \in [Image -> Nat]
    /\ started \in [Image -> Nat]

\* The numbers of an image are those its counter has passed, one for each type.
Numbered ==
    \A i \in Image : \A t \in DOMAIN Id[i] :
        /\ Id[i][t] \in 0 .. Counter[i] - 1
        /\ \A u \in DOMAIN Id[i] : Id[i][t] = Id[i][u] => t = u

\* A creator is registered under the number of its type in HktBase's image.
CreatorsOfBase ==
    \A n \in DOMAIN Creators :
        Creators[n] \in DOMAIN Id[Base] /\ Id[Base][Creators[n]] = n

\* A header carries the number its image has given to the type of the payload, or
\* the one that is given to no type.
HeaderNumbered(h) ==
    \/ h.payload = NoBehavior /\ h.FlagmentTypeId = DestroyBehaviorTypeId
    \/ /\ h.payload \in DOMAIN Id[h.image]
       /\ h.FlagmentTypeId = Id[h.image][h.payload]

HeadersNumbered == \A h \in headers : h.image \in Image /\ HeaderNumbered(h)

\* No registrar of an image that has none is ever constructed.
NothingElseStarts == \A i \in Image \ {Base} : started[i] = 0

IInv == Types /\ Numbered /\ CreatorsOfBase /\ HeadersNumbered /\ NothingElseStarts

LEMMA InitInv == ASSUME Build, Init PROVE IInv
BY DEF Build, Init, IInv, Types, Numbered, CreatorsOfBase, HeadersNumbered,
       NothingElseStarts

\* Using a type gives it a number no other type of the image has, and changes no
\* number given before.
LEMMA UseKeeps ==
    ASSUME NEW i \in Image, NEW t, NEW n, Types, Numbered,
           GetBehaviorTypeId(i, t, n)
    PROVE  /\ DOMAIN Id' = Image /\ Counter' \in [Image -> Nat] /\ Numbered'
           /\ t \in DOMAIN Id'[i] /\ Id'[i][t] = n
           /\ \A j \in Image : \A u \in DOMAIN Id[j] :
                 u \in DOMAIN Id'[j] /\ Id'[j][u] = Id[j][u]
<1>1. CASE t \in DOMAIN Id[i]
  BY <1>1 DEF GetBehaviorTypeId, Types, Numbered
<1>2. CASE t \notin DOMAIN Id[i]
  <2>1. /\ n = Counter[i]
        /\ Id' = [Id EXCEPT ![i] = Put(Id[i], t, n)]
        /\ Counter' = [Counter EXCEPT ![i] = Counter[i] + 1]
    BY <1>2 DEF GetBehaviorTypeId
  <2>2. DOMAIN Id' = Image /\ Counter' \in [Image -> Nat]
    BY <2>1 DEF Types
  <2>3. /\ DOMAIN Id'[i] = DOMAIN Id[i] \cup {t}
        /\ Id'[i][t] = n
        /\ \A u \in DOMAIN Id[i] : Id'[i][u] = Id[i][u]
    BY <1>2, <2>1 DEF Types, Put
  <2>4. \A j \in Image \ {i} : Id'[j] = Id[j] /\ Counter'[j] = Counter[j]
    BY <2>1 DEF Types
  <2>5. Counter'[i] = Counter[i] + 1 /\ Counter[i] \in Nat
    BY <2>1 DEF Types
  <2>6. Numbered'
    <3> SUFFICES ASSUME NEW j \in Image, NEW u \in DOMAIN Id'[j]
                 PROVE  /\ Id'[j][u] \in 0 .. Counter'[j] - 1
                        /\ \A v \in DOMAIN Id'[j] : Id'[j][u] = Id'[j][v] => u = v
      BY DEF Numbered
    <3>1. CASE j # i
      BY <2>4, <3>1 DEF Numbered
    <3>2. CASE j = i
      <4>1. \A v \in DOMAIN Id[i] : Id'[i][v] \in 0 .. Counter[i] - 1
        BY <2>3 DEF Numbered
      <4>2. Id'[i][t] = Counter[i]
        BY <2>1, <2>3
      <4>3. Id'[i][u] \in 0 .. Counter'[i] - 1
        BY <2>3, <2>5, <3>2, <4>1, <4>2
      <4>4. ASSUME NEW v \in DOMAIN Id'[i], Id'[i][u] = Id'[i][v] PROVE u = v
        <5>1. CASE u = t \/ v = t
          BY <2>3, <2>5, <3>2, <4>1, <4>2, <4>4, <5>1
        <5>2. CASE u # t /\ v # t
          BY <2>3, <3>2, <4>4, <5>2 DEF Numbered
        <5> QED BY <5>1, <5>2
      <4> QED BY <3>2, <4>3, <4>4
    <3> QED BY <3>1, <3>2
  <2> QED BY <2>2, <2>3, <2>4, <2>6
<1> QED BY <1>1, <1>2

LEMMA RegistrarInv ==
    ASSUME Build, OnlyBaseRegisters, IInv, NEW i \in Image, Registrar(i)
    PROVE  IInv'
<1> DEFINE t == Registrars[i][started[i] + 1]
<1>1. i = Base
  BY DEF Registrar, Loaded, OnlyBaseRegisters, Build, IInv, NothingElseStarts
<1>2. PICK n : /\ GetBehaviorTypeId(i, t, n)
               /\ Creators' = IF n \in DOMAIN Creators THEN Creators ELSE Put(Creators, n, t)
  BY DEF Registrar
<1>3. /\ DOMAIN Id' = Image /\ Counter' \in [Image -> Nat] /\ Numbered'
      /\ t \in DOMAIN Id'[i] /\ Id'[i][t] = n
      /\ \A j \in Image : \A u \in DOMAIN Id[j] :
            u \in DOMAIN Id'[j] /\ Id'[j][u] = Id[j][u]
  BY <1>2, UseKeeps DEF IInv
<1>4. started' = [started EXCEPT ![i] = started[i] + 1] /\ headers' = headers
  BY DEF Registrar
<1>5. Types' /\ NothingElseStarts'
  BY <1>1, <1>3, <1>4 DEF IInv, Types, NothingElseStarts
<1>6. CreatorsOfBase'
  BY <1>1, <1>2, <1>3 DEF IInv, CreatorsOfBase, Put
<1>7. HeadersNumbered'
  BY <1>3, <1>4 DEF IInv, HeadersNumbered, HeaderNumbered
<1> QED BY <1>3, <1>5, <1>6, <1>7 DEF IInv

LEMMA RequestInv ==
    ASSUME Build, IInv, NEW i \in Image, NEW t \in Flagment, CreateBehaviorRequest(i, t)
    PROVE  IInv'
<1>1. PICK n : /\ GetBehaviorTypeId(i, t, n)
               /\ headers' = headers \cup {[image |-> i, FlagmentTypeId |-> n, payload |-> t]}
  BY DEF CreateBehaviorRequest
<1>2. /\ DOMAIN Id' = Image /\ Counter' \in [Image -> Nat] /\ Numbered'
      /\ t \in DOMAIN Id'[i] /\ Id'[i][t] = n
      /\ \A j \in Image : \A u \in DOMAIN Id[j] :
            u \in DOMAIN Id'[j] /\ Id'[j][u] = Id[j][u]
  BY <1>1, UseKeeps DEF IInv
<1>3. Creators' = Creators /\ started' = started
  BY DEF CreateBehaviorRequest
<1>4. Types' /\ NothingElseStarts'
  BY <1>2, <1>3 DEF IInv, Types, NothingElseStarts
<1>5. CreatorsOfBase'
  BY <1>2, <1>3 DEF IInv, CreatorsOfBase, Build
<1>6. HeadersNumbered'
  <2> SUFFICES ASSUME NEW h \in headers'
               PROVE  h.image \in Image /\ HeaderNumbered(h)'
    BY DEF HeadersNumbered
  <2>1. CASE h \in headers
    BY <1>2, <2>1 DEF IInv, HeadersNumbered, HeaderNumbered
  <2>2. CASE h = [image |-> i, FlagmentTypeId |-> n, payload |-> t]
    BY <1>2, <2>2 DEF HeaderNumbered
  <2> QED BY <1>1, <2>1, <2>2
<1> QED BY <1>2, <1>4, <1>5, <1>6 DEF IInv

LEMMA DestroyInv ==
    ASSUME IInv, NEW i \in Image, DestroyBehaviorRequest(i)
    PROVE  IInv'
BY DEF DestroyBehaviorRequest, IInv, Types, Numbered, CreatorsOfBase, HeadersNumbered,
       HeaderNumbered, NothingElseStarts

LEMMA StepInv == ASSUME Build, OnlyBaseRegisters, IInv, [Next]_vars PROVE IInv'
<1>1. CASE \E i \in Image : Registrar(i)
  BY <1>1, RegistrarInv
<1>2. CASE \E i \in Image : \E t \in Flagment : CreateBehaviorRequest(i, t)
  BY <1>2, RequestInv
<1>3. CASE \E i \in Image : DestroyBehaviorRequest(i)
  BY <1>3, DestroyInv
<1>4. CASE UNCHANGED vars
  BY <1>4 DEF vars, IInv, Types, Numbered, CreatorsOfBase, HeadersNumbered,
              HeaderNumbered, NothingElseStarts
<1> QED BY <1>1, <1>2, <1>3, <1>4 DEF Next

\* The creator under the number of one of HktBase's headers is that of its payload,
\* since HktBase gives a number to one type only, and none to destroying.
LEMMA OwnFromInv ==
    ASSUME Build, IInv
    PROVE  \A h \in headers : h.image = Base => AsSent(h)
<1> SUFFICES ASSUME NEW h \in headers, h.image = Base,
                    h.FlagmentTypeId \in DOMAIN Creators
             PROVE  Creators[h.FlagmentTypeId] = h.payload
  BY DEF AsSent, CreateBehavior
<1> DEFINE u == Creators[h.FlagmentTypeId]
<1>1. u \in DOMAIN Id[Base] /\ Id[Base][u] = h.FlagmentTypeId
  BY DEF IInv, CreatorsOfBase
<1>2. h.FlagmentTypeId \in 0 .. Counter[Base] - 1 /\ Counter[Base] \in Nat
  BY <1>1 DEF IInv, Numbered, Types, Build
<1>3. h.payload \in DOMAIN Id[Base] /\ h.FlagmentTypeId = Id[Base][h.payload]
  BY <1>2 DEF IInv, HeadersNumbered, HeaderNumbered, DestroyBehaviorTypeId
<1> QED BY <1>1, <1>3 DEF IInv, Numbered, Build

\* As long as HktBase alone registers flagment types, a header made in its own
\* image is understood as it was meant or refused, in every build, whatever types
\* are used first and wherever (GetBehaviorTypeId, Register, CreateBehavior). In a
\* monolithic build, whose one image is Base, this is said of every header.
THEOREM OwnAlwaysAsSent == Build => (Spec => []OwnAsSent)
<1> SUFFICES ASSUME Build PROVE Spec => []OwnAsSent
  OBVIOUS
<1>1. CASE OnlyBaseRegisters
  <2>1. Init => IInv
    BY InitInv
  <2>2. IInv /\ [Next]_vars => IInv'
    BY <1>1, StepInv
  <2>3. IInv => OwnAsSent
    BY OwnFromInv DEF OwnAsSent
  <2> QED BY <2>1, <2>2, <2>3, PTL DEF Spec
<1>2. CASE ~OnlyBaseRegisters
  <2>1. OwnAsSent
    BY <1>2 DEF OwnAsSent
  <2> QED BY <2>1, PTL
<1> QED BY <1>1, <1>2
=============================================================================
