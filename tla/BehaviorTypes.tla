--------------------------- MODULE BehaviorTypes ---------------------------
(***************************************************************************)
(* The type ids of HktBase: GetBehaviorTypeId numbers flagment types in    *)
(* the order of their first use, FBehaviorRegistrar registers a creator    *)
(* under the number of its type, and a header carries a number to          *)
(* CreateBehavior. Static objects start on one thread.                     *)
(*                                                                         *)
(* GetBehaviorTypeId and the counter behind it are inline functions of a   *)
(* header. Their static variables exist once for every image: once in a    *)
(* monolithic build, once for each module where modules are libraries that *)
(* hide their inline functions, as in editor builds. The creators are      *)
(* those of HktBase in any build.                                          *)
(***************************************************************************)
EXTENDS Integers, Sequences

CONSTANTS
    Image,       \* binaries of the process
    Base,        \* the one that holds HktBase
    Flagment,    \* flagment types
    Registrars,  \* image -> the types its static FBehaviorRegistrars register
    NoBehavior   \* the null pointer CreateBehavior may return; the payload of a
                 \* header that destroys

\* What a build makes sure of.
Build ==
    /\ Base \in Image
    /\ Registrars \in [Image -> Seq(Flagment)]

VARIABLES
    Id,        \* image -> the number of each type it has used
    Counter,   \* image -> the next number
    Creators,  \* number -> the type its creator makes
    started,   \* image -> how many of its registrars have been constructed
    headers    \* history: the headers made, with the type of their payload

vars == <<Id, Counter, Creators, started, headers>>

Init ==
    /\ Id = [i \in Image |-> << >>]
    /\ Counter = [i \in Image |-> 0]
    /\ Creators = << >>
    /\ started = [i \in Image |-> 0]
    /\ headers = {}

Put(f, k, v) == [x \in DOMAIN f \cup {k} |-> IF x = k THEN v ELSE f[x]]

\* GetBehaviorTypeId: n is the number of type t in image i, given at first use.
GetBehaviorTypeId(i, t, n) ==
    IF t \in DOMAIN Id[i]
    THEN n = Id[i][t] /\ UNCHANGED <<Id, Counter>>
    ELSE /\ n = Counter[i]
         /\ Id' = [Id EXCEPT ![i] = Put(@, t, n)]
         /\ Counter' = [Counter EXCEPT ![i] = @ + 1]

Loaded(i) == started[i] = Len(Registrars[i])

\* The next static registrar of an image. HktBase is loaded before what depends
\* on it. Register keeps the creator a number already has.
Registrar(i) ==
    /\ i = Base \/ Loaded(Base)
    /\ ~Loaded(i)
    /\ \E n \in 0 .. Counter[i] :
          LET t == Registrars[i][started[i] + 1]
          IN  /\ GetBehaviorTypeId(i, t, n)
              /\ Creators' = IF n \in DOMAIN Creators THEN Creators ELSE Put(Creators, n, t)
    /\ started' = [started EXCEPT ![i] = @ + 1]
    /\ UNCHANGED headers

\* Code of image i makes a header for a flagment of type t.
CreateBehaviorRequest(i, t) ==
    /\ Loaded(Base) /\ Loaded(i)
    /\ \E n \in 0 .. Counter[i] :
          /\ GetBehaviorTypeId(i, t, n)
          /\ headers' = headers \cup {[image |-> i, FlagmentTypeId |-> n, payload |-> t]}
    /\ UNCHANGED <<Creators, started>>

DestroyBehaviorTypeId == -1

\* A header that has no flagment.
DestroyBehaviorRequest(i) ==
    /\ Loaded(Base) /\ Loaded(i)
    /\ headers' = headers \cup {[image |-> i, FlagmentTypeId |-> DestroyBehaviorTypeId,
                                 payload |-> NoBehavior]}
    /\ UNCHANGED <<Id, Counter, Creators, started>>

Next ==
    \E i \in Image : \/ Registrar(i)
                     \/ \E t \in Flagment : CreateBehaviorRequest(i, t)
                     \/ DestroyBehaviorRequest(i)

Spec == Init /\ [][Next]_vars

----------------------------------------------------------------------------
\* CreateBehavior: the type it makes of a header, if it knows the number.
CreateBehavior(h) ==
    IF h.FlagmentTypeId \in DOMAIN Creators THEN Creators[h.FlagmentTypeId] ELSE NoBehavior

\* A header is turned into a behavior of the type that was sent, or into none.
AsSent(h) == CreateBehavior(h) \in {h.payload, NoBehavior}

\* The promise of HktBehavior.h:33: a type has one id, assigned at compile
\* time, so that any code can make a header of any type. Violated when the build
\* has several images: one that uses another type first gives it the number
\* HktBase gives to its own first type.
AlwaysAsSent == \A h \in headers : AsSent(h)

\* What is left of it: as long as HktBase alone registers types, the headers
\* made in its own image are understood as they were meant. A registrar of
\* another image can claim a number HktBase gives later to a type of its own.
OnlyBaseRegisters == \A i \in Image \ {Base} : Registrars[i] = <<>>

OwnAsSent == OnlyBaseRegisters => \A h \in headers : h.image = Base => AsSent(h)
=============================================================================
