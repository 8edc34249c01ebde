---------------------------- MODULE RpcFeedProofs ----------------------------
(***************************************************************************)
(* Proofs about what a subscriber of Rpc receives: that queue, Write,      *)
(* stream and FStreamCall together implement Feed, that an answered        *)
(* behavior has been posted, and in which order behaviors arrive.          *)
(***************************************************************************)
EXTENDS RpcProofs

----------------------------------------------------------------------------
(* Sequences.                                                              *)

LEMMA ConcatAppend ==
  ASSUME NEW S, NEW s \in Seq(S), NEW t \in Seq(S), NEW e \in S
  PROVE  s \o Append(t, e) = Append(s \o t, e)
  <1>1. Append(t, e) = t \o <<e>> /\ <<e>> \in Seq(S) BY AppendIsConcat
  <1>2. s \o t \in Seq(S) BY ConcatProperties
  <1>3. Append(s \o t, e) = (s \o t) \o <<e>> BY <1>2, AppendIsConcat
  <1> QED BY <1>1, <1>3, ConcatAssociative

LEMMA HeadFirst ==
  ASSUME NEW S, NEW t \in Seq(S), t # <<>>
  PROVE  t = <<Head(t)>> \o Tail(t)
  <1>1. Len(t) \in Nat \ {0} /\ 1 \in 1 .. Len(t) /\ Len(t) \in 1 .. Len(t)
    BY EmptySeq
  <1>2. SubSeq(t, 1, Len(t)) = <<t[1]>> \o SubSeq(t, 2, Len(t))
    BY <1>1, SubSeqRecursiveFirst
  <1>3. SubSeq(t, 1, Len(t)) = t BY SubSeqFull
  <1>4. Tail(t) = SubSeq(t, 2, Len(t)) BY TailIsSubSeq
  <1> QED BY <1>2, <1>3, <1>4

\* A message that moves from one queue to the end of the one before it.
LEMMA MoveHead ==
  ASSUME NEW S, NEW s \in Seq(S), NEW t \in Seq(S), t # <<>>
  PROVE  Append(s, Head(t)) \o Tail(t) = s \o t
  <1>1. Head(t) \in S /\ Tail(t) \in Seq(S) BY HeadTailProperties
  <1>2. <<Head(t)>> \in Seq(S) BY <1>1
  <1>3. Append(s, Head(t)) = s \o <<Head(t)>> BY <1>1, AppendIsConcat
  <1>4. t = <<Head(t)>> \o Tail(t) BY HeadFirst
  <1> QED BY <1>1, <1>2, <1>3, <1>4, ConcatAssociative

\* What Append leaves last.
LEMMA LastAppended ==
  ASSUME NEW S, NEW s \in Seq(S), NEW e \in S
  PROVE  Append(s, e) # <<>> /\ Append(s, e)[Len(Append(s, e))] = e
  <1>1. Len(s) \in Nat BY LenProperties
  <1> QED BY <1>1, AppendProperties

LEMMA HeadTailOfConcat ==
  ASSUME NEW S, NEW s \in Seq(S), NEW t \in Seq(S), s # <<>>
  PROVE  /\ s \o t # <<>>
         /\ Head(s \o t) = Head(s)
         /\ Tail(s \o t) = Tail(s) \o t
  <1>1. s \o t \in Seq(S) /\ s \o t # <<>> BY ConcatProperties, ConcatEqualIffEmpty
  <1>2. Head(s) \in S /\ Tail(s) \in Seq(S) BY HeadTailProperties
  <1>3. Len(s) \in Nat \ {0} /\ Len(t) \in Nat BY EmptySeq, LenProperties
  <1>4. Head(s \o t) = Head(s) BY <1>3, ConcatProperties
  <1>5. s \o t = <<Head(s)>> \o (Tail(s) \o t)
    <2>1. <<Head(s)>> \in Seq(S) BY <1>2
    <2>2. s = <<Head(s)>> \o Tail(s) BY HeadFirst
    <2> QED BY <1>2, <2>1, <2>2, ConcatAssociative
  <1>6. s \o t = <<Head(s \o t)>> \o Tail(s \o t) BY <1>1, HeadFirst
  <1>7. Tail(s \o t) \in Seq(S) /\ Tail(s) \o t \in Seq(S) /\ <<Head(s)>> \in Seq(S)
    BY <1>1, <1>2, HeadTailProperties, ConcatProperties
  <1>8. Tail(s \o t) = Tail(s) \o t
    BY <1>4, <1>5, <1>6, <1>7, ConcatSimplifications
  <1> QED BY <1>1, <1>4, <1>8

LEMMA PrefixOfConcat ==
  ASSUME NEW S, NEW s \in Seq(S), NEW t \in Seq(S), NEW n \in 0 .. Len(s)
  PROVE  /\ n \in 0 .. Len(s \o t)
         /\ SubSeq(s \o t, 1, n) = SubSeq(s, 1, n)
  <1>1. Len(s) \in Nat /\ Len(t) \in Nat BY LenProperties
  <1>2. Len(s \o t) = Len(s) + Len(t) BY ConcatProperties
  <1>3. CASE n = 0
    BY <1>1, <1>2, <1>3, SubSeqEmpty
  <1>4. CASE n # 0
    <2>1. 1 \in 1 .. Len(s) /\ n \in 1 .. Len(s) BY <1>1, <1>4
    <2>2. SubSeq(s \o t, 1, n) = SubSeq(s, 1, n) BY <2>1, SubSeqOfConcat1
    <2> QED BY <1>1, <1>2, <2>1, <2>2
  <1> QED BY <1>3, <1>4

\* Without its first element and the one appended.
LEMMA MiddleOfAppend ==
  ASSUME NEW S, NEW s \in Seq(S), NEW e \in S, s # <<>>
  PROVE  SubSeq(Append(s, e), 2, Len(s)) = Tail(s)
  <1>1. Append(s, e) = s \o <<e>> /\ <<e>> \in Seq(S) BY AppendIsConcat
  <1>2. Tail(s) = SubSeq(s, 2, Len(s)) BY TailIsSubSeq
  <1>3. Len(s) \in Nat \ {0} BY EmptySeq
  <1>4. CASE Len(s) = 1
    BY <1>2, <1>4, SubSeqEmpty
  <1>5. CASE Len(s) # 1
    <2>1. 2 \in 1 .. Len(s) /\ Len(s) \in 1 .. Len(s) BY <1>3, <1>5
    <2> QED BY <1>1, <1>2, <2>1, SubSeqOfConcat1
  <1> QED BY <1>4, <1>5

LEMMA RangeOfAppend ==
  ASSUME NEW S, NEW s \in Seq(S), NEW e \in S
  PROVE  Range(Append(s, e)) = Range(s) \cup {e}
  <1>1. /\ Append(s, e) \in Seq(S) /\ Len(Append(s, e)) = Len(s) + 1
        /\ \A i \in 1 .. Len(s) : Append(s, e)[i] = s[i]
        /\ Append(s, e)[Len(s) + 1] = e
    BY AppendProperties
  <1>2. Len(s) \in Nat /\ 1 .. Len(s) + 1 = (1 .. Len(s)) \cup {Len(s) + 1}
    BY LenProperties
  <1>3. Range(s) = {s[i] : i \in 1 .. Len(s)} BY RangeEquality
  <1>4. Range(Append(s, e)) = {Append(s, e)[i] : i \in 1 .. Len(s) + 1}
    BY <1>1, RangeEquality
  <1> QED BY <1>1, <1>2, <1>3, <1>4

LEMMA RangeOfPrefix ==
  ASSUME NEW S, NEW s \in Seq(S), NEW n \in 0 .. Len(s)
  PROVE  /\ SubSeq(s, 1, n) \in Seq(S)
         /\ Len(SubSeq(s, 1, n)) = n
         /\ \A i \in 1 .. n : SubSeq(s, 1, n)[i] = s[i]
         /\ Range(SubSeq(s, 1, n)) \subseteq Range(s)
  <1>1. Len(s) \in Nat /\ \A i \in 1 .. Len(s) : s[i] \in S BY LenProperties, ElementOfSeq
  <1>2. \A i \in 1 .. n : s[i] \in S BY <1>1
  <1>3. /\ SubSeq(s, 1, n) \in Seq(S)
        /\ Len(SubSeq(s, 1, n)) = IF 1 <= n THEN n - 1 + 1 ELSE 0
        /\ \A i \in 1 .. n - 1 + 1 : SubSeq(s, 1, n)[i] = s[1 + i - 1]
    BY <1>1, <1>2, SubSeqProperties
  <1>4. Len(SubSeq(s, 1, n)) = n BY <1>1, <1>3
  <1>5. \A i \in 1 .. n : SubSeq(s, 1, n)[i] = s[i] BY <1>1, <1>3
  <1>6. Range(s) = {s[i] : i \in 1 .. Len(s)} BY RangeEquality
  <1>7. Range(SubSeq(s, 1, n)) = {SubSeq(s, 1, n)[i] : i \in 1 .. n}
    BY <1>3, <1>4, RangeEquality
  <1> QED BY <1>1, <1>3, <1>4, <1>5, <1>6, <1>7

\* A prefix of the second of two sequences.
LEMMA ConcatPrefix ==
  ASSUME NEW S, NEW s \in Seq(S), NEW t \in Seq(S), NEW n \in 0 .. Len(t)
  PROVE  /\ Len(s) + n \in 0 .. Len(s \o t)
         /\ s \o SubSeq(t, 1, n) = SubSeq(s \o t, 1, Len(s) + n)
  <1> DEFINE u == SubSeq(t, 1, n)
             m == Len(s) + n
             v == SubSeq(s \o t, 1, m)
  <1>1. Len(s) \in Nat /\ Len(t) \in Nat BY LenProperties
  <1>2. /\ s \o t \in Seq(S) /\ Len(s \o t) = Len(s) + Len(t)
        /\ \A i \in 1 .. Len(s) + Len(t) :
              (s \o t)[i] = IF i <= Len(s) THEN s[i] ELSE t[i - Len(s)]
    BY ConcatProperties
  <1>3. m \in 0 .. Len(s \o t) BY <1>1, <1>2
  <1>4. /\ u \in Seq(S) /\ Len(u) = n /\ \A i \in 1 .. n : u[i] = t[i]
    BY RangeOfPrefix
  <1>5. /\ v \in Seq(S) /\ Len(v) = m /\ \A i \in 1 .. m : v[i] = (s \o t)[i]
    BY <1>2, <1>3, RangeOfPrefix
  <1> HIDE DEF u, v
  <1>6. /\ s \o u \in Seq(S) /\ Len(s \o u) = Len(s) + Len(u)
        /\ \A i \in 1 .. Len(s) + Len(u) :
              (s \o u)[i] = IF i <= Len(s) THEN s[i] ELSE u[i - Len(s)]
    BY <1>4, ConcatProperties
  <1>7. \A i \in 1 .. m : (s \o u)[i] = v[i]
    <2> TAKE i \in 1 .. m
    <2>1. CASE i <= Len(s) BY <1>1, <1>2, <1>4, <1>5, <1>6, <2>1
    <2>2. CASE ~(i <= Len(s))
      <3>1. i - Len(s) \in 1 .. n BY <1>1, <2>2
      <3> QED BY <1>1, <1>2, <1>4, <1>5, <1>6, <2>2, <3>1
    <2> QED BY <2>1, <2>2
  <1>8. s \o u = v BY <1>4, <1>5, <1>6, <1>7, SeqEqual
  <1> QED BY <1>3, <1>8 DEF u, v

----------------------------------------------------------------------------
(* The stream of a call.                                                   *)

\* Nothing is on a stream before it was opened.
LinkBegins == \A c \in Call : link[c] = "none" => wire[c] = <<>>

\* A Write fails, and a session is deleted, only after the connection broke.
FailedBroken ==
    \A c \in Call : op[c] = "failed" \/ session[c] = "deleted" => link[c] = "broken"

\* The game is given one packet, the empty one, when the call has started.
FirstEmpty ==
    \A c \in Call :
        /\ stream[c].State = "none" \/ stream[c].waiting = "StartCall" => delivered[c] = <<>>
        /\ stream[c].waiting = "Read" => delivered[c] # <<>>

\* A call is over once its connection is broken and nothing is left to read, and
\* Response is the packet of the last callback.
Over(c) == stream[c].State = "deleted"

LastOf(s) == IF s = <<>> THEN Empty ELSE s[Len(s)]

Callbacks ==
    \A c \in Call :
        /\ stream[c].State \in {"FINISHING", "deleted"} => link[c] = "broken" /\ wire[c] = <<>>
        /\ stream[c].Response = LastOf(delivered[c])
        /\ delivered[c] # <<>> => Head(delivered[c]) = Empty

StreamInv == LinkBegins /\ FailedBroken /\ FirstEmpty /\ Callbacks

streamVars == <<link, wire, op, OutgoingMessages, stream, delivered>>

\* What a step does to the feed of one call.
Same(c) == delivered'[c] = delivered[c] /\ (Over(c)' <=> Over(c))

Keeps(c) ==
    /\ link'[c] = link[c] /\ Underway(c)' = Underway(c)
    /\ Given(c)' = Given(c) /\ Same(c)

Opens(c) ==
    /\ link[c] = "none" /\ link'[c] = "open"
    /\ Underway(c)' = Underway(c) /\ Given(c)' = Given(c) /\ Same(c)

Greets(c) ==
    /\ link[c] # "none" /\ link'[c] = link[c]
    /\ Underway(c)' = Underway(c) /\ Given(c)' = Given(c)
    /\ Over(c)' <=> Over(c)
    /\ delivered[c] = <<>> /\ delivered'[c] = <<Empty>>

Takes(c) ==
    /\ link'[c] = link[c]
    /\ Underway(c) # <<>>
    /\ Underway(c)' = Tail(Underway(c))
    /\ Given(c)' = Append(Given(c), Head(Underway(c)))
    /\ Over(c)' <=> Over(c)
    /\ delivered[c] # <<>> /\ delivered'[c] = Append(delivered[c], Head(Underway(c)))

Ends(c) ==
    /\ link[c] = "open" /\ link'[c] = "broken"
    /\ \E n \in 0 .. Len(Underway(c)) : Underway(c)' = SubSeq(Underway(c), 1, n)
    /\ Given(c)' = Given(c) /\ Same(c) /\ ~Over(c)

Closes(c) ==
    /\ link[c] = "broken" /\ link'[c] = "broken"
    /\ Underway(c) = <<>> /\ Underway(c)' = <<>>
    /\ Given(c)' = Given(c)
    /\ ~Over(c) /\ Over(c)'
    /\ delivered'[c] = Append(delivered[c], LastOf(delivered[c]))

Posts(c, r) ==
    /\ link[c] = "open" /\ link'[c] = "open"
    /\ Underway(c)' = Append(Underway(c), r)
    /\ Given(c)' = Given(c) /\ Same(c) /\ ~Over(c)

\* A broadcast posts to a session that is live and whose connection is.
Broadcasts(c) ==
    \E w \in Worker :
        /\ WriteToSession(w, c) /\ session[c] = "live"
        /\ IF link[c] = "open" THEN Posts(c, worker[w].req) ELSE Keeps(c)

FeedStep ==
    \/ \A c \in Call : Keeps(c)
    \/ \E c \in Call : /\ \A d \in Call \ {c} : Keeps(d)
                       /\ \/ Opens(c) \/ Greets(c) \/ Takes(c) \/ Ends(c)
                          \/ Closes(c) \/ Broadcasts(c)

----------------------------------------------------------------------------
LEMMA UnderwayFrame ==
  ASSUME NEW c \in Call, link'[c] = link[c], wire'[c] = wire[c],
         OutgoingMessages'[c] = OutgoingMessages[c], op'[c] = "sent" <=> op[c] = "sent"
  PROVE  Underway(c)' = Underway(c)
  BY DEF Underway

LEMMA GivenFrame ==
  ASSUME NEW c \in Call, delivered'[c] = delivered[c],
         stream'[c].State = "deleted" <=> stream[c].State = "deleted"
  PROVE  Given(c)' = Given(c)
  BY DEF Given

LEMMA KeepsFrame ==
  ASSUME NEW c \in Call, link'[c] = link[c], wire'[c] = wire[c],
         OutgoingMessages'[c] = OutgoingMessages[c], op'[c] = op[c],
         delivered'[c] = delivered[c], stream'[c] = stream[c]
  PROVE  Keeps(c)
  <1>1. Underway(c)' = Underway(c) BY UnderwayFrame
  <1>2. Given(c)' = Given(c) BY GivenFrame
  <1> QED BY <1>1, <1>2 DEF Keeps, Same, Over

LEMMA LastOfAppend ==
  ASSUME NEW S, NEW s \in Seq(S), NEW e \in S
  PROVE  LastOf(Append(s, e)) = e
  BY LastAppended DEF LastOf

\* The callbacks stay in order while what a broken connection has left stays.
LEMMA CallbacksFrame ==
  ASSUME Callbacks, UNCHANGED <<stream, delivered>>,
         \A c \in Call : link[c] = "broken" => link'[c] = "broken" /\ wire'[c] = wire[c]
  PROVE  Callbacks'
  BY DEF Callbacks, LastOf

\* A step that neither writes nor reads nor connects.
LEMMA QuietStream ==
  ASSUME StreamInv, UNCHANGED streamVars,
         \A c \in Call : session'[c] = "deleted" => session[c] = "deleted"
  PROVE  StreamInv' /\ FeedStep
  <1>1. UNCHANGED <<link, wire, op, OutgoingMessages, stream, delivered>> BY DEF streamVars
  <1>2. \A c \in Call : Keeps(c) BY <1>1, KeepsFrame
  <1>3. StreamInv'
    <2>1. Callbacks' BY <1>1, CallbacksFrame DEF StreamInv
    <2> QED BY <1>1, <2>1 DEF StreamInv, LinkBegins, FailedBroken, FirstEmpty
  <1> QED BY <1>2, <1>3 DEF FeedStep

\* What is underway and what was given are sequences; a session with a Write
\* outstanding has the packet it writes at the head of its queue.
LEMMA StreamTypes ==
  ASSUME IInv, StreamInv, NEW c \in Call
  PROVE  /\ wire[c] \in Seq(Request) /\ OutgoingMessages[c] \in Seq(Request)
         /\ op[c] # "none" <=> OutgoingMessages[c] # <<>>
         /\ op[c] = "sent" => Tail(OutgoingMessages[c]) \in Seq(Request)
         /\ Underway(c) \in Seq(Request)
         /\ delivered[c] \in Seq(Request \cup {Empty})
         /\ Given(c) \in Seq(Request \cup {Empty})
         /\ Through(c) \in Seq(Request \cup {Empty})
  <1>1. wire[c] \in Seq(Request) /\ OutgoingMessages[c] \in Seq(Request)
    BY DEF IInv, RpcTypeOK, TransportTypeOK, ServiceTypeOK
  <1>2. op[c] # "none" <=> OutgoingMessages[c] # <<>>
    BY DEF IInv, WriterInv, WriterBusy
  <1>3. op[c] = "sent" => Tail(OutgoingMessages[c]) \in Seq(Request)
    BY <1>1, <1>2, HeadTailProperties
  <1>4. Underway(c) \in Seq(Request)
    BY <1>1, <1>3, ConcatProperties DEF Underway
  <1>5. delivered[c] \in Seq(Request \cup {Empty}) BY DEF IInv, RpcTypeOK, ProxyTypeOK
  <1>6. Given(c) \in Seq(Request \cup {Empty})
    <2>1. CASE delivered[c] = <<>> BY <2>1 DEF Given
    <2>2. CASE delivered[c] # <<>> /\ stream[c].State = "deleted"
      <3>1. Len(delivered[c]) \in Nat BY <1>5, LenProperties
      <3>2. \A i \in 2 .. Len(delivered[c]) - 1 : delivered[c][i] \in Request \cup {Empty}
        BY <1>5, <3>1, ElementOfSeq
      <3>3. SubSeq(delivered[c], 2, Len(delivered[c]) - 1) \in Seq(Request \cup {Empty})
        BY <3>1, <3>2, SubSeqProperties
      <3> QED BY <2>2, <3>3 DEF Given
    <2>3. CASE delivered[c] # <<>> /\ stream[c].State # "deleted"
      BY <1>5, <2>3, HeadTailProperties DEF Given
    <2> QED BY <2>1, <2>2, <2>3
  <1>7. Underway(c) \in Seq(Request \cup {Empty}) BY <1>4, SeqMonotonic
  <1>8. Through(c) \in Seq(Request \cup {Empty}) BY <1>6, <1>7, ConcatProperties DEF Through
  <1> QED BY <1>1, <1>2, <1>3, <1>4, <1>5, <1>6, <1>8

----------------------------------------------------------------------------
(* The proxy.                                                              *)

LEMMA SyncGroupStream ==
  ASSUME IInv, StreamInv, NEW c \in Call, NEW g \in GroupId, SyncGroup(c, g),
         UNCHANGED serviceVars
  PROVE  StreamInv' /\ FeedStep
  <1> USE DEF SyncGroup
  <1>1. UNCHANGED <<delivered, wire, op, OutgoingMessages, session>>
    BY DEF serviceVars, sessionVars
  <1>2. stream \in [Call -> StreamCall] /\ link \in [Call -> {"none", "open", "broken"}]
    BY DEF IInv, RpcTypeOK, ProxyTypeOK, TransportTypeOK
  <1>3. \A d \in Call : d # c => link'[d] = link[d] /\ stream'[d] = stream[d]
    BY <1>2
  <1>4. /\ link[c] = "none" /\ link'[c] = "open"
        /\ stream'[c].State = "READING" /\ stream'[c].waiting = "StartCall"
    BY <1>2 DEF IInv, KnownInv, CallsKnown, StreamCall
  <1>5. delivered[c] = <<>> /\ wire[c] = <<>> /\ session[c] = "none" /\ op[c] = "none"
    BY <1>4 DEF StreamInv, FirstEmpty, LinkBegins, IInv, KnownInv, CallsKnown, WriterInv,
         WritersLive
  <1>6. OutgoingMessages[c] = <<>> BY <1>5, StreamTypes
  <1>7. Underway(c) = <<>> /\ Underway(c)' = <<>>
    <2>1. wire[c] \o OutgoingMessages[c] = <<>> BY <1>5, <1>6, StreamTypes, ConcatEmptySeq
    <2> QED BY <1>1, <1>4, <1>5, <2>1 DEF Underway
  <1>8. Given(c) = <<>> /\ Given(c)' = <<>> BY <1>1, <1>5 DEF Given
  <1>9. Opens(c)
    <2>1. ~Over(c) /\ ~Over(c)' BY <1>4 DEF Over, SyncGroup
    <2> QED BY <1>1, <1>4, <1>7, <1>8, <2>1 DEF Opens, Same
  <1>10. \A d \in Call \ {c} : Keeps(d) BY <1>1, <1>3, KeepsFrame
  <1>11. LinkBegins' /\ FailedBroken'
    BY <1>1, <1>3, <1>4, <1>5 DEF StreamInv, LinkBegins, FailedBroken
  <1>12. FirstEmpty' BY <1>1, <1>3, <1>4, <1>5 DEF StreamInv, FirstEmpty
  <1>13. stream'[c].Response = stream[c].Response BY <1>2 DEF StreamCall
  <1>14. Callbacks'
    <2>1. \A d \in Call : LastOf(delivered'[d]) = LastOf(delivered[d]) BY <1>1
    <2>2. \A d \in Call : stream'[d].Response = stream[d].Response BY <1>3, <1>13
    <2>3. \A d \in Call : stream'[d].State \in {"FINISHING", "deleted"}
                            => link'[d] = "broken" /\ wire'[d] = <<>>
      BY <1>1, <1>3, <1>4 DEF StreamInv, Callbacks
    <2>4. \A d \in Call : delivered'[d] # <<>> => Head(delivered'[d]) = Empty
      BY <1>1 DEF StreamInv, Callbacks
    <2>5. \A d \in Call : stream'[d].Response = LastOf(delivered[d])
      BY <2>2 DEF StreamInv, Callbacks
    <2> HIDE DEF SyncGroup
    <2> QED BY <2>1, <2>3, <2>4, <2>5 DEF Callbacks
  <1> QED BY <1>9, <1>10, <1>11, <1>12, <1>14 DEF FeedStep, StreamInv

\* Read hands over the first packet of the wire; the completion of StartCall
\* hands over the empty packet, which is not counted.
LEMMA ProceedReadingStream ==
  ASSUME IInv, StreamInv, NEW c \in Call, ProceedReading(c), UNCHANGED serviceVars
  PROVE  StreamInv' /\ FeedStep
  <1> USE DEF ProceedReading
  <1>1. UNCHANGED <<link, op, OutgoingMessages, session>> BY DEF serviceVars, sessionVars
  <1>2. /\ stream \in [Call -> StreamCall] /\ wire \in [Call -> Seq(Request)]
        /\ delivered \in [Call -> Seq(Request \cup {Empty})]
    BY DEF IInv, RpcTypeOK, ProxyTypeOK, TransportTypeOK
  <1>3. /\ delivered[c] \in Seq(Request \cup {Empty})
        /\ delivered'[c] = Append(delivered[c], stream'[c].Response)
        /\ stream[c].State = "READING"
    BY <1>2
  <1>4. \A d \in Call : d # c => /\ stream'[d] = stream[d] /\ delivered'[d] = delivered[d]
                                 /\ wire'[d] = wire[d]
    BY <1>2 DEF Received
  <1>5. \A d \in Call \ {c} : Keeps(d) BY <1>1, <1>4, KeepsFrame
  <1>6. CASE /\ stream[c].waiting = "StartCall"
             /\ stream' = [stream EXCEPT ![c].waiting = "Read"]
             /\ UNCHANGED wire
    <2>1. /\ stream'[c].State = "READING" /\ stream'[c].waiting = "Read"
          /\ stream'[c].Response = stream[c].Response
      BY <1>2, <1>3, <1>6 DEF StreamCall
    <2>2. delivered[c] = <<>> BY <1>6 DEF StreamInv, FirstEmpty
    <2>3. stream[c].Response \in Request \cup {Empty} BY <1>2 DEF StreamCall
    <2>4. Append(delivered[c], stream[c].Response) # <<>>
      BY <1>3, <2>3, AppendProperties
    <2>5. Tail(delivered'[c]) = <<>> BY <1>3, <2>1, <2>2, HeadTailAppend
    <2>6. Given(c)' = Given(c) BY <1>3, <2>1, <2>2, <2>4, <2>5 DEF Given
    <2>7. Underway(c)' = Underway(c) BY <1>1, <1>6, UnderwayFrame
    <2>8. Greets(c)
      <3>1. link[c] # "none" BY <1>3 DEF IInv, KnownInv, CallsKnown
      <3>2. stream[c].Response = Empty BY <2>2 DEF StreamInv, Callbacks, LastOf
      <3>3. delivered'[c] = <<Empty>> BY <1>3, <2>1, <2>2, <3>2
      <3> QED BY <1>1, <1>3, <2>1, <2>2, <2>6, <2>7, <3>1, <3>3 DEF Greets, Over
    <2>9. LinkBegins' /\ FailedBroken'
      BY <1>1, <1>6 DEF StreamInv, LinkBegins, FailedBroken
    <2>10. FirstEmpty'
      BY <1>3, <1>4, <2>1, <2>4 DEF StreamInv, FirstEmpty
    <2>11. Callbacks'
      <3>1. delivered'[c] = <<Empty>> BY <2>8 DEF Greets
      <3>2. stream'[c].Response = Empty BY <2>1, <2>2 DEF StreamInv, Callbacks, LastOf
      <3>3. LastOf(<<Empty>>) = Empty /\ Head(<<Empty>>) = Empty BY DEF LastOf
      <3> QED BY <1>1, <1>4, <1>6, <2>1, <3>1, <3>2, <3>3 DEF StreamInv, Callbacks, LastOf
    <2> QED BY <1>5, <2>8, <2>9, <2>10, <2>11 DEF FeedStep, StreamInv
  <1>7. CASE /\ stream[c].waiting = "Read"
             /\ wire[c] # <<>>
             /\ stream' = [stream EXCEPT ![c].Response = Head(wire[c])]
             /\ wire' = [wire EXCEPT ![c] = Tail(@)]
    <2>1. /\ wire[c] \in Seq(Request) /\ wire'[c] = Tail(wire[c])
          /\ Head(wire[c]) \in Request
      BY <1>2, <1>7, HeadTailProperties
    <2>2. /\ stream'[c].State = "READING" /\ stream'[c].waiting = "Read"
          /\ stream'[c].Response = Head(wire[c])
      BY <1>2, <1>3, <1>7 DEF StreamCall
    <2>3. delivered[c] # <<>> BY <1>7 DEF StreamInv, FirstEmpty
    <2>4. delivered'[c] = Append(delivered[c], Head(wire[c])) /\ delivered'[c] # <<>>
      BY <1>3, <2>1, <2>2, AppendProperties
    <2>5. Tail(delivered'[c]) = Append(Tail(delivered[c]), Head(wire[c]))
      BY <1>3, <2>3, <2>4, HeadTailAppend
    <2>6. Given(c)' = Append(Given(c), Head(wire[c]))
      BY <1>3, <2>2, <2>3, <2>4, <2>5 DEF Given
    <2>7. /\ Underway(c) # <<>> /\ Head(Underway(c)) = Head(wire[c])
          /\ Underway(c)' = Tail(Underway(c))
      <3>1. CASE link[c] = "open"
        <4> DEFINE rest == IF op[c] = "sent" THEN Tail(OutgoingMessages[c])
                           ELSE OutgoingMessages[c]
        <4>1. rest \in Seq(Request) BY StreamTypes
        <4>2. Underway(c) = wire[c] \o rest /\ Underway(c)' = Tail(wire[c]) \o rest
          BY <1>1, <2>1, <3>1 DEF Underway
        <4> HIDE DEF rest
        <4> QED BY <1>7, <2>1, <4>1, <4>2, HeadTailOfConcat
      <3>2. CASE link[c] # "open" BY <1>1, <1>7, <2>1, <3>2 DEF Underway
      <3> QED BY <3>1, <3>2
    <2>8. Takes(c)
      <3>1. ~Over(c) /\ ~Over(c)' BY <1>3, <2>2 DEF Over
      <3> QED BY <1>1, <2>3, <2>4, <2>6, <2>7, <3>1 DEF Takes
    <2>9. LinkBegins' /\ FailedBroken'
      BY <1>1, <1>4, <1>7 DEF StreamInv, LinkBegins, FailedBroken
    <2>10. FirstEmpty' BY <1>3, <1>4, <2>2, <2>4 DEF StreamInv, FirstEmpty
    <2>11. Callbacks'
      <3>1. /\ LastOf(delivered'[c]) = Head(wire[c])
            /\ Head(delivered'[c]) = Head(delivered[c])
        <4>1. Head(wire[c]) \in Request \cup {Empty} BY <2>1
        <4> QED BY <1>3, <2>3, <2>4, <4>1, LastOfAppend, HeadTailAppend
      <3>2. \A d \in Call : d # c => LastOf(delivered'[d]) = LastOf(delivered[d])
        BY <1>4
      <3> QED BY <1>1, <1>4, <2>2, <2>3, <3>1, <3>2 DEF StreamInv, Callbacks
    <2> QED BY <1>5, <2>8, <2>9, <2>10, <2>11 DEF FeedStep, StreamInv
  <1> QED BY <1>6, <1>7 DEF Received

LEMMA ProceedEndedStream ==
  ASSUME IInv, StreamInv, NEW c \in Call, ProceedEnded(c), UNCHANGED serviceVars
  PROVE  StreamInv' /\ FeedStep
  <1> USE DEF ProceedEnded
  <1>1. UNCHANGED <<link, wire, op, OutgoingMessages, session, delivered>>
    BY DEF serviceVars, sessionVars, transportVars
  <1>2. stream \in [Call -> StreamCall] BY DEF IInv, RpcTypeOK, ProxyTypeOK
  <1>3. \A d \in Call : d # c => stream'[d] = stream[d] BY <1>2
  <1>4. /\ stream[c].State = "READING" /\ stream'[c].State = "FINISHING"
        /\ stream'[c].waiting = "Finish"
    BY <1>2 DEF StreamCall
  <1>5. \A d \in Call : Keeps(d)
    <2>1. \A d \in Call : stream'[d].State = "deleted" <=> stream[d].State = "deleted"
      BY <1>3, <1>4
    <2>2. \A d \in Call : Given(d)' = Given(d) BY <1>1, <2>1, GivenFrame
    <2>3. \A d \in Call : Underway(d)' = Underway(d) BY <1>1, UnderwayFrame
    <2> QED BY <1>1, <2>1, <2>2, <2>3 DEF Keeps, Same, Over
  <1>6. StreamInv'
    <2>1. /\ stream'[c].Response = stream[c].Response
          /\ link[c] = "broken" /\ wire[c] = <<>>
      BY <1>2 DEF StreamCall
    <2>2. Callbacks' BY <1>1, <1>3, <1>4, <2>1 DEF StreamInv, Callbacks, LastOf
    <2> QED BY <1>1, <1>3, <1>4, <2>2 DEF StreamInv, LinkBegins, FailedBroken, FirstEmpty
  <1> QED BY <1>5, <1>6 DEF FeedStep

\* The last packet is given again when the call finishes.
LEMMA ProceedFinishedStream ==
  ASSUME IInv, StreamInv, NEW c \in Call, ProceedFinished(c), UNCHANGED serviceVars
  PROVE  StreamInv' /\ FeedStep
  <1> USE DEF ProceedFinished
  <1>1. UNCHANGED <<link, wire, op, OutgoingMessages, session>>
    BY DEF serviceVars, sessionVars, transportVars
  <1>2. /\ stream \in [Call -> StreamCall]
        /\ delivered \in [Call -> Seq(Request \cup {Empty})]
    BY DEF IInv, RpcTypeOK, ProxyTypeOK
  <1>3. \A d \in Call : d # c => stream'[d] = stream[d] /\ delivered'[d] = delivered[d]
    BY <1>2
  <1>4. /\ stream[c].State = "FINISHING" /\ stream'[c].State = "deleted"
        /\ stream'[c].waiting = "none"
    BY <1>2 DEF StreamCall
  <1> DEFINE d0 == delivered[c]
             p == stream[c].Response
  <1>5. d0 \in Seq(Request \cup {Empty}) /\ p \in Request \cup {Empty}
    BY <1>2 DEF StreamCall
  <1>6. delivered'[c] = Append(d0, p) BY <1>2
  <1> HIDE DEF d0, p
  <1>7. /\ Append(d0, p) # <<>> /\ Len(Append(d0, p)) = Len(d0) + 1 /\ Len(d0) \in Nat
        /\ Append(d0, p) = d0 \o <<p>> /\ <<p>> \in Seq(Request \cup {Empty})
    BY <1>5, AppendProperties, AppendIsConcat, LenProperties
  <1>8. Given(c)' = SubSeq(Append(d0, p), 2, Len(d0))
    BY <1>4, <1>6, <1>7 DEF Given
  <1>9. Given(c)' = Given(c)
    <2>1. CASE d0 = <<>>
      <3>1. SubSeq(Append(d0, p), 2, Len(d0)) = <<>>
        BY <1>7, <2>1, SubSeqEmpty, EmptySeq
      <3> QED BY <1>8, <2>1, <3>1 DEF Given, d0
    <2>2. CASE d0 # <<>>
      <3>1. Given(c) = Tail(d0) BY <1>4, <2>2 DEF Given, d0
      <3>2. SubSeq(Append(d0, p), 2, Len(d0)) = Tail(d0) BY <1>5, <2>2, MiddleOfAppend
      <3> QED BY <1>8, <3>1, <3>2
    <2> QED BY <2>1, <2>2
  <1>10. link[c] = "broken" /\ wire[c] = <<>> /\ p = LastOf(d0)
    BY <1>4 DEF StreamInv, Callbacks, d0, p
  <1>11. Closes(c)
    <2>1. Underway(c) = <<>> /\ Underway(c)' = <<>> BY <1>1, <1>10 DEF Underway
    <2>2. ~Over(c) /\ Over(c)' BY <1>4 DEF Over
    <2>3. delivered'[c] = Append(delivered[c], LastOf(delivered[c]))
      BY <1>6, <1>10 DEF d0
    <2> QED BY <1>1, <1>9, <1>10, <2>1, <2>2, <2>3 DEF Closes
  <1>12. \A d \in Call \ {c} : Keeps(d) BY <1>1, <1>3, KeepsFrame
  <1>13. Callbacks'
    <2>1. stream'[c].Response = p BY <1>2 DEF p, StreamCall
    <2>2. LastOf(delivered'[c]) = p BY <1>5, <1>6, LastOfAppend
    <2>3. Head(delivered'[c]) = Empty
      <3>1. CASE d0 = <<>>
        <4>1. p = Empty BY <1>10, <3>1 DEF LastOf
        <4>2. Append(d0, p) = <<Empty>> BY <1>5, <3>1, <4>1
        <4>3. Head(<<Empty>>) = Empty OBVIOUS
        <4> HIDE DEF p, d0
        <4> QED BY <1>6, <4>2, <4>3
      <3>2. CASE d0 # <<>>
        <4>1. Head(Append(d0, p)) = Head(d0) BY <1>5, <3>2, HeadTailAppend
        <4>2. Head(d0) = Empty BY <3>2 DEF d0, StreamInv, Callbacks
        <4> QED BY <1>6, <4>1, <4>2
      <3> QED BY <3>1, <3>2
    <2>4. \A d \in Call : d # c => LastOf(delivered'[d]) = LastOf(delivered[d])
      BY <1>3
    <2> QED BY <1>1, <1>3, <1>10, <2>1, <2>2, <2>3, <2>4 DEF StreamInv, Callbacks
  <1>14. StreamInv'
    BY <1>1, <1>3, <1>4, <1>6, <1>7, <1>13 DEF StreamInv, LinkBegins, FailedBroken, FirstEmpty
  <1> QED BY <1>11, <1>12, <1>14 DEF FeedStep

LEMMA ClientThreadStream ==
  ASSUME IInv, StreamInv, NEW p \in Client, ClientThread(p)
  PROVE  StreamInv' /\ FeedStep
  <1>1. UNCHANGED serviceVars BY DEF ClientThread
  <1>2. CASE EndDestroy(p)
    <2>1. UNCHANGED streamVars /\ UNCHANGED session
      BY <1>1, <1>2 DEF EndDestroy, streamVars, transportVars, serviceVars, sessionVars
    <2> QED BY <2>1, QuietStream
  <1> QED
    BY <1>1, <1>2, ProceedReadingStream, ProceedEndedStream, ProceedFinishedStream
    DEF ClientThread

----------------------------------------------------------------------------
(* gRPC.                                                                   *)

\* A connection that breaks takes with it all that is queued at the server, and
\* a last part of what is on the wire.
LEMMA BreakStream ==
  ASSUME IInv, StreamInv, NEW c \in Call, Break(c), UNCHANGED <<serviceVars, proxyVars>>
  PROVE  StreamInv' /\ FeedStep
  <1> USE DEF Break
  <1>1. UNCHANGED <<op, OutgoingMessages, session, stream, delivered>>
    BY DEF serviceVars, sessionVars, proxyVars
  <1>2. link \in [Call -> {"none", "open", "broken"}] /\ wire \in [Call -> Seq(Request)]
    BY DEF IInv, RpcTypeOK, TransportTypeOK
  <1>3. \A d \in Call : d # c => link'[d] = link[d] /\ wire'[d] = wire[d] BY <1>2
  <1>4. link[c] = "open" /\ link'[c] = "broken" BY <1>2
  <1>5. PICK n \in 0 .. Len(wire[c]) : wire'[c] = SubSeq(wire[c], 1, n) BY <1>2
  <1> DEFINE rest == IF op[c] = "sent" THEN Tail(OutgoingMessages[c])
                     ELSE OutgoingMessages[c]
  <1>6. rest \in Seq(Request) /\ wire[c] \in Seq(Request) BY StreamTypes
  <1>7. Underway(c) = wire[c] \o rest BY <1>4 DEF Underway
  <1> HIDE DEF rest
  <1>8. n \in 0 .. Len(Underway(c)) /\ SubSeq(Underway(c), 1, n) = SubSeq(wire[c], 1, n)
    BY <1>6, <1>7, PrefixOfConcat
  <1>9. Underway(c)' = SubSeq(Underway(c), 1, n)
    <2>1. Underway(c)' = wire'[c] BY <1>4 DEF Underway
    <2> QED BY <1>5, <1>8, <2>1
  <1>10. Given(c)' = Given(c) BY <1>1, GivenFrame
  <1>11. Ends(c)
    <2>1. ~Over(c) /\ ~Over(c)' BY <1>1, <1>4 DEF StreamInv, Callbacks, Over
    <2> QED BY <1>1, <1>4, <1>8, <1>9, <1>10, <2>1 DEF Ends, Same
  <1>12. \A d \in Call \ {c} : Keeps(d) BY <1>1, <1>3, KeepsFrame
  <1>13. StreamInv'
    <2>1. Callbacks' BY <1>1, <1>3, <1>4, CallbacksFrame DEF StreamInv
    <2> QED BY <1>1, <1>3, <1>4, <2>1 DEF StreamInv, LinkBegins, FailedBroken, FirstEmpty
  <1> QED BY <1>11, <1>12, <1>13 DEF FeedStep

LEMMA BreaksStream ==
  ASSUME IInv, StreamInv, NEW x \in Call \cup Request, Breaks(x)
  PROVE  StreamInv' /\ FeedStep
  <1>1. UNCHANGED <<serviceVars, proxyVars>> BY DEF Breaks
  <1>2. CASE x \in Call BY <1>1, <1>2, BreakStream DEF Breaks
  <1>3. CASE x \notin Call
    <2>1. UNCHANGED streamVars /\ UNCHANGED session
      BY <1>1, <1>3 DEF Breaks, BreakRequest, streamVars, serviceVars, sessionVars, proxyVars
    <2> QED BY <2>1, QuietStream
  <1> QED BY <1>2, <1>3

\* The transport takes the packet at the head of the queue, which stays there
\* until the completion of the Write has been processed.
LEMMA TransportsStream ==
  ASSUME IInv, StreamInv, NEW c \in Call, Transports(c)
  PROVE  StreamInv' /\ FeedStep
  <1> USE DEF Transports
  <1>1. UNCHANGED <<link, OutgoingMessages, session, stream, delivered>>
    BY DEF Transmit, Refuse, serviceVars, sessionVars, proxyVars
  <1>2. /\ op \in [Call -> {"none", "writing", "sent", "failed"}]
        /\ wire \in [Call -> Seq(Request)] /\ op[c] = "writing"
    BY DEF IInv, RpcTypeOK, TransportTypeOK, Transmit, Refuse
  <1>3. \A d \in Call : d # c => op'[d] = op[d] /\ wire'[d] = wire[d]
    BY <1>2 DEF Transmit, Refuse
  <1>4. \A d \in Call \ {c} : Keeps(d) BY <1>1, <1>3, KeepsFrame
  <1>5. link[c] # "none"
    BY <1>2 DEF IInv, WriterInv, WritersLive, KnownInv, CallsKnown
  <1>6. Given(c)' = Given(c) BY <1>1, GivenFrame
  <1>7. LinkBegins' BY <1>1, <1>3, <1>5 DEF StreamInv, LinkBegins
  <1>8. FirstEmpty' /\ Callbacks'
    <2>1. \A d \in Call : link[d] = "broken" => wire'[d] = wire[d]
      BY <1>2, <1>3 DEF Transmit, Refuse
    <2>2. Callbacks' BY <1>1, <2>1, CallbacksFrame DEF StreamInv
    <2> QED BY <1>1, <2>2 DEF StreamInv, FirstEmpty
  <1>9. CASE link[c] = "open"
    <2>1. Transmit(c, Head(OutgoingMessages[c])) BY <1>9 DEF Refuse
    <2>2. op'[c] = "sent" /\ wire'[c] = Append(wire[c], Head(OutgoingMessages[c]))
      BY <1>2, <1>9, <2>1 DEF Transmit
    <2>3. wire[c] \in Seq(Request) /\ OutgoingMessages[c] \in Seq(Request)
          /\ OutgoingMessages[c] # <<>>
      BY <1>2, StreamTypes
    <2>4. Underway(c) = wire[c] \o OutgoingMessages[c] BY <1>2, <1>9 DEF Underway
    <2>5. Underway(c)' = Append(wire[c], Head(OutgoingMessages[c])) \o Tail(OutgoingMessages[c])
      BY <1>1, <1>9, <2>2 DEF Underway
    <2>6. Underway(c)' = Underway(c) BY <2>3, <2>4, <2>5, MoveHead
    <2>7. Keeps(c) BY <1>1, <1>6, <2>6 DEF Keeps, Same, Over
    <2>8. FailedBroken' BY <1>1, <1>3, <2>2 DEF StreamInv, FailedBroken
    <2> QED BY <1>4, <1>7, <1>8, <2>7, <2>8 DEF FeedStep, StreamInv
  <1>10. CASE link[c] # "open"
    <2>1. link[c] = "broken" BY <1>5, <1>10 DEF IInv, RpcTypeOK, TransportTypeOK
    <2>2. wire' = wire BY <1>10 DEF Transmit, Refuse
    <2>3. Keeps(c) BY <1>1, <1>6, <1>10, <2>2 DEF Keeps, Underway, Same, Over
    <2>4. FailedBroken' BY <1>1, <1>3, <2>1 DEF StreamInv, FailedBroken
    <2> QED BY <1>4, <1>7, <1>8, <2>3, <2>4 DEF FeedStep, StreamInv
  <1> QED BY <1>9, <1>10

----------------------------------------------------------------------------
(* The service.                                                            *)

LEMMA WriteOperationStream ==
  ASSUME IInv, StreamInv, NEW c \in Call, WriteOperation(c), UNCHANGED proxyVars
  PROVE  StreamInv' /\ FeedStep
  <1> USE DEF WriteOperation
  <1>1. UNCHANGED <<link, wire, session, stream, delivered>> BY DEF proxyVars
  <1>2. /\ op \in [Call -> {"none", "writing", "sent", "failed"}]
        /\ OutgoingMessages \in [Call -> Seq(Request)]
    BY DEF IInv, RpcTypeOK, TransportTypeOK, ServiceTypeOK
  <1>3. \A d \in Call : d # c => /\ op'[d] = op[d]
                                 /\ OutgoingMessages'[d] = OutgoingMessages[d]
    BY <1>2
  <1>4. /\ op[c] = "sent" /\ op'[c] \in {"none", "writing"}
        /\ OutgoingMessages'[c] = Tail(OutgoingMessages[c])
    BY <1>2
  <1>5. \A d \in Call \ {c} : Keeps(d) BY <1>1, <1>3, KeepsFrame
  <1>6. Underway(c)' = Underway(c) BY <1>1, <1>4 DEF Underway
  <1>7. Keeps(c) BY <1>1, <1>6, GivenFrame DEF Keeps, Same, Over
  <1>8. StreamInv'
    <2>1. Callbacks' BY <1>1, CallbacksFrame DEF StreamInv
    <2> QED BY <1>1, <1>3, <1>4, <2>1 DEF StreamInv, LinkBegins, FailedBroken, FirstEmpty
  <1> QED BY <1>5, <1>7, <1>8 DEF FeedStep

LEMMA WriteFailedStream ==
  ASSUME IInv, StreamInv, NEW c \in Call, WriteFailed(c), UNCHANGED proxyVars
  PROVE  StreamInv' /\ FeedStep
  <1> USE DEF WriteFailed
  <1>1. UNCHANGED <<link, wire, stream, delivered>> BY DEF proxyVars
  <1>2. /\ op \in [Call -> {"none", "writing", "sent", "failed"}]
        /\ OutgoingMessages \in [Call -> Seq(Request)]
        /\ session \in [Call -> {"none", "matched", "live", "deleted"}]
    BY DEF IInv, RpcTypeOK, TransportTypeOK, ServiceTypeOK
  <1>3. \A d \in Call : d # c => /\ op'[d] = op[d] /\ session'[d] = session[d]
                                 /\ OutgoingMessages'[d] = OutgoingMessages[d]
    BY <1>2
  <1>4. op[c] = "failed" /\ op'[c] = "none" BY <1>2
  <1>5. link[c] = "broken" BY <1>4 DEF StreamInv, FailedBroken
  <1>6. \A d \in Call \ {c} : Keeps(d) BY <1>1, <1>3, KeepsFrame
  <1>7. Underway(c)' = Underway(c) BY <1>1, <1>5 DEF Underway
  <1>8. Keeps(c) BY <1>1, <1>7, GivenFrame DEF Keeps, Same, Over
  <1>9. StreamInv'
    <2>1. Callbacks' BY <1>1, CallbacksFrame DEF StreamInv
    <2> QED BY <1>1, <1>3, <1>4, <1>5, <2>1
        DEF StreamInv, LinkBegins, FailedBroken, FirstEmpty
  <1> QED BY <1>6, <1>8, <1>9 DEF FeedStep

\* Write puts the packet behind all that is underway.
LEMMA WritePosts ==
  ASSUME IInv, StreamInv, NEW w \in Worker, NEW c \in Call, WriteToSession(w, c),
         UNCHANGED proxyVars, session[c] = "live", link[c] = "open"
  PROVE  Posts(c, worker[w].req)
  <1> DEFINE r == worker[w].req
  <1>1. Write(c, r) /\ r \in Request
    BY DEF WriteToSession, IInv, RpcTypeOK, ServiceTypeOK, WorkerState
  <1>2. UNCHANGED <<link, wire, session, stream, delivered>>
    BY DEF WriteToSession, proxyVars
  <1> HIDE DEF r
  <1>3. /\ OutgoingMessages'[c] = Append(OutgoingMessages[c], r)
        /\ op'[c] = IF bIsWriting[c] THEN op[c] ELSE "writing"
        /\ op[c] = "none" <=> ~bIsWriting[c]
    BY <1>1 DEF Write, IInv, WriterInv, WriterBusy, RpcTypeOK, TransportTypeOK, ServiceTypeOK
  <1>4. op'[c] = "sent" <=> op[c] = "sent" BY <1>3
  <1>5. /\ wire[c] \in Seq(Request) /\ OutgoingMessages[c] \in Seq(Request)
        /\ op[c] = "sent" => /\ OutgoingMessages[c] # <<>>
                             /\ Tail(OutgoingMessages[c]) \in Seq(Request)
    BY StreamTypes
  <1>6. \A s, t \in Seq(Request) : \A e \in Request : s \o Append(t, e) = Append(s \o t, e)
    BY ConcatAppend
  <1>7. Underway(c)' = Append(Underway(c), r)
    <2>1. CASE op[c] = "sent"
      <3>1. Tail(Append(OutgoingMessages[c], r)) = Append(Tail(OutgoingMessages[c]), r)
        BY <1>5, <2>1, HeadTailAppend
      <3>2. Underway(c)' = wire[c] \o Append(Tail(OutgoingMessages[c]), r)
        BY <1>2, <1>3, <1>4, <2>1, <3>1 DEF Underway
      <3>3. Underway(c) = wire[c] \o Tail(OutgoingMessages[c]) BY <2>1 DEF Underway
      <3>4. wire[c] \in Seq(Request) /\ Tail(OutgoingMessages[c]) \in Seq(Request)
        BY <1>5, <2>1
      <3>5. wire[c] \o Append(Tail(OutgoingMessages[c]), r)
               = Append(wire[c] \o Tail(OutgoingMessages[c]), r)
        BY <1>1, <1>6, <3>4
      <3> QED BY <3>2, <3>3, <3>5
    <2>2. CASE op[c] # "sent"
      <3>1. Underway(c)' = wire[c] \o Append(OutgoingMessages[c], r)
        BY <1>2, <1>3, <1>4, <2>2 DEF Underway
      <3>2. Underway(c) = wire[c] \o OutgoingMessages[c] BY <2>2 DEF Underway
      <3>3. wire[c] \o Append(OutgoingMessages[c], r)
               = Append(wire[c] \o OutgoingMessages[c], r)
        BY <1>1, <1>5, <1>6
      <3> QED BY <3>1, <3>2, <3>3
    <2> QED BY <2>1, <2>2
  <1>8. Given(c)' = Given(c) BY <1>2, GivenFrame
  <1>9. Same(c) /\ ~Over(c) BY <1>2 DEF Same, Over, StreamInv, Callbacks
  <1> QED BY <1>2, <1>7, <1>8, <1>9 DEF Posts, r

LEMMA WriteToSessionStream ==
  ASSUME IInv, StreamInv, NEW w \in Worker, NEW c \in Call, WriteToSession(w, c),
         UNCHANGED proxyVars
  PROVE  StreamInv' /\ FeedStep
  <1>1. UNCHANGED <<link, wire, session, stream, delivered>> /\ Write(c, worker[w].req)
    BY DEF WriteToSession, proxyVars
  <1>2. CASE session[c] # "live"
    <2>1. UNCHANGED streamVars /\ UNCHANGED session
      BY <1>1, <1>2 DEF Write, streamVars
    <2> QED BY <2>1, QuietStream
  <1>3. CASE session[c] = "live"
    <2>1. /\ op \in [Call -> {"none", "writing", "sent", "failed"}]
          /\ OutgoingMessages \in [Call -> Seq(Request)]
          /\ op[c] = "none" <=> ~bIsWriting[c]
      BY DEF IInv, RpcTypeOK, TransportTypeOK, ServiceTypeOK, WriterInv, WriterBusy
    <2>2. \A d \in Call : d # c => /\ op'[d] = op[d]
                                   /\ OutgoingMessages'[d] = OutgoingMessages[d]
      BY <1>1, <1>3, <2>1 DEF Write
    <2>3. op'[c] \in {op[c], "writing"} BY <1>1, <1>3, <2>1 DEF Write
    <2>4. \A d \in Call \ {c} : Keeps(d) BY <1>1, <2>2, KeepsFrame
    <2>5. StreamInv'
      <3>1. Callbacks' BY <1>1, CallbacksFrame DEF StreamInv
      <3> QED BY <1>1, <2>2, <2>3, <3>1 DEF StreamInv, LinkBegins, FailedBroken, FirstEmpty
    <2>6. link[c] # "open" => Keeps(c)
      BY <1>1, GivenFrame DEF Keeps, Underway, Same, Over
    <2>7. Broadcasts(c) BY <1>3, <2>6, WritePosts DEF Broadcasts
    <2> QED BY <2>4, <2>5, <2>7 DEF FeedStep
  <1> QED BY <1>2, <1>3

LEMMA SessionStepsStream ==
  ASSUME IInv, StreamInv, NEW c \in Call, SessionSteps(c)
  PROVE  StreamInv' /\ FeedStep
  <1>1. CASE ConnectOperation(c) /\ UNCHANGED proxyVars
    <2>1. \A d \in Call : session'[d] = "deleted" => session[d] = "deleted"
      BY <1>1 DEF ConnectOperation, IInv, RpcTypeOK, ServiceTypeOK
    <2>2. UNCHANGED streamVars
      BY <1>1 DEF ConnectOperation, streamVars, proxyVars, transportVars
    <2> QED BY <2>1, <2>2, QuietStream
  <1> QED BY <1>1, WriteOperationStream, WriteFailedStream DEF SessionSteps

LEMMA PairsStream == ASSUME IInv, StreamInv, Pairs PROVE StreamInv' /\ FeedStep
  <1>1. UNCHANGED streamVars
    BY DEF Pairs, MatchCall, MatchRequest, streamVars, sessionVars, proxyVars, transportVars
  <1>2. \A d \in Call : session'[d] = "deleted" => session[d] = "deleted"
    BY DEF Pairs, MatchCall, MatchRequest, IInv, RpcTypeOK, ServiceTypeOK, sessionVars
  <1> QED BY <1>1, <1>2, QuietStream

LEMMA RequestStepsStream ==
  ASSUME IInv, StreamInv, NEW w \in Worker, RequestSteps(w)
  PROVE  StreamInv' /\ FeedStep
  <1>1. ASSUME BeginRequest(w) \/ NumberRequest(w) \/ CopySessions(w) \/ FinishRequest(w)
        PROVE  StreamInv' /\ FeedStep
    <2>1. UNCHANGED streamVars /\ UNCHANGED session
      BY <1>1 DEF RequestSteps, BeginRequest, NumberRequest, CopySessions, FinishRequest,
                  streamVars, sessionVars, proxyVars, transportVars
    <2> QED BY <2>1, QuietStream
  <1> QED BY <1>1, WriteToSessionStream DEF RequestSteps

----------------------------------------------------------------------------
LEMMA InitStream == Init => StreamInv
  BY DEF Init, TransportInit, ServiceInit, ProxyInit, StreamInv, LinkBegins, FailedBroken,
         FirstEmpty, Callbacks, LastOf

LEMMA StepStream ==
  ASSUME IInv, StreamInv, [Next]_vars
  PROVE  StreamInv' /\ FeedStep
  <1>1. CASE ClientCalls
    <2>1. UNCHANGED serviceVars BY <1>1 DEF ClientCalls
    <2>2. CASE \E c \in Call, g \in GroupId : SyncGroup(c, g)
      BY <2>1, <2>2, SyncGroupStream
    <2>3. CASE \/ \E r \in Request, g \in GroupId : ExecuteBehavior(r, g)
               \/ \E p \in Leaving : BeginDestroy(p)
      <3>1. UNCHANGED streamVars /\ UNCHANGED session
        BY <2>1, <2>3 DEF ExecuteBehavior, BeginDestroy, streamVars, serviceVars, sessionVars,
                          proxyVars, transportVars
      <3> QED BY <3>1, QuietStream
    <2> QED BY <1>1, <2>2, <2>3 DEF ClientCalls
  <1>2. CASE \E r \in Request : Answer(r)
    <2>1. UNCHANGED streamVars /\ UNCHANGED session
      BY <1>2 DEF Answer, streamVars, serviceVars, sessionVars, proxyVars
    <2> QED BY <2>1, QuietStream
  <1>3. CASE ServerDestructor
    <2>1. UNCHANGED streamVars /\ UNCHANGED session
      BY <1>3 DEF ServerDestructor, BeginShutdown, EndShutdown, streamVars, sessionVars,
                  proxyVars, transportVars
    <2> QED BY <2>1, QuietStream
  <1>4. CASE UNCHANGED vars
    <2>1. UNCHANGED streamVars /\ UNCHANGED session
      BY <1>4 DEF vars, streamVars, transportVars, serviceVars, sessionVars, proxyVars
    <2> QED BY <2>1, QuietStream
  <1> QED
    BY <1>1, <1>2, <1>3, <1>4, ClientThreadStream, BreaksStream, TransportsStream,
       SessionStepsStream, PairsStream, RequestStepsStream DEF Next

----------------------------------------------------------------------------
(* Who serves a request, and what was known when it was made.              *)

\* A request is served by one worker, once.
OneServer ==
    /\ \A w \in Worker : worker[w].matched # NoRequest => served[worker[w].matched] = "matched"
    /\ \A w \in Worker : worker[w].req # NoRequest => served[worker[w].req] = "working"
    /\ \A v, w \in Worker :
          worker[v].matched = worker[w].matched /\ worker[w].matched # NoRequest => v = w
    /\ \A v, w \in Worker :
          worker[v].req = worker[w].req /\ worker[w].req # NoRequest => v = w

\* A live session is registered in its group.
LiveRegistered == \A c \in Call : session[c] = "live" => c \in Sessions[group[c]]

AnsweredFinished == \A r \in Request : asked[r] = "answered" => served[r] = "finished"

BeforeKnown ==
    \A r \in Request :
        /\ \A c \in before[r].live : session[c] \in {"live", "deleted"} /\ asked[r] # "none"
        /\ \A s \in before[r].answered : asked[s] = "answered" /\ asked[r] # "none"

ServedInv == OneServer /\ LiveRegistered /\ AnsweredFinished /\ BeforeKnown

LEMMA OneServerFrame ==
  ASSUME OneServer, UNCHANGED <<worker, served>>
  PROVE  OneServer'
  BY DEF OneServer

LEMMA LiveFrame ==
  ASSUME LiveRegistered, UNCHANGED <<session, Sessions, group>>
  PROVE  LiveRegistered'
  BY DEF LiveRegistered

LEMMA AnsweredFrame ==
  ASSUME AnsweredFinished, UNCHANGED asked,
         \A r \in Request : served[r] = "finished" => served'[r] = "finished"
  PROVE  AnsweredFinished'
  BY DEF AnsweredFinished

LEMMA BeforeKnownFrame ==
  ASSUME RpcTypeOK, BeforeKnown, UNCHANGED <<before, asked>>,
         \A c \in Call : session[c] \in {"live", "deleted"} => session'[c] \in {"live", "deleted"}
  PROVE  BeforeKnown'
  <1>1. \A r \in Request : before[r].live \subseteq Call BY DEF RpcTypeOK, Before
  <1> QED BY <1>1 DEF BeforeKnown

----------------------------------------------------------------------------
(* What the steps of a worker do to it.                                    *)

OthersKeep(w) == \A v \in Worker \ {w} : worker'[v] = worker[v]

LEMMA MatchRequestEffect ==
  ASSUME IInv, NEW r \in Request, NEW w \in Worker, MatchRequest(r, w)
  PROVE  /\ OthersKeep(w)
         /\ worker[w].matched = NoRequest /\ worker'[w].matched = r
         /\ worker'[w].at = worker[w].at /\ worker'[w].req = worker[w].req
         /\ worker'[w].TempSessions = worker[w].TempSessions
         /\ served[r] = "none"
         /\ \A s \in Request : served'[s] = IF s = r THEN "matched" ELSE served[s]
  <1>1. worker \in [Worker -> WorkerState]
    BY DEF IInv, RpcTypeOK, ServiceTypeOK
  <1>2. served \in [Request -> {"none", "matched", "working", "finished"}]
    BY DEF IInv, RpcTypeOK, ServiceTypeOK
  <1> QED BY <1>1, <1>2 DEF MatchRequest, OthersKeep, WorkerState

LEMMA BeginRequestEffect ==
  ASSUME IInv, NEW w \in Worker, BeginRequest(w)
  PROVE  /\ OthersKeep(w)
         /\ worker[w].matched \in Request
         /\ worker'[w].req = worker[w].matched /\ worker'[w].matched = NoRequest
         /\ worker'[w].at = "number"
         /\ worker'[w].TempSessions = worker[w].TempSessions
         /\ \A s \in Request : served'[s] = IF s = worker[w].matched THEN "working" ELSE served[s]
  <1>1. worker \in [Worker -> WorkerState]
    BY DEF IInv, RpcTypeOK, ServiceTypeOK
  <1>2. served \in [Request -> {"none", "matched", "working", "finished"}]
    BY DEF IInv, RpcTypeOK, ServiceTypeOK
  <1>3. OthersKeep(w) BY <1>1 DEF BeginRequest, OthersKeep
  <1>4. worker[w] \in WorkerState /\ worker[w].matched \in Request
    BY <1>1 DEF BeginRequest, WorkerState
  <1>5. /\ worker'[w].req = worker[w].matched /\ worker'[w].matched = NoRequest
        /\ worker'[w].at = "number"
        /\ worker'[w].TempSessions = worker[w].TempSessions
    BY <1>1, <1>4 DEF BeginRequest, WorkerState
  <1>6. \A s \in Request : served'[s] = IF s = worker[w].matched THEN "working" ELSE served[s]
    BY <1>2, <1>4 DEF BeginRequest
  <1> QED BY <1>3, <1>4, <1>5, <1>6

LEMMA NumberRequestEffect ==
  ASSUME IInv, NEW w \in Worker, NumberRequest(w)
  PROVE  /\ OthersKeep(w) /\ served' = served
         /\ worker'[w].req = worker[w].req /\ worker'[w].matched = worker[w].matched
         /\ worker[w].at = "number" /\ worker'[w].at = "lookup"
         /\ worker'[w].TempSessions = worker[w].TempSessions
  <1>1. worker \in [Worker -> WorkerState]
    BY DEF IInv, RpcTypeOK, ServiceTypeOK
  <1> QED BY <1>1 DEF NumberRequest, OthersKeep, WorkerState

LEMMA CopySessionsEffect ==
  ASSUME IInv, NEW w \in Worker, CopySessions(w)
  PROVE  /\ OthersKeep(w) /\ served' = served
         /\ worker'[w].req = worker[w].req /\ worker'[w].matched = worker[w].matched
         /\ worker[w].at = "lookup" /\ worker'[w].at = "send"
         /\ worker'[w].TempSessions = Sessions[group[worker[w].req]]
  <1>1. worker \in [Worker -> WorkerState]
    BY DEF IInv, RpcTypeOK, ServiceTypeOK
  <1> QED BY <1>1 DEF CopySessions, OthersKeep, WorkerState

LEMMA WriteToSessionEffect ==
  ASSUME IInv, NEW w \in Worker, NEW c \in Call, WriteToSession(w, c)
  PROVE  /\ OthersKeep(w) /\ served' = served
         /\ worker[w].req \in Request
         /\ worker'[w].req = worker[w].req /\ worker'[w].matched = worker[w].matched
         /\ worker[w].at = "send" /\ worker'[w].at = "send"
         /\ c \in worker[w].TempSessions
         /\ worker'[w].TempSessions = worker[w].TempSessions \ {c}
  <1>1. worker \in [Worker -> WorkerState]
    BY DEF IInv, RpcTypeOK, ServiceTypeOK
  <1>2. worker[w].req \in Request
    BY <1>1 DEF WriteToSession, WorkerState, IInv, RpcTypeOK, ServiceTypeOK
  <1> QED BY <1>1, <1>2 DEF WriteToSession, OthersKeep, WorkerState

LEMMA FinishRequestEffect ==
  ASSUME IInv, NEW w \in Worker, FinishRequest(w)
  PROVE  /\ OthersKeep(w)
         /\ worker[w].req \in Request
         /\ worker'[w].req = NoRequest /\ worker'[w].matched = worker[w].matched
         /\ worker[w].at = "send" /\ worker'[w].at = "idle"
         /\ worker[w].TempSessions = {} /\ worker'[w].TempSessions = {}
         /\ \A s \in Request : served'[s] = IF s = worker[w].req THEN "finished" ELSE served[s]
  <1>1. worker \in [Worker -> WorkerState]
    BY DEF IInv, RpcTypeOK, ServiceTypeOK
  <1>2. served \in [Request -> {"none", "matched", "working", "finished"}]
    BY DEF IInv, RpcTypeOK, ServiceTypeOK
  <1>3. worker[w].req \in Request
    BY <1>1 DEF FinishRequest, WorkerState, IInv, RpcTypeOK, ServiceTypeOK
  <1>4. \A s \in Request : served'[s] = IF s = worker[w].req THEN "finished" ELSE served[s]
    BY <1>2, <1>3 DEF FinishRequest
  <1> QED BY <1>1, <1>3, <1>4 DEF FinishRequest, OthersKeep, WorkerState

----------------------------------------------------------------------------
LEMMA InitServed == Init => ServedInv
  BY DEF Init, TransportInit, ServiceInit, ProxyInit, IdleWorker, ServedInv, OneServer,
         LiveRegistered, AnsweredFinished, BeforeKnown

\* Neither workers nor sessions nor answers.
LEMMA ServedFrame ==
  ASSUME IInv, ServedInv,
         UNCHANGED <<worker, served, session, Sessions, group, asked, before>>
  PROVE  ServedInv'
  <1>1. OneServer' BY OneServerFrame DEF ServedInv
  <1>2. LiveRegistered' BY LiveFrame DEF ServedInv
  <1>3. AnsweredFinished' BY AnsweredFrame DEF ServedInv
  <1>4. BeforeKnown' BY BeforeKnownFrame DEF ServedInv, IInv
  <1> QED BY <1>1, <1>2, <1>3, <1>4 DEF ServedInv

LEMMA SyncGroupServed ==
  ASSUME IInv, ServedInv, NEW c \in Call, NEW g \in GroupId, SyncGroup(c, g),
         UNCHANGED <<before, serviceVars>>
  PROVE  ServedInv'
  <1> USE DEF ServedInv
  <1>1. UNCHANGED <<worker, served, session, Sessions, asked, before>>
    BY DEF SyncGroup, serviceVars, sessionVars, unaryVars
  <1>2. session[c] = "none" BY DEF SyncGroup, IInv, KnownInv, CallsKnown
  <1>3. \A d \in Call : d # c => group'[d] = group[d]
    BY DEF SyncGroup, IInv, RpcTypeOK, TransportTypeOK
  <1>4. LiveRegistered' BY <1>1, <1>2, <1>3 DEF LiveRegistered
  <1>5. OneServer' /\ AnsweredFinished' BY <1>1, OneServerFrame, AnsweredFrame
  <1>6. BeforeKnown' BY <1>1, BeforeKnownFrame DEF IInv
  <1> QED BY <1>4, <1>5, <1>6

LEMMA ExecuteBehaviorServed ==
  ASSUME IInv, ServedInv, NEW r \in Request, NEW g \in GroupId, ExecuteBehavior(r, g),
         UNCHANGED serviceVars,
         before' = [before EXCEPT ![r] =
                       [live |-> {c \in Call : session[c] = "live"},
                        answered |-> {s \in Request : asked[s] = "answered"}]]
  PROVE  ServedInv'
  <1> USE DEF ServedInv
  <1>1. UNCHANGED <<worker, served, session, Sessions>>
    BY DEF serviceVars, sessionVars, unaryVars
  <1>2. \A d \in Call : group'[d] = group[d]
    BY DistinctAssumption DEF ExecuteBehavior, IInv, RpcTypeOK, TransportTypeOK
  <1>3. asked[r] = "none" /\ \A s \in Request : asked'[s] = IF s = r THEN "waiting" ELSE asked[s]
    BY DEF ExecuteBehavior, IInv, RpcTypeOK, TransportTypeOK
  <1>4. OneServer' BY <1>1, OneServerFrame
  <1>5. LiveRegistered' BY <1>1, <1>2 DEF LiveRegistered
  <1>6. AnsweredFinished' BY <1>1, <1>3 DEF AnsweredFinished
  <1>7. BeforeKnown'
    <2> SUFFICES ASSUME NEW q \in Request
                 PROVE  /\ \A c \in before'[q].live :
                              session'[c] \in {"live", "deleted"} /\ asked'[q] # "none"
                        /\ \A s \in before'[q].answered :
                              asked'[s] = "answered" /\ asked'[q] # "none"
      BY DEF BeforeKnown
    <2>1. before \in [Request -> Before] BY DEF IInv, RpcTypeOK
    <2>2. CASE q = r
      <3>1. /\ before'[q].live = {c \in Call : session[c] = "live"}
            /\ before'[q].answered = {s \in Request : asked[s] = "answered"}
        BY <2>1, <2>2
      <3> QED BY <1>1, <1>3, <2>2, <3>1
    <2>3. CASE q # r
      <3>1. before'[q] = before[q] BY <2>1, <2>3
      <3>2. before[q].answered \subseteq Request BY <2>1 DEF Before
      <3> QED BY <1>1, <1>3, <2>3, <3>1, <3>2 DEF BeforeKnown
    <2> QED BY <2>2, <2>3
  <1> QED BY <1>4, <1>5, <1>6, <1>7

\* A request is answered or fails.
LEMMA AskedServed ==
  ASSUME IInv, ServedInv, NEW r \in Request,
         asked[r] = "waiting",
         \/ asked' = [asked EXCEPT ![r] = "answered"] /\ served[r] = "finished"
         \/ asked' = [asked EXCEPT ![r] = "failed"],
         UNCHANGED <<worker, served, session, Sessions, group, before>>
  PROVE  ServedInv'
  <1> USE DEF ServedInv
  <1>1. OneServer' BY OneServerFrame
  <1>2. LiveRegistered' BY LiveFrame
  <1>3. /\ asked'[r] \in {"answered", "failed"}
        /\ asked'[r] = "answered" => served[r] = "finished"
        /\ \A s \in Request : s # r => asked'[s] = asked[s]
    BY DEF IInv, RpcTypeOK, TransportTypeOK
  <1>4. AnsweredFinished' BY <1>3 DEF AnsweredFinished
  <1>5. BeforeKnown'
    <2>1. \A q \in Request : before[q].answered \subseteq Request
      BY DEF IInv, RpcTypeOK, Before
    <2> QED BY <1>3, <2>1 DEF BeforeKnown
  <1> QED BY <1>1, <1>2, <1>4, <1>5

LEMMA MatchCallServed ==
  ASSUME IInv, ServedInv, NEW c \in Call, NEW w \in Worker, MatchCall(c, w),
         UNCHANGED <<proxyVars, before>>
  PROVE  ServedInv'
  <1> USE DEF ServedInv
  <1>1. UNCHANGED <<worker, served, Sessions, group, asked, before>>
    BY DEF MatchCall, unaryVars, transportVars
  <1>2. /\ session[c] = "none"
        /\ \A d \in Call : session'[d] = IF d = c THEN "matched" ELSE session[d]
    BY DEF MatchCall, IInv, RpcTypeOK, ServiceTypeOK
  <1>3. OneServer' /\ AnsweredFinished' BY <1>1, OneServerFrame, AnsweredFrame
  <1>4. LiveRegistered' BY <1>1, <1>2 DEF LiveRegistered
  <1>5. BeforeKnown' BY <1>1, <1>2, BeforeKnownFrame DEF IInv
  <1> QED BY <1>3, <1>4, <1>5

LEMMA MatchRequestServed ==
  ASSUME IInv, ServedInv, NEW r \in Request, NEW w \in Worker, MatchRequest(r, w),
         UNCHANGED <<proxyVars, before>>
  PROVE  ServedInv'
  <1> USE DEF ServedInv
  <1>1. UNCHANGED <<session, Sessions, group, asked, before>>
    BY DEF MatchRequest, sessionVars, transportVars
  <1>2. /\ OthersKeep(w)
        /\ worker[w].matched = NoRequest /\ worker'[w].matched = r
        /\ worker'[w].req = worker[w].req
        /\ served[r] = "none"
        /\ \A s \in Request : served'[s] = IF s = r THEN "matched" ELSE served[s]
    BY MatchRequestEffect
  <1>3. \A v \in Worker : /\ worker[v].matched \in Request \cup {NoRequest}
                          /\ worker[v].req \in Request \cup {NoRequest}
    BY DEF IInv, RpcTypeOK, ServiceTypeOK, WorkerState
  <1>4. \A v \in Worker : worker[v].matched # r /\ worker[v].req # r
    BY <1>2, NoRequestAssumption DEF OneServer
  <1>5. OneServer' BY <1>2, <1>3, <1>4 DEF OneServer, OthersKeep
  <1>6. LiveRegistered' BY <1>1, LiveFrame
  <1>7. AnsweredFinished' BY <1>1, <1>2, AnsweredFrame
  <1>8. BeforeKnown' BY <1>1, BeforeKnownFrame DEF IInv
  <1> QED BY <1>5, <1>6, <1>7, <1>8

LEMMA ConnectOperationServed ==
  ASSUME IInv, ServedInv, NEW c \in Call, ConnectOperation(c), UNCHANGED <<proxyVars, before>>
  PROVE  ServedInv'
  <1> USE DEF ServedInv
  <1>1. UNCHANGED <<worker, served, group, asked, before>>
    BY DEF ConnectOperation, unaryVars, transportVars
  <1>2. \A d \in Call : session'[d] = IF d = c THEN "live" ELSE session[d]
    BY DEF ConnectOperation, IInv, RpcTypeOK, ServiceTypeOK
  <1>3. \A d \in Call : session'[d] # "none" => group[d] \in GroupId
    BY <1>2 DEF ConnectOperation, IInv, KnownInv, CallsKnown
  <1>4. \A g \in GroupId :
           Sessions'[g] = IF g = group[c] THEN Sessions[g] \cup {c} ELSE Sessions[g]
    BY DEF ConnectOperation, IInv, RpcTypeOK, ServiceTypeOK
  <1>5. LiveRegistered' BY <1>1, <1>2, <1>3, <1>4 DEF LiveRegistered
  <1>6. OneServer' /\ AnsweredFinished' BY <1>1, OneServerFrame, AnsweredFrame
  <1>7. BeforeKnown' BY <1>1, <1>2, BeforeKnownFrame DEF IInv
  <1> QED BY <1>5, <1>6, <1>7

LEMMA WriteFailedServed ==
  ASSUME IInv, ServedInv, NEW c \in Call, WriteFailed(c), UNCHANGED <<proxyVars, before>>
  PROVE  ServedInv'
  <1> USE DEF ServedInv
  <1>1. UNCHANGED <<worker, served, group, asked, before>>
    BY DEF WriteFailed, unaryVars
  <1>2. \A d \in Call : session'[d] = IF d = c THEN "deleted" ELSE session[d]
    BY DEF WriteFailed, IInv, RpcTypeOK, ServiceTypeOK
  <1>3. \A d \in Call : session[d] # "none" => group[d] \in GroupId
    BY DEF IInv, KnownInv, CallsKnown
  <1>4. \A g \in GroupId : Sessions[g] \ {c} \subseteq Sessions'[g]
    BY DEF WriteFailed, IInv, RpcTypeOK, ServiceTypeOK
  <1>5. LiveRegistered' BY <1>1, <1>2, <1>3, <1>4 DEF LiveRegistered
  <1>6. OneServer' /\ AnsweredFinished' BY <1>1, OneServerFrame, AnsweredFrame
  <1>7. BeforeKnown' BY <1>1, <1>2, BeforeKnownFrame DEF IInv
  <1> QED BY <1>5, <1>6, <1>7

LEMMA RequestStepsServed ==
  ASSUME IInv, ServedInv, NEW w \in Worker, RequestSteps(w)
  PROVE  ServedInv'
  <1> USE DEF ServedInv
  <1>1. UNCHANGED <<session, Sessions, group, asked, before>>
    BY DEF RequestSteps, BeginRequest, NumberRequest, CopySessions, WriteToSession,
           FinishRequest, sessionVars, transportVars
  <1>2. LiveRegistered' BY <1>1, LiveFrame
  <1>3. BeforeKnown' BY <1>1, BeforeKnownFrame DEF IInv
  <1>4. \A v \in Worker : /\ worker[v].matched \in Request \cup {NoRequest}
                          /\ worker[v].req \in Request \cup {NoRequest}
    BY DEF IInv, RpcTypeOK, ServiceTypeOK, WorkerState
  <1>5. CASE BeginRequest(w)
    <2> DEFINE r == worker[w].matched
    <2>1. /\ OthersKeep(w) /\ r \in Request
          /\ worker'[w].req = r /\ worker'[w].matched = NoRequest
          /\ \A s \in Request : served'[s] = IF s = r THEN "working" ELSE served[s]
      BY <1>5, BeginRequestEffect
    <2>2. served[r] = "matched" BY <2>1, NoRequestAssumption DEF OneServer
    <2>3. \A v \in Worker : worker[v].req # r BY <2>1, <2>2, NoRequestAssumption DEF OneServer
    <2>4. \A v \in Worker \ {w} : worker[v].matched # r
      BY <2>1, NoRequestAssumption DEF OneServer
    <2> HIDE DEF r
    <2>5. OneServer' BY <1>4, <2>1, <2>3, <2>4 DEF OneServer, OthersKeep
    <2>6. AnsweredFinished' BY <1>1, <2>1, <2>2, AnsweredFrame
    <2> QED BY <1>2, <1>3, <2>5, <2>6
  <1>6. CASE FinishRequest(w)
    <2> DEFINE r == worker[w].req
    <2>1. /\ OthersKeep(w) /\ r \in Request
          /\ worker'[w].req = NoRequest /\ worker'[w].matched = worker[w].matched
          /\ \A s \in Request : served'[s] = IF s = r THEN "finished" ELSE served[s]
      BY <1>6, FinishRequestEffect
    <2>2. served[r] = "working" BY <2>1, NoRequestAssumption DEF OneServer
    <2>3. \A v \in Worker : worker[v].matched # r
      BY <2>1, <2>2, NoRequestAssumption DEF OneServer
    <2>4. \A v \in Worker \ {w} : worker[v].req # r
      BY <2>1, NoRequestAssumption DEF OneServer
    <2> HIDE DEF r
    <2>5. OneServer' BY <1>4, <2>1, <2>3, <2>4 DEF OneServer, OthersKeep
    <2>6. AnsweredFinished' BY <1>1, <2>1, AnsweredFrame
    <2> QED BY <1>2, <1>3, <2>5, <2>6
  <1>7. ASSUME \/ NumberRequest(w) \/ CopySessions(w)
               \/ \E c \in Call : WriteToSession(w, c)
        PROVE  ServedInv'
    <2>1. /\ OthersKeep(w) /\ served' = served
          /\ worker'[w].req = worker[w].req /\ worker'[w].matched = worker[w].matched
      BY <1>7, NumberRequestEffect, CopySessionsEffect, WriteToSessionEffect
    <2>2. OneServer' BY <2>1 DEF OneServer, OthersKeep
    <2>3. AnsweredFinished' BY <1>1, <2>1, AnsweredFrame
    <2> QED BY <1>2, <1>3, <2>2, <2>3
  <1> QED BY <1>5, <1>6, <1>7 DEF RequestSteps

LEMMA StepServed == ASSUME IInv, ServedInv, [Next]_vars PROVE ServedInv'
  <1>1. CASE ClientCalls
    <2>1. CASE \E p \in Leaving : BeginDestroy(p) /\ UNCHANGED before
      BY <1>1, <2>1, ServedFrame
      DEF ClientCalls, BeginDestroy, serviceVars, sessionVars, unaryVars, transportVars
    <2> QED BY <1>1, <2>1, SyncGroupServed, ExecuteBehaviorServed DEF ClientCalls
  <1>2. CASE \E p \in Client : ClientThread(p)
    <2>1. UNCHANGED <<worker, served, session, Sessions, group, asked, before>>
      BY <1>2 DEF ClientThread, ProceedReading, ProceedEnded, ProceedFinished, EndDestroy,
                  serviceVars, sessionVars, unaryVars, transportVars
    <2> QED BY <2>1, ServedFrame
  <1>3. CASE \E r \in Request : Answer(r)
    BY <1>3, AskedServed DEF Answer, serviceVars, sessionVars, unaryVars
  <1>4. CASE \E x \in Call \cup Request : Breaks(x)
    <2> PICK x \in Call \cup Request : Breaks(x) BY <1>4
    <2>1. UNCHANGED <<worker, served, session, Sessions, before>>
      BY DEF Breaks, serviceVars, sessionVars, unaryVars
    <2>2. CASE x \in Call BY <2>1, <2>2, ServedFrame DEF Breaks, Break
    <2>3. CASE x \notin Call BY <2>1, <2>3, AskedServed DEF Breaks, BreakRequest
    <2> QED BY <2>2, <2>3
  <1>5. CASE \E c \in Call : Transports(c)
    <2>1. UNCHANGED <<worker, served, session, Sessions, group, asked, before>>
      BY <1>5 DEF Transports, Transmit, Refuse, serviceVars, sessionVars, unaryVars
    <2> QED BY <2>1, ServedFrame
  <1>6. CASE \E c \in Call : SessionSteps(c)
    <2>1. ASSUME NEW c \in Call, WriteOperation(c), UNCHANGED before PROVE ServedInv'
      BY <2>1, ServedFrame DEF WriteOperation, unaryVars
    <2> QED BY <1>6, <2>1, ConnectOperationServed, WriteFailedServed DEF SessionSteps
  <1>7. CASE Pairs BY <1>7, MatchCallServed, MatchRequestServed DEF Pairs
  <1>8. CASE ServerDestructor
    BY <1>8, ServedFrame
    DEF ServerDestructor, BeginShutdown, EndShutdown, sessionVars, unaryVars, transportVars
  <1>9. CASE UNCHANGED vars
    BY <1>9, ServedFrame DEF vars, transportVars, serviceVars, sessionVars, unaryVars
  <1> QED
    BY <1>1, <1>2, <1>3, <1>4, <1>5, <1>6, <1>7, <1>8, <1>9, RequestStepsServed DEF Next

----------------------------------------------------------------------------
(* All that was posted to a subscriber and is not lost.                    *)

\* What a step does to it: nothing, or a broadcast adds a packet while the
\* connection is there, or the connection breaks and a last part is cut off.
CutThrough(c) ==
    /\ link'[c] = "broken"
    /\ \E n \in 0 .. Len(Through(c)) : Through(c)' = SubSeq(Through(c), 1, n)

MoreThrough(w, c) ==
    /\ link[c] = "open"
    /\ Through(c)' = Append(Through(c), worker[w].req)

LEMMA PostsThrough ==
  ASSUME IInv, StreamInv, NEW w \in Worker, NEW c \in Call, WriteToSession(w, c),
         Posts(c, worker[w].req)
  PROVE  MoreThrough(w, c)
  <1> DEFINE P == Request \cup {Empty}
             r == worker[w].req
  <1>1. Given(c) \in Seq(P) /\ Underway(c) \in Seq(P) /\ r \in P
    BY StreamTypes, SeqMonotonic, WriteToSessionEffect
  <1>2. /\ link[c] = "open" /\ Underway(c)' = Append(Underway(c), r)
        /\ Given(c)' = Given(c)
    BY DEF Posts
  <1> HIDE DEF P, r
  <1>3. \A s, t \in Seq(P) : \A e \in P : s \o Append(t, e) = Append(s \o t, e)
    BY ConcatAppend
  <1>4. Given(c) \o Append(Underway(c), r) = Append(Given(c) \o Underway(c), r)
    BY <1>1, <1>3
  <1>5. Through(c)' = Append(Through(c), r) BY <1>2, <1>4 DEF Through
  <1> QED BY <1>2, <1>5 DEF MoreThrough, r

LEMMA ThroughStep ==
  ASSUME IInv, StreamInv, FeedStep, NEW c \in Call
  PROVE  \/ Through(c)' = Through(c) /\ (link'[c] = "open" => link[c] # "broken")
         \/ CutThrough(c)
         \/ \E w \in Worker : WriteToSession(w, c) /\ MoreThrough(w, c)
  <1> DEFINE P == Request \cup {Empty}
             G == Given(c)
             U == Underway(c)
  <1>1. G \in Seq(P) /\ U \in Seq(P) BY StreamTypes, SeqMonotonic
  <1>2. \/ Keeps(c) \/ Opens(c) \/ Greets(c) \/ Takes(c) \/ Ends(c)
        \/ Closes(c) \/ Broadcasts(c)
    BY DEF FeedStep
  <1>3. CASE Keeps(c) \/ Opens(c) \/ Greets(c) \/ Closes(c)
    BY <1>3 DEF Keeps, Opens, Greets, Closes, Through
  <1>4. CASE Takes(c)
    <2>1. U # <<>> /\ G' = Append(G, Head(U)) /\ U' = Tail(U) /\ link'[c] = link[c]
      BY <1>4 DEF Takes
    <2> HIDE DEF P, G, U
    <2>2. Append(G, Head(U)) \o Tail(U) = G \o U BY <1>1, <2>1, MoveHead
    <2>3. G' \o U' = G \o U BY <2>1, <2>2
    <2> QED BY <2>1, <2>3 DEF Through, G, U
  <1>5. CASE Ends(c)
    <2>1. /\ G' = G /\ link'[c] = "broken"
          /\ \E n \in 0 .. Len(U) : U' = SubSeq(U, 1, n)
      BY <1>5 DEF Ends
    <2>2. PICK n \in 0 .. Len(U) : U' = SubSeq(U, 1, n) BY <2>1
    <2> HIDE DEF P, G, U
    <2>3. /\ Len(G) + n \in 0 .. Len(G \o U)
          /\ G \o SubSeq(U, 1, n) = SubSeq(G \o U, 1, Len(G) + n)
      BY <1>1, ConcatPrefix
    <2>4. G' \o U' = SubSeq(G \o U, 1, Len(G) + n) BY <2>1, <2>2, <2>3
    <2>5. CutThrough(c) BY <2>1, <2>3, <2>4 DEF CutThrough, Through, G, U
    <2> QED BY <2>5
  <1>6. CASE Broadcasts(c)
    <2> PICK w \in Worker : /\ WriteToSession(w, c)
                            /\ IF link[c] = "open" THEN Posts(c, worker[w].req) ELSE Keeps(c)
      BY <1>6 DEF Broadcasts
    <2>1. CASE link[c] = "open" BY <2>1, PostsThrough
    <2>2. CASE link[c] # "open" BY <2>2 DEF Keeps, Through
    <2> QED BY <2>1, <2>2
  <1> QED BY <1>2, <1>3, <1>4, <1>5, <1>6

LEMMA FeedStepLinks ==
  ASSUME FeedStep, NEW c \in Call, link'[c] = "open"
  PROVE  link[c] \in {"none", "open"}
  BY DEF FeedStep, Keeps, Opens, Greets, Takes, Ends, Closes, Broadcasts, Posts

\* A packet that is there was there, or is written by this step.
LEMMA NewPosts ==
  ASSUME IInv, StreamInv, FeedStep, NEW c \in Call, NEW r \in Range(Through(c))'
  PROVE  \/ r \in Range(Through(c))
         \/ \E w \in Worker : WriteToSession(w, c) /\ worker[w].req = r
  <1> DEFINE P == Request \cup {Empty}
             T == Through(c)
  <1>1. T \in Seq(P) BY StreamTypes
  <1>2. CASE Through(c)' = Through(c) BY <1>2 DEF Range
  <1>3. CASE CutThrough(c)
    <2>1. PICK n \in 0 .. Len(T) : T' = SubSeq(T, 1, n) BY <1>3 DEF CutThrough
    <2>2. Range(SubSeq(T, 1, n)) \subseteq Range(T) BY <1>1, RangeOfPrefix
    <2>3. r \in Range(SubSeq(T, 1, n)) BY <2>1 DEF Range
    <2> QED BY <2>2, <2>3
  <1>4. CASE \E w \in Worker : WriteToSession(w, c) /\ MoreThrough(w, c)
    <2> PICK w \in Worker : WriteToSession(w, c) /\ MoreThrough(w, c) BY <1>4
    <2> DEFINE m == worker[w].req
    <2>1. m \in P BY WriteToSessionEffect
    <2>2. T' = Append(T, m) BY DEF MoreThrough
    <2> HIDE DEF m, P
    <2>3. Range(Append(T, m)) = Range(T) \cup {m} BY <1>1, <2>1, RangeOfAppend
    <2>4. r \in Range(Append(T, m)) BY <2>2 DEF Range
    <2> QED BY <2>3, <2>4 DEF m
  <1> QED BY <1>2, <1>3, <1>4, ThroughStep

\* While the connection is there nothing posted is lost.
LEMMA StayPosted ==
  ASSUME IInv, StreamInv, FeedStep, NEW c \in Call, link'[c] = "open",
         NEW r \in Range(Through(c))
  PROVE  r \in Range(Through(c))'
  <1> DEFINE P == Request \cup {Empty}
             T == Through(c)
  <1>1. T \in Seq(P) BY StreamTypes
  <1>2. CASE Through(c)' = Through(c) BY <1>2 DEF Range
  <1>3. CASE \E w \in Worker : WriteToSession(w, c) /\ MoreThrough(w, c)
    <2> PICK w \in Worker : WriteToSession(w, c) /\ MoreThrough(w, c) BY <1>3
    <2> DEFINE m == worker[w].req
    <2>1. m \in P BY WriteToSessionEffect
    <2>2. T' = Append(T, m) BY DEF MoreThrough
    <2> HIDE DEF m, P
    <2>3. Range(Append(T, m)) = Range(T) \cup {m} BY <1>1, <2>1, RangeOfAppend
    <2> QED BY <2>2, <2>3 DEF Range
  <1>4. ~CutThrough(c) BY DEF CutThrough
  <1> QED BY <1>2, <1>3, <1>4, ThroughStep

----------------------------------------------------------------------------
(* Every request is posted to a subscriber at most once, and to those who  *)
(* were registered when it was made before it is answered.                 *)

\* A packet that was posted to a subscriber will not be again.
PostedOnce ==
    \A r \in Request, c \in Call :
        r \in Range(Through(c)) =>
            /\ served[r] \in {"working", "finished"}
            /\ \A w \in Worker : worker[w].req = r =>
                  worker[w].at = "send" /\ c \notin worker[w].TempSessions

\* A broadcast that has begun goes to everyone who was there.
PostedOnTheWay ==
    \A r \in Request : \A c \in before[r].live :
        group[c] = group[r] /\ link[c] = "open" =>
            /\ served[r] = "finished" => r \in Range(Through(c))
            /\ \A w \in Worker : worker[w].req = r /\ worker[w].at = "send" =>
                  c \in worker[w].TempSessions \/ r \in Range(Through(c))

FlowInv == PostedOnce /\ PostedOnTheWay /\ CausalOrder

DeliveryInv == StreamInv /\ ServedInv /\ FlowInv

\* A worker takes a step of a broadcast, or is paired with a request, or the
\* step is of somebody else.
LEMMA WorkerStep ==
  ASSUME [Next]_vars
  PROVE  \/ \E w \in Worker : RequestSteps(w)
         \/ \E r \in Request, w \in Worker : MatchRequest(r, w)
         \/ UNCHANGED <<worker, served>>
  <1>1. CASE ClientCalls BY <1>1 DEF ClientCalls, serviceVars, unaryVars
  <1>2. CASE \E p \in Client : ClientThread(p)
    BY <1>2 DEF ClientThread, serviceVars, unaryVars
  <1>3. CASE \E r \in Request : Answer(r) BY <1>3 DEF Answer, serviceVars, unaryVars
  <1>4. CASE \E x \in Call \cup Request : Breaks(x)
    BY <1>4 DEF Breaks, serviceVars, unaryVars
  <1>5. CASE \E c \in Call : Transports(c) BY <1>5 DEF Transports, serviceVars, unaryVars
  <1>6. CASE \E c \in Call : SessionSteps(c)
    BY <1>6 DEF SessionSteps, ConnectOperation, WriteOperation, WriteFailed, unaryVars
  <1>7. CASE Pairs BY <1>7 DEF Pairs, MatchCall, unaryVars
  <1>8. CASE ServerDestructor
    BY <1>8 DEF ServerDestructor, BeginShutdown, EndShutdown, unaryVars
  <1>9. CASE UNCHANGED vars BY <1>9 DEF vars, serviceVars, unaryVars
  <1> QED BY <1>1, <1>2, <1>3, <1>4, <1>5, <1>6, <1>7, <1>8, <1>9 DEF Next

LEMMA OneWorkerStep ==
  ASSUME IInv, [Next]_vars, NEW v \in Worker
  PROVE  worker'[v] = worker[v] \/ RequestSteps(v) \/ \E q \in Request : MatchRequest(q, v)
  <1>1. ASSUME NEW w \in Worker, RequestSteps(w), w # v PROVE worker'[v] = worker[v]
    BY <1>1, BeginRequestEffect, NumberRequestEffect, CopySessionsEffect,
       WriteToSessionEffect, FinishRequestEffect DEF RequestSteps, OthersKeep
  <1>2. ASSUME NEW w \in Worker, NEW q \in Request, MatchRequest(q, w), w # v
        PROVE  worker'[v] = worker[v]
    BY <1>2, MatchRequestEffect DEF OthersKeep
  <1> QED BY <1>1, <1>2, WorkerStep

\* Once a request is served it stays so.
LEMMA ServedOnward ==
  ASSUME IInv, ServedInv, [Next]_vars, NEW r \in Request
  PROVE  /\ served[r] \in {"working", "finished"} => served'[r] \in {"working", "finished"}
         /\ served'[r] = "finished" =>
               served[r] = "finished" \/ \E w \in Worker : FinishRequest(w) /\ worker[w].req = r
  <1>1. CASE \E w \in Worker : RequestSteps(w)
    <2> PICK w \in Worker : RequestSteps(w) BY <1>1
    <2>1. CASE BeginRequest(w)
      <3>1. served[worker[w].matched] = "matched"
        BY <2>1, BeginRequestEffect, NoRequestAssumption DEF ServedInv, OneServer
      <3> QED BY <2>1, <3>1, BeginRequestEffect
    <2>2. CASE FinishRequest(w) BY <2>2, FinishRequestEffect
    <2>3. CASE NumberRequest(w) \/ CopySessions(w) \/ \E c \in Call : WriteToSession(w, c)
      BY <2>3 DEF NumberRequest, CopySessions, WriteToSession
    <2> QED BY <2>1, <2>2, <2>3 DEF RequestSteps
  <1>2. CASE \E q \in Request, w \in Worker : MatchRequest(q, w)
    BY <1>2, MatchRequestEffect
  <1>3. CASE UNCHANGED <<worker, served>> BY <1>3
  <1> QED BY <1>1, <1>2, <1>3, WorkerStep

LEMMA PostedOnceNext ==
  ASSUME IInv, StreamInv, ServedInv, PostedOnce, FeedStep, [Next]_vars
  PROVE  PostedOnce'
  <1> SUFFICES ASSUME NEW r \in Request, NEW c \in Call, r \in Range(Through(c))'
               PROVE  /\ served'[r] \in {"working", "finished"}
                      /\ \A v \in Worker : worker'[v].req = r =>
                            worker'[v].at = "send" /\ c \notin worker'[v].TempSessions
    BY DEF PostedOnce
  <1>1. CASE \E w \in Worker : WriteToSession(w, c) /\ worker[w].req = r
    <2> PICK w \in Worker : WriteToSession(w, c) /\ worker[w].req = r BY <1>1
    <2>1. /\ OthersKeep(w) /\ served' = served
          /\ worker'[w].at = "send" /\ worker'[w].TempSessions = worker[w].TempSessions \ {c}
      BY WriteToSessionEffect
    <2>2. served[r] = "working" BY NoRequestAssumption DEF ServedInv, OneServer
    <2>3. \A v \in Worker \ {w} : worker[v].req # r
      BY NoRequestAssumption DEF ServedInv, OneServer
    <2> QED BY <2>1, <2>2, <2>3 DEF OthersKeep
  <1>2. CASE r \in Range(Through(c))
    <2>1. /\ served[r] \in {"working", "finished"}
          /\ \A v \in Worker : worker[v].req = r =>
                worker[v].at = "send" /\ c \notin worker[v].TempSessions
      BY <1>2 DEF PostedOnce
    <2>2. served'[r] \in {"working", "finished"} BY <2>1, ServedOnward
    <2>3. ASSUME NEW v \in Worker, worker'[v].req = r
          PROVE  worker'[v].at = "send" /\ c \notin worker'[v].TempSessions
      <3>1. CASE worker'[v] = worker[v] BY <2>1, <2>3, <3>1
      <3>2. CASE \E q \in Request : MatchRequest(q, v)
        BY <2>1, <2>3, <3>2, MatchRequestEffect
      <3>3. CASE BeginRequest(v)
        <4>1. served[r] = "matched"
          BY <2>3, <3>3, BeginRequestEffect, NoRequestAssumption DEF ServedInv, OneServer
        <4> QED BY <2>1, <4>1
      <3>4. CASE NumberRequest(v) BY <2>1, <2>3, <3>4, NumberRequestEffect
      <3>5. CASE CopySessions(v) BY <2>1, <2>3, <3>5, CopySessionsEffect
      <3>6. CASE \E d \in Call : WriteToSession(v, d)
        BY <2>1, <2>3, <3>6, WriteToSessionEffect
      <3>7. CASE FinishRequest(v)
        BY <2>3, <3>7, FinishRequestEffect, NoRequestAssumption
      <3> QED BY <3>1, <3>2, <3>3, <3>4, <3>5, <3>6, <3>7, OneWorkerStep DEF RequestSteps
    <2> QED BY <2>2, <2>3
  <1> QED BY <1>1, <1>2, NewPosts

\* History is written by ExecuteBehavior, before anybody serves the request, and a
\* call gets its group before it has a session.
LEMMA BeforeStep ==
  ASSUME IInv, ServedInv, [Next]_vars
  PROVE  /\ \A r \in Request :
               \/ before'[r] = before[r] /\ group'[r] = group[r]
               \/ served'[r] = "none" /\ UNCHANGED worker /\ \A w \in Worker : worker[w].req # r
         /\ \A c \in Call : group'[c] = group[c] \/ session[c] = "none"
  <1>1. CASE ClientCalls
    <2>1. UNCHANGED <<worker, served>> BY <1>1 DEF ClientCalls, serviceVars, unaryVars
    <2>2. ASSUME NEW c \in Call, NEW g \in GroupId, SyncGroup(c, g), UNCHANGED before
          PROVE  /\ \A r \in Request : before'[r] = before[r] /\ group'[r] = group[r]
                 /\ \A d \in Call : group'[d] = group[d] \/ session[d] = "none"
      <3>1. session[c] = "none" BY <2>2 DEF SyncGroup, IInv, KnownInv, CallsKnown
      <3>2. \A x \in Call \cup Request : x # c => group'[x] = group[x]
        BY <2>2 DEF SyncGroup, IInv, RpcTypeOK, TransportTypeOK
      <3> QED BY <2>2, <3>1, <3>2, DistinctAssumption
    <2>3. ASSUME NEW q \in Request, NEW g \in GroupId, ExecuteBehavior(q, g),
                 before' = [before EXCEPT ![q] =
                               [live |-> {c \in Call : session[c] = "live"},
                                answered |-> {s \in Request : asked[s] = "answered"}]]
          PROVE  /\ \A r \in Request : r # q => before'[r] = before[r] /\ group'[r] = group[r]
                 /\ \A d \in Call : group'[d] = group[d]
                 /\ served[q] = "none" /\ \A w \in Worker : worker[w].req # q
      <3>1. \A x \in Call \cup Request : x # q => group'[x] = group[x]
        BY <2>3 DEF ExecuteBehavior, IInv, RpcTypeOK, TransportTypeOK
      <3>2. served[q] = "none" BY <2>3 DEF ExecuteBehavior, IInv, KnownInv, RequestsKnown
      <3>3. \A w \in Worker : worker[w].req # q
        BY <3>2, NoRequestAssumption DEF ServedInv, OneServer
      <3> QED BY <2>3, <3>1, <3>2, <3>3, DistinctAssumption DEF IInv, RpcTypeOK
    <2>4. CASE \E p \in Leaving : BeginDestroy(p) /\ UNCHANGED before
      BY <2>4 DEF BeginDestroy, transportVars
    <2> QED BY <1>1, <2>1, <2>2, <2>3, <2>4 DEF ClientCalls
  <1>2. CASE \E p \in Client : ClientThread(p)
    BY <1>2 DEF ClientThread, ProceedReading, ProceedEnded, ProceedFinished, EndDestroy,
                transportVars
  <1>3. CASE \E r \in Request : Answer(r) BY <1>3 DEF Answer
  <1>4. CASE \E x \in Call \cup Request : Breaks(x)
    BY <1>4 DEF Breaks, Break, BreakRequest
  <1>5. CASE \E c \in Call : Transports(c)
    BY <1>5 DEF Transports, Transmit, Refuse
  <1>6. CASE \E c \in Call : SessionSteps(c)
    BY <1>6 DEF SessionSteps, ConnectOperation, WriteOperation, WriteFailed, transportVars
  <1>7. CASE Pairs BY <1>7 DEF Pairs, MatchCall, MatchRequest, transportVars
  <1>8. CASE \E w \in Worker : RequestSteps(w)
    BY <1>8 DEF RequestSteps, BeginRequest, NumberRequest, CopySessions, WriteToSession,
                FinishRequest, transportVars
  <1>9. CASE ServerDestructor
    BY <1>9 DEF ServerDestructor, BeginShutdown, EndShutdown, transportVars
  <1>10. CASE UNCHANGED vars BY <1>10 DEF vars, transportVars
  <1> QED BY <1>1, <1>2, <1>3, <1>4, <1>5, <1>6, <1>7, <1>8, <1>9, <1>10 DEF Next

LEMMA PostedOnTheWayNext ==
  ASSUME IInv, StreamInv, ServedInv, PostedOnTheWay, FeedStep, [Next]_vars
  PROVE  PostedOnTheWay'
  <1> SUFFICES ASSUME NEW r \in Request, NEW c \in before'[r].live,
                      group'[c] = group'[r], link'[c] = "open", c \in Call
               PROVE  /\ served'[r] = "finished" => r \in Range(Through(c))'
                      /\ \A v \in Worker : worker'[v].req = r /\ worker'[v].at = "send" =>
                            c \in worker'[v].TempSessions \/ r \in Range(Through(c))'
    <2>1. IInv' BY StepInv
    <2>2. \A q \in Request : before'[q].live \subseteq Call
      BY <2>1 DEF IInv, RpcTypeOK, Before
    <2> QED BY <2>2 DEF PostedOnTheWay
  <1>1. CASE served'[r] = "none" /\ UNCHANGED worker /\ \A w \in Worker : worker[w].req # r
    BY <1>1
  <1>2. CASE before'[r] = before[r] /\ group'[r] = group[r]
    <2>1. session[c] \in {"live", "deleted"} BY <1>2 DEF ServedInv, BeforeKnown
    <2>2. group'[c] = group[c] BY <2>1, BeforeStep
    <2>3. link[c] # "none" BY <2>1 DEF IInv, KnownInv, CallsKnown
    <2>4. link[c] = "open"
      BY <2>3, FeedStepLinks DEF IInv, RpcTypeOK, TransportTypeOK
    <2>5. session[c] = "live" BY <2>1, <2>4 DEF StreamInv, FailedBroken
    <2>6. /\ served[r] = "finished" => r \in Range(Through(c))
          /\ \A w \in Worker : worker[w].req = r /\ worker[w].at = "send" =>
                c \in worker[w].TempSessions \/ r \in Range(Through(c))
      BY <1>2, <2>2, <2>4 DEF PostedOnTheWay
    <2>7. served'[r] = "finished" => r \in Range(Through(c))'
      <3>1. ASSUME NEW w \in Worker, FinishRequest(w), worker[w].req = r
            PROVE  r \in Range(Through(c))
        BY <2>6, <3>1, FinishRequestEffect
      <3> QED BY <2>6, <3>1, ServedOnward, StayPosted
    <2>8. ASSUME NEW v \in Worker, worker'[v].req = r, worker'[v].at = "send"
          PROVE  c \in worker'[v].TempSessions \/ r \in Range(Through(c))'
      <3>1. CASE worker'[v] = worker[v] BY <2>6, <2>8, <3>1, StayPosted
      <3>2. CASE \E q \in Request : MatchRequest(q, v)
        BY <2>6, <2>8, <3>2, MatchRequestEffect, StayPosted
      <3>3. CASE BeginRequest(v) BY <2>8, <3>3, BeginRequestEffect
      <3>4. CASE NumberRequest(v) BY <2>8, <3>4, NumberRequestEffect
      <3>5. CASE CopySessions(v)
        <4>1. worker'[v].TempSessions = Sessions[group[r]]
          BY <2>8, <3>5, CopySessionsEffect
        <4> QED BY <1>2, <2>2, <2>5, <4>1 DEF ServedInv, LiveRegistered
      <3>6. ASSUME NEW d \in Call, WriteToSession(v, d), UNCHANGED proxyVars
            PROVE  c \in worker'[v].TempSessions \/ r \in Range(Through(c))'
        <4>1. /\ worker[v].req = r /\ worker[v].at = "send"
              /\ worker'[v].TempSessions = worker[v].TempSessions \ {d}
          BY <2>8, <3>6, WriteToSessionEffect
        <4>2. CASE d # c BY <2>6, <4>1, <4>2, StayPosted
        <4>3. CASE d = c
          <5>1. MoreThrough(v, c)
            BY <2>4, <2>5, <3>6, <4>3, WritePosts, PostsThrough
          <5>2. Through(c) \in Seq(Request \cup {Empty}) BY StreamTypes
          <5>3. Range(Append(Through(c), r)) = Range(Through(c)) \cup {r}
            BY <5>2, RangeOfAppend
          <5> QED BY <4>1, <5>1, <5>3 DEF MoreThrough, Range
        <4> QED BY <4>2, <4>3
      <3>7. CASE FinishRequest(v) BY <2>8, <3>7, FinishRequestEffect
      <3> QED BY <3>1, <3>2, <3>3, <3>4, <3>5, <3>6, <3>7, OneWorkerStep DEF RequestSteps
    <2> QED BY <2>7, <2>8
  <1> QED BY <1>1, <1>2, BeforeStep

\* The packet that is added is of a request still being served, behind all those
\* whose answer came before.
LEMMA CausalOrderNext ==
  ASSUME IInv, StreamInv, ServedInv, PostedOnce, PostedOnce', CausalOrder, FeedStep,
         [Next]_vars
  PROVE  CausalOrder'
  <1> SUFFICES ASSUME NEW r \in Request, NEW s \in before'[r].answered, NEW c \in Call,
                      NEW i \in DOMAIN Through(c)', NEW j \in DOMAIN Through(c)',
                      Through(c)'[i] = r, Through(c)'[j] = s
               PROVE  j < i
    BY DEF CausalOrder
  <1> DEFINE P == Request \cup {Empty}
             T == Through(c)
  <1>1. r \in Range(Through(c))' BY DEF Range
  <1>2. before'[r] = before[r]
    <2>1. served'[r] \in {"working", "finished"} BY <1>1 DEF PostedOnce
    <2> QED BY <2>1, BeforeStep
  <1>3. s \in Request /\ served[s] = "finished"
    <2>1. before[r].answered \subseteq Request BY DEF IInv, RpcTypeOK, Before
    <2> QED BY <1>2, <2>1 DEF ServedInv, BeforeKnown, AnsweredFinished
  <1>4. T \in Seq(P) /\ Len(T) \in Nat /\ DOMAIN T = 1 .. Len(T)
    BY StreamTypes, LenProperties
  <1>5. \A k, l \in DOMAIN T : T[k] = r /\ T[l] = s => l < k
    BY <1>2 DEF CausalOrder
  <1>6. CASE T' = T BY <1>5, <1>6
  <1>7. CASE CutThrough(c)
    <2>1. PICK n \in 0 .. Len(T) : T' = SubSeq(T, 1, n) BY <1>7 DEF CutThrough
    <2> HIDE DEF P, T
    <2>2. /\ SubSeq(T, 1, n) \in Seq(P) /\ Len(SubSeq(T, 1, n)) = n
          /\ \A k \in 1 .. n : SubSeq(T, 1, n)[k] = T[k]
      BY <1>4, RangeOfPrefix
    <2>3. DOMAIN SubSeq(T, 1, n) = 1 .. n BY <2>2, LenProperties
    <2>4. i \in 1 .. n /\ j \in 1 .. n /\ T[i] = r /\ T[j] = s
      BY <2>1, <2>2, <2>3 DEF T
    <2> QED BY <1>4, <1>5, <2>4
  <1>8. CASE \E w \in Worker : WriteToSession(w, c) /\ MoreThrough(w, c)
    <2> PICK w \in Worker : WriteToSession(w, c) /\ MoreThrough(w, c) BY <1>8
    <2> DEFINE m == worker[w].req
    <2>1. m \in Request /\ c \in worker[w].TempSessions BY WriteToSessionEffect
    <2>2. served[m] = "working" BY <2>1, NoRequestAssumption DEF ServedInv, OneServer
    <2>3. m # s BY <1>3, <2>2
    <2>4. m \notin Range(T) BY <2>1 DEF PostedOnce
    <2>5. T' = Append(T, m) BY DEF MoreThrough
    <2> HIDE DEF m, P, T
    <2>6. m \in P BY <2>1 DEF P
    <2>7. /\ Append(T, m) \in Seq(P) /\ Len(Append(T, m)) = Len(T) + 1
          /\ \A k \in 1 .. Len(T) : Append(T, m)[k] = T[k]
          /\ Append(T, m)[Len(T) + 1] = m
      BY <1>4, <2>6, AppendProperties
    <2>8. DOMAIN Append(T, m) = 1 .. Len(T) + 1 BY <2>7, LenProperties
    <2>9. /\ i \in 1 .. Len(T) + 1 /\ j \in 1 .. Len(T) + 1
          /\ Append(T, m)[i] = r /\ Append(T, m)[j] = s
      BY <2>5, <2>8 DEF T
    <2>10. j \in 1 .. Len(T) BY <1>4, <2>3, <2>7, <2>9
    <2>11. CASE i = Len(T) + 1 BY <1>4, <2>10, <2>11
    <2>12. CASE i \in 1 .. Len(T)
      BY <1>4, <1>5, <2>7, <2>9, <2>10, <2>12
    <2> QED BY <1>4, <2>9, <2>11, <2>12
  <1> QED BY <1>6, <1>7, <1>8, ThroughStep

----------------------------------------------------------------------------
LEMMA InitFlow == Init => FlowInv
  <1> SUFFICES ASSUME Init PROVE FlowInv
    OBVIOUS
  <1> USE DEF Init, TransportInit, ServiceInit, ProxyInit, IdleWorker
  <1>1. \A c \in Call : Through(c) = <<>>
    BY ConcatEmptySeq, EmptySeq DEF Through, Given, Underway
  <1>2. \A r \in Request : before[r].live = {} /\ before[r].answered = {} OBVIOUS
  <1>3. PostedOnce BY <1>1 DEF PostedOnce, Range
  <1>4. PostedOnTheWay /\ CausalOrder BY <1>2 DEF PostedOnTheWay, CausalOrder
  <1> QED BY <1>3, <1>4 DEF FlowInv

LEMMA StepDelivery == IInv /\ DeliveryInv /\ [Next]_vars => DeliveryInv'
  <1> SUFFICES ASSUME IInv, DeliveryInv, [Next]_vars PROVE DeliveryInv'
    OBVIOUS
  <1> USE DEF DeliveryInv, FlowInv
  <1>1. StreamInv' /\ FeedStep BY StepStream
  <1>2. ServedInv' BY StepServed
  <1>3. PostedOnce' BY <1>1, PostedOnceNext
  <1>4. PostedOnTheWay' BY <1>1, PostedOnTheWayNext
  <1>5. CausalOrder' BY <1>1, <1>3, CausalOrderNext
  <1> QED BY <1>1, <1>2, <1>3, <1>4, <1>5

LEMMA Delivery == Spec => [](IInv /\ DeliveryInv)
  <1>1. Init => DeliveryInv BY InitStream, InitServed, InitFlow DEF DeliveryInv
  <1> QED BY <1>1, StepDelivery, Invariance, PTL DEF Spec

\* When ExecuteBehavior is answered its packet is on the way to, or was given to,
\* everyone who was subscribed to the group when it was called and still is, for
\* any number of workers, subscribers and requests (BroadcastToGroup, Broadcast).
THEOREM AnsweredAlwaysPosted == Spec => []AnsweredArePosted
  <1>1. IInv /\ DeliveryInv => AnsweredArePosted
    BY DEF DeliveryInv, ServedInv, AnsweredFinished, FlowInv, PostedOnTheWay, AnsweredArePosted
  <1> QED BY <1>1, Delivery, PTL

\* No subscriber receives a behavior before one that was answered before it was
\* executed, whichever workers broadcast the two.
THEOREM OrderAlwaysCausal == Spec => []CausalOrder
  <1>1. DeliveryInv => CausalOrder BY DEF DeliveryInv, FlowInv
  <1> QED BY <1>1, Delivery, PTL

----------------------------------------------------------------------------
(* Refinement of Feed.                                                     *)

LEMMA InitIsFeed == Init => Subscription!FeedInit
  <1> SUFFICES ASSUME Init PROVE Subscription!FeedInit
    OBVIOUS
  <1> USE DEF Init, TransportInit, ServiceInit, ProxyInit
  <1>1. \A c \in Call : Underway(c) = <<>>
    BY ConcatEmptySeq, EmptySeq DEF Underway
  <1> QED BY <1>1 DEF Subscription!FeedInit

\* The subscriptions as Feed sees them.
phaseOf == [c \in Call |-> CASE link[c] = "none" -> "closed"
                             [] link[c] = "open" -> "open"
                             [] link[c] = "broken" /\ stream[c].State = "deleted" -> "over"
                             [] OTHER -> "ended"]
queueOf == [c \in Call |-> Underway(c)]

PhaseFrom(l, over) ==
    IF l = "none" THEN "closed" ELSE IF l = "open" THEN "open"
    ELSE IF over THEN "over" ELSE "ended"

LEMMA PhaseOf ==
  ASSUME IInv, NEW c \in Call
  PROVE  phaseOf[c] = PhaseFrom(link[c], Over(c))
  <1>1. link[c] \in {"none", "open", "broken"} BY DEF IInv, RpcTypeOK, TransportTypeOK
  <1>2. CASE link[c] = "none" BY <1>2 DEF phaseOf, PhaseFrom, Over
  <1>3. CASE link[c] = "open" BY <1>3 DEF phaseOf, PhaseFrom, Over
  <1>4. CASE link[c] = "broken" /\ Over(c)
    BY <1>4 DEF phaseOf, PhaseFrom, Over
  <1>5. CASE link[c] = "broken" /\ ~Over(c)
    BY <1>5 DEF phaseOf, PhaseFrom, Over
  <1> QED BY <1>1, <1>2, <1>3, <1>4, <1>5

LEMMA PhaseOfNext ==
  ASSUME IInv', NEW c \in Call
  PROVE  phaseOf'[c] = PhaseFrom(link'[c], Over(c)')
  <1>1. link'[c] \in {"none", "open", "broken"} BY DEF IInv, RpcTypeOK, TransportTypeOK
  <1>2. CASE link'[c] = "none" BY <1>2 DEF phaseOf, PhaseFrom, Over
  <1>3. CASE link'[c] = "open" BY <1>3 DEF phaseOf, PhaseFrom, Over
  <1>4. CASE link'[c] = "broken" /\ Over(c)'
    BY <1>4 DEF phaseOf, PhaseFrom, Over
  <1>5. CASE link'[c] = "broken" /\ ~Over(c)'
    BY <1>5 DEF phaseOf, PhaseFrom, Over
  <1> QED BY <1>1, <1>2, <1>3, <1>4, <1>5

\* The others keep their subscriptions.
LEMMA OneSubscription ==
  ASSUME IInv, IInv', NEW c \in Call, \A d \in Call \ {c} : Keeps(d)
  PROVE  /\ phaseOf' = [phaseOf EXCEPT ![c] = phaseOf'[c]]
         /\ queueOf' = [queueOf EXCEPT ![c] = Underway(c)']
         /\ delivered' = [delivered EXCEPT ![c] = delivered'[c]]
         /\ phaseOf'[c] = phaseOf[c] => phaseOf' = phaseOf
         /\ Underway(c)' = Underway(c) => queueOf' = queueOf
         /\ delivered'[c] = delivered[c] => delivered' = delivered
  <1>1. \A d \in Call \ {c} : phaseOf'[d] = phaseOf[d]
    BY PhaseOf, PhaseOfNext DEF Keeps, Same, PhaseFrom
  <1>2. phaseOf' = [phaseOf EXCEPT ![c] = phaseOf'[c]]
    <2>1. phaseOf = [d \in Call |-> phaseOf[d]] /\ phaseOf' = [d \in Call |-> phaseOf'[d]]
      BY DEF phaseOf
    <2> QED BY <1>1, <2>1
  <1>3. queueOf' = [queueOf EXCEPT ![c] = Underway(c)']
    BY DEF queueOf, Keeps
  <1>4. delivered' = [delivered EXCEPT ![c] = delivered'[c]]
    <2>1. /\ delivered = [d \in Call |-> delivered[d]]
          /\ delivered' = [d \in Call |-> delivered'[d]]
      BY DEF IInv, RpcTypeOK, ProxyTypeOK
    <2>2. \A d \in Call \ {c} : delivered'[d] = delivered[d] BY DEF Keeps, Same
    <2> QED BY <2>1, <2>2
  <1>5. phaseOf'[c] = phaseOf[c] => phaseOf' = phaseOf BY <1>2 DEF phaseOf
  <1>6. Underway(c)' = Underway(c) => queueOf' = queueOf BY <1>3 DEF queueOf
  <1>7. delivered'[c] = delivered[c] => delivered' = delivered
    BY <1>4 DEF IInv, RpcTypeOK, ProxyTypeOK
  <1> QED BY <1>2, <1>3, <1>4, <1>5, <1>6, <1>7

\* What is posted to a subscription has not been posted to it before.
LEMMA PostedIsNew ==
  ASSUME IInv, DeliveryInv, NEW w \in Worker, NEW c \in Call, WriteToSession(w, c)
  PROVE  /\ worker[w].req \in Request
         /\ worker[w].req \notin Range(Underway(c)) \cup Range(Given(c))
         /\ ~Over(c) => worker[w].req \notin Range(delivered[c])
  <1> DEFINE r == worker[w].req
             P == Request \cup {Empty}
  <1>1. r \in Request /\ worker[w].at = "send" /\ c \in worker[w].TempSessions
    BY WriteToSessionEffect
  <1>2. r \notin Range(Through(c))
    BY <1>1 DEF DeliveryInv, FlowInv, PostedOnce
  <1>3. Underway(c) \in Seq(P) /\ Given(c) \in Seq(P)
    BY StreamTypes, SeqMonotonic DEF DeliveryInv
  <1> HIDE DEF P, r
  <1>4. \A s, t \in Seq(P) : Range(s \o t) = Range(s) \cup Range(t)
    BY RangeConcatenation
  <1>5. Range(Through(c)) = Range(Given(c)) \cup Range(Underway(c))
    BY <1>3, <1>4 DEF Through
  <1>6. ASSUME ~Over(c) PROVE r \notin Range(delivered[c])
    <2> DEFINE d0 == delivered[c]
    <2>1. d0 \in Seq(P) BY StreamTypes DEF DeliveryInv, P
    <2>2. d0 # <<>> => Head(d0) = Empty BY DEF DeliveryInv, StreamInv, Callbacks
    <2>3. Given(c) = IF d0 = <<>> THEN <<>> ELSE Tail(d0) BY <1>6 DEF Given, Over
    <2>4. r # Empty BY <1>1, EmptyAssumption DEF r
    <2> HIDE DEF d0
    <2>5. CASE d0 = <<>> BY <2>5 DEF d0, Range
    <2>6. CASE d0 # <<>>
      <3>1. d0 = <<Head(d0)>> \o Tail(d0) BY <2>1, <2>6, HeadFirst
      <3>2. <<Empty>> \in Seq(P) /\ Tail(d0) \in Seq(P)
        BY <2>1, <2>6, HeadTailProperties DEF P
      <3>3. Range(d0) = Range(<<Empty>>) \cup Range(Tail(d0))
        BY <1>4, <2>2, <2>6, <3>1, <3>2
      <3>4. Range(<<Empty>>) = {Empty} BY DEF Range
      <3> QED BY <1>2, <1>5, <2>3, <2>4, <2>6, <3>3, <3>4 DEF d0, r
    <2> QED BY <2>5, <2>6
  <1> QED BY <1>1, <1>2, <1>5, <1>6 DEF r

\* Every step is one of Feed for one subscription, or none: the packet that is
\* added is posted for the first time.
LEMMA StepIsFeed ==
  IInv /\ DeliveryInv /\ [Next]_vars
      => [Subscription!FeedNext]_(Subscription!feedVars)
  <1> SUFFICES ASSUME IInv, DeliveryInv, [Next]_vars
               PROVE  [Subscription!FeedNext]_(Subscription!feedVars)
    OBVIOUS
  <1>1. StreamInv /\ FeedStep BY StepStream DEF DeliveryInv
  <1>2. IInv' BY StepInv
  <1>3. CASE \A c \in Call : Keeps(c)
    <2>1. phaseOf' = phaseOf
      <3>1. \A c \in Call : phaseOf'[c] = phaseOf[c]
        BY <1>2, <1>3, PhaseOf, PhaseOfNext DEF Keeps, Same, PhaseFrom
      <3> QED BY <3>1 DEF phaseOf
    <2>2. queueOf' = queueOf BY <1>3 DEF Keeps, queueOf
    <2>3. delivered' = delivered
      BY <1>2, <1>3 DEF Keeps, Same, IInv, RpcTypeOK, ProxyTypeOK
    <2> QED BY <2>1, <2>2, <2>3 DEF Subscription!feedVars, phaseOf, queueOf
  <1>4. ASSUME NEW c \in Call, \A d \in Call \ {c} : Keeps(d),
               \/ Opens(c) \/ Greets(c) \/ Takes(c) \/ Ends(c) \/ Closes(c) \/ Broadcasts(c)
        PROVE  [Subscription!FeedNext]_(Subscription!feedVars)
    <2>1. /\ phaseOf' = [phaseOf EXCEPT ![c] = phaseOf'[c]]
          /\ queueOf' = [queueOf EXCEPT ![c] = Underway(c)']
          /\ delivered' = [delivered EXCEPT ![c] = delivered'[c]]
          /\ phaseOf'[c] = phaseOf[c] => phaseOf' = phaseOf
          /\ Underway(c)' = Underway(c) => queueOf' = queueOf
          /\ delivered'[c] = delivered[c] => delivered' = delivered
      BY <1>2, <1>4, OneSubscription
    <2>2. queueOf[c] = Underway(c) BY DEF queueOf
    <2>3. /\ phaseOf[c] = PhaseFrom(link[c], Over(c))
          /\ phaseOf'[c] = PhaseFrom(link'[c], Over(c)')
      BY <1>2, PhaseOf, PhaseOfNext
    <2>4. CASE Opens(c)
      <3>1. /\ phaseOf[c] = "closed" /\ phaseOf' = [phaseOf EXCEPT ![c] = "open"]
            /\ queueOf' = queueOf /\ delivered' = delivered
        BY <2>1, <2>3, <2>4 DEF Opens, Same, PhaseFrom
      <3>2. Subscription!Open(c)
        BY <3>1 DEF Subscription!Open, phaseOf, queueOf
      <3> QED BY <3>2 DEF Subscription!FeedNext
    <2>5. CASE Greets(c)
      <3>1. /\ phaseOf[c] # "closed" /\ phaseOf' = phaseOf /\ queueOf' = queueOf
            /\ delivered[c] = <<>> /\ delivered' = [delivered EXCEPT ![c] = <<Empty>>]
        BY <2>1, <2>3, <2>5 DEF Greets, PhaseFrom
      <3>2. Subscription!Greet(c)
        BY <3>1 DEF Subscription!Greet, phaseOf, queueOf
      <3> QED BY <3>2 DEF Subscription!FeedNext
    <2>6. CASE Takes(c)
      <3>1. phaseOf' = phaseOf BY <2>1, <2>3, <2>6 DEF Takes, PhaseFrom
      <3>2. /\ queueOf[c] # <<>> /\ delivered[c] # <<>>
            /\ queueOf' = [queueOf EXCEPT ![c] = Tail(queueOf[c])]
            /\ delivered' = [delivered EXCEPT ![c] = Append(delivered[c], Head(queueOf[c]))]
        BY <2>1, <2>2, <2>6 DEF Takes
      <3>3. Subscription!Deliver(c)
        BY <3>1, <3>2 DEF Subscription!Deliver, phaseOf, queueOf
      <3> QED BY <3>3 DEF Subscription!FeedNext
    <2>7. CASE Ends(c)
      <3>1. PICK n \in 0 .. Len(Underway(c)) : Underway(c)' = SubSeq(Underway(c), 1, n)
        BY <2>7 DEF Ends
      <3>2. /\ phaseOf[c] = "open" /\ phaseOf' = [phaseOf EXCEPT ![c] = "ended"]
            /\ delivered' = delivered
        BY <2>1, <2>3, <2>7 DEF Ends, Same, PhaseFrom
      <3>3. /\ n \in 0 .. Len(queueOf[c])
            /\ queueOf' = [queueOf EXCEPT ![c] = SubSeq(queueOf[c], 1, n)]
        BY <2>1, <2>2, <3>1
      <3>4. Subscription!End(c)
        BY <3>2, <3>3 DEF Subscription!End, phaseOf, queueOf
      <3> QED BY <3>4 DEF Subscription!FeedNext
    <2>8. CASE Closes(c)
      <3>1. /\ phaseOf[c] = "ended" /\ phaseOf' = [phaseOf EXCEPT ![c] = "over"]
        BY <2>1, <2>3, <2>8 DEF Closes, PhaseFrom
      <3>2. queueOf[c] = <<>> /\ queueOf' = queueOf BY <2>1, <2>2, <2>8 DEF Closes
      <3>3. delivered' = [delivered EXCEPT ![c] =
                             Append(delivered[c], LastOf(delivered[c]))]
        BY <2>1, <2>8 DEF Closes
      <3>4. Subscription!Close(c)
        BY <3>1, <3>2, <3>3 DEF Subscription!Close, phaseOf, queueOf, LastOf
      <3> QED BY <3>4 DEF Subscription!FeedNext
    <2>9. CASE Broadcasts(c)
      <3> PICK w \in Worker :
            /\ WriteToSession(w, c)
            /\ IF link[c] = "open" THEN Posts(c, worker[w].req) ELSE Keeps(c)
        BY <2>9 DEF Broadcasts
      <3> DEFINE r == worker[w].req
      <3>1. /\ r \in Request /\ r \notin Range(Underway(c))
            /\ ~Over(c) => r \notin Range(delivered[c])
        BY PostedIsNew
      <3>2. CASE link[c] = "open"
        <4>1. /\ phaseOf[c] = "open" /\ phaseOf' = phaseOf /\ delivered' = delivered
              /\ ~Over(c)
          BY <2>1, <2>3, <3>2 DEF Posts, Same, PhaseFrom
        <4>2. queueOf' = [queueOf EXCEPT ![c] = Append(queueOf[c], r)]
          BY <2>1, <2>2, <3>2 DEF Posts
        <4>3. r \notin Range(queueOf[c]) \cup Range(delivered[c])
          BY <2>2, <3>1, <4>1
        <4> HIDE DEF r
        <4>4. Subscription!Post(c, r)
          BY <4>1, <4>2, <4>3
          DEF Subscription!Post, Subscription!Range, Range, phaseOf, queueOf
        <4> QED BY <3>1, <4>4 DEF Subscription!FeedNext
      <3>3. CASE link[c] # "open"
        <4> HIDE DEF r
        <4>2. link'[c] = link[c] /\ (Over(c)' <=> Over(c)) BY <3>3 DEF Keeps, Same
        <4>3. phaseOf'[c] = phaseOf[c]
          <5>1. CASE Over(c) BY <2>3, <4>2, <5>1 DEF PhaseFrom
          <5>2. CASE ~Over(c) BY <2>3, <4>2, <5>2 DEF PhaseFrom
          <5> QED BY <5>1, <5>2
        <4>4. Underway(c)' = Underway(c) /\ delivered'[c] = delivered[c]
          BY <3>3 DEF Keeps, Same
        <4>1. phaseOf' = phaseOf /\ queueOf' = queueOf /\ delivered' = delivered
          BY <2>1, <4>3, <4>4
        <4> QED BY <4>1 DEF Subscription!feedVars, phaseOf, queueOf
      <3> QED BY <3>2, <3>3
    <2> QED BY <1>4, <2>4, <2>5, <2>6, <2>7, <2>8, <2>9
  <1> QED BY <1>1, <1>3, <1>4 DEF FeedStep

\* Queue, Write, stream and FStreamCall together implement Feed, callback by
\* callback: each subscriber is given the empty packet, then what is broadcast to
\* it, each packet once and in order, and when its connection has broken and
\* cost it a last part of that, the last packet again (HktRpcProxy.h:101-145).
THEOREM RpcIsFeed == Spec => IsFeed
  <1> QED BY InitIsFeed, StepIsFeed, Delivery, PTL DEF Spec, IsFeed, Subscription!FeedSpec
=============================================================================
