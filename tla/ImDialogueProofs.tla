-------------------------- MODULE ImDialogueProofs ---------------------------
(***************************************************************************)
(* The dialogue with the input method server, for every sequence of events *)
(* and every list of windows.  First the keyboard's mode: no step of its   *)
(* proof looks at what is on the socket pair, so it holds for servers that *)
(* die, and for ones that answer late, twice or never.  Then the messages: *)
(* what is asked, what is answered, and what is put aside meanwhile.       *)
(***************************************************************************)
EXTENDS ImDialogue, SequenceTheorems, FiniteSetTheorems, TLAPS

-----------------------------------------------------------------------------
(* The keyboard                                                            *)

\* A server is switched on only once it is connected, and connected only while
\* its proxy exists.
Nested == (on => connected) /\ (connected => exists)

\* While FbTerm waits for Connect the server is not switched on, and the
\* keyboard as it was; while it waits for AckHideUI, switched on but the
\* keyboard already given up.  Either way the window is still the active one.
Waits ==
  /\ awaiting = "Connect" => active /\ exists /\ ~ on /\ ~ rawMode
  /\ awaiting = "AckHideUI" => active /\ Listening /\ ~ rawMode

KeyboardInv ==
  /\ {active, exists, connected, on, rawMode} \subseteq BOOLEAN
  /\ awaiting \in {"none", "Connect", "AckHideUI"}
  /\ Nested /\ Waits /\ RawModeFollows

\* The program starts with the keyboard right.
LEMMA KeyboardInit == Init => KeyboardInv
  BY ModeAssumption DEF Init, KeyboardInv, Nested, Waits, RawModeFollows, Listening

\* toggleActive from a window that may be listened to or not (toggleActive).
LEMMA Toggled ==
  ASSUME KeyboardInv, ToggleActive, active, active', exists, exists', connected' = connected,
         awaiting' = "none", awaiting # "AckHideUI"
  PROVE  KeyboardInv'
  BY ModeAssumption DEF KeyboardInv, Nested, Waits, RawModeFollows, Listening, ToggleActive

\* ~ImProxy leaves the keyboard in its own mode if it was the active window's.
LEMMA Destroyed ==
  ASSUME KeyboardInv, Destroy, awaiting = "none"
  PROVE  KeyboardInv'
  BY ModeAssumption DEF KeyboardInv, Nested, Waits, RawModeFollows, Listening, Destroy, RawLeft

\* Steps that leave the window, the proxy's state and the keyboard alone.
LEMMA Unaffected ==
  ASSUME KeyboardInv, UNCHANGED <<active, exists, connected, on, rawMode, awaiting>>
  PROVE  KeyboardInv'
  BY DEF KeyboardInv, Nested, Waits, RawModeFollows, Listening

\* Every step of either process keeps the invariant.
LEMMA KeyboardStep == KeyboardInv /\ [Next]_vars => KeyboardInv'
<1>. SUFFICES ASSUME KeyboardInv, [Next]_vars PROVE KeyboardInv'
  OBVIOUS
<1>1. CASE ToggleIm
  <2>1. CASE exists
    <3>1. ToggleActive /\ UNCHANGED <<active, exists, connected, awaiting>>
          /\ active /\ awaiting = "none"
      BY <1>1, <2>1 DEF ToggleIm, Event
    <3>. QED  BY <2>1, <3>1, Toggled
  <2>2. CASE ~ exists
    BY <1>1, <2>2 DEF ToggleIm, Event, KeyboardInv, Nested, Waits, RawModeFollows, Listening
  <2>. QED  BY <2>1, <2>2
<1>2. CASE KeyInput \/ MoveCursor
  BY <1>2, Unaffected DEF KeyInput, MoveCursor
<1>3. CASE SwitchAway
  BY <1>3 DEF SwitchAway, Event, KeyboardInv, Nested, Waits, RawModeFollows, Listening
<1>4. CASE SwitchBack
  BY <1>4, ModeAssumption DEF SwitchBack, Event, KeyboardInv, Nested, Waits, RawModeFollows, Listening
<1>5. CASE KillIm
  BY <1>5, Destroyed DEF KillIm, Event
<1>6. CASE ImExited
  BY <1>6, Destroyed DEF ImExited
<1>7. CASE ReadyRead
  <2>1. (connected => connected') /\ connected' \in BOOLEAN
        /\ UNCHANGED <<active, exists, on, rawMode, awaiting>> /\ exists
    BY <1>7 DEF ReadyRead, KeyboardInv
  <2>. QED  BY <2>1 DEF KeyboardInv, Nested, Waits, RawModeFollows, Listening
<1>8. CASE IoError
  BY <1>8, Unaffected DEF IoError
<1>9. CASE GotMessage \/ TimeOut
  <2>1. Resume /\ awaiting # "none"
    BY <1>9 DEF GotMessage, TimeOut, Resume
  <2>2. CASE awaiting = "AckHideUI"
    <3>1. /\ awaiting' = "none" /\ active' = FALSE
          /\ UNCHANGED <<exists, connected, on, rawMode>>
      BY <2>1, <2>2 DEF Resume
    <3>2. ~ rawMode  BY <2>2 DEF KeyboardInv, Waits
    <3>3. Nested' /\ Waits'  BY <3>1 DEF KeyboardInv, Nested, Waits
    <3>4. RawModeFollows'  BY <3>1, <3>2 DEF RawModeFollows
    <3>. QED  BY <3>1, <3>3, <3>4 DEF KeyboardInv
  <2>3. CASE awaiting = "Connect"
    <3>1. ToggleActive /\ UNCHANGED <<active, exists, connected>> /\ awaiting' = "none"
      BY <2>1, <2>3 DEF Resume
    <3>2. active /\ exists  BY <2>3 DEF KeyboardInv, Waits
    <3>. QED  BY <2>3, <3>1, <3>2, Toggled
  <2>. QED  BY <2>1, <2>2, <2>3 DEF KeyboardInv
<1>10. CASE ImStart \/ CheckImMessage \/ ReadMessages \/ ProcessMessage \/ Call \/ WaitMessage \/ ImDies
  BY <1>10, Unaffected DEF fbTerm, ImStart, CheckImMessage, ReadMessages, ProcessMessage, Call, WaitMessage, ImDies
<1>11. CASE UNCHANGED vars
  BY <1>11, Unaffected DEF vars, fbTerm
<1>. QED
  BY <1>1, <1>2, <1>3, <1>4, <1>5, <1>6, <1>7, <1>8, <1>9, <1>10, <1>11 DEF Next

\* Outside FbTerm's waits the keyboard is in raw mode exactly when the active
\* window's server is switched on and wants it (toggleActive, switchVt,
\* ~ImProxy), for every server.
THEOREM RawModeFollowsAlways == Spec => []RawModeFollows
<1>1. KeyboardInv => RawModeFollows  BY DEF KeyboardInv
<1>. QED  BY <1>1, KeyboardInit, KeyboardStep, PTL DEF Spec

-----------------------------------------------------------------------------
(* Counting the messages of a type                                         *)

\* A message of type t counts one.
One(m, t) == IF IsType(m, t) THEN 1 ELSE 0

\* Number counts.
LEMMA NumberType ==
  ASSUME NEW S, NEW q \in Seq(S), NEW t
  PROVE  /\ Number(q, t) \in Nat
         /\ IsFiniteSet({i \in DOMAIN q : IsType(q[i], t)})
         /\ Number(q, t) = 0 <=> \A i \in DOMAIN q : ~ IsType(q[i], t)
<1> DEFINE A == {i \in DOMAIN q : IsType(q[i], t)}
<1>1. Len(q) \in Nat /\ DOMAIN q = 1 .. Len(q)  BY LenProperties
<1>2. IsFiniteSet(1 .. Len(q))  BY <1>1, FS_Interval
<1>3. IsFiniteSet(A)
  <2>1. A \in SUBSET (1 .. Len(q))  BY <1>1
  <2> HIDE DEF A
  <2>. QED  BY <1>2, <2>1, FS_Subset
<1>4. Number(q, t) = Cardinality(A)  BY DEF Number
<1>5. Cardinality(A) \in Nat /\ (Cardinality(A) = 0 <=> A = {})
  <2> HIDE DEF A
  <2>. QED  BY <1>3, FS_CardinalityType, FS_EmptySet
<1>. QED  BY <1>3, <1>4, <1>5

\* Messages of a type in two sequences are counted together.
LEMMA NumberConcat ==
  ASSUME NEW S, NEW p \in Seq(S), NEW q \in Seq(S), NEW t
  PROVE  Number(p \o q, t) = Number(p, t) + Number(q, t)
<1> DEFINE A == {i \in DOMAIN p : IsType(p[i], t)}
           B == {i \in DOMAIN q : IsType(q[i], t)}
           C == {i + Len(p) : i \in B}
           D == {i \in DOMAIN (p \o q) : IsType((p \o q)[i], t)}
           f == [i \in B |-> i + Len(p)]
<1>1. /\ Len(p) \in Nat /\ DOMAIN p = 1 .. Len(p)
      /\ Len(q) \in Nat /\ DOMAIN q = 1 .. Len(q)
      /\ DOMAIN (p \o q) = 1 .. Len(p) + Len(q)
      /\ \A i \in 1 .. Len(p) + Len(q) :
           (p \o q)[i] = IF i <= Len(p) THEN p[i] ELSE q[i - Len(p)]
  BY LenProperties, ConcatProperties
<1>2. A \subseteq 1 .. Len(p) /\ B \subseteq 1 .. Len(q)  BY <1>1
<1>3. D = A \cup C
  <2>1. ASSUME NEW i \in D PROVE i \in A \cup C
    <3>1. CASE i <= Len(p)  BY <1>1, <3>1
    <3>2. CASE ~ (i <= Len(p))
      <4>1. i - Len(p) \in B /\ i = (i - Len(p)) + Len(p)  BY <1>1, <3>2
      <4>. QED  BY <4>1
    <3>. QED  BY <3>1, <3>2
  <2>2. A \subseteq D  BY <1>1
  <2>3. C \subseteq D
    <3>1. \A i \in B : i + Len(p) \in D  BY <1>1
    <3>. QED  BY <3>1
  <2>. QED  BY <2>1, <2>2, <2>3
<1>4. A \cap C = {}  BY <1>1, <1>2
<1>5. IsFiniteSet(A) /\ IsFiniteSet(B)  BY NumberType
<1>6. f \in Bijection(B, C)
  BY <1>1, <1>2 DEF Bijection, Injection, Surjection, IsInjective
<1>7. Cardinality(D) = Cardinality(A) + Cardinality(B)
  <2> HIDE DEF A, B, C, D, f
  <2>1. IsFiniteSet(C) /\ Cardinality(C) = Cardinality(B)
    BY <1>5, <1>6, FS_Bijection DEF ExistsBijection
  <2>2. Cardinality(A \cup C) = Cardinality(A) + Cardinality(C) - Cardinality({})
    BY <1>4, <1>5, <2>1, FS_Union
  <2>3. Cardinality({}) = 0 /\ Cardinality(A) \in Nat /\ Cardinality(C) \in Nat
    BY <1>5, <2>1, FS_EmptySet, FS_CardinalityType
  <2>. QED  BY <1>3, <2>1, <2>2, <2>3
<1>. QED  BY <1>7 DEF Number

\* There are none in an empty sequence.
LEMMA NumberNone == ASSUME NEW t PROVE Number(<< >>, t) = 0
<1>1. {i \in DOMAIN << >> : IsType(<< >>[i], t)} = {}  OBVIOUS
<1>. QED  BY <1>1, FS_EmptySet DEF Number

\* One message is counted if it has the type.
LEMMA NumberOne ==
  ASSUME NEW m, NEW t
  PROVE  Number(<<m>>, t) = One(m, t) /\ One(m, t) \in {0, 1}
<1>1. {i \in DOMAIN <<m>> : IsType(<<m>>[i], t)} = IF IsType(m, t) THEN {1} ELSE {}
  OBVIOUS
<1>. QED  BY <1>1, FS_EmptySet, FS_Singleton DEF Number, One

\* A message sent is counted last ...
LEMMA NumberAppend ==
  ASSUME NEW S, NEW q \in Seq(S), NEW m \in S, NEW t
  PROVE  /\ Append(q, m) \in Seq(S)
         /\ Number(Append(q, m), t) = Number(q, t) + One(m, t)
<1>1. <<m>> \in Seq(S)  OBVIOUS
<1>2. Append(q, m) = q \o <<m>> /\ Append(q, m) \in Seq(S)
  BY AppendIsConcat, AppendProperties
<1> DEFINE one == <<m>>
<1>3. Number(one, t) = One(m, t)  BY NumberOne
<1>4. one \in Seq(S) /\ Append(q, m) = q \o one  BY <1>1, <1>2
<1> HIDE DEF one
<1>5. Number(q \o one, t) = Number(q, t) + Number(one, t)  BY <1>4, NumberConcat
<1>. QED  BY <1>2, <1>3, <1>4, <1>5

\* ... one read is counted first ...
LEMMA NumberTail ==
  ASSUME NEW S, NEW q \in Seq(S), q # << >>, NEW t
  PROVE  /\ Head(q) \in S /\ Tail(q) \in Seq(S)
         /\ Number(q, t) = Number(Tail(q), t) + One(Head(q), t)
<1>1. Head(q) \in S /\ Tail(q) \in Seq(S)  BY HeadTailProperties
<1>2. <<Head(q)>> \in Seq(S)  BY <1>1
<1>3. q = <<Head(q)>> \o Tail(q)
  <2>1. <<Head(q)>> \o Tail(q) \in Seq(S)  BY <1>1, <1>2
  <2>. QED  BY <1>1, <1>2, <2>1, SeqEqual, HeadTailProperties, ConcatProperties
<1> DEFINE one == <<Head(q)>>
<1>4. Number(one, t) = One(Head(q), t) /\ One(Head(q), t) \in {0, 1}  BY NumberOne
<1>5. one \in Seq(S) /\ q = one \o Tail(q)  BY <1>2, <1>3
<1> HIDE DEF one
<1>6. Number(one \o Tail(q), t) = Number(one, t) + Number(Tail(q), t)
  BY <1>1, <1>5, NumberConcat
<1>7. Number(Tail(q), t) \in Nat  BY <1>1, NumberType
<1>8. Number(q, t) = Number(one \o Tail(q), t)  BY <1>5
<1> DEFINE of == One(Head(q), t)
           rest == Number(Tail(q), t)
<1>9. Number(q, t) = of + rest /\ of \in {0, 1} /\ rest \in Nat
  BY <1>4, <1>6, <1>7, <1>8
<1> HIDE DEF of, rest
<1>10. Number(q, t) = rest + of  BY <1>9
<1>. QED  BY <1>1, <1>10 DEF of, rest

\* What a read returns and what it leaves make up what was sent.
LEMMA NumberRead ==
  ASSUME NEW S, NEW q \in Seq(S), NEW p \in Reads(q), NEW t
  PROVE  /\ p \in Seq(S) /\ After(q, p) \in Seq(S) /\ q # << >>
         /\ Number(q, t) = Number(p, t) + Number(After(q, p), t)
<1>1. PICK n \in 1 .. Len(q) : p = SubSeq(q, 1, n)  BY DEF Reads
<1>2. Len(q) \in Nat /\ q # << >>  BY <1>1, LenProperties
<1>3. p \in Seq(S) /\ Len(p) = n
  BY <1>1, <1>2, SubSeqProperties, ElementOfSeq
<1>4. After(q, p) = SubSeq(q, n + 1, Len(q))  BY <1>3 DEF After
<1>5. After(q, p) \in Seq(S)
  BY <1>2, <1>4, SubSeqProperties, ElementOfSeq
<1>6. q = p \o After(q, p)
  BY <1>1, <1>2, <1>4, ConcatAdjacentSubSeq, SubSeqFull
<1>7. Number(p \o After(q, p), t) = Number(p, t) + Number(After(q, p), t)
  BY <1>3, <1>5, NumberConcat
<1>8. Number(q, t) = Number(p \o After(q, p), t)  BY <1>6
<1>. QED  BY <1>2, <1>3, <1>5, <1>7, <1>8

\* ... and one taken out of the middle is missed where it was.
LEMMA NumberRemoveAt ==
  ASSUME NEW S, NEW q \in Seq(S), NEW n \in DOMAIN q, NEW t
  PROVE  /\ RemoveAt(q, n) \in Seq(S)
         /\ Number(q, t) = Number(RemoveAt(q, n), t) + One(q[n], t)
<1> DEFINE a == SubSeq(q, 1, n - 1)
           b == SubSeq(q, n + 1, Len(q))
           one == <<q[n]>>
<1>1. Len(q) \in Nat /\ n \in 1 .. Len(q)  BY LenProperties
<1>2. a \in Seq(S) /\ b \in Seq(S) /\ one \in Seq(S)
  BY <1>1, SubSeqProperties, ElementOfSeq
<1>3. q = a \o SubSeq(q, n, Len(q))
  BY <1>1, ConcatAdjacentSubSeq, SubSeqFull, SMTT(20)
<1>4. SubSeq(q, n, Len(q)) = one \o b
  <2>1. n \in 1 .. Len(q) /\ Len(q) \in n .. Len(q)  BY <1>1
  <2>. QED  BY <2>1, SubSeqRecursiveFirst
<1>5. RemoveAt(q, n) = a \o b  BY DEF RemoveAt
<1>6. Number(one, t) = One(q[n], t) /\ One(q[n], t) \in {0, 1}  BY NumberOne
<1> HIDE DEF a, b, one
<1>7. /\ one \o b \in Seq(S) /\ a \o b \in Seq(S)
      /\ Number(one \o b, t) = Number(one, t) + Number(b, t)
      /\ Number(a \o b, t) = Number(a, t) + Number(b, t)
  BY <1>2, NumberConcat, ConcatProperties
<1>8. Number(a \o (one \o b), t) = Number(a, t) + Number(one \o b, t)
  BY <1>2, <1>7, NumberConcat, ZenonT(40)
<1>9. Number(a, t) \in Nat /\ Number(b, t) \in Nat  BY <1>2, NumberType
<1>10. Number(q, t) = Number(a \o (one \o b), t)  BY <1>3, <1>4
<1> DEFINE of == One(q[n], t)
           m == Number(RemoveAt(q, n), t)
<1>11. /\ Number(q, t) = Number(a, t) + (of + Number(b, t))
       /\ m = Number(a, t) + Number(b, t) /\ of \in {0, 1}
  BY <1>5, <1>6, <1>7, <1>8, <1>10
<1> HIDE DEF of, m
<1>12. Number(q, t) = m + of  BY <1>9, <1>11
<1>. QED  BY <1>5, <1>7, <1>12 DEF of, m

-----------------------------------------------------------------------------
(* The messages on the way and those put aside                             *)

Message ==
  {Msg(t) : t \in Types} \cup {SetWin(id, shown) : id \in ToSet(Ids), shown \in BOOLEAN}

WireType ==
  /\ {got, late, waiting, imActive} \subseteq BOOLEAN
  /\ at \in {"none", "starting", "check", "stored", "read", "fresh"}
  /\ toIm \in Seq(Message) /\ toFb \in Seq(Message)
  /\ buf \in Seq(Message) /\ calls \in Seq(Message) /\ pending \in Seq(Message)

\* Nothing is left of a server that has died but what it sent, and of one whose
\* proxy is gone not even that.
Gone ==
  /\ ~ exists => at = "none" /\ toFb = << >>
  /\ at = "none" => toIm = << >> /\ buf = << >> /\ calls = << >> /\ pending = << >>

\* The server is in a callback only while it processes what it has read.
Working == buf # << >> \/ calls # << >> \/ waiting => at \in {"stored", "fresh"}

\* The first message of a server is its Connect: FbTerm skips no other.
ConnectFirst ==
  ~ connected => IF toFb = << >> THEN at \in {"none", "starting"}
                                 ELSE IsType(Head(toFb), "Connect")

\* Of HideUI and its answer there is one on the way while FbTerm waits for it,
\* and none otherwise.
HideUIs ==
  Number(toIm, "HideUI") + Number(buf, "HideUI") + Number(pending, "HideUI")
    + Number(calls, "AckHideUI") + Number(toFb, "AckHideUI")

OneHideUI ==
  /\ awaiting = "none" => ~ got
  /\ at # "none" /\ ~ late => HideUIs = IF awaiting = "AckHideUI" /\ ~ got THEN 1 ELSE 0

\* Messages put aside while stored ones were processed have FbTerm pinged: its
\* answer will end the next read.
PutAside == Number(pending, "AckPing") < Len(pending)
Pinged == Number(toFb, "Ping") + Number(toIm, "AckPing") > 0
Awake == at \in {"stored", "read"} /\ ~ waiting /\ PutAside => Pinged

WireInv ==
  /\ WireType /\ Gone /\ Working /\ ConnectFirst
  /\ OneAnswerEach /\ OneHideUI /\ Awake

\* The messages sent are messages, and have their types.
LEMMA MessageTypes ==
  /\ \A t \in Types : Msg(t) \in Message /\ Msg(t).type = t
  /\ \A id \in ToSet(Ids), shown \in BOOLEAN :
       SetWin(id, shown) \in Message /\ SetWin(id, shown).type = "SetWin"
  /\ \A m \in Message : m.type \in Types /\ m.type # "none"
<1>1. \A t : Msg(t).type = t  BY DEF Msg
<1>2. \A id, shown : SetWin(id, shown).type = "SetWin"  BY DEF SetWin
<1>3. "SetWin" \in Types /\ \A t \in Types : t # "none"  BY DEF Types
<1>4. \A t \in Types : Msg(t) \in Message  BY DEF Message
<1>5. \A id \in ToSet(Ids), shown \in BOOLEAN : SetWin(id, shown) \in Message
  BY DEF Message
<1>6. ASSUME NEW m \in Message  PROVE m.type \in Types /\ m.type # "none"
  <2>1. CASE m \in {Msg(t) : t \in Types}
    <3>1. PICK t \in Types : m = Msg(t)  BY <2>1
    <3>. QED  BY <1>1, <1>3, <3>1
  <2>2. CASE m \in {SetWin(id, shown) : id \in ToSet(Ids), shown \in BOOLEAN}
    <3>1. PICK id \in ToSet(Ids), shown \in BOOLEAN : m = SetWin(id, shown)  BY <2>2
    <3>. QED  BY <1>2, <1>3, <3>1
  <2>. QED  BY <2>1, <2>2 DEF Message
<1>. QED  BY <1>1, <1>2, <1>4, <1>5, <1>6

\* Every count of messages is a number.
LEMMA Counts ==
  ASSUME WireType
  PROVE  /\ \A t \in Types : /\ Number(toIm, t) \in Nat /\ Number(toFb, t) \in Nat
                             /\ Number(buf, t) \in Nat /\ Number(calls, t) \in Nat
                             /\ Number(pending, t) \in Nat
  BY NumberType DEF WireType

\* The program starts with nothing on its way.
LEMMA WireInit == Init => WireInv
<1> SUFFICES ASSUME Init PROVE WireInv  OBVIOUS
<1>1. \A t \in Types : Number(<< >>, t) = 0  BY NumberNone
<1>2. << >> \in Seq(Message) /\ Len(<< >>) = 0  BY EmptySeq
<1>3. WireType /\ Gone /\ Working /\ ConnectFirst /\ OneHideUI
  BY <1>2 DEF Init, WireType, Gone, Working, ConnectFirst, OneHideUI
<1>4. OneAnswerEach /\ Awake
  BY <1>1, <1>2 DEF Init, OneAnswerEach, Awake, Types
<1>. QED  BY <1>3, <1>4 DEF WireInv

\* What FbTerm tells the server of its own accord.
LEMMA Tells ==
  ASSUME WireInv, NEW q \in Seq(Message), Send(q)
  PROVE  /\ toIm' \in Seq(Message) /\ (at = "none" => toIm' = << >>)
         /\ at # "none" =>
              \A t \in Types : Number(toIm', t) = Number(toIm, t) + Number(q, t)
<1>1. CASE at = "none"
  BY <1>1, EmptySeq DEF Send
<1>2. CASE at # "none"
  BY <1>2, ConcatProperties, NumberConcat DEF Send, WireInv, WireType
<1>. QED  BY <1>1, <1>2

\* Steps of FbTerm that take nothing from the server and give it no answer.
LEMMA Quiet ==
  ASSUME WireInv, UNCHANGED <<exists, connected, toFb, server>>,
         got' \in BOOLEAN, late' \in BOOLEAN, awaiting' = "none" => ~ got',
         at # "none" /\ ~ late' =>
           ~ late /\ ((awaiting' = "AckHideUI" /\ ~ got') <=> (awaiting = "AckHideUI" /\ ~ got)),
         toIm' \in Seq(Message), at = "none" => toIm' = << >>,
         at # "none" => \A t \in {"AckWin", "HideUI", "AckPing"} : Number(toIm', t) = Number(toIm, t)
  PROVE  WireInv'
<1>1. UNCHANGED <<at, buf, calls, waiting, pending, imActive>>  BY DEF server
<1>2. WireType' /\ Gone' /\ Working' /\ ConnectFirst'
  BY <1>1 DEF WireInv, WireType, Gone, Working, ConnectFirst
<1>3. OneAnswerEach'
  <2>1. CASE at = "none"
    <3>1. toIm = << >> /\ toIm' = << >>  BY <2>1 DEF WireInv, Gone
    <3>. QED  BY <1>1, <3>1 DEF WireInv, OneAnswerEach
  <2>2. CASE at # "none"  BY <1>1, <2>2 DEF WireInv, OneAnswerEach
  <2>. QED  BY <2>1, <2>2
<1>4. OneHideUI'
  <2>1. at # "none" => HideUIs' = HideUIs  BY <1>1 DEF HideUIs
  <2>. QED  BY <1>1, <2>1 DEF WireInv, OneHideUI
<1>5. Awake'
  <2>1. PutAside' = PutAside  BY <1>1 DEF PutAside
  <2>2. at # "none" => Pinged' = Pinged  BY <1>1 DEF Pinged
  <2>. QED  BY <1>1, <2>1, <2>2 DEF WireInv, Awake
<1>. QED  BY <1>2, <1>3, <1>4, <1>5 DEF WireInv

\* What FbTerm says without being asked is no answer, and only a switch says
\* HideUI.
LEMMA TellsQuietly ==
  ASSUME WireInv, NEW q \in Seq(Message), Send(q),
         \A i \in DOMAIN q : q[i].type \notin {"AckWin", "HideUI", "AckPing"}
  PROVE  /\ toIm' \in Seq(Message) /\ (at = "none" => toIm' = << >>)
         /\ at # "none" =>
              \A t \in {"AckWin", "HideUI", "AckPing"} : Number(toIm', t) = Number(toIm, t)
<1>1. \A t \in {"AckWin", "HideUI", "AckPing"} : Number(q, t) = 0 /\ t \in Types
  BY NumberType DEF IsType, Types
<1>2. \A t \in Types : Number(toIm, t) \in Nat  BY Counts DEF WireInv
<1>. QED  BY <1>1, <1>2, Tells

\* What says nothing to the server leaves the answers to come as they are.
LEMMA Unsaid ==
  ASSUME WireInv, UNCHANGED toIm
  PROVE  /\ toIm' \in Seq(Message) /\ (at = "none" => toIm' = << >>)
         /\ at # "none" =>
              \A t \in {"AckWin", "HideUI", "AckPing"} : Number(toIm', t) = Number(toIm, t)
  BY DEF WireInv, WireType, Gone

\* Switching the input method tells the server, and answers nothing.
LEMMA ToggleTells ==
  ASSUME WireInv, ToggleActive
  PROVE  /\ toIm' \in Seq(Message) /\ (at = "none" => toIm' = << >>)
         /\ at # "none" =>
              \A t \in {"AckWin", "HideUI", "AckPing"} : Number(toIm', t) = Number(toIm, t)
<1> DEFINE hello == <<Msg("Active"), Msg("CursorPosition")>>
           bye == <<Msg("Deactive")>>
<1>1. hello \in Seq(Message) /\ bye \in Seq(Message)
  BY MessageTypes DEF Types
<1>2. /\ \A i \in DOMAIN hello : hello[i].type \notin {"AckWin", "HideUI", "AckPing"}
      /\ \A i \in DOMAIN bye : bye[i].type \notin {"AckWin", "HideUI", "AckPing"}
  BY DEF Msg
<1>3. UNCHANGED toIm \/ Send(hello) \/ Send(bye)  BY DEF ToggleActive
<1> HIDE DEF hello, bye
<1>4. CASE UNCHANGED toIm  BY <1>4, Unsaid
<1>5. CASE Send(hello)  BY <1>1, <1>2, <1>5, TellsQuietly
<1>6. CASE Send(bye)  BY <1>1, <1>2, <1>6, TellsQuietly
<1>. QED  BY <1>3, <1>4, <1>5, <1>6

\* A new server starts with nothing on the way.
LEMMA ToggleImWire ==
  ASSUME WireInv, KeyboardInv, ToggleIm
  PROVE  WireInv'
<1>1. /\ UNCHANGED <<active, connected, got, late, toFb>> /\ awaiting = "none" /\ ~ got
  BY DEF ToggleIm, Event, WireInv, OneHideUI
<1>2. got \in BOOLEAN /\ late \in BOOLEAN  BY DEF WireInv, WireType
<1>3. CASE exists
  <2>1. ToggleActive /\ UNCHANGED <<exists, awaiting, server>>  BY <1>3 DEF ToggleIm
  <2>. QED  BY <1>1, <1>2, <2>1, ToggleTells, Quiet
<1>4. CASE ~ exists
  <2>1. /\ exists' = TRUE /\ awaiting' = "Connect" /\ at' = "starting" /\ UNCHANGED toIm
        /\ buf' = << >> /\ calls' = << >> /\ waiting' = FALSE
        /\ pending' = << >> /\ imActive' = FALSE
    BY <1>4 DEF ToggleIm
  <2>2. toIm = << >> /\ toFb = << >>  BY <1>4 DEF WireInv, Gone
  <2>3. \A t \in Types : Number(<< >>, t) = 0  BY NumberNone
  <2>4. << >> \in Seq(Message) /\ Len(<< >>) = 0  BY EmptySeq
  <2>5. WireType' /\ Gone' /\ Working' /\ ConnectFirst'
    BY <1>1, <1>2, <2>1, <2>2, <2>4 DEF WireType, Gone, Working, ConnectFirst
  <2>6. OneAnswerEach'
    BY <1>1, <2>1, <2>2, <2>3 DEF OneAnswerEach, Types
  <2>7. OneHideUI' /\ Awake'
    BY <1>1, <2>1, <2>2, <2>3 DEF OneHideUI, HideUIs, Awake, Types
  <2>. QED  BY <2>5, <2>6, <2>7 DEF WireInv
<1>. QED  BY <1>3, <1>4

\* FbTerm leaves the window: HideUI is sent to a server that listens.
LEMMA SwitchAwayWire ==
  ASSUME WireInv, KeyboardInv, SwitchAway
  PROVE  WireInv'
<1>1. /\ UNCHANGED <<exists, connected, got, late, toFb, server>> /\ awaiting = "none" /\ ~ got
  BY DEF SwitchAway, Event, WireInv, OneHideUI
<1>2. got \in BOOLEAN /\ late \in BOOLEAN  BY DEF WireInv, WireType
<1>3. CASE Listening
  <2> DEFINE q == <<Msg("HideUI")>>
  <2>1. Send(q) /\ awaiting' = "AckHideUI"  BY <1>3 DEF SwitchAway
  <2>2. q \in Seq(Message)  BY MessageTypes DEF Types
  <2>3. \A t \in {"AckWin", "HideUI", "AckPing"} : Number(q, t) = One(Msg("HideUI"), t)
    BY NumberOne
  <2>4. One(Msg("HideUI"), "AckWin") = 0 /\ One(Msg("HideUI"), "AckPing") = 0
        /\ One(Msg("HideUI"), "HideUI") = 1
    BY DEF One, IsType, Msg
  <2> HIDE DEF q
  <2>5. /\ toIm' \in Seq(Message) /\ (at = "none" => toIm' = << >>)
        /\ at # "none" => /\ Number(toIm', "AckWin") = Number(toIm, "AckWin")
                          /\ Number(toIm', "AckPing") = Number(toIm, "AckPing")
                          /\ Number(toIm', "HideUI") = Number(toIm, "HideUI") + 1
    <3>1. {"AckWin", "HideUI", "AckPing"} \subseteq Types  BY DEF Types
    <3>2. \A t \in Types : Number(toIm, t) \in Nat  BY Counts DEF WireInv
    <3>. QED  BY <2>1, <2>2, <2>3, <2>4, <3>1, <3>2, Tells
  <2>6. UNCHANGED <<at, buf, calls, waiting, pending, imActive>>  BY <1>1 DEF server
  <2>7. WireType' /\ Gone' /\ Working' /\ ConnectFirst'
    BY <1>1, <2>5, <2>6 DEF WireInv, WireType, Gone, Working, ConnectFirst
  <2>8. OneAnswerEach'
    <3>1. CASE at = "none"
      <4>1. toIm = << >> /\ toIm' = << >>  BY <2>5, <3>1 DEF WireInv, Gone
      <4>. QED  BY <1>1, <2>6, <4>1 DEF WireInv, OneAnswerEach
    <3>2. CASE at # "none"  BY <1>1, <2>5, <2>6, <3>2 DEF WireInv, OneAnswerEach
    <3>. QED  BY <3>1, <3>2
  <2>9. OneHideUI'
    <3>1. at # "none" => HideUIs' = HideUIs + 1
      <4>1. \A t \in Types : /\ Number(toIm, t) \in Nat /\ Number(toFb, t) \in Nat
                             /\ Number(buf, t) \in Nat /\ Number(calls, t) \in Nat
                             /\ Number(pending, t) \in Nat
        BY Counts DEF WireInv
      <4>2. "HideUI" \in Types /\ "AckHideUI" \in Types  BY DEF Types
      <4>. QED  BY <1>1, <2>5, <2>6, <4>1, <4>2, SMTT(20) DEF HideUIs
    <3>. QED  BY <1>1, <2>1, <2>6, <3>1 DEF WireInv, OneHideUI
  <2>10. Awake'
    <3>1. PutAside' = PutAside  BY <2>6 DEF PutAside
    <3>2. at # "none" => Pinged' = Pinged  BY <1>1, <2>5 DEF Pinged
    <3>. QED  BY <2>6, <3>1, <3>2 DEF WireInv, Awake
  <2>. QED  BY <2>7, <2>8, <2>9, <2>10 DEF WireInv
<1>4. CASE ~ Listening
  <2>1. UNCHANGED <<toIm, awaiting>>  BY <1>4 DEF SwitchAway
  <2>. QED  BY <1>1, <1>2, <2>1, Unsaid, Quiet
<1>. QED  BY <1>3, <1>4

\* A server whose process is gone, whether FbTerm ended it or it died.
LEMMA GoneWire ==
  ASSUME WireInv, KeyboardInv, ServerGone,
         awaiting' = awaiting, got' = got, late' \in BOOLEAN,
         toFb' = toFb \/ toFb' = << >>,
         exists' = exists \/ (~ exists' /\ toFb' = << >>),
         ~ connected' => ~ connected \/ toFb' = << >>
  PROVE  WireInv'
<1>1. /\ at' = "none" /\ waiting' = FALSE /\ imActive' = FALSE
      /\ buf' = << >> /\ calls' = << >> /\ pending' = << >> /\ toIm' = << >>
  BY DEF ServerGone
<1>2. \A t \in Types : Number(<< >>, t) = 0  BY NumberNone
<1>3. << >> \in Seq(Message) /\ Len(<< >>) = 0  BY EmptySeq
<1>4. WireType' /\ Gone' /\ Working' /\ ConnectFirst'
  BY <1>1, <1>3 DEF WireInv, WireType, Gone, Working, ConnectFirst
<1>5. OneAnswerEach'
  <2>1. {"SetWin", "AckWin"} \subseteq Types  BY DEF Types
  <2>2. Number(toFb', "SetWin") <= 1
    <3>1. CASE toFb' = toFb
      <4>1. Number(toFb, "SetWin") \in Nat /\ Number(toIm, "AckWin") \in Nat
        BY <2>1, Counts DEF WireInv
      <4>. QED  BY <3>1, <4>1 DEF WireInv, OneAnswerEach
    <3>2. CASE toFb' = << >>  BY <1>2, <2>1, <3>2
    <3>. QED  BY <3>1, <3>2
  <2>3. Number(toIm', "AckWin") = 0  BY <1>1, <1>2, <2>1
  <2>4. Number(toFb', "SetWin") \in Nat
    <3>1. toFb' \in Seq(Message)  BY <1>3 DEF WireInv, WireType
    <3>. QED  BY <3>1, NumberType
  <2>. QED  BY <1>1, <2>2, <2>3, <2>4 DEF OneAnswerEach
<1>6. OneHideUI' /\ Awake'
  BY <1>1 DEF WireInv, OneHideUI, Awake
<1>. QED  BY <1>4, <1>5, <1>6 DEF WireInv

\* A server that is killed or exits takes with it what is on its way.
LEMMA EndsWire ==
  ASSUME WireInv, KeyboardInv, KillIm \/ ImExited \/ ImDies
  PROVE  WireInv'
<1>1. CASE KillIm \/ ImExited
  <2>1. Destroy  BY <1>1 DEF KillIm, ImExited
  <2>2. /\ exists' = FALSE /\ toFb' = << >> /\ late' = FALSE /\ ServerGone
        /\ awaiting' = awaiting /\ got' = got
    BY <2>1 DEF Destroy
  <2>. QED  BY <2>2, GoneWire
<1>2. CASE ImDies
  <2>1. ServerGone /\ UNCHANGED <<exists, connected, awaiting, got, late, toFb>>
    BY <1>2 DEF ImDies, fbTerm
  <2>2. late' \in BOOLEAN  BY <2>1 DEF WireInv, WireType
  <2>. QED  BY <2>1, <2>2, GoneWire
<1>. QED  BY <1>1, <1>2

\* FbTerm takes a message, and answers if it is a request.
LEMMA ReadyReadWire ==
  ASSUME WireInv, KeyboardInv, ReadyRead
  PROVE  WireInv'
<1> DEFINE m == Head(toFb)
           ack == <<Msg("AckWin")>>
           pong == <<Msg("AckPing")>>
<1>1. /\ exists /\ toFb # << >> /\ toFb' = Tail(toFb)
      /\ got' = (got \/ IsType(m, awaiting))
      /\ connected' = (connected \/ IsType(m, "Connect"))
      /\ UNCHANGED <<exists, awaiting, late, server>>
  BY DEF ReadyRead, Awaited
<1>2. /\ m \in Message /\ Tail(toFb) \in Seq(Message)
      /\ \A t : Number(toFb, t) = Number(Tail(toFb), t) + One(m, t)
  BY <1>1, NumberTail DEF WireInv, WireType
<1>3. m.type \in Types /\ m.type # "none"  BY <1>2, MessageTypes
<1>4. ~ connected => m.type = "Connect"
  BY <1>1 DEF WireInv, ConnectFirst, IsType
<1>5. \/ m.type = "SetWin" /\ Send(ack)
      \/ m.type = "Ping" /\ Send(pong)
      \/ m.type \notin {"SetWin", "Ping"} /\ UNCHANGED toIm
  <2>1. CASE connected /\ m.type = "SetWin"
    BY <2>1 DEF ReadyRead, IsType, SetImWin
  <2>2. CASE connected /\ m.type = "Ping"
    BY <2>2 DEF ReadyRead, IsType
  <2>3. CASE m.type \notin {"SetWin", "Ping"}
    BY <2>3 DEF ReadyRead, IsType
  <2>. QED  BY <1>4, <2>1, <2>2, <2>3
<1>6. ack \in Seq(Message) /\ pong \in Seq(Message)  BY MessageTypes DEF Types
<1>7. /\ \A t \in Types : Number(ack, t) = One(Msg("AckWin"), t)
      /\ \A t \in Types : Number(pong, t) = One(Msg("AckPing"), t)
  BY NumberOne
<1>8. /\ \A t : One(m, t) = IF m.type = t THEN 1 ELSE 0
      /\ \A t, u : One(Msg(u), t) = IF u = t THEN 1 ELSE 0
  BY DEF One, IsType, Msg
<1> HIDE DEF m, ack, pong
<1>9. /\ toIm' \in Seq(Message) /\ (at = "none" => toIm' = << >>)
      /\ at # "none" =>
           /\ Number(toIm', "AckWin") = Number(toIm, "AckWin") + One(m, "SetWin")
           /\ Number(toIm', "AckPing") = Number(toIm, "AckPing") + One(m, "Ping")
           /\ Number(toIm', "HideUI") = Number(toIm, "HideUI")
  <2>1. {"AckWin", "HideUI", "AckPing"} \subseteq Types  BY DEF Types
  <2>2. \A t \in Types : Number(toIm, t) \in Nat  BY Counts DEF WireInv
  <2>3. CASE m.type = "SetWin" /\ Send(ack)
    BY <1>6, <1>7, <1>8, <2>1, <2>2, <2>3, Tells
  <2>4. CASE m.type = "Ping" /\ Send(pong)
    BY <1>6, <1>7, <1>8, <2>1, <2>2, <2>4, Tells
  <2>5. CASE m.type \notin {"SetWin", "Ping"} /\ UNCHANGED toIm
    BY <1>8, <2>1, <2>2, <2>5 DEF WireInv, WireType, Gone
  <2>. QED  BY <1>5, <2>3, <2>4, <2>5
<1>10. UNCHANGED <<at, buf, calls, waiting, pending, imActive>>  BY <1>1 DEF server
<1>11. \A t \in Types : /\ Number(toIm, t) \in Nat /\ Number(toFb, t) \in Nat
                        /\ Number(buf, t) \in Nat /\ Number(calls, t) \in Nat
                        /\ Number(pending, t) \in Nat /\ Number(toFb', t) \in Nat
                        /\ Number(toIm', t) \in Nat
                        /\ Number(toFb, t) = Number(toFb', t) + One(m, t)
  BY <1>1, <1>2, <1>9, Counts, NumberType DEF WireInv
<1>12. WireType'
  <2>1. got' \in BOOLEAN  BY <1>1 DEF WireInv, WireType, IsType
  <2>. QED  BY <1>1, <1>2, <1>9, <1>10, <2>1 DEF WireInv, WireType
<1>13. connected'  BY <1>1, <1>4 DEF IsType
<1>14. Gone' /\ Working' /\ ConnectFirst'
  BY <1>1, <1>9, <1>10, <1>13 DEF WireInv, Gone, Working, ConnectFirst
<1>15. OneAnswerEach'
  <2>1. {"SetWin", "AckWin"} \subseteq Types  BY DEF Types
  <2>2. CASE at = "none"
    <3>1. Number(toIm', "AckWin") = 0  BY <1>9, <2>2, NumberNone
    <3>. QED  BY <1>8, <1>10, <1>11, <2>1, <2>2, <3>1 DEF WireInv, OneAnswerEach
  <2>3. CASE at # "none"
    <3>1. /\ Number(toIm', "AckWin") = Number(toIm, "AckWin") + One(m, "SetWin")
          /\ Number(toFb, "SetWin") = Number(toFb', "SetWin") + One(m, "SetWin")
          /\ Number(toIm, "AckWin") \in Nat /\ Number(toFb', "SetWin") \in Nat
      BY <1>9, <1>11, <2>1, <2>3
    <3>2. One(m, "SetWin") \in {0, 1}  BY <1>8
    <3>3. Number(toFb', "SetWin") + Number(toIm', "AckWin")
            = Number(toFb, "SetWin") + Number(toIm, "AckWin")
      BY <3>1, <3>2
    <3>. QED  BY <1>10, <3>3 DEF WireInv, OneAnswerEach
  <2>. QED  BY <2>2, <2>3
<1>16. OneHideUI'
  <2>1. {"HideUI", "AckHideUI"} \subseteq Types  BY DEF Types
  <2>2. awaiting' = "none" => ~ got'
    BY <1>1, <1>3 DEF WireInv, OneHideUI, IsType
  <2>3. ASSUME at # "none", ~ late
        PROVE  HideUIs' = IF awaiting = "AckHideUI" /\ ~ got' THEN 1 ELSE 0
    <3>1. HideUIs = IF awaiting = "AckHideUI" /\ ~ got THEN 1 ELSE 0
      BY <2>3 DEF WireInv, OneHideUI
    <3>2. HideUIs = HideUIs' + One(m, "AckHideUI") /\ HideUIs' \in Nat
      <4>1. /\ Number(toIm', "HideUI") = Number(toIm, "HideUI")
            /\ Number(toFb, "AckHideUI") = Number(toFb', "AckHideUI") + One(m, "AckHideUI")
            /\ Number(toIm, "HideUI") \in Nat /\ Number(buf, "HideUI") \in Nat
            /\ Number(pending, "HideUI") \in Nat /\ Number(calls, "AckHideUI") \in Nat
            /\ Number(toFb', "AckHideUI") \in Nat
        BY <1>9, <1>11, <2>1, <2>3
      <4>2. One(m, "AckHideUI") \in {0, 1}  BY <1>8
      <4>. QED  BY <1>10, <4>1, <4>2 DEF HideUIs
    <3>3. (got' <=> got \/ m.type = awaiting) /\ got \in BOOLEAN /\ got' \in BOOLEAN
      BY <1>1, <1>12 DEF IsType, WireInv, WireType
    <3>4. CASE m.type = "AckHideUI"
      <4>1. One(m, "AckHideUI") = 1  BY <1>8, <3>4
      <4>. QED  BY <3>1, <3>2, <3>3, <3>4, <4>1
    <3>5. CASE m.type # "AckHideUI"
      <4>1. One(m, "AckHideUI") = 0  BY <1>8, <3>5
      <4>. QED  BY <3>1, <3>2, <3>3, <3>5, <4>1
    <3>. QED  BY <3>4, <3>5
  <2>. QED  BY <1>1, <1>10, <2>2, <2>3 DEF OneHideUI
<1>17. Awake'
  <2>1. {"Ping", "AckPing"} \subseteq Types  BY DEF Types
  <2>2. PutAside' = PutAside  BY <1>10 DEF PutAside
  <2>3. at # "none" /\ Pinged => Pinged'
    BY <1>8, <1>9, <1>11, <2>1, SMTT(20) DEF Pinged
  <2>. QED  BY <1>10, <2>2, <2>3 DEF WireInv, Awake
<1>. QED  BY <1>12, <1>14, <1>15, <1>16, <1>17 DEF WireInv

\* The end of a wait, in time or not.
LEMMA ResumeWire ==
  ASSUME WireInv, KeyboardInv, GotMessage \/ TimeOut
  PROVE  WireInv'
<1>1. /\ Resume /\ awaiting # "none" /\ awaiting' = "none" /\ got' = FALSE
      /\ UNCHANGED <<exists, connected, toFb, server>>
  BY DEF GotMessage, TimeOut, Resume
<1>2. got \in BOOLEAN /\ late \in BOOLEAN  BY DEF WireInv, WireType
<1>3. \/ got /\ late' = late
      \/ ~ got /\ late' = (late \/ awaiting = "AckHideUI")
  BY DEF GotMessage, TimeOut
<1>4. /\ toIm' \in Seq(Message) /\ (at = "none" => toIm' = << >>)
      /\ at # "none" =>
           \A t \in {"AckWin", "HideUI", "AckPing"} : Number(toIm', t) = Number(toIm, t)
  <2>1. UNCHANGED toIm \/ ToggleActive  BY <1>1 DEF Resume
  <2>. QED  BY <2>1, Unsaid, ToggleTells
<1>5. late' \in BOOLEAN /\ (~ late' => ~ late /\ (got \/ awaiting # "AckHideUI"))
  BY <1>2, <1>3
<1>. QED  BY <1>1, <1>2, <1>4, <1>5, Quiet

\* Keys, cursor reports, and the switch back to the window.
LEMMA ReportsWire ==
  ASSUME WireInv, KeyboardInv, KeyInput \/ MoveCursor \/ SwitchBack \/ IoError
  PROVE  WireInv'
<1> DEFINE key == <<Msg("SendKey")>>
           move == <<Msg("CursorPosition")>>
           back == <<Msg("ShowUI"), Msg("CursorPosition")>>
<1>1. key \in Seq(Message) /\ move \in Seq(Message) /\ back \in Seq(Message)
  BY MessageTypes DEF Types
<1>2. /\ \A i \in DOMAIN key : key[i].type \notin {"AckWin", "HideUI", "AckPing"}
      /\ \A i \in DOMAIN move : move[i].type \notin {"AckWin", "HideUI", "AckPing"}
      /\ \A i \in DOMAIN back : back[i].type \notin {"AckWin", "HideUI", "AckPing"}
  BY DEF Msg
<1>3. got \in BOOLEAN /\ late \in BOOLEAN /\ (awaiting = "none" => ~ got)
  BY DEF WireInv, WireType, OneHideUI
<1>4. CASE KeyInput \/ MoveCursor \/ SwitchBack
  <2>1. /\ UNCHANGED <<exists, connected, toFb, server, got, late, awaiting>>
        /\ UNCHANGED toIm \/ Send(key) \/ Send(move) \/ Send(back)
    <3>1. CASE KeyInput  BY <3>1 DEF KeyInput, server
    <3>2. CASE MoveCursor  BY <3>2 DEF MoveCursor, server
    <3>3. CASE SwitchBack  BY <3>3 DEF SwitchBack, server
    <3>. QED  BY <1>4, <3>1, <3>2, <3>3
  <2> HIDE DEF key, move, back
  <2>2. /\ toIm' \in Seq(Message) /\ (at = "none" => toIm' = << >>)
        /\ at # "none" =>
             \A t \in {"AckWin", "HideUI", "AckPing"} : Number(toIm', t) = Number(toIm, t)
    <3>1. CASE UNCHANGED toIm  BY <3>1, Unsaid
    <3>2. CASE Send(key)  BY <1>1, <1>2, <3>2, TellsQuietly
    <3>3. CASE Send(move)  BY <1>1, <1>2, <3>3, TellsQuietly
    <3>4. CASE Send(back)  BY <1>1, <1>2, <3>4, TellsQuietly
    <3>. QED  BY <2>1, <3>1, <3>2, <3>3, <3>4
  <2>. QED  BY <1>3, <2>1, <2>2, Quiet
<1>5. CASE IoError
  <2>1. /\ UNCHANGED <<exists, connected, toFb, server, late, awaiting, toIm>>
        /\ awaiting # "none" /\ at = "none" /\ got' = TRUE
    BY <1>5 DEF IoError, server
  <2>. QED  BY <1>3, <2>1, Unsaid, Quiet
<1>. QED  BY <1>4, <1>5

-----------------------------------------------------------------------------
(* The steps of the server                                                 *)

\* The server connects first.
LEMMA ImStartWire ==
  ASSUME WireInv, KeyboardInv, ImStart
  PROVE  WireInv'
<1> DEFINE m == Msg("Connect")
<1>1. /\ at = "starting" /\ at' = "check" /\ toFb' = Append(toFb, m)
      /\ UNCHANGED <<exists, connected, awaiting, got, late, toIm, buf, calls, waiting, pending, imActive>>
  BY DEF ImStart, fbTerm
<1>2. m \in Message /\ m.type = "Connect"  BY MessageTypes DEF Types
<1>3. One(m, "SetWin") = 0 /\ One(m, "AckHideUI") = 0  BY <1>2 DEF One, IsType
<1> HIDE DEF m
<1>4. /\ toFb' \in Seq(Message)
      /\ \A t : Number(toFb', t) = Number(toFb, t) + One(m, t)
  BY <1>1, <1>2, NumberAppend DEF WireInv, WireType
<1>5. \A t \in Types : Number(toFb, t) \in Nat /\ Number(toIm, t) \in Nat
  BY Counts DEF WireInv
<1>6. WireType' /\ Gone' /\ Working'
  BY <1>1, <1>4 DEF WireInv, WireType, Gone, Working
<1>7. ConnectFirst'
  <2>1. toFb \in Seq(Message)  BY DEF WireInv, WireType
  <2>2. toFb' # << >>  BY <1>1, <1>2, <2>1, AppendProperties
  <2>3. Head(toFb') = IF toFb = << >> THEN m ELSE Head(toFb)
    BY <1>1, <2>1, HeadTailAppend
  <2>. QED  BY <1>1, <1>2, <2>2, <2>3 DEF WireInv, ConnectFirst, IsType
<1>8. OneAnswerEach'
  <2>1. Number(toFb', "SetWin") = Number(toFb, "SetWin")
    BY <1>3, <1>4, <1>5 DEF Types
  <2>. QED  BY <1>1, <2>1 DEF WireInv, OneAnswerEach
<1>9. OneHideUI'
  <2>1. Number(toFb', "AckHideUI") = Number(toFb, "AckHideUI")
    BY <1>3, <1>4, <1>5 DEF Types
  <2>2. HideUIs' = HideUIs  BY <1>1, <2>1 DEF HideUIs
  <2>. QED  BY <1>1, <2>2 DEF WireInv, OneHideUI
<1>10. Awake'  BY <1>1 DEF Awake
<1>. QED  BY <1>6, <1>7, <1>8, <1>9, <1>10 DEF WireInv

\* Steps of the server between reads and callbacks.
LEMMA CheckImMessageWire ==
  ASSUME WireInv, KeyboardInv, CheckImMessage
  PROVE  WireInv'
<1>1. /\ at = "check" /\ at' \in {"stored", "read"}
      /\ UNCHANGED <<exists, connected, awaiting, got, late, toIm, toFb, calls, waiting, imActive>>
      /\ pending' = << >>
      /\ \/ at' = "stored" /\ buf' = pending
         \/ at' = "read" /\ buf' = buf /\ pending = << >>
  BY DEF CheckImMessage, fbTerm
<1>2. buf = << >> /\ calls = << >> /\ ~ waiting
  BY <1>1 DEF WireInv, Working
<1>3. \A t : Number(<< >>, t) = 0  BY NumberNone
<1>4. << >> \in Seq(Message) /\ Len(<< >>) = 0  BY EmptySeq
<1>5. \A t \in Types : Number(pending, t) \in Nat  BY Counts DEF WireInv
<1>6. WireType' /\ Gone' /\ Working' /\ ConnectFirst'
  BY <1>1, <1>2, <1>4 DEF WireInv, WireType, Gone, Working, ConnectFirst
<1>7. OneAnswerEach'  BY <1>1 DEF WireInv, OneAnswerEach
<1>8. OneHideUI'
  <2>1. buf' = pending \/ (buf' = buf /\ pending' = pending)  BY <1>1
  <2>2. Number(buf', "HideUI") + Number(pending', "HideUI")
          = Number(buf, "HideUI") + Number(pending, "HideUI")
    BY <1>1, <1>2, <1>3, <1>5, <2>1 DEF Types
  <2>3. HideUIs' = HideUIs
    <3>1. "HideUI" \in Types /\ "AckHideUI" \in Types  BY DEF Types
    <3>2. /\ Number(toIm, "HideUI") \in Nat /\ Number(toFb, "AckHideUI") \in Nat
          /\ Number(calls, "AckHideUI") \in Nat
          /\ Number(buf, "HideUI") \in Nat /\ Number(pending, "HideUI") \in Nat
      BY <3>1, Counts DEF WireInv
    <3>3. Number(buf', "HideUI") \in Nat /\ Number(pending', "HideUI") \in Nat
      BY <1>6, NumberType DEF WireType
    <3>. QED  BY <1>1, <2>2, <3>2, <3>3, SMTT(20) DEF HideUIs
  <2>. QED  BY <1>1, <2>3 DEF WireInv, OneHideUI
<1>9. Awake'
  BY <1>1, <1>3, <1>4 DEF Awake, PutAside
<1>. QED  BY <1>6, <1>7, <1>8, <1>9 DEF WireInv

\* The server reads what has come, whole messages of it.
LEMMA ReadMessagesWire ==
  ASSUME WireInv, KeyboardInv, ReadMessages
  PROVE  WireInv'
<1>1. PICK p \in Reads(toIm) : buf' = p /\ toIm' = After(toIm, p)
  BY DEF ReadMessages
<1>2. /\ at = "read" /\ at' = "fresh"
      /\ UNCHANGED <<exists, connected, awaiting, got, late, toFb, calls, waiting, pending, imActive>>
  BY DEF ReadMessages, fbTerm
<1>3. buf = << >> /\ calls = << >> /\ ~ waiting
  BY <1>2 DEF WireInv, Working
<1>4. /\ buf' \in Seq(Message) /\ toIm' \in Seq(Message)
      /\ \A t : Number(toIm, t) = Number(buf', t) + Number(toIm', t)
  BY <1>1, NumberRead DEF WireInv, WireType
<1>5. \A t \in Types : /\ Number(toIm, t) \in Nat /\ Number(toFb, t) \in Nat
                       /\ Number(buf', t) \in Nat /\ Number(toIm', t) \in Nat
                       /\ Number(calls, t) \in Nat /\ Number(pending, t) \in Nat
  BY <1>4, Counts, NumberType DEF WireInv
<1>6. WireType' /\ Gone' /\ Working' /\ ConnectFirst'
  BY <1>2, <1>4 DEF WireInv, WireType, Gone, Working, ConnectFirst
<1>7. OneAnswerEach'
  <2>1. {"SetWin", "AckWin"} \subseteq Types  BY DEF Types
  <2>2. Number(toFb, "SetWin") + Number(toIm, "AckWin") = 0
    BY <1>2, <1>3, <1>5, <2>1 DEF WireInv, OneAnswerEach
  <2>3. Number(toFb', "SetWin") + Number(toIm', "AckWin") = 0
    BY <1>2, <1>4, <1>5, <2>1, <2>2, SMTT(20)
  <2>. QED  BY <1>2, <1>3, <2>3 DEF OneAnswerEach
<1>8. OneHideUI'
  <2>1. Number(buf, "HideUI") = 0  BY <1>3, NumberNone
  <2>2. HideUIs' = HideUIs
    BY <1>2, <1>4, <1>5, <2>1 DEF HideUIs, Types
  <2>. QED  BY <1>2, <2>2 DEF WireInv, OneHideUI
<1>9. Awake'  BY <1>2 DEF Awake
<1>. QED  BY <1>6, <1>7, <1>8, <1>9 DEF WireInv

\* A callback answers HideUI, and nothing else, with AckHideUI.
LEMMA CallbackAnswers ==
  ASSUME NEW m \in Message
  PROVE  /\ Callback(m) \in Seq(Message)
         /\ Number(Callback(m), "AckHideUI") = One(m, "HideUI")
<1> DEFINE hide == [i \in DOMAIN Ids |-> SetWin(Ids[i], FALSE)]
           show == [i \in DOMAIN Ids |-> SetWin(Ids[i], TRUE)]
           off == <<Msg("ImOff")>>
<1>1. /\ hide \in Seq(Message) /\ DOMAIN hide = DOMAIN Ids
      /\ show \in Seq(Message) /\ DOMAIN show = DOMAIN Ids
  <2>1. Len(Ids) \in Nat /\ DOMAIN Ids = 1 .. Len(Ids)
    BY IdsAssumption, LenProperties
  <2>2. \A i \in DOMAIN Ids : Ids[i] \in ToSet(Ids)  BY <2>1 DEF ToSet
  <2>3. \A i \in 1 .. Len(Ids) : /\ SetWin(Ids[i], FALSE) \in Message
                                 /\ SetWin(Ids[i], TRUE) \in Message
    BY <2>1, <2>2, MessageTypes
  <2>4. hide \in [1 .. Len(Ids) -> Message] /\ show \in [1 .. Len(Ids) -> Message]
    BY <2>1, <2>3
  <2>. QED  BY <2>1, <2>4, SeqDef, ZenonT(40)
<1>2. /\ \A i \in DOMAIN hide : hide[i].type = "SetWin"
      /\ \A i \in DOMAIN show : show[i].type = "SetWin"
  BY DEF SetWin
<1>3. \A t \in {"ImOn", "ImOff", "AckHideUI", "PutText"} :
        <<Msg(t)>> \in Seq(Message) /\ Number(<<Msg(t)>>, "AckHideUI") = One(Msg(t), "AckHideUI")
  BY MessageTypes, NumberOne DEF Types
<1>4. /\ One(Msg("ImOn"), "AckHideUI") = 0 /\ One(Msg("ImOff"), "AckHideUI") = 0
      /\ One(Msg("PutText"), "AckHideUI") = 0 /\ One(Msg("AckHideUI"), "AckHideUI") = 1
      /\ One(m, "HideUI") = IF m.type = "HideUI" THEN 1 ELSE 0
  BY DEF One, IsType, Msg
<1>5. /\ off \in Seq(Message) /\ Number(off, "AckHideUI") = 0
  BY <1>3, <1>4
<1>6. Callback(m) = CASE m.type = "Active" -> <<Msg("ImOn")>>
                      [] m.type = "Deactive" -> hide \o off
                      [] m.type = "HideUI" -> <<Msg("AckHideUI")>>
                      [] imActive /\ (m.type = "ShowUI" \/ m.type = "CursorPosition") -> show
                      [] imActive /\ m.type = "SendKey" -> <<Msg("PutText")>>
                      [] OTHER -> << >>
  BY DEF Callback, IsType
<1> HIDE DEF hide, show, off
<1>7. Number(hide, "AckHideUI") = 0 /\ Number(show, "AckHideUI") = 0
  BY <1>1, <1>2, NumberType DEF IsType
<1>8. hide \o off \in Seq(Message) /\ Number(hide \o off, "AckHideUI") = 0
  BY <1>1, <1>5, <1>7, NumberConcat, ConcatProperties
<1>9. << >> \in Seq(Message) /\ Number(<< >>, "AckHideUI") = 0
  BY EmptySeq, NumberNone
<1>10. CASE m.type = "Active"
  <2>1. Callback(m) = <<Msg("ImOn")>>  BY <1>6, <1>10
  <2>2. One(m, "HideUI") = 0  BY <1>4, <1>10
  <2>. QED  BY <1>3, <1>4, <2>1, <2>2
<1>11. CASE m.type = "Deactive"
  <2>1. Callback(m) = hide \o off  BY <1>6, <1>11
  <2>2. One(m, "HideUI") = 0  BY <1>4, <1>11
  <2>. QED  BY <1>8, <2>1, <2>2
<1>12. CASE m.type = "HideUI"
  <2>1. Callback(m) = <<Msg("AckHideUI")>>  BY <1>6, <1>12
  <2>2. One(m, "HideUI") = 1  BY <1>4, <1>12
  <2>. QED  BY <1>3, <1>4, <2>1, <2>2
<1>13. CASE m.type \notin {"Active", "Deactive", "HideUI"}
  <2>1. Callback(m) \in {show, <<Msg("PutText")>>, << >>}  BY <1>6, <1>13
  <2>2. One(m, "HideUI") = 0  BY <1>4, <1>13
  <2>. QED  BY <1>1, <1>3, <1>4, <1>7, <1>9, <2>1, <2>2
<1>. QED  BY <1>10, <1>11, <1>12, <1>13

\* The server takes up the next message it has read.
LEMMA ProcessMessageWire ==
  ASSUME WireInv, KeyboardInv, ProcessMessage
  PROVE  WireInv'
<1>1. /\ at \in {"stored", "fresh"} /\ calls = << >> /\ ~ waiting
      /\ UNCHANGED <<exists, connected, awaiting, got, late, toIm, toFb, waiting, pending, imActive>>
  BY DEF ProcessMessage, fbTerm
<1>2. \A t \in Types : /\ Number(toIm, t) \in Nat /\ Number(toFb, t) \in Nat
                       /\ Number(buf, t) \in Nat /\ Number(calls, t) \in Nat
                       /\ Number(pending, t) \in Nat
  BY Counts DEF WireInv
<1>3. CASE buf # << >>
  <2> DEFINE m == Head(buf)
  <2>1. calls' = Callback(m) /\ buf' = Tail(buf) /\ at' = at
    BY <1>3 DEF ProcessMessage
  <2>2. /\ m \in Message /\ Tail(buf) \in Seq(Message)
        /\ \A t : Number(buf, t) = Number(Tail(buf), t) + One(m, t)
    BY <1>3, NumberTail DEF WireInv, WireType
  <2> HIDE DEF m
  <2>3. calls' \in Seq(Message) /\ Number(calls', "AckHideUI") = One(m, "HideUI")
    BY <2>1, <2>2, CallbackAnswers
  <2>4. WireType' /\ Gone' /\ Working' /\ ConnectFirst'
    BY <1>1, <2>1, <2>2, <2>3 DEF WireInv, WireType, Gone, Working, ConnectFirst
  <2>5. OneAnswerEach'  BY <1>1, <2>1 DEF WireInv, OneAnswerEach
  <2>6. OneHideUI'
    <3>1. Number(calls, "AckHideUI") = 0  BY <1>1, NumberNone
    <3>2. Number(buf', "HideUI") \in Nat /\ One(m, "HideUI") \in {0, 1}
      BY <2>1, <2>2, NumberType, NumberOne
    <3>3. Number(buf, "HideUI") = Number(buf', "HideUI") + One(m, "HideUI")
      BY <2>1, <2>2
    <3>4. HideUIs' = HideUIs
      <4>1. /\ Number(toIm, "HideUI") \in Nat /\ Number(pending, "HideUI") \in Nat
            /\ Number(toFb, "AckHideUI") \in Nat
        BY <1>2 DEF Types
      <4>. QED  BY <1>1, <2>3, <3>1, <3>2, <3>3, <4>1 DEF HideUIs
    <3>. QED  BY <1>1, <2>1, <3>4 DEF WireInv, OneHideUI
  <2>7. Awake'
    <3>1. PutAside' = PutAside /\ Pinged' = Pinged  BY <1>1 DEF PutAside, Pinged
    <3>. QED  BY <1>1, <2>1, <3>1 DEF WireInv, Awake
  <2>. QED  BY <2>4, <2>5, <2>6, <2>7 DEF WireInv
<1>4. CASE buf = << >>
  <2>1. at' = (IF at = "stored" THEN "read" ELSE "check") /\ UNCHANGED <<calls, buf>>
    BY <1>4 DEF ProcessMessage
  <2>2. WireType' /\ Gone' /\ Working' /\ ConnectFirst'
    BY <1>1, <1>4, <2>1 DEF WireInv, WireType, Gone, Working, ConnectFirst
  <2>3. OneAnswerEach'  BY <1>1, <2>1 DEF WireInv, OneAnswerEach
  <2>4. OneHideUI'
    <3>1. HideUIs' = HideUIs  BY <1>1, <2>1 DEF HideUIs
    <3>. QED  BY <1>1, <2>1, <3>1 DEF WireInv, OneHideUI
  <2>5. Awake'
    <3>1. PutAside' = PutAside /\ Pinged' = Pinged  BY <1>1 DEF PutAside, Pinged
    <3>. QED  BY <1>1, <2>1, <3>1 DEF WireInv, Awake
  <2>. QED  BY <2>2, <2>3, <2>4, <2>5 DEF WireInv
<1>. QED  BY <1>3, <1>4

\* What a callback says is a window request, an answer to HideUI, or text.
LEMMA CallWire ==
  ASSUME WireInv, KeyboardInv, Call
  PROVE  WireInv'
<1> DEFINE c == Head(calls)
<1>1. /\ calls # << >> /\ ~ waiting /\ calls' = Tail(calls)
      /\ UNCHANGED <<exists, connected, awaiting, got, late, toIm, at, buf, pending>>
  BY DEF Call, fbTerm
<1>2. /\ c \in Message /\ calls' \in Seq(Message)
      /\ \A t : Number(calls, t) = Number(calls', t) + One(c, t)
  BY <1>1, NumberTail DEF WireInv, WireType
<1>3. \/ toFb' = Append(toFb, c) /\ waiting' = TRUE /\ c.type = "SetWin"
      \/ toFb' = Append(toFb, c) /\ waiting' = waiting /\ c.type \in {"PutText", "AckHideUI"}
      \/ toFb' = toFb /\ waiting' = waiting /\ c.type \notin {"PutText", "AckHideUI"}
  BY DEF Call, IsType
<1>4. imActive' \in BOOLEAN  BY DEF Call, WireInv, WireType
<1>5. at \in {"stored", "fresh"}  BY <1>1 DEF WireInv, Working
<1>6. \A t : One(c, t) = IF c.type = t THEN 1 ELSE 0  BY DEF One, IsType
<1> HIDE DEF c
<1>7. /\ Append(toFb, c) \in Seq(Message) /\ Append(toFb, c) # << >>
      /\ Head(Append(toFb, c)) = IF toFb = << >> THEN c ELSE Head(toFb)
      /\ \A t : Number(Append(toFb, c), t) = Number(toFb, t) + One(c, t)
  <2>1. toFb \in Seq(Message)  BY DEF WireInv, WireType
  <2>. QED  BY <1>2, <2>1, NumberAppend, AppendProperties, HeadTailAppend
<1>8. \A t \in Types : /\ Number(toIm, t) \in Nat /\ Number(toFb, t) \in Nat
                       /\ Number(buf, t) \in Nat /\ Number(calls', t) \in Nat
                       /\ Number(pending, t) \in Nat /\ One(c, t) \in {0, 1}
  BY <1>2, Counts, NumberType, NumberOne DEF WireInv
<1>9. WireType' /\ Gone' /\ Working'
  BY <1>1, <1>2, <1>3, <1>4, <1>5, <1>7 DEF WireInv, WireType, Gone, Working
<1>10. ConnectFirst'
  <2>1. ~ connected => toFb # << >>  BY <1>5 DEF WireInv, ConnectFirst
  <2>. QED  BY <1>1, <1>3, <1>7, <2>1 DEF WireInv, ConnectFirst
<1>11. OneAnswerEach'
  <2>1. "SetWin" \in Types /\ "AckWin" \in Types  BY DEF Types
  <2>2. Number(toFb, "SetWin") = 0 /\ Number(toIm, "AckWin") = 0
    BY <1>1, <1>5, <1>8, <2>1 DEF WireInv, OneAnswerEach
  <2>3. CASE toFb' = Append(toFb, c) /\ waiting' = TRUE /\ c.type = "SetWin"
    <3>1. One(c, "SetWin") = 1  BY <1>6, <2>3
    <3>2. Number(toFb', "SetWin") = 1 /\ Number(toIm', "AckWin") = 0
      BY <1>1, <1>7, <2>2, <2>3, <3>1
    <3>. QED  BY <1>1, <1>5, <2>3, <3>2 DEF OneAnswerEach
  <2>4. CASE toFb' = Append(toFb, c) /\ waiting' = waiting /\ c.type \in {"PutText", "AckHideUI"}
    <3>1. One(c, "SetWin") = 0  BY <1>6, <2>4
    <3>2. Number(toFb', "SetWin") = 0 /\ Number(toIm', "AckWin") = 0
      BY <1>1, <1>7, <2>2, <2>4, <3>1
    <3>. QED  BY <1>1, <1>5, <2>4, <3>2 DEF OneAnswerEach
  <2>5. CASE toFb' = toFb /\ waiting' = waiting
    BY <1>1, <2>5 DEF WireInv, OneAnswerEach
  <2>. QED  BY <1>3, <2>3, <2>4, <2>5
<1>12. OneHideUI'
  <2>1. "HideUI" \in Types /\ "AckHideUI" \in Types  BY DEF Types
  <2>2. Number(toFb', "AckHideUI") = Number(toFb, "AckHideUI") + One(c, "AckHideUI")
    <3>1. CASE toFb' = Append(toFb, c)  BY <1>7, <3>1
    <3>2. CASE toFb' = toFb /\ c.type \notin {"PutText", "AckHideUI"}
      <4>1. One(c, "AckHideUI") = 0  BY <1>6, <3>2
      <4>. QED  BY <1>8, <2>1, <3>2, <4>1
    <3>. QED  BY <1>3, <3>1, <3>2
  <2>3. Number(calls, "AckHideUI") = Number(calls', "AckHideUI") + One(c, "AckHideUI")
    BY <1>2
  <2>4. HideUIs' = HideUIs  BY <1>1, <1>8, <2>1, <2>2, <2>3, SMTT(20) DEF HideUIs
  <2>. QED  BY <1>1, <2>4 DEF WireInv, OneHideUI
<1>13. Awake'
  <2>1. PutAside' = PutAside  BY <1>1 DEF PutAside
  <2>2. Pinged => Pinged'
    <3>1. "Ping" \in Types /\ "AckPing" \in Types  BY DEF Types
    <3>2. Number(toFb', "Ping") \in Nat /\ Number(toFb', "Ping") >= Number(toFb, "Ping")
      <4>1. CASE toFb' = Append(toFb, c)  BY <1>7, <1>8, <3>1, <4>1
      <4>2. CASE toFb' = toFb  BY <1>8, <3>1, <4>2
      <4>. QED  BY <1>3, <4>1, <4>2
    <3>. QED  BY <1>1, <1>8, <3>1, <3>2 DEF Pinged
  <2>. QED  BY <1>1, <1>3, <2>1, <2>2 DEF WireInv, Awake
<1>. QED  BY <1>9, <1>10, <1>11, <1>12, <1>13 DEF WireInv

\* The wait for AckWin: it is there at most once, and all else that is read
\* before it or with it is put aside.
LEMMA WaitMessageWire ==
  ASSUME WireInv, KeyboardInv, WaitMessage
  PROVE  WireInv'
<1>1. /\ waiting /\ toFb' = IF Pings THEN Append(toFb, Msg("Ping")) ELSE toFb
      /\ UNCHANGED <<exists, connected, awaiting, got, late, at, buf, calls, imActive>>
  BY DEF WaitMessage, fbTerm
<1>2. PICK p \in Reads(toIm) :
        /\ toIm' = After(toIm, p)
        /\ LET acks == {i \in DOMAIN p : IsType(p[i], "AckWin")} IN
           /\ pending' = pending \o (IF acks = {} THEN p ELSE RemoveAt(p, Min(acks)))
           /\ waiting' = (acks = {})
  BY DEF WaitMessage
<1> DEFINE acks == {i \in DOMAIN p : IsType(p[i], "AckWin")}
           rest == IF acks = {} THEN p ELSE RemoveAt(p, Min(acks))
<1>3. pending' = pending \o rest /\ waiting' = (acks = {})  BY <1>2
<1>4. /\ p \in Seq(Message) /\ toIm' \in Seq(Message)
      /\ \A t : Number(toIm, t) = Number(p, t) + Number(toIm', t)
  BY <1>2, NumberRead DEF WireInv, WireType
<1>5. /\ Number(p, "AckWin") = Cardinality(acks) /\ IsFiniteSet(acks)
      /\ acks \subseteq DOMAIN p
  BY <1>4, NumberType DEF Number
<1>6. at \in {"stored", "fresh"}  BY <1>1 DEF WireInv, Working
<1>7. \A t \in Types : /\ Number(toIm, t) \in Nat /\ Number(toIm', t) \in Nat
                       /\ Number(toFb, t) \in Nat /\ Number(p, t) \in Nat
                       /\ Number(buf, t) \in Nat /\ Number(calls, t) \in Nat
                       /\ Number(pending, t) \in Nat
  BY <1>4, Counts, NumberType DEF WireInv
<1>8. {"SetWin", "AckWin", "HideUI", "AckHideUI", "Ping"} \subseteq Types  BY DEF Types
<1>9. Number(toFb, "SetWin") + Number(toIm, "AckWin") = 1
  BY <1>1 DEF WireInv, OneAnswerEach
<1>10. /\ rest \in Seq(Message) /\ Number(rest, "HideUI") = Number(p, "HideUI")
       /\ Number(p, "AckWin") = IF acks = {} THEN 0 ELSE 1
  <2>1. CASE acks = {}  BY <1>4, <1>5, <2>1, FS_EmptySet
  <2>2. CASE acks # {}
    <3> HIDE DEF acks
    <3>1. Cardinality(acks) \in Nat /\ Cardinality(acks) # 0
      BY <1>5, <2>2, FS_EmptySet, FS_CardinalityType
    <3>2. Cardinality(acks) = 1
      <4>1. Number(toIm, "AckWin") = Number(p, "AckWin") + Number(toIm', "AckWin")  BY <1>4
      <4>2. Number(toIm', "AckWin") \in Nat /\ Number(toFb, "SetWin") \in Nat
        BY <1>7, <1>8
      <4>. QED  BY <1>5, <1>9, <3>1, <4>1, <4>2
    <3>3. PICK n : acks = {n}  BY <1>5, <3>2, FS_Singleton
    <3>4. n \in DOMAIN p /\ IsType(p[n], "AckWin") /\ n \in Nat
      BY <1>4, <1>5, <3>3, LenProperties DEF acks
    <3>5. Min(acks) = n
      <4>1. \A y \in acks : n <= y  BY <3>3, <3>4
      <4>2. Min(acks) = CHOOSE x \in acks : \A y \in acks : x <= y  BY DEF Min
      <4>3. n \in acks  BY <3>3
      <4>4. Min(acks) \in acks  BY <4>1, <4>2, <4>3, Zenon
      <4>. QED  BY <3>3, <4>4
    <3>6. rest = RemoveAt(p, n)  BY <2>2, <3>5
    <3>7. One(p[n], "HideUI") = 0  BY <3>4 DEF One, IsType
    <3>8. /\ RemoveAt(p, n) \in Seq(Message)
          /\ Number(p, "HideUI") = Number(RemoveAt(p, n), "HideUI") + One(p[n], "HideUI")
      BY <1>4, <3>4, NumberRemoveAt
    <3>9. Number(RemoveAt(p, n), "HideUI") \in Nat  BY <3>8, NumberType
    <3>. QED  BY <1>5, <2>2, <3>2, <3>6, <3>7, <3>8, <3>9
  <2>. QED  BY <2>1, <2>2
<1> HIDE DEF acks, rest
<1>11. /\ pending' \in Seq(Message)
       /\ Number(pending', "HideUI") = Number(pending, "HideUI") + Number(p, "HideUI")
  BY <1>3, <1>10, NumberConcat, ConcatProperties DEF WireInv, WireType
<1> DEFINE ping == Msg("Ping")
<1>12. /\ ping \in Message /\ One(ping, "SetWin") = 0 /\ One(ping, "AckHideUI") = 0
       /\ One(ping, "Ping") = 1
  BY <1>8, MessageTypes DEF One, IsType
<1>13. toFb' = IF Pings THEN Append(toFb, ping) ELSE toFb  BY <1>1
<1> HIDE DEF ping
<1>14. /\ Append(toFb, ping) \in Seq(Message) /\ Append(toFb, ping) # << >>
       /\ Head(Append(toFb, ping)) = IF toFb = << >> THEN ping ELSE Head(toFb)
       /\ \A t : Number(Append(toFb, ping), t) = Number(toFb, t) + One(ping, t)
  <2>1. toFb \in Seq(Message)  BY DEF WireInv, WireType
  <2>. QED  BY <1>12, <2>1, NumberAppend, AppendProperties, HeadTailAppend
<1>15. /\ toFb' \in Seq(Message)
       /\ Number(toFb', "SetWin") = Number(toFb, "SetWin")
       /\ Number(toFb', "AckHideUI") = Number(toFb, "AckHideUI")
       /\ Pings => Number(toFb', "Ping") = Number(toFb, "Ping") + 1
  <2>1. /\ Number(toFb, "SetWin") \in Nat /\ Number(toFb, "AckHideUI") \in Nat
    BY <1>7, <1>8
  <2>2. CASE Pings
    <3>1. toFb' = Append(toFb, ping)  BY <1>13, <2>2
    <3>2. \A t : Number(toFb', t) = Number(toFb, t) + One(ping, t)  BY <1>14, <3>1
    <3>. QED  BY <1>12, <1>14, <2>1, <3>1, <3>2
  <2>3. CASE ~ Pings  BY <1>13, <2>3 DEF WireInv, WireType
  <2>. QED  BY <2>2, <2>3
<1>16. WireType' /\ Gone' /\ Working'
  BY <1>1, <1>3, <1>4, <1>6, <1>11, <1>15 DEF WireInv, WireType, Gone, Working
<1>17. ConnectFirst'
  <2>1. ~ connected => toFb # << >>  BY <1>6 DEF WireInv, ConnectFirst
  <2>. QED  BY <1>1, <1>13, <1>14, <2>1 DEF WireInv, ConnectFirst
<1>18. OneAnswerEach'
  <2>1. Number(toFb', "SetWin") + Number(toIm', "AckWin") = IF acks = {} THEN 1 ELSE 0
    <3>1. Number(toIm, "AckWin") = Number(p, "AckWin") + Number(toIm', "AckWin")  BY <1>4
    <3>2. /\ Number(toFb, "SetWin") \in Nat /\ Number(toIm', "AckWin") \in Nat
      BY <1>7, <1>8
    <3>3. Number(toFb', "SetWin") = Number(toFb, "SetWin")  BY <1>15
    <3>4. CASE acks = {}
      <4>1. Number(p, "AckWin") = 0  BY <1>10, <3>4
      <4>. QED  BY <1>9, <3>1, <3>2, <3>3, <3>4, <4>1
    <3>5. CASE acks # {}
      <4>1. Number(p, "AckWin") = 1  BY <1>10, <3>5
      <4>. QED  BY <1>9, <3>1, <3>2, <3>3, <3>5, <4>1
    <3>. QED  BY <3>4, <3>5
  <2>2. (waiting' <=> acks = {}) /\ at' # "none"  BY <1>1, <1>3, <1>6
  <2> DEFINE sum == Number(toFb', "SetWin") + Number(toIm', "AckWin")
  <2>3. sum = IF acks = {} THEN 1 ELSE 0  BY <2>1
  <2> HIDE DEF sum
  <2>4. sum <= 1 /\ (waiting' <=> at' # "none" /\ sum = 1)  BY <2>2, <2>3
  <2>. QED  BY <2>4 DEF sum, OneAnswerEach
<1>19. OneHideUI'
  <2>1. Number(toIm, "HideUI") = Number(p, "HideUI") + Number(toIm', "HideUI")  BY <1>4
  <2>2. HideUIs' = HideUIs
    <3>1. /\ Number(p, "HideUI") \in Nat /\ Number(toIm', "HideUI") \in Nat
          /\ Number(buf, "HideUI") \in Nat /\ Number(pending, "HideUI") \in Nat
          /\ Number(calls, "AckHideUI") \in Nat /\ Number(toFb, "AckHideUI") \in Nat
      BY <1>7, <1>8
    <3>. QED  BY <1>1, <1>11, <1>15, <2>1, <3>1 DEF HideUIs
  <2>3. OneHideUI  BY DEF WireInv
  <2>. QED  BY <1>1, <2>2, <2>3 DEF OneHideUI
<1>20. Awake'
  <2>1. SUFFICES ASSUME ~ waiting', PutAside'  PROVE Pinged'
    BY DEF Awake
  <2>2. pending' # << >>
    <3>1. CASE pending' = << >>
      <4>1. Number(pending', "AckPing") = 0 /\ Len(pending') = 0
        BY <3>1, NumberNone, EmptySeq
      <4>. QED  BY <2>1, <4>1 DEF PutAside
    <3>. QED  BY <3>1
  <2>3. Pings  BY <2>1, <2>2 DEF Pings
  <2>4. Number(toIm', "AckPing") \in Nat  BY <1>4, NumberType
  <2>5. Number(toFb, "Ping") \in Nat  BY <1>7, <1>8
  <2>. QED  BY <1>15, <2>3, <2>4, <2>5 DEF Pinged
<1>. QED  BY <1>16, <1>17, <1>18, <1>19, <1>20 DEF WireInv

-----------------------------------------------------------------------------
(* What follows for every step of either process                           *)

\* Every step keeps the dialogue's invariant.
LEMMA WireStep == WireInv /\ KeyboardInv /\ [Next]_vars => WireInv'
<1> SUFFICES ASSUME WireInv, KeyboardInv, [Next]_vars  PROVE WireInv'
  OBVIOUS
<1>1. CASE ToggleIm  BY <1>1, ToggleImWire
<1>2. CASE KeyInput \/ MoveCursor \/ SwitchBack \/ IoError  BY <1>2, ReportsWire
<1>3. CASE SwitchAway  BY <1>3, SwitchAwayWire
<1>4. CASE KillIm \/ ImExited \/ ImDies  BY <1>4, EndsWire
<1>5. CASE ReadyRead  BY <1>5, ReadyReadWire
<1>6. CASE GotMessage \/ TimeOut  BY <1>6, ResumeWire
<1>7. CASE ImStart  BY <1>7, ImStartWire
<1>8. CASE CheckImMessage  BY <1>8, CheckImMessageWire
<1>9. CASE ReadMessages  BY <1>9, ReadMessagesWire
<1>10. CASE ProcessMessage  BY <1>10, ProcessMessageWire
<1>11. CASE Call  BY <1>11, CallWire
<1>12. CASE WaitMessage  BY <1>12, WaitMessageWire
<1>13. CASE UNCHANGED vars
  <2>1. /\ UNCHANGED <<exists, connected, toFb, server, got, late, awaiting, toIm>>
        /\ got' \in BOOLEAN /\ late' \in BOOLEAN
    BY <1>13 DEF vars, fbTerm, server, WireInv, WireType
  <2>2. awaiting' = "none" => ~ got'  BY <2>1 DEF WireInv, OneHideUI
  <2>. QED  BY <2>1, <2>2, Unsaid, Quiet
<1>. QED
  BY <1>1, <1>2, <1>3, <1>4, <1>5, <1>6, <1>7, <1>8, <1>9, <1>10, <1>11, <1>12,
     <1>13 DEF Next

\* Every reachable state has the messages where the invariant says.
THEOREM WireInvAlways == Spec => []WireInv
  BY KeyboardInit, KeyboardStep, WireInit, WireStep, PTL DEF Spec

\* A server that waits for AckWin has one SetWin or its answer on the way, and
\* otherwise none is (set_im_window, readyRead).
THEOREM OneAnswerEachAlways == Spec => []OneAnswerEach
<1>1. WireInv => OneAnswerEach  BY DEF WireInv
<1>. QED  BY <1>1, WireInvAlways, PTL

\* A switch that has got its answer is known to the server: no HideUI is left
\* unprocessed, on the way or put aside (waitImMessage, wait_message).
THEOREM SwitchIsSeenAlways == Spec => []SwitchIsSeen
<1>1. WireInv => SwitchIsSeen
  <2> SUFFICES ASSUME WireInv, got, awaiting = "AckHideUI", at # "none", ~ late,
                      NEW q \in {toIm, buf, pending}
               PROVE  Number(q, "HideUI") = 0
    BY DEF SwitchIsSeen
  <2>1. HideUIs = 0  BY DEF WireInv, OneHideUI
  <2>2. /\ Number(toIm, "HideUI") \in Nat /\ Number(buf, "HideUI") \in Nat
        /\ Number(pending, "HideUI") \in Nat /\ Number(calls, "AckHideUI") \in Nat
        /\ Number(toFb, "AckHideUI") \in Nat
    <3>1. "HideUI" \in Types /\ "AckHideUI" \in Types  BY DEF Types
    <3>. QED  BY <3>1, Counts DEF WireInv
  <2> DEFINE a == Number(toIm, "HideUI")
             b == Number(buf, "HideUI")
             c == Number(pending, "HideUI")
             d == Number(calls, "AckHideUI")
             e == Number(toFb, "AckHideUI")
  <2>3. a + b + c + d + e = 0  BY <2>1 DEF HideUIs
  <2>4. a \in Nat /\ b \in Nat /\ c \in Nat /\ d \in Nat /\ e \in Nat  BY <2>2
  <2> HIDE DEF a, b, c, d, e
  <2>5. a = 0 /\ b = 0 /\ c = 0  BY <2>3, <2>4
  <2>. QED  BY <2>5 DEF a, b, c
<1>. QED  BY <1>1, WireInvAlways, PTL

\* A server that waits in read() alone, as example.c does, does not go to sleep
\* on messages it has put aside (wait_message, check_im_message).
THEOREM NothingStrandedAlways ==
  ASSUME ~ Select
  PROVE  Spec => []NothingStranded
<1>1. WireInv => NothingStranded
  <2> SUFFICES ASSUME WireInv, at = "read", PutAside, toIm = << >>, toFb = << >>
               PROVE  FALSE
    BY DEF NothingStranded, PutAside
  <2>1. ~ waiting  BY DEF WireInv, Working
  <2>2. Pinged  BY <2>1 DEF WireInv, Awake
  <2>3. Number(toFb, "Ping") = 0 /\ Number(toIm, "AckPing") = 0  BY NumberNone
  <2>. QED  BY <2>2, <2>3 DEF Pinged
<1>. QED  BY <1>1, WireInvAlways, PTL

\* The windows FbTerm counts are at least those with a rectangle.
CountInv == IsFiniteSet(wins) /\ count \in Int /\ CountCoversWindows

\* Every step keeps the count of windows.
LEMMA CountStep == CountInv /\ [Next]_vars => CountInv'
<1> SUFFICES ASSUME CountInv, [Next]_vars  PROVE CountInv'
  OBVIOUS
<1>1. CASE KillIm \/ ImExited
  <2>1. wins' = {} /\ count' = 0  BY <1>1 DEF KillIm, ImExited, Destroy
  <2>. QED  BY <2>1, FS_EmptySet DEF CountInv, CountCoversWindows
<1>2. CASE ReadyRead
  <2>1. CASE UNCHANGED <<wins, count>>  BY <2>1 DEF CountInv, CountCoversWindows
  <2>2. CASE SetImWin(Head(toFb))
    <3> DEFINE id == Head(toFb).id
    <3>1. /\ IsFiniteSet(wins) /\ count \in Int /\ Cardinality(wins) \in Nat
          /\ Cardinality(wins) <= count
      BY FS_CardinalityType DEF CountInv, CountCoversWindows
    <3>2. CASE Head(toFb).shown
      <4>1. wins' = wins \cup {id} /\ count' = count - 0 + IF id \in wins THEN 0 ELSE 1
        BY <2>2, <3>2 DEF SetImWin
      <4> HIDE DEF id
      <4>2. /\ IsFiniteSet(wins \cup {id})
            /\ Cardinality(wins \cup {id}) =
                 IF id \in wins THEN Cardinality(wins) ELSE Cardinality(wins) + 1
        BY <3>1, FS_AddElement
      <4>. QED  BY <3>1, <4>1, <4>2 DEF CountInv, CountCoversWindows
    <3>3. CASE ~ Head(toFb).shown
      <4>1. /\ wins' = wins \ {id}
            /\ count' = count - (IF active /\ id \in wins THEN 1 ELSE 0) + 0
        BY <2>2, <3>3 DEF SetImWin
      <4> HIDE DEF id
      <4>2. /\ IsFiniteSet(wins \ {id})
            /\ Cardinality(wins \ {id}) =
                 IF id \in wins THEN Cardinality(wins) - 1 ELSE Cardinality(wins)
        BY <3>1, FS_RemoveElement
      <4>. QED  BY <3>1, <4>1, <4>2 DEF CountInv, CountCoversWindows
    <3>. QED  BY <3>2, <3>3
  <2>. QED  BY <1>2, <2>1, <2>2 DEF ReadyRead
<1>3. CASE \/ ToggleIm \/ KeyInput \/ MoveCursor \/ SwitchAway \/ SwitchBack
           \/ IoError \/ GotMessage \/ TimeOut
  <2>1. UNCHANGED <<wins, count>>
    BY <1>3 DEF ToggleIm, KeyInput, MoveCursor, SwitchAway, SwitchBack, IoError,
                GotMessage, TimeOut, Resume
  <2>. QED  BY <2>1 DEF CountInv, CountCoversWindows
<1>4. CASE \/ ImStart \/ CheckImMessage \/ ReadMessages \/ ProcessMessage \/ Call
           \/ WaitMessage \/ ImDies \/ UNCHANGED vars
  <2>1. UNCHANGED <<wins, count>>
    BY <1>4 DEF ImStart, CheckImMessage, ReadMessages, ProcessMessage, Call,
                WaitMessage, ImDies, vars, fbTerm
  <2>. QED  BY <2>1 DEF CountInv, CountCoversWindows
<1>. QED  BY <1>1, <1>2, <1>3, <1>4 DEF Next

\* mValidWinNum never falls below the number of windows with a rectangle, so
\* that none of them is missed (redrawImWin, addWinMsg).
THEOREM CountCoversWindowsAlways == Spec => []CountCoversWindows
<1>1. Init => CountInv  BY FS_EmptySet DEF Init, CountInv, CountCoversWindows
<1>2. CountInv => CountCoversWindows  BY DEF CountInv
<1>. QED  BY <1>1, <1>2, CountStep, PTL DEF Spec
=============================================================================
