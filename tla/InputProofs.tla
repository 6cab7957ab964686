----------------------------- MODULE InputProofs -----------------------------
(***************************************************************************)
(* Machine-checked proofs about the way from the keyboard to a program:    *)
(* the keys that FbTerm reads and hands on (KeyInput), for every number of *)
(* windows and keys and a terminal that queues any number of them, and the *)
(* bytes between a window and its program (IoPipe), for every size of the  *)
(* buffers and every number of retries.  They share the lemmas about folds *)
(* over sequences.                                                         *)
(***************************************************************************)
EXTENDS KeyInput, PipeState, FiniteSetTheorems, SequenceTheorems, TLAPS

\* The pipe of a window.
CONSTANTS BufSize, Room, Retries, Chunks, Output
Pipe == INSTANCE IoPipe

\* The variables the proofs are about have their types.
KeyType ==
  /\ held \subseteq Key /\ queue \in Seq(Item) /\ front \in BOOLEAN
  /\ windows \subseteq Win /\ cur \in windows \cup {None} /\ on \subseteq windows
  /\ rawMode \in BOOLEAN /\ keyDown \subseteq Key /\ modDown \in Nat
  /\ batch \in Seq(Item) /\ at \in 1 .. Len(batch) + 1 /\ start \in 1 .. at
  /\ ahead \in BOOLEAN

\* Key codes are read while the active window's server wants them, and what
\* is queued was struck in the present mode.
ModeInv ==
  /\ rawMode <=> front /\ RawInput /\ cur \in on
  /\ ~ front => Idle
  /\ ~ (Idle /\ front) => queue = << >>
  /\ \A n \in DOMAIN queue : queue[n].raw <=> rawMode

\* The keys still to be read end with the state each key is in ...
LastTold(q, from) ==
  \A n \in from .. Len(q) : q[n].raw =>
     \/ q[n].down <=> q[n].key \in held
     \/ \E m \in n + 1 .. Len(q) : q[m].raw /\ q[m].key = q[n].key

\* ... and a key taken to be down which is not is among them.
ReleaseToCome(q, from) ==
  \A k \in keyDown \ held : \E n \in from .. Len(q) : q[n].raw /\ q[n].key = k

Told(q, from) == LastTold(q, from) /\ (rawMode => ReleaseToCome(q, from))
HeldInv == (Idle => Told(queue, 1)) /\ (~ Idle => Told(batch, at))

Inv == KeyType /\ ModeInv /\ HeldInv

-----------------------------------------------------------------------------
(* The shortcuts                                                           *)

\* The window that a shortcut leaves and the one it enters: the mode fits the
\* input method of the latter, and a new mode starts with no key down.
LEMMA SysKeyMode ==
  ASSUME KeyType, ModeInv, front = TRUE, NEW down, NEW mods, NEW pieces,
         SysKey(down, mods, pieces)
  PROVE  /\ windows' \subseteq Win /\ cur' \in windows' \cup {None} /\ on' \subseteq windows'
         /\ rawMode' \in BOOLEAN /\ (rawMode' <=> RawInput /\ cur' \in on')
         /\ \/ keyDown' = down /\ modDown' = mods
            \/ keyDown' = {} /\ modDown' = 0
         /\ rawMode' /\ ~ rawMode => keyDown' = {}
<1> USE DEF KeyType, ModeInv
<1>1. CASE Create(down, mods, pieces)
  <2>1. PICK v \in Win \ windows :
          /\ on' = on /\ windows' = windows \cup {v} /\ SwitchTo(v, down, mods, pieces)
    BY <1>1 DEF Create
  <2>2. v # cur  BY WinAssumption
  <2>3. cur' = v /\ EndRawMode(RawInput /\ v \in on, down, mods)
    BY <2>1, <2>2 DEF SwitchTo
  <2>. QED  BY <2>1, <2>3, RawInputAssumption DEF EndRawMode
<1>2. CASE Ignore(down, mods, pieces)
  BY <1>2 DEF Ignore, SameMode, manager
<1>3. CASE cur # None /\ Toggle(down, mods, pieces)
  BY <1>3, RawInputAssumption DEF Toggle, EndRawMode
<1>4. CASE Kill(down, mods, pieces)
  BY <1>4 DEF Kill, EndRawMode, SameMode
<1>5. CASE Switch(down, mods, pieces)
  <2>1. PICK v \in windows : SwitchTo(v, down, mods, pieces)  BY <1>5 DEF Switch
  <2>2. windows' = windows /\ on' = on  BY <1>5 DEF Switch
  <2>3. CASE v = cur  BY <2>1, <2>2, <2>3 DEF SwitchTo, SameMode
  <2>4. CASE v # cur
    BY <2>1, <2>2, <2>4, RawInputAssumption DEF SwitchTo, EndRawMode
  <2>. QED  BY <2>3, <2>4
<1>6. CASE Destroy(down, mods, pieces)
  <2>1. PICK v \in IF windows' = {} THEN {None} ELSE windows' :
          cur' = v /\ EndRawMode(RawInput /\ v \in on', down, mods)
    BY <1>6 DEF Destroy
  <2>2. windows' = windows \ {cur} /\ on' = on \ {cur}  BY <1>6 DEF Destroy
  <2>. QED  BY <2>1, <2>2, RawInputAssumption DEF EndRawMode
<1>. QED  BY <1>1, <1>2, <1>3, <1>4, <1>5, <1>6 DEF SysKey

-----------------------------------------------------------------------------
(* The invariant is inductive                                              *)

\* The program starts in it.
LEMMA InitInv == Init => Inv
<1> SUFFICES ASSUME Init PROVE Inv  OBVIOUS
<1>1. KeyType
  <2>1. << >> \in Seq(Item) /\ Len(<< >>) = 0  OBVIOUS
  <2>2. queue = << >> /\ batch = << >> /\ at = 1 /\ start = 1 /\ modDown = 0  BY DEF Init
  <2>3. at \in 1 .. Len(batch) + 1 /\ start \in 1 .. at /\ modDown \in Nat
    BY <2>1, <2>2
  <2>4. PICK w \in Win : windows = {w} /\ cur = w  BY DEF Init
  <2>. QED  BY <2>1, <2>2, <2>3, <2>4 DEF Init, KeyType
<1>3. ModeInv
  <2>1. queue = << >> /\ batch = << >> /\ front = TRUE /\ rawMode = FALSE /\ on = {}
    BY DEF Init
  <2>2. DOMAIN << >> = {}  OBVIOUS
  <2>. QED  BY <2>1, <2>2 DEF ModeInv, Idle
<1>2. HeldInv
  <2>1. queue = << >> /\ Idle /\ rawMode = FALSE  BY DEF Init, Idle
  <2>. QED  BY <2>1 DEF HeldInv, Told, LastTold
<1>. QED  BY <1>1, <1>2, <1>3 DEF Inv

\* A key struck is queued as the keyboard's mode has it.
LEMMA StrikeInv ==
  ASSUME Inv, NEW k \in Key, NEW e \in Item, NEW events, Strike(events),
         held' \subseteq Key, \A j \in Key \ {k} : j \in held' <=> j \in held,
         e.key = k, e.raw <=> rawMode, e.raw => (e.down <=> k \in held'),
         events = <<e>> \/ (events = << >> /\ ~ rawMode)
  PROVE  Inv'
<1> USE DEF Inv
<1>1. /\ Idle /\ UNCHANGED <<front, manager, keyboard, reading>>
      /\ queue' = IF front THEN queue \o events ELSE queue
  BY DEF Strike
<1>2. /\ UNCHANGED <<front, windows, cur, on, rawMode, keyDown, modDown, batch, at, start, ahead>>
      /\ Idle'
  BY <1>1 DEF manager, keyboard, reading, Idle
<1>3. CASE queue' = Append(queue, e)
  <2>1. /\ queue \in Seq(Item) /\ Len(queue) \in Nat
        /\ queue' \in Seq(Item) /\ Len(queue') = Len(queue) + 1
        /\ \A n \in 1 .. Len(queue) : queue'[n] = queue[n]
        /\ queue'[Len(queue) + 1] = e
    BY <1>3 DEF KeyType
  <2>2. KeyType'  BY <1>2, <2>1 DEF KeyType
  <2>3. front  BY <1>1, <2>1
  <2>4. QED
    <3>1. \A n \in 1 .. Len(queue) : queue[n].raw <=> rawMode
      BY <2>1 DEF ModeInv
    <3>2. \A n \in DOMAIN queue' : queue'[n].raw <=> rawMode
      BY <2>1, <3>1
    <3>3. ModeInv'  BY <1>2, <2>3, <3>2 DEF ModeInv
    <3>4. LastTold(queue, 1) /\ (rawMode => ReleaseToCome(queue, 1))
      BY <1>1 DEF HeldInv, Told
    <3>5. ASSUME NEW n \in 1 .. Len(queue'), queue'[n].raw
          PROVE  \/ queue'[n].down <=> queue'[n].key \in held'
                 \/ \E m \in n + 1 .. Len(queue') : queue'[m].raw /\ queue'[m].key = queue'[n].key
      <4>0. rawMode  BY <2>1, <3>2, <3>5
      <4>1. CASE n = Len(queue) + 1  BY <2>1, <4>0, <4>1
      <4>2. CASE n \in 1 .. Len(queue) /\ queue[n].key = k
        <5>1. Len(queue) + 1 \in n + 1 .. Len(queue')  BY <2>1, <4>2
        <5>2. queue'[n].key = k  BY <2>1, <4>2
        <5>. QED  BY <2>1, <4>0, <5>1, <5>2
      <4>3. CASE n \in 1 .. Len(queue) /\ queue[n].key # k
        <5>1. queue[n] \in Item /\ queue'[n] = queue[n] /\ queue[n].raw
          BY <2>1, <3>5, <4>3
        <5>2. queue[n].key \in held' <=> queue[n].key \in held
          BY <4>3, <5>1 DEF Item
        <5>3. CASE queue[n].down <=> queue[n].key \in held  BY <5>1, <5>2, <5>3
        <5>4. CASE \E m \in n + 1 .. Len(queue) : queue[m].raw /\ queue[m].key = queue[n].key
          <6>1. PICK m \in n + 1 .. Len(queue) : queue[m].raw /\ queue[m].key = queue[n].key
            BY <5>4
          <6>2. m \in 1 .. Len(queue) /\ m \in n + 1 .. Len(queue')  BY <2>1
          <6>. QED  BY <2>1, <5>1, <6>1, <6>2
        <5>. QED  BY <3>4, <4>3, <5>1, <5>3, <5>4 DEF LastTold
      <4>. QED  BY <2>1, <4>1, <4>2, <4>3
    <3>6. ASSUME rawMode, NEW j \in keyDown \ held'
          PROVE  \E n \in 1 .. Len(queue') : queue'[n].raw /\ queue'[n].key = j
      <4>1. CASE j = k
        <5>1. Len(queue) + 1 \in 1 .. Len(queue')  BY <2>1
        <5>. QED  BY <2>1, <3>6, <4>1, <5>1
      <4>2. CASE j # k
        <5>1. j \in keyDown \ held  BY <3>6, <4>2 DEF KeyType
        <5>2. PICK n \in 1 .. Len(queue) : queue[n].raw /\ queue[n].key = j
          BY <3>4, <3>6, <5>1 DEF ReleaseToCome
        <5>3. n \in 1 .. Len(queue') /\ queue'[n] = queue[n]  BY <2>1
        <5>. QED  BY <5>2, <5>3
      <4>. QED  BY <4>1, <4>2
    <3>7. HeldInv'  BY <1>2, <3>5, <3>6 DEF HeldInv, Told, LastTold, ReleaseToCome
    <3>. QED  BY <2>2, <3>3, <3>7
<1>4. CASE queue' = queue /\ ~ rawMode
  <2>1. KeyType' /\ ModeInv'  BY <1>2, <1>4 DEF KeyType, ModeInv
  <2>2. LastTold(queue, 1)'
    <3>1. \A n \in 1 .. Len(queue) : ~ queue[n].raw  BY <1>4 DEF ModeInv, KeyType
    <3>. QED  BY <1>4, <3>1 DEF LastTold
  <2>. QED  BY <1>2, <1>4, <2>1, <2>2 DEF HeldInv, Told
<1>5. queue' = Append(queue, e) \/ (queue' = queue /\ ~ rawMode)
  <2>1. queue \in Seq(Item)  BY DEF KeyType
  <2>2. queue \o <<e>> = Append(queue, e) /\ queue \o << >> = queue  BY <2>1
  <2>3. ~ front => ~ rawMode  BY DEF ModeInv
  <2>. QED  BY <1>1, <2>2, <2>3
<1>. QED  BY <1>3, <1>4, <1>5

\* The buffer takes the keys over as they were told.
LEMMA ReadInv == ASSUME Inv, Read PROVE Inv'
<1> USE DEF Inv
<1>1. /\ Idle /\ queue # << >> /\ batch' = queue /\ queue' = << >> /\ at' = 1 /\ start' = 1
      /\ ahead' = (ahead \/ Len(queue) > 1)
      /\ UNCHANGED <<held, front, windows, cur, on, rawMode, keyDown, modDown>>
  BY DEF Read, manager, keyboard
<1>2. ~ Idle' /\ front  BY <1>1 DEF Idle, ModeInv
<1>3. KeyType'
  <2>1. ahead' \in BOOLEAN  BY <1>1, Zenon
  <2>2. queue \in Seq(Item) /\ queue' \in Seq(Item)  BY <1>1 DEF KeyType
  <2>3. at' \in 1 .. Len(batch') + 1 /\ start' \in 1 .. at'
    <3>1. Len(queue) \in Nat  BY <2>2
    <3>. QED  BY <1>1, <3>1
  <2>. QED  BY <1>1, <2>1, <2>2, <2>3 DEF KeyType
<1>4. ModeInv'
  <2>1. DOMAIN queue' = {}  BY <1>1
  <2>. QED  BY <1>1, <1>2, <2>1 DEF ModeInv
<1>5. HeldInv'  BY <1>1, <1>2 DEF HeldInv, Told, LastTold, ReleaseToCome
<1>. QED  BY <1>3, <1>4, <1>5

\* What is true while a key of the buffer is looked at.
LEMMA StepFacts ==
  ASSUME Inv, Step
  PROVE  /\ ~ Idle /\ front = TRUE /\ queue = << >>
         /\ at \in 1 .. Len(batch) /\ Len(batch) \in Nat /\ batch[at] \in Item
         /\ batch[at].key \in Key /\ Told(batch, at)
<1>1. at \in 1 .. Len(batch) /\ Len(batch) \in Nat  BY DEF Step, Inv, KeyType
<1>2. batch[at] \in Item  BY <1>1 DEF Inv, KeyType
<1>3. batch[at].key \in Key  BY <1>2 DEF Item
<1>4. ~ Idle  BY DEF Step, Idle
<1>5. front = TRUE /\ queue = << >>  BY <1>4 DEF Inv, ModeInv, KeyType
<1>. QED  BY <1>1, <1>2, <1>3, <1>4, <1>5 DEF Inv, HeldInv

\* A key read leaves the others to be read: those down and not held were so
\* before, or this key puts them down.
LEMMA KeyRead ==
  ASSUME Inv, Step,
         UNCHANGED <<outside, batch>>, at' = at + 1, start' \in {start, at + 1},
         ahead' = ahead,
         windows' \subseteq Win, cur' \in windows' \cup {None}, on' \subseteq windows',
         rawMode' \in BOOLEAN, rawMode' <=> RawInput /\ cur' \in on',
         keyDown' \subseteq Key, modDown' \in Nat,
         \A k \in keyDown' \ held : rawMode' =>
            \/ rawMode /\ k \in keyDown /\ ~ (batch[at].raw /\ batch[at].key = k)
            \/ batch[at].raw /\ batch[at].down /\ batch[at].key = k
  PROVE  Inv'
<1> DEFINE e == batch[at]
<1>1. /\ ~ Idle /\ front = TRUE /\ queue = << >> /\ at \in 1 .. Len(batch)
      /\ Len(batch) \in Nat /\ LastTold(batch, at)
      /\ rawMode => ReleaseToCome(batch, at)
  BY StepFacts DEF Told
<1>2. UNCHANGED <<held, queue, front, batch>> /\ ~ Idle'  BY <1>1 DEF outside, Idle
<1>3. KeyType'
  <2>1. at' \in 1 .. Len(batch) + 1 /\ start' \in 1 .. at'  BY <1>1 DEF Inv, KeyType
  <2>. QED  BY <1>2, <2>1 DEF Inv, KeyType
<1>4. ModeInv'
  <2>1. DOMAIN queue' = {}  BY <1>1, <1>2
  <2>. QED  BY <1>1, <1>2, <2>1 DEF ModeInv
<1>5. LastTold(batch, at + 1)
  <2>1. \A n \in at + 1 .. Len(batch) : n \in at .. Len(batch)  BY <1>1
  <2>. QED  BY <1>1, <2>1 DEF LastTold
<1>6. ASSUME rawMode', NEW k \in keyDown' \ held
      PROVE  \E n \in at + 1 .. Len(batch) : batch[n].raw /\ batch[n].key = k
  <2>1. CASE rawMode /\ k \in keyDown /\ ~ (e.raw /\ e.key = k)
    <3>1. PICK n \in at .. Len(batch) : batch[n].raw /\ batch[n].key = k
      BY <1>1, <1>6, <2>1 DEF ReleaseToCome
    <3>2. n # at  BY <2>1, <3>1
    <3>3. n \in at + 1 .. Len(batch)  BY <1>1, <3>2
    <3>. QED  BY <3>1, <3>3
  <2>2. CASE e.raw /\ e.down /\ e.key = k
    <3>1. at \in at .. Len(batch)  BY <1>1
    <3>. QED  BY <1>1, <1>6, <2>2, <3>1 DEF LastTold
  <2>. QED  BY <1>6, <2>1, <2>2
<1>7. HeldInv'  BY <1>2, <1>5, <1>6 DEF HeldInv, Told, LastTold, ReleaseToCome
<1>. QED  BY <1>3, <1>4, <1>7 DEF Inv

\* The count of the modifier is a number.
LEMMA ModsNat ==
  ASSUME Inv, NEW e
  PROVE  ModsAfter(e) \in Nat
  BY DEF ModsAfter, Inv, KeyType

\* Keys that stay in the buffer.
LEMMA KeyKeptInv == ASSUME Inv, ReadChar \/ ReadRawKey PROVE Inv'
<1> DEFINE e == batch[at]
<1>1. /\ Step /\ UNCHANGED <<outside, batch>> /\ at' = at + 1 /\ start' = start /\ ahead' = ahead
      /\ UNCHANGED <<windows, cur, on, rawMode>>
  BY DEF ReadChar, ReadRawKey, manager, keyboard
<1>2. /\ windows \subseteq Win /\ cur \in windows \cup {None} /\ on \subseteq windows
      /\ rawMode \in BOOLEAN /\ front = TRUE /\ (rawMode <=> RawInput /\ cur \in on)
      /\ e.key \in Key /\ keyDown \subseteq Key /\ modDown \in Nat
  BY <1>1, StepFacts DEF Inv, KeyType, ModeInv
<1>3. CASE ReadChar
  <2>1. keyDown' = keyDown /\ modDown' = modDown /\ ~ e.raw  BY <1>3 DEF ReadChar, keyboard
  <2>. QED  BY <1>1, <1>2, <2>1, KeyRead
<1>4. CASE ReadRawKey
  <2>1. e.raw /\ keyDown' = DownAfter(e) /\ modDown' = ModsAfter(e)  BY <1>4 DEF ReadRawKey
  <2>2. modDown' \in Nat  BY <2>1, ModsNat
  <2>3. keyDown' \subseteq Key  BY <1>2, <2>1 DEF DownAfter
  <2>4. \A k \in keyDown' \ held : rawMode' =>
            \/ rawMode /\ k \in keyDown /\ ~ (e.raw /\ e.key = k)
            \/ e.raw /\ e.down /\ e.key = k
    BY <1>1, <2>1 DEF DownAfter
  <2>. QED  BY <1>1, <1>2, <2>2, <2>3, <2>4, KeyRead
<1>. QED  BY <1>3, <1>4

\* Shortcuts, whose keys are passed on or are not.
LEMMA ShortcutInv == ASSUME Inv, ReadShortcut \/ ReadRawShortcut PROVE Inv'
<1> DEFINE e == batch[at]
<1>1. /\ Step /\ UNCHANGED <<outside, batch>> /\ at' = at + 1 /\ start' = at + 1 /\ ahead' = ahead
  BY DEF ReadShortcut, ReadRawShortcut
<1>2. /\ KeyType /\ ModeInv /\ front = TRUE
      /\ e.key \in Key /\ keyDown \subseteq Key /\ modDown \in Nat
  BY <1>1, StepFacts DEF Inv, KeyType
<1>3. CASE ReadShortcut
  <2>1. ~ e.raw /\ SysKey(keyDown, modDown, Flush(at))  BY <1>3 DEF ReadShortcut
  <2>2. /\ windows' \subseteq Win /\ cur' \in windows' \cup {None} /\ on' \subseteq windows'
        /\ rawMode' \in BOOLEAN /\ (rawMode' <=> RawInput /\ cur' \in on')
        /\ \/ keyDown' = keyDown /\ modDown' = modDown
           \/ keyDown' = {} /\ modDown' = 0
        /\ rawMode' /\ ~ rawMode => keyDown' = {}
    BY <1>2, <2>1, SysKeyMode
  <2>3. keyDown' \subseteq Key /\ modDown' \in Nat  BY <1>2, <2>2
  <2>4. \A k \in keyDown' \ held : rawMode' =>
            \/ rawMode /\ k \in keyDown /\ ~ (e.raw /\ e.key = k)
            \/ e.raw /\ e.down /\ e.key = k
    BY <2>1, <2>2
  <2>. QED  BY <1>1, <2>2, <2>3, <2>4, KeyRead
<1>4. CASE ReadRawShortcut
  <2> DEFINE down == DownAfter(e)
  <2>1. e.raw /\ e.down /\ SysKey(down, modDown, Flush(at + 1))
    BY <1>4 DEF ReadRawShortcut
  <2>2. down = keyDown \cup {e.key}  BY <2>1 DEF DownAfter
  <2> HIDE DEF down
  <2>3. /\ windows' \subseteq Win /\ cur' \in windows' \cup {None} /\ on' \subseteq windows'
        /\ rawMode' \in BOOLEAN /\ (rawMode' <=> RawInput /\ cur' \in on')
        /\ \/ keyDown' = down /\ modDown' = modDown
           \/ keyDown' = {} /\ modDown' = 0
        /\ rawMode' /\ ~ rawMode => keyDown' = {}
    BY <1>2, <2>1, SysKeyMode
  <2>4. keyDown' \subseteq Key /\ modDown' \in Nat  BY <1>2, <2>2, <2>3
  <2>5. \A k \in keyDown' \ held : rawMode' =>
            \/ rawMode /\ k \in keyDown /\ ~ (e.raw /\ e.key = k)
            \/ e.raw /\ e.down /\ e.key = k
    BY <2>1, <2>2, <2>3
  <2>. QED  BY <1>1, <2>3, <2>4, <2>5, KeyRead
<1>. QED  BY <1>3, <1>4

\* A release of a key that is not down.
LEMMA StrayReleaseInv == ASSUME Inv, ReadStrayRelease PROVE Inv'
<1> DEFINE e == batch[at]
<1>1. /\ Step /\ UNCHANGED <<outside, batch>> /\ at' = at + 1 /\ start' = at + 1 /\ ahead' = ahead
      /\ UNCHANGED <<windows, cur, on, rawMode, keyDown>>
      /\ e.key \notin keyDown /\ modDown' = ModsAfter(e)
  BY DEF ReadStrayRelease, manager
<1>2. /\ windows \subseteq Win /\ cur \in windows \cup {None} /\ on \subseteq windows
      /\ rawMode \in BOOLEAN /\ front = TRUE /\ (rawMode <=> RawInput /\ cur \in on)
      /\ keyDown \subseteq Key
  BY <1>1, StepFacts DEF Inv, KeyType, ModeInv
<1>3. modDown' \in Nat  BY <1>1, ModsNat
<1>. QED  BY <1>1, <1>2, <1>3, KeyRead

\* The buffer is done: every key down is held.
LEMMA FinishInv == ASSUME Inv, Finish PROVE Inv'
<1>1. /\ ~ Idle /\ at > Len(batch) /\ batch' = << >> /\ at' = 1 /\ start' = 1
      /\ UNCHANGED <<held, queue, front, windows, cur, on, rawMode, keyDown, modDown, ahead>>
  BY DEF Finish, Idle, manager, outside, keyboard
<1>2. front = TRUE /\ queue = << >> /\ Told(batch, at)
  BY <1>1 DEF Inv, ModeInv, HeldInv, KeyType
<1>3. KeyType'
  <2>1. << >> \in Seq(Item) /\ Len(<< >>) = 0  OBVIOUS
  <2>. QED  BY <1>1, <2>1 DEF Inv, KeyType
<1>4. ModeInv' /\ Idle'  BY <1>1, <1>2 DEF Inv, ModeInv, Idle
<1>5. rawMode => keyDown \subseteq held
  <2>1. at .. Len(batch) = {}  BY <1>1 DEF Inv, KeyType
  <2>. QED  BY <1>2, <2>1 DEF Told, ReleaseToCome
<1>6. HeldInv'
  <2>1. Len(<< >>) = 0 /\ 1 .. 0 = {}  OBVIOUS
  <2>. QED  BY <1>1, <1>2, <1>4, <1>5, <2>1 DEF HeldInv, Told, LastTold, ReleaseToCome
<1>. QED  BY <1>3, <1>4, <1>6 DEF Inv

\* The console is left, or taken, when nothing is queued.
LEMMA SwitchVcInv == ASSUME Inv, LeaveVc \/ EnterVc PROVE Inv'
<1>1. /\ Idle /\ queue = << >>
      /\ UNCHANGED <<held, queue, windows, cur, on, batch, at, start, ahead>>
  BY DEF LeaveVc, EnterVc, Inv, ModeInv, manager, reading
<1>2. /\ front' \in BOOLEAN /\ rawMode' \in BOOLEAN
      /\ rawMode' <=> front' /\ RawInput /\ cur \in on
      /\ keyDown' \subseteq Key /\ modDown' \in Nat
      /\ rawMode' => keyDown' = {}
  <2>1. CASE LeaveVc
    <3>1. front' = FALSE /\ front  BY <2>1 DEF LeaveVc
    <3>2. CASE cur \in on
      BY <2>1, <3>1, <3>2 DEF LeaveVc, EndRawMode, Inv, KeyType
    <3>3. CASE cur \notin on
      BY <2>1, <3>1, <3>3 DEF LeaveVc, keyboard, Inv, KeyType, ModeInv
    <3>. QED  BY <3>2, <3>3
  <2>2. CASE EnterVc
    <3>1. front' = TRUE /\ ~ front  BY <2>2 DEF EnterVc
    <3>2. CASE RawInput /\ cur \in on
      BY <2>2, <3>1, <3>2 DEF EnterVc, EndRawMode, Inv, KeyType
    <3>3. CASE ~ (RawInput /\ cur \in on)
      BY <2>2, <3>1, <3>3 DEF EnterVc, keyboard, Inv, KeyType, ModeInv
    <3>. QED  BY <3>2, <3>3
  <2>. QED  BY <2>1, <2>2
<1>3. KeyType'  BY <1>1, <1>2 DEF Inv, KeyType
<1>4. ModeInv' /\ Idle'  BY <1>1, <1>2 DEF Inv, ModeInv, Idle
<1>5. HeldInv'
  <2>1. Len(<< >>) = 0 /\ 1 .. 0 = {}  OBVIOUS
  <2>. QED  BY <1>1, <1>2, <1>4, <2>1 DEF HeldInv, Told, LastTold, ReleaseToCome
<1>. QED  BY <1>3, <1>4, <1>5 DEF Inv

\* Every step keeps the invariant.
LEMMA StepInv == Inv /\ [Next]_vars => Inv'
<1> SUFFICES ASSUME Inv, [Next]_vars PROVE Inv'  OBVIOUS
<1>1. ASSUME NEW k \in Key, Press(k) PROVE Inv'
  <2> DEFINE c == k \in Special /\ held \cap Mods # {}
             e == IF rawMode THEN RawKey(k, TRUE) ELSE Char(k, c)
             events == IF rawMode THEN <<RawKey(k, TRUE)>>
                       ELSE IF k \in Mods THEN << >> ELSE <<Char(k, c)>>
  <2>1. held' = held \cup {k} /\ Strike(events)  BY <1>1 DEF Press
  <2>2. rawMode \in BOOLEAN /\ c \in BOOLEAN  BY DEF Inv, KeyType
  <2>3. e \in Item /\ e.key = k /\ (e.raw <=> rawMode) /\ (e.raw => (e.down <=> k \in held'))
    <3> HIDE DEF c
    <3>. QED  BY <2>1, <2>2 DEF RawKey, Char, Item
  <2>4. events = <<e>> \/ (events = << >> /\ ~ rawMode)
    <3>1. CASE rawMode  BY <3>1
    <3>2. CASE ~ rawMode  BY <3>2
    <3>. QED  BY <3>1, <3>2
  <2>5. held' \subseteq Key /\ \A j \in Key \ {k} : j \in held' <=> j \in held
    BY <2>1 DEF Inv, KeyType
  <2> HIDE DEF c, e, events
  <2>. QED  BY <2>1, <2>3, <2>4, <2>5, StrikeInv
<1>2. ASSUME NEW k \in Key, Release(k) PROVE Inv'
  <2> DEFINE e == IF rawMode THEN RawKey(k, FALSE) ELSE Char(k, FALSE)
             events == IF rawMode THEN <<RawKey(k, FALSE)>> ELSE << >>
  <2>1. held' = held \ {k} /\ Strike(events)  BY <1>2 DEF Release
  <2>2. rawMode \in BOOLEAN  BY DEF Inv, KeyType
  <2>3. e \in Item /\ e.key = k /\ (e.raw <=> rawMode) /\ (e.raw => (e.down <=> k \in held'))
    BY <2>1, <2>2 DEF RawKey, Char, Item
  <2>4. events = <<e>> \/ (events = << >> /\ ~ rawMode)
    <3>1. CASE rawMode  BY <3>1
    <3>2. CASE ~ rawMode  BY <3>2
    <3>. QED  BY <3>1, <3>2
  <2>5. held' \subseteq Key /\ \A j \in Key \ {k} : j \in held' <=> j \in held
    BY <2>1 DEF Inv, KeyType
  <2> HIDE DEF e, events
  <2>. QED  BY <2>1, <2>3, <2>4, <2>5, StrikeInv
<1>3. CASE Read  BY <1>3, ReadInv
<1>4. CASE ReadChar \/ ReadRawKey  BY <1>4, KeyKeptInv
<1>5. CASE ReadShortcut \/ ReadRawShortcut  BY <1>5, ShortcutInv
<1>6. CASE ReadStrayRelease  BY <1>6, StrayReleaseInv
<1>7. CASE Finish  BY <1>7, FinishInv
<1>8. CASE LeaveVc \/ EnterVc  BY <1>8, SwitchVcInv
<1>9. CASE UNCHANGED vars
  <2>1. UNCHANGED <<held, queue, front, windows, cur, on, rawMode, keyDown, modDown,
                    batch, at, start, ahead>>
    BY <1>9 DEF vars, outside, manager, keyboard, reading
  <2>2. KeyType' /\ ModeInv'  BY <2>1 DEF Inv, KeyType, ModeInv, Idle
  <2>3. HeldInv'
    BY <2>1 DEF Inv, HeldInv, Told, LastTold, ReleaseToCome, Idle
  <2>. QED  BY <2>2, <2>3 DEF Inv
<1>. QED  BY <1>1, <1>2, <1>3, <1>4, <1>5, <1>6, <1>7, <1>8, <1>9 DEF Next

\* The invariant holds in every reachable state.
THEOREM Invariance == Spec => []Inv
  BY InitInv, StepInv, PTL DEF Spec

-----------------------------------------------------------------------------
(* The keys taken to be down                                               *)

\* With all keys read, a key taken to be down is held.
DownIsHeld == rawMode /\ Idle /\ queue = << >> => keyDown \subseteq held

\* Whatever modes came and went and however keys were struck meanwhile, a key
\* FbTerm takes to be down once it has read all is held (processRawKeys,
\* setRawMode).
THEOREM DownIsHeldAlways == Spec => []DownIsHeld
<1>1. Inv => DownIsHeld
  <2>1. Len(<< >>) = 0 /\ 1 .. 0 = {}  OBVIOUS
  <2>. QED  BY <2>1 DEF Inv, HeldInv, Told, ReleaseToCome, DownIsHeld
<1>. QED  BY <1>1, Invariance, PTL

\* A keyboard with one key for the modifier: with more, a release of one that
\* was down before key codes were read takes another off the count.
OneKey == \A a, b \in Mods : a = b

CountInv == modDown = Cardinality(keyDown \cap Mods)

\* The keys of the modifier that are down, after one of them or another key.
LEMMA CountAfter ==
  ASSUME OneKey, CountInv, NEW e
  PROVE  /\ e.down \/ e.key \in keyDown => ModsAfter(e) = Cardinality(DownAfter(e) \cap Mods)
         /\ ~ e.down /\ e.key \notin keyDown => ModsAfter(e) = modDown
<1> DEFINE k == e.key
<1>2. Cardinality({}) = 0 /\ \A m : Cardinality({m}) = 1  BY FS_EmptySet, FS_Singleton
<1>3. CASE k \notin Mods
  <2>1. ModsAfter(e) = modDown  BY <1>3 DEF ModsAfter
  <2>2. DownAfter(e) \cap Mods = keyDown \cap Mods  BY <1>3 DEF DownAfter
  <2>. QED  BY <2>1, <2>2 DEF CountInv
<1>4. CASE k \in Mods
  <2>1. Mods = {k}  BY <1>4 DEF OneKey
  <2>2. keyDown \cap Mods = IF k \in keyDown THEN {k} ELSE {}  BY <2>1
  <2>3. DownAfter(e) \cap Mods = IF e.down THEN {k} ELSE {}  BY <2>1 DEF DownAfter
  <2>4. modDown = IF k \in keyDown THEN 1 ELSE 0  BY <1>2, <2>2 DEF CountInv
  <2>5. ModsAfter(e) = IF e.down THEN 1 ELSE 0  BY <1>4, <2>4 DEF ModsAfter
  <2>. QED  BY <1>2, <2>3, <2>4, <2>5
<1>. QED  BY <1>3, <1>4

\* Where the key state is changed: by the key looked at or by a change of mode.
LEMMA KeyStateStep ==
  ASSUME Inv, [Next]_vars
  PROVE  \/ keyDown' = keyDown /\ modDown' = modDown
         \/ keyDown' = {} /\ modDown' = 0
         \/ Step /\ keyDown' = keyDown /\ modDown' = ModsAfter(batch[at])
              /\ ~ batch[at].down /\ batch[at].key \notin keyDown
         \/ Step /\ keyDown' = DownAfter(batch[at]) /\ modDown' = ModsAfter(batch[at])
              /\ (batch[at].down \/ batch[at].key \in keyDown)
<1>1. CASE \/ \E k \in Key : Press(k) \/ Release(k)
           \/ Read \/ ReadChar \/ Finish \/ UNCHANGED vars
  BY <1>1 DEF Press, Release, Strike, Read, ReadChar, Finish, vars, keyboard
<1>2. CASE ReadShortcut
  <2>1. Step /\ SysKey(keyDown, modDown, Flush(at))  BY <1>2 DEF ReadShortcut
  <2>2. KeyType /\ ModeInv /\ front = TRUE  BY <2>1, StepFacts DEF Inv
  <2>. QED  BY <2>1, <2>2, SysKeyMode
<1>3. CASE ReadRawShortcut
  <2> DEFINE down == DownAfter(batch[at])
  <2>1. /\ Step /\ SysKey(down, modDown, Flush(at + 1))
        /\ batch[at].down /\ batch[at].key \in Special
    BY <1>3 DEF ReadRawShortcut
  <2>2. KeyType /\ ModeInv /\ front = TRUE  BY <2>1, StepFacts DEF Inv
  <2>3. ModsAfter(batch[at]) = modDown  BY <2>1, KeyAssumption DEF ModsAfter
  <2> HIDE DEF down
  <2>4. \/ keyDown' = down /\ modDown' = modDown
        \/ keyDown' = {} /\ modDown' = 0
    BY <2>1, <2>2, SysKeyMode
  <2>. QED  BY <2>1, <2>3, <2>4 DEF down
<1>4. CASE ReadStrayRelease  BY <1>4 DEF ReadStrayRelease
<1>5. CASE ReadRawKey  BY <1>5 DEF ReadRawKey
<1>6. CASE LeaveVc  BY <1>6 DEF LeaveVc, EndRawMode, keyboard
<1>7. CASE EnterVc  BY <1>7 DEF EnterVc, EndRawMode, keyboard
<1>. QED  BY <1>1, <1>2, <1>3, <1>4, <1>5, <1>6, <1>7 DEF Next

\* The shortcuts see the modifier if and only if its key was struck since key
\* codes are read, and no key is taken to be down that is not (processRawKeys,
\* setRawMode).
THEOREM KeysDownAreHeldAlways ==
  ASSUME OneKey
  PROVE  Spec => []KeysDownAreHeld
<1>1. Init => CountInv
  <2>1. Cardinality({}) = 0 /\ {} \cap Mods = {}  BY FS_EmptySet
  <2>. QED  BY <2>1 DEF Init, CountInv
<1>2. Inv /\ CountInv /\ [Next]_vars => CountInv'
  <2> SUFFICES ASSUME Inv, CountInv, [Next]_vars PROVE CountInv'  OBVIOUS
  <2> DEFINE e == batch[at]
  <2>1. CASE keyDown' = keyDown /\ modDown' = modDown  BY <2>1 DEF CountInv
  <2>2. CASE keyDown' = {} /\ modDown' = 0
    <3>1. Cardinality({}) = 0 /\ {} \cap Mods = {}  BY FS_EmptySet
    <3>. QED  BY <2>2, <3>1 DEF CountInv
  <2>3. CASE /\ keyDown' = keyDown /\ modDown' = ModsAfter(e)
             /\ ~ e.down /\ e.key \notin keyDown
    BY <2>3, CountAfter DEF CountInv
  <2>4. CASE /\ keyDown' = DownAfter(e) /\ modDown' = ModsAfter(e)
             /\ (e.down \/ e.key \in keyDown)
    BY <2>4, CountAfter DEF CountInv
  <2>. QED  BY <2>1, <2>2, <2>3, <2>4, KeyStateStep
<1>3. DownIsHeld /\ CountInv => KeysDownAreHeld
  BY DEF DownIsHeld, CountInv, KeysDownAreHeld
<1>. QED  BY <1>1, <1>2, <1>3, DownIsHeldAlways, Invariance, PTL DEF Spec

-----------------------------------------------------------------------------
(* Where the keys go                                                       *)

\* A buffer of one key has been looked up for the window that is active, until
\* its key has been dealt with.
ReachInv ==
  ~ Idle /\ ~ ahead => Len(batch) = 1 /\ (at = 1 \/ start < at => shell = Active)

\* Keys passed to the active window only.
Reached(s) == \A i \in DOMAIN s : s[i].win = Active /\ s[i].via # "freed"

\* What is passed to the active window, or to none, reaches it.
LEMMA PieceReaches ==
  ASSUME Inv, NEW w, w = Active, NEW oni, NEW keys
  PROVE  Piece(w, oni, keys) = << >> \/ \E r : /\ Piece(w, oni, keys) = <<r>>
                                               /\ r.win = Active /\ r.via # "freed"
<1> DEFINE r == [win |-> w, keys |-> keys,
                 via |-> IF w \notin windows THEN "freed"
                         ELSE IF w \in oni THEN "server" ELSE "program"]
<1>1. w = None \/ w \in windows  BY DEF Inv, KeyType, Active
<1>2. CASE w = None \/ keys = << >>  BY <1>2 DEF Piece
<1>3. CASE ~ (w = None \/ keys = << >>)
  <2>1. Piece(w, oni, keys) = <<r>>  BY <1>3 DEF Piece
  <2>2. r.win = Active /\ r.via # "freed"  BY <1>1, <1>3
  <2> HIDE DEF r
  <2>. QED  BY <2>1, <2>2
<1>. QED  BY <1>2, <1>3

\* Two pieces in a row.
LEMMA PiecesReach ==
  ASSUME NEW p, NEW q,
         p = << >> \/ \E r : p = <<r>> /\ r.win = Active /\ r.via # "freed",
         q = << >> \/ \E r : q = <<r>> /\ r.win = Active /\ r.via # "freed"
  PROVE  Reached(p) /\ Reached(p \o q)
<1>1. Reached(<< >>) /\ << >> \o << >> = << >>  BY DEF Reached
<1>2. ASSUME NEW r, r.win = Active /\ r.via # "freed"
      PROVE  Reached(<<r>>) /\ <<r>> \o << >> = <<r>> /\ << >> \o <<r>> = <<r>>
  BY <1>2 DEF Reached
<1>3. ASSUME NEW r, r.win = Active /\ r.via # "freed",
             NEW t, t.win = Active /\ t.via # "freed"
      PROVE  Reached(<<r>> \o <<t>>)
  <2> DEFINE S == {r, t}
             s == <<r>> \o <<t>>
  <2>1. <<r>> \in Seq(S) /\ <<t>> \in Seq(S)  OBVIOUS
  <2>2. \A x \in S : x.win = Active /\ x.via # "freed"  BY <1>3
  <2> HIDE DEF S
  <2>3. s \in Seq(S)  BY <2>1
  <2> HIDE DEF s
  <2>4. \A i \in DOMAIN s : s[i] \in S  BY <2>3
  <2>. QED  BY <2>2, <2>4 DEF s, Reached
<1>. QED  BY <1>1, <1>2, <1>3

\* What a shortcut passes on: the keys before it, and the releases made up.
LEMMA SysKeySent ==
  ASSUME Inv, front = TRUE, NEW down, NEW mods, NEW pieces, SysKey(down, mods, pieces)
  PROVE  sent' = pieces \/ \E oni : sent' = pieces \o Left(cur, oni, down)
<1>1. CASE Create(down, mods, pieces)
  BY <1>1 DEF Create, SwitchTo, Pass
<1>2. CASE Ignore(down, mods, pieces)  BY <1>2 DEF Ignore, Pass
<1>3. CASE Toggle(down, mods, pieces)  BY <1>3 DEF Toggle, Pass
<1>4. CASE Kill(down, mods, pieces)
  <2>1. sent' = pieces \/ sent' = pieces \o Left(cur, on', down)
    BY <1>4 DEF Kill, Pass
  <2>. QED  BY <2>1
<1>5. CASE Switch(down, mods, pieces)
  BY <1>5 DEF Switch, SwitchTo, Pass
<1>6. CASE Destroy(down, mods, pieces)
  <2>1. sent' = pieces \o Left(cur, on', down)  BY <1>6 DEF Destroy, Pass
  <2>. QED  BY <2>1
<1>. QED  BY <1>1, <1>2, <1>3, <1>4, <1>5, <1>6 DEF SysKey

\* A buffer of one key keeps the window it was looked up for while its key has
\* not been passed on.
LEMMA ReachStep == Inv /\ ReachInv /\ [Next]_vars => ReachInv'
<1> SUFFICES ASSUME Inv, ReachInv, [Next]_vars PROVE ReachInv'  OBVIOUS
<1>1. CASE Read
  <2>1. /\ batch' = queue /\ queue # << >> /\ shell' = Active
        /\ ahead' = (ahead \/ Len(queue) > 1)
        /\ front' = front /\ cur' = cur
    BY <1>1 DEF Read, manager
  <2>2. queue \in Seq(Item) /\ Len(queue) \in Nat /\ Len(queue) # 0
    BY <2>1 DEF Inv, KeyType
  <2>3. Active' = Active  BY <2>1 DEF Active
  <2>4. ~ ahead' => ~ (Len(queue) > 1)
    <3> DEFINE two == Len(queue) > 1
    <3>1. ahead' = (ahead \/ two)  BY <2>1
    <3>2. two \in BOOLEAN  OBVIOUS
    <3> HIDE DEF two
    <3>3. CASE two  BY <3>1, <3>3, Zenon
    <3>4. CASE ~ two  BY <3>4, Zenon DEF two
    <3>. QED  BY <3>3, <3>4
  <2>5. ~ ahead' => Len(batch') = 1
    <3> DEFINE l == Len(queue)
    <3>1. ~ (l > 1) => l = 1
      <4>1. l \in Nat /\ l # 0  BY <2>2
      <4> HIDE DEF l
      <4>. QED  BY <4>1
    <3>2. batch' = queue  BY <2>1
    <3>. QED  BY <2>4, <3>1, <3>2
  <2>. QED  BY <2>1, <2>3, <2>5 DEF ReachInv
<1>2. CASE ReadChar \/ ReadRawKey \/ UNCHANGED vars
  <2>1. /\ UNCHANGED <<batch, start, shell, ahead, front, cur>>
        /\ at' = at \/ (Step /\ at' = at + 1)
    BY <1>2 DEF ReadChar, ReadRawKey, vars, reading, outside, manager
  <2>2. Active' = Active  BY <2>1 DEF Active
  <2>3. at \in Nat \ {0} /\ start \in 1 .. at  BY DEF Inv, KeyType
  <2>4. Step /\ Len(batch) = 1 => at = 1  BY <2>3 DEF Step
  <2>. QED  BY <2>1, <2>2, <2>3, <2>4 DEF ReachInv, Idle
<1>3. CASE ReadShortcut \/ ReadRawShortcut \/ ReadStrayRelease
  <2>1. UNCHANGED <<batch, ahead>> /\ at' = at + 1 /\ start' = at + 1
    BY <1>3 DEF ReadShortcut, ReadRawShortcut, ReadStrayRelease
  <2>2. at \in Nat \ {0}  BY DEF Inv, KeyType
  <2>3. ~ (at' = 1 \/ start' < at')  BY <2>1, <2>2
  <2>. QED  BY <2>1, <2>3 DEF ReachInv, Idle
<1>4. CASE Finish  BY <1>4 DEF Finish, ReachInv, Idle
<1>5. CASE \/ \E k \in Key : Press(k) \/ Release(k)
           \/ LeaveVc \/ EnterVc
  <2>1. Idle /\ batch' = batch
    BY <1>5 DEF Press, Release, Strike, LeaveVc, EnterVc, reading, Inv, ModeInv
  <2>. QED  BY <2>1 DEF ReachInv, Idle
<1>. QED  BY <1>1, <1>2, <1>3, <1>4, <1>5 DEF Next

\* What a step passes on, it passes to the active window.
LEMMA SentReaches ==
  ASSUME Inv, ReachInv, Next, ~ ahead'
  PROVE  Reached(sent')
<1>0. Reached(<< >>)  BY DEF Reached
<1> DEFINE One(p) == p = << >> \/ \E r : p = <<r>> /\ r.win = Active /\ r.via # "freed"
<1>1. ASSUME ~ ahead, ~ Idle, NEW n \in {at, at + 1}, n = at + 1 => Step
      PROVE  One(Flush(n))
  <2>1. at \in Nat \ {0} /\ start \in 1 .. at  BY DEF Inv, KeyType
  <2>2. CASE shell = Active
    <3>1. Flush(n) = Piece(shell, on, SubSeq(batch, start, n - 1))  BY DEF Flush
    <3>. QED  BY <2>2, <3>1, PieceReaches
  <2>3. CASE shell # Active
    <3>1. Len(batch) = 1 /\ at # 1 /\ start = at
      BY <1>1, <2>1, <2>3 DEF ReachInv
    <3>2. n = at  BY <1>1, <2>1, <3>1 DEF Step
    <3>3. batch \in Seq(Item)  BY DEF Inv, KeyType
    <3>4. SubSeq(batch, start, n - 1) = << >>
      BY <2>1, <3>1, <3>2, <3>3
    <3>. QED  BY <3>4 DEF Flush, Piece
  <2>. QED  BY <2>2, <2>3
<1>2. ASSUME front = TRUE, NEW oni, NEW down
      PROVE  One(Left(cur, oni, down))
  <2>1. cur = Active  BY <1>2 DEF Active
  <2>2. One(Piece(cur, oni, Releases(down)))  BY <2>1, PieceReaches
  <2>. QED  BY <2>2 DEF Left
<1> HIDE DEF One
<1>3. ASSUME NEW p, NEW q, One(p), One(q) PROVE Reached(p) /\ Reached(p \o q)
  BY <1>3, PiecesReach DEF One
<1>4. ASSUME ~ ahead, Step, NEW n \in {at, at + 1}, NEW down, NEW mods,
             SysKey(down, mods, Flush(n))
      PROVE  Reached(sent')
  <2>1. front = TRUE /\ ~ Idle  BY <1>4, StepFacts
  <2>2. One(Flush(n))  BY <1>1, <1>4, <2>1
  <2> DEFINE p == Flush(n)
  <2> HIDE DEF p
  <2>3. sent' = p \/ \E oni : sent' = p \o Left(cur, oni, down)
    BY <1>4, <2>1, SysKeySent DEF p
  <2>4. One(p) /\ One(<< >>)  BY <2>2 DEF p, One
  <2>. QED  BY <1>2, <1>3, <2>1, <2>3, <2>4
<1>5. CASE ReadShortcut
  <2>1. ~ ahead /\ Step /\ SysKey(keyDown, modDown, Flush(at))  BY <1>5 DEF ReadShortcut
  <2>. QED  BY <1>4, <2>1
<1>6. CASE ReadRawShortcut
  <2>1. ~ ahead /\ Step /\ SysKey(DownAfter(batch[at]), modDown, Flush(at + 1))
    BY <1>6 DEF ReadRawShortcut
  <2>. QED  BY <1>4, <2>1
<1>7. CASE ReadStrayRelease \/ Finish
  <2>1. ~ ahead /\ ~ Idle /\ sent' = Flush(at)
    BY <1>7 DEF ReadStrayRelease, Finish, Pass, Step, Idle
  <2>2. One(Flush(at))  BY <1>1, <2>1 DEF Inv, KeyType
  <2>. QED  BY <1>3, <2>1, <2>2
<1>8. CASE LeaveVc
  <2>1. front = TRUE  BY <1>8 DEF LeaveVc, Inv, KeyType
  <2>2. sent' = << >> \/ sent' = Left(cur, on, keyDown)  BY <1>8 DEF LeaveVc, Pass
  <2>3. One(Left(cur, on, keyDown))  BY <1>2, <2>1
  <2>. QED  BY <1>0, <1>3, <2>2, <2>3
<1>9. CASE \/ \E k \in Key : Press(k) \/ Release(k)
           \/ Read \/ ReadChar \/ ReadRawKey \/ EnterVc
  <2>1. sent' = << >>
    BY <1>9 DEF Press, Release, Strike, Read, ReadChar, ReadRawKey, EnterVc
  <2>. QED  BY <1>0, <2>1
<1>. QED  BY <1>5, <1>6, <1>7, <1>8, <1>9 DEF Next

\* Keys read one at a time reach the window that is active, and never one that
\* the shortcut they belong to has left or deleted (processRawKeys, readyRead).
THEOREM KeysReachActiveAlways == Spec => KeysReachActive
<1> DEFINE Reach == ~ ahead' => \A i \in DOMAIN sent' :
                      sent'[i].win = Active /\ sent'[i].via # "freed"
<1>1. Init => ReachInv  BY DEF Init, ReachInv, Idle
<1>2. Inv /\ ReachInv /\ [Next]_vars => [Reach]_vars
  BY SentReaches DEF Reached
<1> HIDE DEF Reach
<1>3. Spec => [][Reach]_vars  BY <1>1, <1>2, ReachStep, InitInv, StepInv, PTL DEF Spec
<1>. QED  BY <1>3 DEF Reach, KeysReachActive

-----------------------------------------------------------------------------
(* Folding a sequence.  FoldLeft is defined by a recursive function on sets   *)
(* of places; Recurs says what it comes to, and induction over the number of  *)
(* places is by a least counterexample.                                      *)

\* F is what a fold of s with the function h, from b, comes to on the way: F[t]
\* for the elements whose places are in t.
Recurs(F, h, b, s) ==
  /\ F[{}] = b
  /\ \A t \in SUBSET (1 .. Len(s)) :
       t # {} => F[t] = h[<<F[t \ {Max(t)}], s[Max(t)]>>]

\* The greatest of places up to n.
LEMMA MaxTop ==
  ASSUME NEW n \in Nat \ {0}, NEW t \in SUBSET (1 .. n), n \in t
  PROVE  Max(t) = n
<1>1. \A y \in t : n >= y /\ y \in Nat  OBVIOUS
<1>2. \A x \in t : (\A y \in t : x >= y) => x = n  BY <1>1
<1>3. \E x \in t : \A y \in t : x >= y  BY <1>1
<1>. QED  BY <1>2, <1>3 DEF Max

\* Places up to m without m.
LEMMA WithoutTop ==
  ASSUME NEW m \in Nat \ {0}, NEW t \in SUBSET (1 .. m)
  PROVE  t \ {m} \in SUBSET (1 .. m - 1)
<1>1. ASSUME NEW y \in t, y # m  PROVE y \in 1 .. m - 1
  <2>1. y \in 1 .. m  OBVIOUS
  <2>. QED  BY <1>1, <2>1
<1>. QED  BY <1>1

\* A set of numbers has a least element.
LEMMA Least ==
  ASSUME NEW S \in SUBSET Nat, S # {}
  PROVE  \E x \in S : \A y \in S : x <= y
<1>1. \E x \in S : \A y \in S : ~ (<<y, x>> \in OpToRel(<, Nat))
  BY NatLessThanWellFounded, WFMin
<1>2. ASSUME NEW x \in Nat, NEW y \in Nat, ~ (<<y, x>> \in OpToRel(<, Nat))
      PROVE  x <= y
  <2>1. ~ (y < x)  BY <1>2 DEF OpToRel
  <2>. QED  BY <2>1
<1>. QED  BY <1>1, <1>2

\* The greatest of some places is one of them.
LEMMA MaxIn ==
  ASSUME NEW n \in Nat, NEW t \in SUBSET (1 .. n), t # {}
  PROVE  Max(t) \in t
<1> DEFINE below == {i \in Nat : \E x \in t : i = n - x}
<1>1. below # {} /\ below \in SUBSET Nat
  <2>1. PICK x \in t : TRUE  OBVIOUS
  <2>2. n - x \in below  BY <2>1
  <2>. QED  BY <2>2
<1>2. PICK i \in below : \A j \in below : i <= j  BY <1>1, Least
<1>3. PICK x \in t : i = n - x  BY <1>2
<1>4. ASSUME NEW y \in t  PROVE x >= y
  <2>1. n - y \in below  OBVIOUS
  <2>2. n - x <= n - y  BY <1>2, <1>3, <2>1
  <2>. QED  BY <2>2
<1>. QED  BY <1>4 DEF Max

\* F and G agree wherever they agree on one place less.
Alike(F, G, n) ==
  /\ F[{}] = G[{}]
  /\ \A t \in SUBSET (1 .. n) :
       t # {} /\ F[t \ {Max(t)}] = G[t \ {Max(t)}] => F[t] = G[t]

\* Then they agree.
LEMMA FoldUnique ==
  ASSUME NEW n \in Nat, NEW F, NEW G, Alike(F, G, n)
  PROVE  \A t \in SUBSET (1 .. n) : F[t] = G[t]
<1> DEFINE bad == {m \in 0 .. n : \E t \in SUBSET (1 .. m) : F[t] # G[t]}
<1>1. bad = {}
  <2>1. SUFFICES ASSUME bad # {}  PROVE FALSE
    OBVIOUS
  <2>2. PICK m \in bad : \A k \in bad : m <= k
    <3>1. bad \in SUBSET Nat  OBVIOUS
    <3> HIDE DEF bad
    <3>. QED  BY <2>1, <3>1, Least
  <2>3. PICK t \in SUBSET (1 .. m) : F[t] # G[t]  OBVIOUS
  <2>4. t # {}  BY <2>3 DEF Alike
  <2>5. m \in Nat \ {0} /\ m <= n
    <3>1. m \in 0 .. n  OBVIOUS
    <3>2. m # 0
      <4>1. SUFFICES ASSUME m = 0  PROVE FALSE
        OBVIOUS
      <4>2. 1 .. m = {}  BY <4>1
      <4> HIDE DEF bad
      <4>3. t \in SUBSET {}  BY <4>2
      <4>. QED  BY <2>4, <4>3
    <3>. QED  BY <3>1, <3>2
  <2>6. m - 1 \notin bad
    <3>1. ~ (m <= m - 1)  BY <2>5
    <3> HIDE DEF bad
    <3>. QED  BY <2>2, <3>1
  <2>7. \A u \in SUBSET (1 .. m - 1) : F[u] = G[u]  BY <2>5, <2>6
  <2>8. m \in t
    <3>1. SUFFICES ASSUME m \notin t  PROVE FALSE
      OBVIOUS
    <3>2. t \in SUBSET (1 .. m - 1)
      <4>1. t \ {m} = t  BY <3>1
      <4>. QED  BY <2>5, <4>1, WithoutTop
    <3>. QED  BY <2>3, <2>7, <3>2
  <2>9. Max(t) = m  BY <2>5, <2>8, MaxTop
  <2>10. t \ {m} \in SUBSET (1 .. m - 1)  BY <2>5, WithoutTop
  <2>11. t \in SUBSET (1 .. n)  BY <2>5
  <2>. QED  BY <2>3, <2>4, <2>7, <2>9, <2>10, <2>11 DEF Alike
<1>2. ASSUME NEW t \in SUBSET (1 .. n)  PROVE F[t] = G[t]
  <2>1. n \in 0 .. n  OBVIOUS
  <2>. QED  BY <1>1, <2>1
<1>. QED  BY <1>2

\* There is such a function for every sequence.
LEMMA FoldExists ==
  ASSUME NEW X, NEW S, NEW h \in [X \X S -> X], NEW b \in X, NEW s \in Seq(S)
  PROVE  \E F \in [SUBSET (1 .. Len(s)) -> X] : Recurs(F, h, b, s)
<1> DEFINE n == Len(s)
<1> DEFINE Upto(m, F) ==
      /\ F \in [SUBSET (1 .. m) -> X] /\ F[{}] = b
      /\ \A t \in SUBSET (1 .. m) : t # {} => F[t] = h[<<F[t \ {Max(t)}], s[Max(t)]>>]
<1> DEFINE bad == {m \in 0 .. n : ~ \E F : Upto(m, F)}
<1>0. n \in Nat /\ \A i \in 1 .. n : s[i] \in S  OBVIOUS
<1>1. bad = {}
  <2>1. SUFFICES ASSUME bad # {}  PROVE FALSE
    OBVIOUS
  <2>2. PICK m \in bad : \A k \in bad : m <= k
    <3>1. bad \in SUBSET Nat  BY <1>0
    <3> HIDE DEF bad
    <3>. QED  BY <2>1, <3>1, Least
  <2>3. m \in 0 .. n /\ ~ \E F : Upto(m, F)  OBVIOUS
  <2>4. m # 0
    <3>1. SUFFICES ASSUME m = 0  PROVE FALSE
      OBVIOUS
    <3> DEFINE F == [t \in {{}} |-> b]
    <3>2. SUBSET (1 .. 0) = {{}}  OBVIOUS
    <3>3. Upto(0, F)  BY <3>2
    <3>. QED  BY <2>3, <3>1, <3>3
  <2>5. m \in Nat \ {0} /\ m <= n /\ m - 1 \in 0 .. n /\ m - 1 < m  BY <1>0, <2>3, <2>4
  <2>6. m - 1 \notin bad
    <3>1. ~ (m <= m - 1)  BY <2>5
    <3> HIDE DEF bad
    <3>. QED  BY <2>2, <3>1
  <2>7. PICK E : Upto(m - 1, E)  BY <2>5, <2>6
  <2> DEFINE F == [t \in SUBSET (1 .. m) |->
                     IF m \in t THEN h[<<E[t \ {m}], s[m]>>] ELSE E[t]]
  <2>8. \A t \in SUBSET (1 .. m) : t \ {m} \in SUBSET (1 .. m - 1)
    BY <2>5, WithoutTop
  <2>9. ASSUME NEW t \in SUBSET (1 .. m)  PROVE F[t] \in X
    <3>1. m \in 1 .. n  BY <1>0, <2>5
    <3>2. s[m] \in S  BY <1>0, <3>1
    <3>3. t \ {m} \in SUBSET (1 .. m - 1)  BY <2>8
    <3>4. E[t \ {m}] \in X  BY <2>7, <3>3
    <3>5. CASE m \in t
      <4>1. <<E[t \ {m}], s[m]>> \in X \X S  BY <3>2, <3>4
      <4>2. F[t] = h[<<E[t \ {m}], s[m]>>]  BY <3>5
      <4> HIDE DEF F
      <4>. QED  BY <4>1, <4>2
    <3>6. CASE m \notin t
      <4>1. t \ {m} = t  BY <3>6
      <4>. QED  BY <3>4, <3>6, <4>1
    <3>. QED  BY <3>5, <3>6
  <2>10. F \in [SUBSET (1 .. m) -> X]  BY <2>9
  <2>11. F[{}] = b  BY <2>7
  <2>12. ASSUME NEW t \in SUBSET (1 .. m), t # {}
         PROVE  F[t] = h[<<F[t \ {Max(t)}], s[Max(t)]>>]
    <3>1. CASE m \in t
      <4>1. Max(t) = m  BY <2>5, <3>1, MaxTop
      <4>2. F[t \ {m}] = E[t \ {m}]  BY <2>8
      <4>3. F[t] = h[<<E[t \ {m}], s[m]>>]  BY <3>1
      <4> HIDE DEF F
      <4>. QED  BY <4>1, <4>2, <4>3
    <3>2. CASE m \notin t
      <4>0. t \ {m} = t  BY <3>2
      <4>1. t \in SUBSET (1 .. m - 1)  BY <2>8, <4>0
      <4>2. E[t] = h[<<E[t \ {Max(t)}], s[Max(t)]>>]  BY <2>7, <2>12, <4>1
      <4>3. F[t] = E[t]  BY <3>2
      <4>4. F[t \ {Max(t)}] = E[t \ {Max(t)}]  BY <3>2
      <4> HIDE DEF F
      <4>. QED  BY <4>2, <4>3, <4>4
    <3>. QED  BY <3>1, <3>2
  <2> HIDE DEF F
  <2>13. \A t \in SUBSET (1 .. m) : t # {} => F[t] = h[<<F[t \ {Max(t)}], s[Max(t)]>>]
    BY <2>12
  <2>14. Upto(m, F)  BY <2>10, <2>11, <2>13
  <2>. QED  BY <2>3, <2>14
<1>2. PICK F : Upto(n, F)
  <2>1. n \in 0 .. n  BY <1>0
  <2>. QED  BY <1>1, <2>1
<1>. QED  BY <1>2 DEF Recurs

\* One element more.
LEMMA FoldAppend ==
  ASSUME NEW S, NEW s \in Seq(S), NEW e \in S, NEW h, NEW b,
         NEW F, Recurs(F, h, b, s), NEW G, Recurs(G, h, b, Append(s, e))
  PROVE  G[1 .. Len(s) + 1] = h[<<F[1 .. Len(s)], e>>]
<1> DEFINE n == Len(s)
<1> DEFINE r == Append(s, e)
<1>1. /\ n \in Nat /\ Len(r) = n + 1 /\ r[n + 1] = e
      /\ \A i \in 1 .. n : r[i] = s[i]
  OBVIOUS
<1> HIDE DEF n, r
<1>2. \A t \in SUBSET (1 .. n) : F[t] = G[t]
  <2>1. F[{}] = G[{}]  BY DEF Recurs, r
  <2>2. ASSUME NEW t \in SUBSET (1 .. n), t # {}, F[t \ {Max(t)}] = G[t \ {Max(t)}]
        PROVE  F[t] = G[t]
    <3>1. Max(t) \in t  BY <1>1, <2>2, MaxIn
    <3>2. r[Max(t)] = s[Max(t)]  BY <1>1, <3>1
    <3>3. F[t] = h[<<F[t \ {Max(t)}], s[Max(t)]>>]  BY <2>2 DEF Recurs, n
    <3>4. t \in SUBSET (1 .. Len(r))  BY <1>1
    <3>5. G[t] = h[<<G[t \ {Max(t)}], r[Max(t)]>>]  BY <2>2, <3>4 DEF Recurs, r
    <3>. QED  BY <2>2, <3>2, <3>3, <3>5
  <2>3. \A t \in SUBSET (1 .. n) :
           t # {} /\ F[t \ {Max(t)}] = G[t \ {Max(t)}] => F[t] = G[t]
    BY <2>2
  <2>4. n \in Nat  BY <1>1
  <2>5. Alike(F, G, n)  BY <2>1, <2>3 DEF Alike
  <2>. QED  BY <2>4, <2>5, FoldUnique, SMTT(30)
<1> DEFINE all == 1 .. n + 1
<1>3. all \in SUBSET (1 .. Len(r)) /\ all # {} /\ n + 1 \in all /\ n + 1 \in Nat \ {0}
  <2>1. n + 1 \in Nat \ {0} /\ n + 1 \in all  BY <1>1
  <2>2. all = 1 .. Len(r)  BY <1>1
  <2>. QED  BY <2>1, <2>2
<1>4. Max(all) = n + 1  BY <1>1, <1>3, MaxTop
<1>5. all \ {n + 1} = 1 .. n  BY <1>1
<1>6. G[all] = h[<<G[all \ {Max(all)}], r[Max(all)]>>]
  <2> HIDE DEF all
  <2>. QED  BY <1>3 DEF Recurs, r
<1>7. G[1 .. n] = F[1 .. n]  BY <1>2
<1>. QED  BY <1>1, <1>4, <1>5, <1>6, <1>7 DEF n

-----------------------------------------------------------------------------
(* What has to be passed on, key by key                                    *)

TakeStep == [p \in Seq(Item) \X Item |-> Take(p[1], p[2])]

\* Take makes sequences of keys.
LEMMA TakeType == TakeStep \in [Seq(Item) \X Item -> Seq(Item)]
  BY DEF TakeStep, Take

\* WantedOf is such a fold.
LEMMA WantedFold ==
  ASSUME NEW s \in Seq(Item)
  PROVE  \E F : /\ F \in [SUBSET (1 .. Len(s)) -> Seq(Item)]
                /\ Recurs(F, TakeStep, << >>, s)
                /\ WantedOf(s) = F[1 .. Len(s)]
<1> DEFINE n == Len(s)
<1> DEFINE Body(G) == [t \in SUBSET DOMAIN s |->
                         IF t = {} THEN << >> ELSE Take(G[t \ {Max(t)}], s[Max(t)])]
<1> DEFINE I == CHOOSE G : G = Body(G)
<1>0. n \in Nat /\ DOMAIN s = 1 .. n /\ \A i \in 1 .. n : s[i] \in Item  OBVIOUS
<1>1. WantedOf(s) = I[DOMAIN s]
  BY DEF WantedOf, FoldLeft, MapThenFoldSet
<1>2. PICK F \in [SUBSET (1 .. n) -> Seq(Item)] : Recurs(F, TakeStep, << >>, s)
  <2>1. << >> \in Seq(Item)  OBVIOUS
  <2>. QED  BY <2>1, TakeType, FoldExists
<1>3. ASSUME NEW t \in SUBSET (1 .. n), t # {}
      PROVE  F[t] = Take(F[t \ {Max(t)}], s[Max(t)])
  <2>1. Max(t) \in t  BY <1>0, <1>3, MaxIn
  <2>2. s[Max(t)] \in Item /\ t \ {Max(t)} \in SUBSET (1 .. n)  BY <1>0, <2>1
  <2>3. F[t] = TakeStep[<<F[t \ {Max(t)}], s[Max(t)]>>]  BY <1>2, <1>3 DEF Recurs
  <2>4. F[t \ {Max(t)}] \in Seq(Item)  BY <1>2, <2>2
  <2>. QED  BY <2>2, <2>3, <2>4 DEF TakeStep
<1>4. F[{}] = << >>  BY <1>2 DEF Recurs
<1>5. F = Body(F)
  <2>1. \A t \in SUBSET DOMAIN s : F[t] = Body(F)[t]  BY <1>0, <1>3, <1>4
  <2>. QED  BY <1>0, <1>2, <2>1
<1>6. I = Body(I)
  <2> HIDE DEF Body
  <2>. QED  BY <1>5
<1> HIDE DEF I
<1>7. Alike(F, I, n)
  <2>1. I[{}] = << >>  BY <1>6
  <2>2. ASSUME NEW t \in SUBSET (1 .. n), t # {}
        PROVE  I[t] = Take(I[t \ {Max(t)}], s[Max(t)])
    BY <1>0, <1>6, <2>2
  <2>. QED  BY <1>3, <1>4, <2>1, <2>2 DEF Alike
<1>8. F[1 .. n] = I[1 .. n]
  <2>1. 1 .. n \in SUBSET (1 .. n)  OBVIOUS
  <2>. QED  BY <1>0, <1>7, <2>1, FoldUnique
<1>. QED  BY <1>0, <1>1, <1>2, <1>8

\* Key by key.
LEMMA WantedAppend ==
  /\ WantedOf(<< >>) = << >>
  /\ \A s \in Seq(Item) : WantedOf(s) \in Seq(Item)
  /\ \A s \in Seq(Item), e \in Item : WantedOf(Append(s, e)) = Take(WantedOf(s), e)
<1>1. WantedOf(<< >>) = << >>
  <2>1. << >> \in Seq(Item) /\ Len(<< >>) = 0 /\ 1 .. 0 = {}  OBVIOUS
  <2>. QED  BY <2>1, WantedFold DEF Recurs
<1>2. ASSUME NEW s \in Seq(Item)  PROVE WantedOf(s) \in Seq(Item)
  <2>1. 1 .. Len(s) \in SUBSET (1 .. Len(s))  OBVIOUS
  <2>2. PICK F \in [SUBSET (1 .. Len(s)) -> Seq(Item)] : WantedOf(s) = F[1 .. Len(s)]
    BY WantedFold
  <2>. QED  BY <2>1, <2>2
<1>3. ASSUME NEW s \in Seq(Item), NEW e \in Item
      PROVE  WantedOf(Append(s, e)) = Take(WantedOf(s), e)
  <2>1. Append(s, e) \in Seq(Item) /\ Len(Append(s, e)) = Len(s) + 1  OBVIOUS
  <2>2. PICK F : Recurs(F, TakeStep, << >>, s) /\ WantedOf(s) = F[1 .. Len(s)]
    BY WantedFold
  <2>3. PICK G : /\ Recurs(G, TakeStep, << >>, Append(s, e))
                 /\ WantedOf(Append(s, e)) = G[1 .. Len(s) + 1]
    BY <2>1, WantedFold
  <2>4. WantedOf(Append(s, e)) = TakeStep[<<WantedOf(s), e>>]
    BY <2>2, <2>3, FoldAppend
  <2>. QED  BY <1>2, <2>4 DEF TakeStep
<1>. QED  BY <1>1, <1>2, <1>3

\* Buffer by buffer.
LEMMA WantedConcat ==
  ASSUME NEW s \in Seq(Item), NEW t \in Seq(Item)
  PROVE  WantedOf(s \o t) = WantedOf(s) \o WantedOf(t)
<1> DEFINE bad == {m \in Nat : \E u \in Seq(Item) :
                     Len(u) = m /\ WantedOf(s \o u) # WantedOf(s) \o WantedOf(u)}
<1>1. bad = {}
  <2>1. SUFFICES ASSUME bad # {}  PROVE FALSE
    OBVIOUS
  <2>2. PICK m \in bad : \A k \in bad : m <= k
    <3>1. bad \in SUBSET Nat  OBVIOUS
    <3> HIDE DEF bad
    <3>. QED  BY <2>1, <3>1, Least
  <2>3. PICK u \in Seq(Item) : Len(u) = m /\ WantedOf(s \o u) # WantedOf(s) \o WantedOf(u)
    OBVIOUS
  <2>4. u # << >>
    <3>1. WantedOf(s) \in Seq(Item)  BY WantedAppend
    <3>2. s \o << >> = s /\ WantedOf(s) \o << >> = WantedOf(s)  BY <3>1
    <3>. QED  BY <2>3, <3>2, WantedAppend
  <2>5. PICK v \in Seq(Item), e \in Item : u = Append(v, e) /\ Len(v) = m - 1
    <3>1. PICK v \in Seq(Item), e \in Item : u = Append(v, e)
      <4> HIDE DEF bad
      <4>. QED  BY <2>4, SequenceEmptyOrAppend
    <3>2. Len(v) = m - 1  BY <2>3, <3>1
    <3>. QED  BY <3>1, <3>2
  <2>6. WantedOf(s \o v) = WantedOf(s) \o WantedOf(v)
    <3>1. Len(v) \in Nat /\ ~ (m <= m - 1)  BY <2>5
    <3>2. m - 1 \notin bad
      <4> HIDE DEF bad
      <4>. QED  BY <2>2, <3>1
    <3>. QED  BY <2>5, <3>1, <3>2
  <2>7. s \o u = Append(s \o v, e) /\ s \o v \in Seq(Item)
    <3>1. u = Append(v, e)  BY <2>5
    <3>2. s \o Append(v, e) = Append(s \o v, e) /\ s \o v \in Seq(Item)
      <4> HIDE DEF bad
      <4>. QED  OBVIOUS
    <3>. QED  BY <3>1, <3>2, Zenon
  <2>8. WantedOf(s \o u) = Take(WantedOf(s) \o WantedOf(v), e)
    BY <2>5, <2>6, <2>7, WantedAppend
  <2>9. WantedOf(u) = Take(WantedOf(v), e)  BY <2>5, WantedAppend
  <2>10. WantedOf(s) \in Seq(Item) /\ WantedOf(v) \in Seq(Item)  BY WantedAppend
  <2>11. \A p, q \in Seq(Item) : p \o Append(q, e) = Append(p \o q, e)
    BY <2>5, SMTT(30)
  <2>12. WantedOf(s \o u) = WantedOf(s) \o WantedOf(u)
    <3>1. CASE Wanted(e)
      <4>1. WantedOf(s \o u) = Append(WantedOf(s) \o WantedOf(v), e)
        BY <2>8, <3>1 DEF Take
      <4>2. WantedOf(u) = Append(WantedOf(v), e)  BY <2>9, <3>1 DEF Take
      <4> DEFINE ws == WantedOf(s)
                 wv == WantedOf(v)
      <4>3. ws \in Seq(Item) /\ wv \in Seq(Item)  BY <2>10
      <4> HIDE DEF ws, wv
      <4>4. ws \o Append(wv, e) = Append(ws \o wv, e)  BY <2>11, <4>3
      <4>. QED  BY <4>1, <4>2, <4>4 DEF ws, wv
    <3>2. CASE ~ Wanted(e)  BY <2>8, <2>9, <3>2 DEF Take
    <3>. QED  BY <3>1, <3>2
  <2>. QED  BY <2>3, <2>12
<1>2. Len(t) \in Nat  OBVIOUS
<1>. QED  BY <1>1, <1>2

\* What is passed on so far is what of the keys before start has to be.
PassInv ==
  passed \in Seq(Item) /\ WantedOf(passed) = WantedOf(SubSeq(batch, 1, start - 1))

\* The buffer up to the key looked at, that key and the piece not passed on yet.
LEMMA BufferParts ==
  ASSUME Inv, PassInv
  PROVE  /\ SubSeq(batch, start, at - 1) \in Seq(Item) /\ SubSeq(batch, 1, at - 1) \in Seq(Item)
         /\ WantedOf(passed \o SubSeq(batch, start, at - 1)) = WantedOf(SubSeq(batch, 1, at - 1))
         /\ Step => /\ SubSeq(batch, start, at) \in Seq(Item)
                    /\ WantedOf(passed \o SubSeq(batch, start, at)) = WantedOf(SubSeq(batch, 1, at))
                    /\ WantedOf(SubSeq(batch, 1, at)) = Take(WantedOf(SubSeq(batch, 1, at - 1)), batch[at])
<1> DEFINE l == Len(batch)
<1>1. batch \in Seq(Item) /\ l \in Nat /\ at \in 1 .. l + 1 /\ start \in 1 .. at
      /\ passed \in Seq(Item)
  BY DEF Inv, KeyType, PassInv
<1>2. ASSUME NEW n \in start - 1 .. l
      PROVE  /\ SubSeq(batch, start, n) \in Seq(Item)
             /\ SubSeq(batch, 1, n) \in Seq(Item)
             /\ WantedOf(passed \o SubSeq(batch, start, n)) = WantedOf(SubSeq(batch, 1, n))
  <2> DEFINE p == SubSeq(batch, 1, start - 1)
             q == SubSeq(batch, start, n)
  <2>1. \A i \in 1 .. l : batch[i] \in Item  BY <1>1
  <2>2. start \in Nat \ {0} /\ start <= l + 1 /\ n \in Nat /\ n <= l  BY <1>1
  <2>3. q \in Seq(Item)
    <3>1. \A i \in start .. n : batch[i] \in Item  BY <2>1, <2>2
    <3>2. start \in Int /\ n \in Int  BY <2>2
    <3>. QED  BY <3>1, <3>2, SubSeqProperties
  <2>4. p \in Seq(Item)
    <3>1. \A i \in 1 .. start - 1 : batch[i] \in Item  BY <2>1, <2>2
    <3>2. 1 \in Int /\ start - 1 \in Int  BY <2>2
    <3>. QED  BY <3>1, <3>2, SubSeqProperties
  <2>5. p \o q = SubSeq(batch, 1, n)
    <3>1. /\ 1 \in 1 .. l + 1 /\ start - 1 \in 1 - 1 .. l /\ n \in start - 1 .. l
          /\ start - 1 + 1 = start
      BY <2>2
    <3> DEFINE k == start - 1
    <3> HIDE DEF k
    <3>2. SubSeq(batch, 1, k) \o SubSeq(batch, k + 1, n) = SubSeq(batch, 1, n)
      BY <1>1, <3>1, ConcatAdjacentSubSeq DEF k
    <3>. QED  BY <3>1, <3>2 DEF k
  <2>6. WantedOf(passed) = WantedOf(p)  BY DEF PassInv
  <2> HIDE DEF p, q
  <2>7. p \o q \in Seq(Item)  BY <2>3, <2>4
  <2>8. WantedOf(passed \o q) = WantedOf(p \o q)
    <3>1. WantedOf(passed \o q) = WantedOf(passed) \o WantedOf(q)
      BY <1>1, <2>3, WantedConcat
    <3>2. WantedOf(p \o q) = WantedOf(p) \o WantedOf(q)  BY <2>3, <2>4, WantedConcat
    <3>. QED  BY <2>6, <3>1, <3>2
  <2>. QED  BY <2>3, <2>5, <2>7, <2>8 DEF q
<1>3. at - 1 \in start - 1 .. l  BY <1>1
<1>4. ASSUME Step
      PROVE  /\ at \in start - 1 .. l
             /\ WantedOf(SubSeq(batch, 1, at)) = Take(WantedOf(SubSeq(batch, 1, at - 1)), batch[at])
  <2>1. 1 \in 1 .. l /\ at \in 1 .. l /\ batch[at] \in Item /\ at \in start - 1 .. l
    BY <1>1, <1>4 DEF Step
  <2> DEFINE r == SubSeq(batch, 1, at - 1)
  <2>2. r \in Seq(Item)  BY <1>2, <1>3
  <2>3. SubSeq(batch, 1, at) = r \o <<batch[at]>>
    BY <1>1, <2>1, SubSeqRecursiveSecond
  <2> HIDE DEF r
  <2>4. r \o <<batch[at]>> = Append(r, batch[at])  BY <2>1, <2>2, AppendIsConcat
  <2>5. WantedOf(Append(r, batch[at])) = Take(WantedOf(r), batch[at])
    BY <2>1, <2>2, WantedAppend
  <2>. QED  BY <2>1, <2>3, <2>4, <2>5 DEF r
<1>. QED  BY <1>2, <1>3, <1>4

\* No key is before the first.
LEMMA NothingYet ==
  ASSUME NEW s, NEW n, n = 1
  PROVE  SubSeq(s, 1, n - 1) = << >>
<1>1. 1 \in Int /\ n - 1 \in Int /\ n - 1 < 1  OBVIOUS
<1>. QED  BY <1>1, SubSeqEmpty

\* Cutting the buffer neither loses a key nor passes one on twice.
LEMMA PassStep == Inv /\ PassInv /\ [Next]_vars => PassInv'
<1> SUFFICES ASSUME Inv, PassInv, [Next]_vars PROVE PassInv'  OBVIOUS
<1>2. CASE ReadShortcut \/ ReadStrayRelease
  <2>1. /\ Step /\ batch' = batch /\ start' = at + 1
        /\ passed' = passed \o SubSeq(batch, start, at - 1)
        /\ ~ Wanted(batch[at])
    BY <1>2 DEF ReadShortcut, ReadStrayRelease, Wanted
  <2>2. WantedOf(passed') = WantedOf(SubSeq(batch, 1, at)) /\ passed' \in Seq(Item)
    <3>1. passed \in Seq(Item)  BY DEF PassInv
    <3>. QED  BY <2>1, <3>1, BufferParts DEF Take
  <2>3. start' - 1 = at  BY <2>1 DEF Inv, KeyType
  <2>. QED  BY <2>1, <2>2, <2>3 DEF PassInv
<1>3. CASE ReadRawShortcut
  <2>1. /\ Step /\ batch' = batch /\ start' = at + 1
        /\ passed' = passed \o SubSeq(batch, start, at)
    BY <1>3 DEF ReadRawShortcut
  <2>2. WantedOf(passed') = WantedOf(SubSeq(batch, 1, at)) /\ passed' \in Seq(Item)
    <3>1. passed \in Seq(Item)  BY DEF PassInv
    <3>. QED  BY <2>1, <3>1, BufferParts
  <2>3. start' - 1 = at  BY <2>1 DEF Inv, KeyType
  <2>. QED  BY <2>1, <2>2, <2>3 DEF PassInv
<1>4. CASE Read \/ Finish
  <2>1. passed' = << >> /\ start' = 1  BY <1>4 DEF Read, Finish
  <2>2. SubSeq(batch', 1, start' - 1) = << >>  BY <2>1, NothingYet
  <2>3. << >> \in Seq(Item)  OBVIOUS
  <2>. QED  BY <2>1, <2>2, <2>3 DEF PassInv
<1>5. CASE \/ \E k \in Key : Press(k) \/ Release(k)
           \/ ReadChar \/ ReadRawKey \/ LeaveVc \/ EnterVc \/ UNCHANGED vars
  <2>1. UNCHANGED <<passed, batch, start>>
    BY <1>5 DEF Press, Release, Strike, ReadChar, ReadRawKey, LeaveVc, EnterVc, reading, vars
  <2>. QED  BY <2>1 DEF PassInv
<1>. QED  BY <1>2, <1>3, <1>4, <1>5 DEF Next

\* Every press and every character that is no shortcut is passed on once and in
\* order, into however many pieces shortcuts and releases cut the buffer
\* (readyRead, processRawKeys).
THEOREM KeysPassedOnceAlways == Spec => []KeysPassedOnce
<1>1. Init => PassInv
  <2> SUFFICES ASSUME Init PROVE PassInv  OBVIOUS
  <2>1. passed = << >> /\ start = 1  BY DEF Init
  <2>2. SubSeq(batch, 1, start - 1) = << >>  BY <2>1, NothingYet
  <2>3. << >> \in Seq(Item)  OBVIOUS
  <2>. QED  BY <2>1, <2>2, <2>3 DEF PassInv
<1>2. Inv /\ PassInv => KeysPassedOnce  BY BufferParts DEF KeysPassedOnce
<1>. QED  BY <1>1, <1>2, PassStep, Invariance, PTL DEF Spec

-----------------------------------------------------------------------------
(* What a server makes of the keys it is sent                              *)

FollowStep == [p \in (SUBSET Key) \X Item |-> Follow(p[1], p[2])]

\* Follow makes sets of keys.
LEMMA FollowType == FollowStep \in [(SUBSET Key) \X Item -> SUBSET Key]
<1>1. ASSUME NEW d \in SUBSET Key, NEW e \in Item  PROVE Follow(d, e) \in SUBSET Key
  <2>1. e.key \in Key  BY DEF Item
  <2>. QED  BY <2>1 DEF Follow
<1>. QED  BY <1>1 DEF FollowStep

\* Following the keys of a piece is such a fold.
LEMMA FollowFold ==
  ASSUME NEW b \in SUBSET Key, NEW s \in Seq(Item)
  PROVE  \E F : /\ F \in [SUBSET (1 .. Len(s)) -> SUBSET Key]
                /\ Recurs(F, FollowStep, b, s)
                /\ FoldLeft(Follow, b, s) = F[1 .. Len(s)]
<1> DEFINE n == Len(s)
<1> DEFINE Body(G) == [t \in SUBSET DOMAIN s |->
                         IF t = {} THEN b ELSE Follow(G[t \ {Max(t)}], s[Max(t)])]
<1> DEFINE I == CHOOSE G : G = Body(G)
<1>0. n \in Nat /\ DOMAIN s = 1 .. n /\ \A i \in 1 .. n : s[i] \in Item  OBVIOUS
<1>1. FoldLeft(Follow, b, s) = I[DOMAIN s]
  BY DEF FoldLeft, MapThenFoldSet
<1>2. PICK F \in [SUBSET (1 .. n) -> SUBSET Key] : Recurs(F, FollowStep, b, s)
  BY FollowType, FoldExists
<1>3. ASSUME NEW t \in SUBSET (1 .. n), t # {}
      PROVE  F[t] = Follow(F[t \ {Max(t)}], s[Max(t)])
  <2>1. Max(t) \in t  BY <1>0, <1>3, MaxIn
  <2>2. s[Max(t)] \in Item /\ t \ {Max(t)} \in SUBSET (1 .. n)  BY <1>0, <2>1
  <2>3. F[t] = FollowStep[<<F[t \ {Max(t)}], s[Max(t)]>>]  BY <1>2, <1>3 DEF Recurs
  <2>4. F[t \ {Max(t)}] \in SUBSET Key  BY <1>2, <2>2
  <2>. QED  BY <2>2, <2>3, <2>4 DEF FollowStep
<1>4. F[{}] = b  BY <1>2 DEF Recurs
<1>5. F = Body(F)
  <2>1. \A t \in SUBSET DOMAIN s : F[t] = Body(F)[t]  BY <1>0, <1>3, <1>4
  <2>. QED  BY <1>0, <1>2, <2>1
<1>6. I = Body(I)
  <2> HIDE DEF Body
  <2>. QED  BY <1>5
<1> HIDE DEF I
<1>7. Alike(F, I, n)
  <2>1. I[{}] = b  BY <1>6
  <2>2. ASSUME NEW t \in SUBSET (1 .. n), t # {}
        PROVE  I[t] = Follow(I[t \ {Max(t)}], s[Max(t)])
    BY <1>0, <1>6, <2>2
  <2>. QED  BY <1>3, <1>4, <2>1, <2>2 DEF Alike
<1>8. F[1 .. n] = I[1 .. n]
  <2>1. 1 .. n \in SUBSET (1 .. n)  OBVIOUS
  <2>. QED  BY <1>0, <1>7, <2>1, FoldUnique
<1>. QED  BY <1>0, <1>1, <1>2, <1>8

\* Key by key.
LEMMA FollowAppend ==
  ASSUME NEW b \in SUBSET Key
  PROVE  /\ FoldLeft(Follow, b, << >>) = b
         /\ \A s \in Seq(Item) : FoldLeft(Follow, b, s) \in SUBSET Key
         /\ \A s \in Seq(Item), e \in Item :
              FoldLeft(Follow, b, Append(s, e)) = Follow(FoldLeft(Follow, b, s), e)
<1>1. FoldLeft(Follow, b, << >>) = b
  <2>1. << >> \in Seq(Item) /\ Len(<< >>) = 0 /\ 1 .. 0 = {}  OBVIOUS
  <2>2. PICK F : /\ Recurs(F, FollowStep, b, << >>)
                 /\ FoldLeft(Follow, b, << >>) = F[1 .. Len(<< >>)]
    BY <2>1, FollowFold
  <2>. QED  BY <2>1, <2>2 DEF Recurs
<1>2. ASSUME NEW s \in Seq(Item)  PROVE FoldLeft(Follow, b, s) \in SUBSET Key
  <2>1. 1 .. Len(s) \in SUBSET (1 .. Len(s))  OBVIOUS
  <2>2. PICK F \in [SUBSET (1 .. Len(s)) -> SUBSET Key] : FoldLeft(Follow, b, s) = F[1 .. Len(s)]
    BY FollowFold
  <2>. QED  BY <2>1, <2>2
<1>3. ASSUME NEW s \in Seq(Item), NEW e \in Item
      PROVE  FoldLeft(Follow, b, Append(s, e)) = Follow(FoldLeft(Follow, b, s), e)
  <2>1. Append(s, e) \in Seq(Item) /\ Len(Append(s, e)) = Len(s) + 1  OBVIOUS
  <2>2. PICK F : Recurs(F, FollowStep, b, s) /\ FoldLeft(Follow, b, s) = F[1 .. Len(s)]
    BY FollowFold
  <2>3. PICK G : /\ Recurs(G, FollowStep, b, Append(s, e))
                 /\ FoldLeft(Follow, b, Append(s, e)) = G[1 .. Len(s) + 1]
    BY <2>1, FollowFold
  <2>4. FoldLeft(Follow, b, Append(s, e)) = FollowStep[<<FoldLeft(Follow, b, s), e>>]
    BY <2>2, <2>3, FoldAppend
  <2>. QED  BY <1>2, <2>4 DEF FollowStep
<1>. QED  BY <1>1, <1>2, <1>3

\* What the servers have seen, and the pieces passed on.
Sees == [Win -> SUBSET Key]
Passed == [win : Win, keys : Seq(Item), via : {"server", "program", "freed"}]
SeeStep == [p \in Sees \X Passed |-> See(p[1], p[2])]

\* A piece changes what the server of its window has seen.
LEMMA SeeOne ==
  ASSUME NEW sees \in Sees, NEW p \in Passed
  PROVE  /\ See(sees, p) \in Sees
         /\ \A w \in Win : See(sees, p)[w] =
              IF w = p.win /\ p.via = "server" THEN FoldLeft(Follow, sees[w], p.keys)
              ELSE sees[w]
<1>1. p.win \in Win /\ p.keys \in Seq(Item)  BY DEF Passed
<1>2. FoldLeft(Follow, sees[p.win], p.keys) \in SUBSET Key
  <2>1. sees[p.win] \in SUBSET Key  BY <1>1 DEF Sees
  <2>. QED  BY <1>1, <2>1, FollowAppend
<1>. QED  BY <1>1, <1>2 DEF See, Sees

\* See makes such a record of what was seen.
LEMMA SeeType == SeeStep \in [Sees \X Passed -> Sees]
  BY SeeOne DEF SeeStep

\* Following the pieces of a step is such a fold.
LEMMA SeeFold ==
  ASSUME NEW b \in Sees, NEW s \in Seq(Passed)
  PROVE  \E F : /\ F \in [SUBSET (1 .. Len(s)) -> Sees]
                /\ Recurs(F, SeeStep, b, s)
                /\ FoldLeft(See, b, s) = F[1 .. Len(s)]
<1> DEFINE n == Len(s)
<1> DEFINE Body(G) == [t \in SUBSET DOMAIN s |->
                         IF t = {} THEN b ELSE See(G[t \ {Max(t)}], s[Max(t)])]
<1> DEFINE I == CHOOSE G : G = Body(G)
<1>0. n \in Nat /\ DOMAIN s = 1 .. n /\ \A i \in 1 .. n : s[i] \in Passed  OBVIOUS
<1>1. FoldLeft(See, b, s) = I[DOMAIN s]
  BY DEF FoldLeft, MapThenFoldSet
<1>2. PICK F \in [SUBSET (1 .. n) -> Sees] : Recurs(F, SeeStep, b, s)
  BY SeeType, FoldExists
<1>3. ASSUME NEW t \in SUBSET (1 .. n), t # {}
      PROVE  F[t] = See(F[t \ {Max(t)}], s[Max(t)])
  <2>1. Max(t) \in t  BY <1>0, <1>3, MaxIn
  <2>2. s[Max(t)] \in Passed /\ t \ {Max(t)} \in SUBSET (1 .. n)  BY <1>0, <2>1
  <2>3. F[t] = SeeStep[<<F[t \ {Max(t)}], s[Max(t)]>>]  BY <1>2, <1>3 DEF Recurs
  <2>4. F[t \ {Max(t)}] \in Sees  BY <1>2, <2>2
  <2>. QED  BY <2>2, <2>3, <2>4 DEF SeeStep
<1>4. F[{}] = b  BY <1>2 DEF Recurs
<1>5. F = Body(F)
  <2>1. \A t \in SUBSET DOMAIN s : F[t] = Body(F)[t]  BY <1>0, <1>3, <1>4
  <2>. QED  BY <1>0, <1>2, <2>1
<1>6. I = Body(I)
  <2> HIDE DEF Body
  <2>. QED  BY <1>5
<1> HIDE DEF I
<1>7. Alike(F, I, n)
  <2>1. I[{}] = b  BY <1>6
  <2>2. ASSUME NEW t \in SUBSET (1 .. n), t # {}
        PROVE  I[t] = See(I[t \ {Max(t)}], s[Max(t)])
    BY <1>0, <1>6, <2>2
  <2>. QED  BY <1>3, <1>4, <2>1, <2>2 DEF Alike
<1>8. F[1 .. n] = I[1 .. n]
  <2>1. 1 .. n \in SUBSET (1 .. n)  OBVIOUS
  <2>. QED  BY <1>0, <1>7, <2>1, FoldUnique
<1>. QED  BY <1>0, <1>1, <1>2, <1>8

\* Piece by piece.
LEMMA SeeAppend ==
  ASSUME NEW b \in Sees
  PROVE  /\ FoldLeft(See, b, << >>) = b
         /\ \A s \in Seq(Passed) : FoldLeft(See, b, s) \in Sees
         /\ \A s \in Seq(Passed), e \in Passed :
              FoldLeft(See, b, Append(s, e)) = See(FoldLeft(See, b, s), e)
<1>1. FoldLeft(See, b, << >>) = b
  <2>1. << >> \in Seq(Passed) /\ Len(<< >>) = 0 /\ 1 .. 0 = {}  OBVIOUS
  <2>2. PICK F : /\ Recurs(F, SeeStep, b, << >>)
                 /\ FoldLeft(See, b, << >>) = F[1 .. Len(<< >>)]
    BY <2>1, SeeFold
  <2>. QED  BY <2>1, <2>2 DEF Recurs
<1>2. ASSUME NEW s \in Seq(Passed)  PROVE FoldLeft(See, b, s) \in Sees
  <2>1. 1 .. Len(s) \in SUBSET (1 .. Len(s))  OBVIOUS
  <2>2. PICK F \in [SUBSET (1 .. Len(s)) -> Sees] : FoldLeft(See, b, s) = F[1 .. Len(s)]
    BY SeeFold
  <2>. QED  BY <2>1, <2>2
<1>3. ASSUME NEW s \in Seq(Passed), NEW e \in Passed
      PROVE  FoldLeft(See, b, Append(s, e)) = See(FoldLeft(See, b, s), e)
  <2>1. Append(s, e) \in Seq(Passed) /\ Len(Append(s, e)) = Len(s) + 1  OBVIOUS
  <2>2. PICK F : Recurs(F, SeeStep, b, s) /\ FoldLeft(See, b, s) = F[1 .. Len(s)]
    BY SeeFold
  <2>3. PICK G : /\ Recurs(G, SeeStep, b, Append(s, e))
                 /\ FoldLeft(See, b, Append(s, e)) = G[1 .. Len(s) + 1]
    BY <2>1, SeeFold
  <2>4. FoldLeft(See, b, Append(s, e)) = SeeStep[<<FoldLeft(See, b, s), e>>]
    BY <2>2, <2>3, FoldAppend
  <2>. QED  BY <1>2, <2>4 DEF SeeStep
<1>. QED  BY <1>1, <1>2, <1>3

-----------------------------------------------------------------------------
(* The releases made up                                                    *)

\* Releases makes up one release of each key that is down.
LEMMA ReleasesOfDown ==
  ASSUME NEW d \in SUBSET Key, IsFiniteSet(d)
  PROVE  /\ Releases(d) \in Seq(Item)
         /\ \A i \in 1 .. Len(Releases(d)) :
              Releases(d)[i].raw /\ ~ Releases(d)[i].down /\ Releases(d)[i].key \in d
         /\ \A i, j \in 1 .. Len(Releases(d)) :
              Releases(d)[i].key = Releases(d)[j].key => i = j
         /\ \A k \in d : \E i \in 1 .. Len(Releases(d)) : Releases(d)[i].key = k
<1> DEFINE T == {RawKey(k, FALSE) : k \in d}
           n == Cardinality(T)
           f == Releases(d)
           g == [k \in d |-> RawKey(k, FALSE)]
<1>1. IsFiniteSet(T)
  <2>1. g \in Surjection(d, T)  BY DEF Surjection
  <2> HIDE DEF g, T
  <2>. QED  BY <2>1, FS_Surjection
<1>0. ASSUME NEW k \in d
      PROVE  /\ RawKey(k, FALSE) \in Item /\ RawKey(k, FALSE).raw
             /\ ~ RawKey(k, FALSE).down /\ RawKey(k, FALSE).key = k
  <2>1. k \in Key  OBVIOUS
  <2>. QED  BY <2>1 DEF RawKey, Item
<1>2. ASSUME NEW r \in T PROVE r \in Item /\ r.raw /\ ~ r.down /\ r.key \in d
  <2>1. PICK k \in d : r = RawKey(k, FALSE)  BY Zenon
  <2>2. /\ RawKey(k, FALSE) \in Item /\ RawKey(k, FALSE).raw
        /\ ~ RawKey(k, FALSE).down /\ RawKey(k, FALSE).key = k
    BY <1>0, Zenon
  <2>. QED  BY <2>1, <2>2, Zenon
<1>3. ASSUME NEW r \in T, NEW q \in T, r.key = q.key  PROVE r = q
  <2>1. PICK k \in d : r = RawKey(k, FALSE)  BY Zenon
  <2>2. PICK j \in d : q = RawKey(j, FALSE)  BY Zenon
  <2>3. RawKey(k, FALSE).key = k /\ RawKey(j, FALSE).key = j  BY <1>0, Zenon
  <2>4. k = j  BY <1>3, <2>1, <2>2, <2>3, Zenon
  <2>. QED  BY <2>1, <2>2, <2>4, Zenon
<1>4. \A k \in d : \E r \in T : r.key = k  BY <1>0
<1>5. f = CHOOSE h \in [1 .. n -> T] : IsInjective(h)  BY DEF Releases, SetToSeq
<1> HIDE DEF T, g
<1>6. n \in Nat /\ ExistsBijection(1 .. n, T)  BY <1>1, FS_CardinalityType
<1> HIDE DEF f, n
<1>7. f \in [1 .. n -> T] /\ IsInjective(f)
  <2>1. PICK h : h \in Bijection(1 .. n, T)  BY <1>6 DEF ExistsBijection
  <2>2. h \in [1 .. n -> T] /\ IsInjective(h)  BY <2>1 DEF Bijection, Injection
  <2>. QED  BY <1>5, <2>2
<1>8. f \in Surjection(1 .. n, T)
  <2>1. IsFiniteSet(1 .. n) /\ Cardinality(1 .. n) = n
    <3>1. 1 \in Int /\ n \in Int  BY <1>6
    <3>. QED  BY <1>6, <3>1, FS_Interval
  <2>2. f \in Injection(1 .. n, T)  BY <1>7 DEF Injection
  <2>3. Cardinality(1 .. n) = Cardinality(T)  BY <2>1 DEF n
  <2>. QED  BY <1>1, <2>1, <2>2, <2>3, FS_Injection
<1>9. f \in Seq(T) /\ Len(f) = n /\ DOMAIN f = 1 .. n  BY <1>6, <1>7
<1>10. \A i \in 1 .. n : f[i] \in T  BY <1>7
<1>11. f \in Seq(Item)
  <2>1. T \subseteq Item  BY <1>2
  <2>. QED  BY <1>9, <2>1, SeqMonotonic
<1>12. \A i, j \in 1 .. n : f[i].key = f[j].key => i = j
  BY <1>3, <1>7, <1>9, <1>10 DEF IsInjective
<1>13. ASSUME NEW k \in d  PROVE \E i \in 1 .. n : f[i].key = k
  <2>1. PICK r \in T : r.key = k  BY <1>4
  <2>2. PICK i \in 1 .. n : f[i] = r  BY <1>8 DEF Surjection
  <2>. QED  BY <2>1, <2>2
<1>14. \A i \in 1 .. n : f[i].raw /\ ~ f[i].down /\ f[i].key \in d  BY <1>2, <1>10
<1>. QED  BY <1>9, <1>11, <1>12, <1>13, <1>14 DEF f

\* What releases leave of the keys seen pressed.
LEMMA FollowReleases ==
  ASSUME NEW d \in SUBSET Key, NEW s \in Seq(Item), \A i \in 1 .. Len(s) : ~ s[i].down
  PROVE  FoldLeft(Follow, d, s) = {k \in d : \A i \in 1 .. Len(s) : s[i].key # k}
<1> DEFINE Kept(u) == {k \in d : \A i \in 1 .. Len(u) : u[i].key # k}
<1> DEFINE bad == {m \in Nat : \E u \in Seq(Item) :
                     /\ Len(u) = m /\ \A i \in 1 .. Len(u) : ~ u[i].down
                     /\ FoldLeft(Follow, d, u) # Kept(u)}
<1>1. bad = {}
  <2>1. SUFFICES ASSUME bad # {}  PROVE FALSE
    OBVIOUS
  <2>2. PICK m \in bad : \A k \in bad : m <= k
    <3>1. bad \in SUBSET Nat  OBVIOUS
    <3> HIDE DEF bad
    <3>. QED  BY <2>1, <3>1, Least
  <2>3. PICK u \in Seq(Item) : /\ Len(u) = m /\ \A i \in 1 .. Len(u) : ~ u[i].down
                               /\ FoldLeft(Follow, d, u) # Kept(u)
    OBVIOUS
  <2>4. u # << >>
    <3>1. SUFFICES ASSUME u = << >>  PROVE FALSE
      OBVIOUS
    <3>2. Kept(u) = d  BY <3>1
    <3>3. FoldLeft(Follow, d, u) = d  BY <3>1, FollowAppend
    <3>. QED  BY <2>3, <3>2, <3>3
  <2>5. PICK v \in Seq(Item), e \in Item : u = Append(v, e)
    <3> HIDE DEF bad
    <3>. QED  BY <2>4, SequenceEmptyOrAppend
  <2>6. /\ Len(v) \in Nat /\ Len(u) = Len(v) + 1 /\ u[Len(v) + 1] = e
        /\ \A i \in 1 .. Len(v) : u[i] = v[i]
    BY <2>5
  <2>7. ~ e.down /\ \A i \in 1 .. Len(v) : ~ v[i].down
    <3>1. Len(v) + 1 \in 1 .. Len(u) /\ \A i \in 1 .. Len(v) : i \in 1 .. Len(u)  BY <2>6
    <3>. QED  BY <2>3, <2>6, <3>1
  <2>8. FoldLeft(Follow, d, v) = Kept(v)
    <3>1. Len(v) = m - 1 /\ ~ (m <= m - 1)  BY <2>3, <2>6
    <3>2. m - 1 \notin bad
      <4> HIDE DEF bad
      <4>. QED  BY <2>2, <3>1
    <3> HIDE DEF Kept
    <3>. QED  BY <2>6, <2>7, <3>1, <3>2
  <2>9. FoldLeft(Follow, d, u) = Follow(Kept(v), e)
    <3>1. FoldLeft(Follow, d, Append(v, e)) = Follow(FoldLeft(Follow, d, v), e)
      <4>1. \A w \in Seq(Item), x \in Item :
              FoldLeft(Follow, d, Append(w, x)) = Follow(FoldLeft(Follow, d, w), x)
        <5> HIDE DEF bad
        <5>. QED  BY FollowAppend
      <4>. QED  BY <2>5, <4>1
    <3> HIDE DEF Kept
    <3>. QED  BY <2>5, <2>8, <3>1
  <2>10. Follow(Kept(v), e) = Kept(v) \ {e.key}  BY <2>7 DEF Follow
  <2>11. Kept(u) = Kept(v) \ {e.key}
    <3>1. ASSUME NEW k \in d
          PROVE  (\A i \in 1 .. Len(u) : u[i].key # k)
                   <=> (\A i \in 1 .. Len(v) : v[i].key # k) /\ e.key # k
      <4>1. 1 .. Len(u) = (1 .. Len(v)) \cup {Len(v) + 1}  BY <2>6
      <4>. QED  BY <2>6, <4>1
    <3>. QED  BY <3>1
  <2>. QED  BY <2>3, <2>9, <2>10, <2>11
<1>2. Len(s) \in Nat  OBVIOUS
<1>. QED  BY <1>1, <1>2

\* A server that has seen these keys pressed is told of the release of each of
\* them once, and then sees none down.
LEMMA ReleasesSeen ==
  ASSUME NEW d \in SUBSET Key, IsFiniteSet(d)
  PROVE  /\ FoldLeft(Follow, d, Releases(d)) = {}
         /\ \A n \in 1 .. Len(Releases(d)) :
              Releases(d)[n].key \in FoldLeft(Follow, d, SubSeq(Releases(d), 1, n - 1))
         /\ Releases(d) = << >> => d = {}
<1> DEFINE r == Releases(d)
<1>1. /\ r \in Seq(Item)
      /\ \A i \in 1 .. Len(r) : r[i].raw /\ ~ r[i].down /\ r[i].key \in d
      /\ \A i, j \in 1 .. Len(r) : r[i].key = r[j].key => i = j
      /\ \A k \in d : \E i \in 1 .. Len(r) : r[i].key = k
  BY ReleasesOfDown
<1> HIDE DEF r
<1>2. FoldLeft(Follow, d, r) = {}
  <2>1. \A i \in 1 .. Len(r) : ~ r[i].down  BY <1>1
  <2>2. FoldLeft(Follow, d, r) = {k \in d : \A i \in 1 .. Len(r) : r[i].key # k}
    BY <1>1, <2>1, FollowReleases
  <2>. QED  BY <1>1, <2>2
<1>3. ASSUME NEW n \in 1 .. Len(r)
      PROVE  r[n].key \in FoldLeft(Follow, d, SubSeq(r, 1, n - 1))
  <2> DEFINE q == SubSeq(r, 1, n - 1)
  <2>0. Len(r) \in Nat /\ n \in Nat \ {0} /\ n <= Len(r)  BY <1>1
  <2>1. q \in Seq(Item) /\ Len(q) = n - 1 /\ \A i \in 1 .. n - 1 : q[i] = r[i]
    <3>1. 1 \in Int /\ n - 1 \in Int /\ \A i \in 1 .. n - 1 : r[i] \in Item  BY <1>1, <2>0
    <3>2. /\ q \in Seq(Item)
          /\ Len(q) = IF 1 <= n - 1 THEN n - 1 - 1 + 1 ELSE 0
          /\ \A i \in 1 .. n - 1 - 1 + 1 : q[i] = r[1 + i - 1]
      BY <3>1, SubSeqProperties
    <3> HIDE DEF q
    <3>. QED  BY <2>0, <3>2
  <2> HIDE DEF q
  <2>2. \A i \in 1 .. n - 1 : i \in 1 .. Len(r) /\ i # n  BY <2>0
  <2>3. ASSUME NEW i \in 1 .. Len(q) PROVE ~ q[i].down /\ q[i].key # r[n].key
    <3>1. i \in 1 .. n - 1 /\ i \in 1 .. Len(r) /\ i # n /\ q[i] = r[i]  BY <2>1, <2>2
    <3>2. ~ r[i].down /\ r[i].key # r[n].key  BY <1>1, <3>1
    <3>. QED  BY <3>1, <3>2
  <2>4. FoldLeft(Follow, d, q) = {k \in d : \A i \in 1 .. Len(q) : q[i].key # k}
    BY <2>1, <2>3, FollowReleases
  <2>5. r[n].key \in d  BY <1>1
  <2>. QED  BY <2>3, <2>4, <2>5 DEF q
<1>4. r = << >> => d = {}
  <2>1. r = << >> => 1 .. Len(r) = {}  OBVIOUS
  <2>. QED  BY <1>1, <2>1
<1>. QED  BY <1>2, <1>3, <1>4 DEF r

-----------------------------------------------------------------------------
(* What the servers see of a step                                          *)

\* A server that has seen these keys pressed is told of no other release.
Followed(seen, keys) ==
  \A n \in DOMAIN keys : keys[n].raw /\ ~ keys[n].down =>
    keys[n].key \in FoldLeft(Follow, seen, SubSeq(keys, 1, n - 1))

\* So it is with every server that is sent one of the pieces.
AllFollowed(sees, ps) ==
  \A i \in DOMAIN ps :
    ps[i].via = "server" =>
      Followed(FoldLeft(See, sees, SubSeq(ps, 1, i - 1))[ps[i].win], ps[i].keys)

\* A sequence of two.
LEMMA Two ==
  ASSUME NEW S, NEW p \in S, NEW q \in S
  PROVE  Append(<<p>>, q) = <<p, q>> /\ SubSeq(<<p, q>>, 1, 2 - 1) = <<p>>
<1>1. <<p>> \in Seq(S) /\ Len(<<p>>) = 1 /\ <<p>>[1] = p  OBVIOUS
<1>2. /\ <<p, q>> \in Seq(S) /\ Len(<<p, q>>) = 2
      /\ <<p, q>>[1] = p /\ <<p, q>>[2] = q
  OBVIOUS
<1>3. Append(<<p>>, q) = <<p, q>>
  <2> DEFINE r == Append(<<p>>, q)
             t == <<p, q>>
  <2>1. r \in Seq(S) /\ Len(r) = 2 /\ r[1] = p /\ r[2] = q
    <3>1. /\ r \in Seq(S) /\ Len(r) = Len(<<p>>) + 1
          /\ \A i \in 1 .. Len(<<p>>) : r[i] = <<p>>[i]
          /\ r[Len(<<p>>) + 1] = q
      BY <1>1, AppendProperties
    <3> HIDE DEF r
    <3>. QED  BY <1>1, <3>1
  <2> HIDE DEF r, t
  <2>2. t \in Seq(S) /\ Len(t) = 2 /\ t[1] = p /\ t[2] = q  BY <1>2 DEF t
  <2>3. Len(r) = Len(t) /\ \A i \in 1 .. Len(r) : r[i] = t[i]  BY <2>1, <2>2
  <2>4. r = t  BY <2>1, <2>2, <2>3, SeqEqual
  <2>. QED  BY <2>4 DEF r, t
<1>4. SubSeq(<<p, q>>, 1, 2 - 1) = <<p>>
  <2> DEFINE t == <<p, q>>
             u == <<p>>
             r == SubSeq(t, 1, 2 - 1)
  <2>1. r \in Seq(S) /\ Len(r) = 1 /\ r[1] = p
    <3> HIDE DEF t
    <3>1. t[1] = p /\ t[1] \in S  BY <1>2 DEF t
    <3>2. 1 \in Int /\ 2 - 1 \in Int /\ \A i \in 1 .. 2 - 1 : t[i] \in S  BY <3>1
    <3>3. /\ r \in Seq(S) /\ Len(r) = IF 1 <= 2 - 1 THEN 2 - 1 - 1 + 1 ELSE 0
          /\ \A i \in 1 .. 2 - 1 - 1 + 1 : r[i] = t[1 + i - 1]
      BY <3>2, SubSeqProperties
    <3> HIDE DEF r
    <3>. QED  BY <3>1, <3>3
  <2> HIDE DEF r, u
  <2>2. u \in Seq(S) /\ Len(u) = 1 /\ u[1] = p  BY <1>1 DEF u
  <2>3. Len(r) = Len(u) /\ \A i \in 1 .. Len(r) : r[i] = u[i]  BY <2>1, <2>2
  <2>4. r = u  BY <2>1, <2>2, <2>3, SeqEqual
  <2>. QED  BY <2>4 DEF r, u
<1>. QED  BY <1>3, <1>4

\* One piece and two.
LEMMA SeePieces ==
  ASSUME NEW sees \in Sees, NEW p \in Passed, NEW q \in Passed
  PROVE  /\ FoldLeft(See, sees, << >>) = sees
         /\ FoldLeft(See, sees, <<p>>) = See(sees, p)
         /\ FoldLeft(See, sees, <<p, q>>) = See(See(sees, p), q)
         /\ <<p>> \in Seq(Passed) /\ <<p, q>> \in Seq(Passed)
<1>1. << >> \in Seq(Passed) /\ <<p>> \in Seq(Passed) /\ <<p, q>> \in Seq(Passed)  OBVIOUS
<1>2. Append(<< >>, p) = <<p>> /\ Append(<<p>>, q) = <<p, q>>
  <2>1. Append(<< >>, p) = <<p>>  OBVIOUS
  <2>2. Append(<<p>>, q) = <<p, q>>  BY Two
  <2>. QED  BY <2>1, <2>2
<1>3. /\ FoldLeft(See, sees, << >>) = sees
      /\ \A s \in Seq(Passed), e \in Passed :
           FoldLeft(See, sees, Append(s, e)) = See(FoldLeft(See, sees, s), e)
  BY SeeAppend
<1>4. /\ FoldLeft(See, sees, Append(<< >>, p)) = See(FoldLeft(See, sees, << >>), p)
      /\ FoldLeft(See, sees, Append(<<p>>, q)) = See(FoldLeft(See, sees, <<p>>), q)
  BY <1>1, <1>3
<1>. QED  BY <1>1, <1>2, <1>3, <1>4

\* One key.
LEMMA FollowOne ==
  ASSUME NEW d \in SUBSET Key, NEW e \in Item
  PROVE  /\ FoldLeft(Follow, d, << >>) = d
         /\ FoldLeft(Follow, d, <<e>>) = Follow(d, e)
<1>1. << >> \in Seq(Item) /\ Append(<< >>, e) = <<e>>  OBVIOUS
<1>2. /\ FoldLeft(Follow, d, << >>) = d
      /\ \A s \in Seq(Item), x \in Item :
           FoldLeft(Follow, d, Append(s, x)) = Follow(FoldLeft(Follow, d, s), x)
  BY FollowAppend
<1>3. FoldLeft(Follow, d, Append(<< >>, e)) = Follow(FoldLeft(Follow, d, << >>), e)
  BY <1>1, <1>2
<1>. QED  BY <1>1, <1>2, <1>3

\* Piece by piece.
LEMMA FollowedPieces ==
  ASSUME NEW sees \in Sees
  PROVE  /\ AllFollowed(sees, << >>)
         /\ \A p \in Passed :
              (p.via = "server" => Followed(sees[p.win], p.keys)) =>
                /\ AllFollowed(sees, <<p>>)
                /\ \A q \in Passed :
                     (q.via = "server" => Followed(See(sees, p)[q.win], q.keys)) =>
                       AllFollowed(sees, <<p, q>>)
<1>1. AllFollowed(sees, << >>)  BY DEF AllFollowed
<1>2. ASSUME NEW p \in Passed, p.via = "server" => Followed(sees[p.win], p.keys)
      PROVE  /\ AllFollowed(sees, <<p>>)
             /\ \A q \in Passed :
                  (q.via = "server" => Followed(See(sees, p)[q.win], q.keys)) =>
                    AllFollowed(sees, <<p, q>>)
  <2>1. \A ps, n : n = 1 => SubSeq(ps, 1, n - 1) = << >>  BY NothingYet
  <2>2. FoldLeft(See, sees, << >>) = sees  BY SeePieces
  <2>3. AllFollowed(sees, <<p>>)
    <3>1. DOMAIN <<p>> = {1} /\ <<p>>[1] = p  OBVIOUS
    <3>2. SubSeq(<<p>>, 1, 1 - 1) = << >>  BY <2>1
    <3>. QED  BY <1>2, <2>2, <3>1, <3>2 DEF AllFollowed
  <2>4. ASSUME NEW q \in Passed, q.via = "server" => Followed(See(sees, p)[q.win], q.keys)
        PROVE  AllFollowed(sees, <<p, q>>)
    <3> DEFINE ps == <<p, q>>
    <3>1. DOMAIN ps = {1, 2} /\ ps[1] = p /\ ps[2] = q  OBVIOUS
    <3>2. SubSeq(ps, 1, 1 - 1) = << >>  BY <2>1
    <3>3. SubSeq(ps, 1, 2 - 1) = <<p>>  BY Two
    <3>4. FoldLeft(See, sees, <<p>>) = See(sees, p)  BY SeePieces
    <3> HIDE DEF ps
    <3>5. ps[1].via = "server" =>
            Followed(FoldLeft(See, sees, SubSeq(ps, 1, 1 - 1))[ps[1].win], ps[1].keys)
      BY <1>2, <2>2, <3>1, <3>2
    <3>6. ps[2].via = "server" =>
            Followed(FoldLeft(See, sees, SubSeq(ps, 1, 2 - 1))[ps[2].win], ps[2].keys)
      BY <2>4, <3>1, <3>3, <3>4
    <3>7. AllFollowed(sees, ps)  BY <3>1, <3>5, <3>6 DEF AllFollowed
    <3>. QED  BY <3>7 DEF ps
  <2>. QED  BY <2>3, <2>4
<1>. QED  BY <1>1, <1>2

\* The servers' view after a step that passes these pieces on.
LEMMA PassSeen ==
  ASSUME NEW ps, Pass(ps), NEW seen \in Sees, seen = FoldLeft(See, imSees, ps)
  PROVE  /\ imSees' \in Sees
         /\ \A w \in Win : imSees'[w] = IF w \in on \cap on' THEN seen[w] ELSE {}
         /\ sent' = ps
<1>1. imSees' = [w \in Win |-> IF w \in on \cap on' THEN seen[w] ELSE {}] /\ sent' = ps
  BY DEF Pass
<1>. QED  BY <1>1 DEF Sees

\* The piece made up when a window is left whose server has seen these keys
\* pressed: it has then seen none.
LEMMA LeftSeen ==
  ASSUME NEW sees \in Sees, NEW d \in SUBSET Key, IsFiniteSet(d),
         cur \in Win, cur \in windows, cur \in on, rawMode, sees[cur] = d
  PROVE  \/ Left(cur, on, d) = << >> /\ d = {}
         \/ \E q \in Passed : /\ Left(cur, on, d) = <<q>> /\ q.win = cur
                              /\ \A w \in Win : See(sees, q)[w] = IF w = cur THEN {} ELSE sees[w]
                              /\ Followed(sees[cur], q.keys)
<1> DEFINE q == [win |-> cur, keys |-> Releases(d), via |-> "server"]
<1>0. cur # None  BY WinAssumption
<1>1. CASE Releases(d) = << >>
  <2>1. d = {}  BY <1>1, ReleasesSeen
  <2>2. Left(cur, on, d) = << >>  BY <1>1 DEF Left, Piece
  <2>. QED  BY <2>1, <2>2
<1>2. CASE Releases(d) # << >>
  <2>1. Left(cur, on, d) = <<q>>  BY <1>0, <1>2 DEF Left, Piece
  <2>2. q \in Passed /\ q.win = cur /\ q.via = "server" /\ q.keys = Releases(d)
    <3>1. Releases(d) \in Seq(Item)  BY ReleasesOfDown
    <3>2. \A r \in Seq(Item) : [win |-> cur, keys |-> r, via |-> "server"] \in Passed
      BY DEF Passed
    <3>. QED  BY <3>1, <3>2
  <2>3. FoldLeft(Follow, d, Releases(d)) = {}  BY ReleasesSeen
  <2> HIDE DEF q
  <2>4. \A w \in Win : See(sees, q)[w] = IF w = cur THEN {} ELSE sees[w]
    <3>1. \A w \in Win : See(sees, q)[w] =
            IF w = q.win /\ q.via = "server" THEN FoldLeft(Follow, sees[w], q.keys)
            ELSE sees[w]
      BY <2>2, SeeOne
    <3>. QED  BY <2>2, <2>3, <3>1
  <2>5. Followed(sees[cur], q.keys)
    <3>1. DOMAIN Releases(d) = 1 .. Len(Releases(d))  BY ReleasesOfDown
    <3>. QED  BY <2>2, <3>1, ReleasesSeen DEF Followed
  <2>. QED  BY <2>1, <2>2, <2>4, <2>5
<1>. QED  BY <1>1, <1>2

-----------------------------------------------------------------------------
(* What a server has seen pressed and what FbTerm takes to be down         *)

\* The key of a buffer of one has been looked at and not been passed on.
Behind == ~ Idle /\ start < at

\* Keys are looked at in the mode they were struck in.
RawInv == ~ Idle /\ ~ ahead /\ (at = 1 \/ start < at) => (batch[1].raw <=> rawMode)

\* The active window's server has seen pressed what FbTerm takes to be down, but
\* for the key looked at; the others have seen nothing pressed.
SeenInv ==
  RawInput /\ ~ ahead =>
    /\ imSees \in Sees
    /\ \A w \in Win : w \notin on \/ w # Active => imSees[w] = {}
    /\ front /\ cur \in on =>
         IF Behind
         THEN /\ keyDown = Follow(imSees[cur], batch[1])
              /\ ~ batch[1].down => batch[1].key \in imSees[cur]
         ELSE keyDown = imSees[cur]

\* What is true while the one key of a buffer is looked at.
LEMMA OneKeyRead ==
  ASSUME Inv, ReachInv, RawInv, ~ ahead, Step
  PROVE  /\ at = 1 /\ start = 1 /\ Len(batch) = 1 /\ front = TRUE /\ shell = cur
         /\ batch[at] \in Item /\ (batch[at].raw <=> rawMode)
         /\ Flush(at) = << >> /\ Flush(at + 1) = Piece(shell, on, <<batch[at]>>)
<1>1. Len(batch) = 1 /\ ~ Idle /\ front = TRUE /\ batch[at] \in Item /\ at \in 1 .. 1
  BY StepFacts DEF ReachInv
<1>2. at = 1 /\ start = 1  BY <1>1 DEF Inv, KeyType
<1>3. shell = cur /\ (batch[at].raw <=> rawMode)
  BY <1>1, <1>2 DEF ReachInv, RawInv, Active
<1>4. Flush(at) = << >>
  <2>1. SubSeq(batch, start, at - 1) = << >>  BY <1>2, NothingYet
  <2>. QED  BY <2>1 DEF Flush, Piece
<1>5. Flush(at + 1) = Piece(shell, on, <<batch[at]>>)
  <2>1. batch \in Seq(Item)  BY DEF Inv, KeyType
  <2>2. SubSeq(batch, 1, Len(batch)) = batch  BY <2>1, SubSeqFull
  <2>3. batch = <<batch[1]>>
    <3> DEFINE u == <<batch[1]>>
    <3>1. u \in Seq(Item) /\ Len(u) = 1 /\ u[1] = batch[1]  BY <1>1, <1>2
    <3> HIDE DEF u
    <3>2. Len(batch) = Len(u) /\ \A i \in 1 .. Len(batch) : batch[i] = u[i]  BY <1>1, <3>1
    <3>3. batch = u  BY <2>1, <3>1, <3>2, SeqEqual
    <3>. QED  BY <3>3 DEF u
  <2>4. ASSUME NEW n, n = at + 1
        PROVE  Flush(n) = Piece(shell, on, <<batch[at]>>)
    <3>1. n - 1 = Len(batch)  BY <1>1, <1>2, <2>4
    <3>2. Flush(n) = Piece(shell, on, SubSeq(batch, start, n - 1))  BY DEF Flush
    <3>. QED  BY <1>2, <2>2, <2>3, <3>1, <3>2
  <2>. QED  BY <2>4
<1>. QED  BY <1>1, <1>2, <1>3, <1>4, <1>5

\* What a shortcut passes on, according to whether the window that is left or
\* its server is still on.
LEMMA SysKeyPasses ==
  ASSUME Inv, NEW down, NEW mods, NEW pieces, SysKey(down, mods, pieces)
  PROVE  \/ Pass(pieces) /\ cur' = cur /\ on' = on /\ keyDown' = down
         \/ /\ Pass(pieces \o Left(cur, on, down)) /\ on' = on /\ cur' # cur
            /\ RawInput /\ cur' \in on' => keyDown' = {}
         \/ /\ Pass(pieces \o Left(cur, on', down)) /\ cur \notin on' /\ on' \subseteq on
            /\ RawInput /\ cur' \in on' => keyDown' = {}
         \/ Pass(pieces \o Left(cur, on', down)) /\ cur \notin on
<1>1. CASE Create(down, mods, pieces)
  <2>1. PICK v \in Win \ windows : on' = on /\ SwitchTo(v, down, mods, pieces)
    BY <1>1 DEF Create
  <2>2. v # cur  BY WinAssumption DEF Inv, KeyType
  <2>. QED  BY <2>1, <2>2 DEF SwitchTo, EndRawMode
<1>2. CASE Ignore(down, mods, pieces)
  BY <1>2 DEF Ignore, SameMode, manager
<1>3. CASE Toggle(down, mods, pieces)
  <2> DEFINE oni == IF cur \in on THEN on \ {cur} ELSE on \cup {cur}
  <2>1. /\ on' = oni /\ cur' = cur
        /\ EndRawMode(RawInput /\ cur \in oni, down, mods)
        /\ Pass(pieces \o Left(cur, oni, down))
    BY <1>3 DEF Toggle
  <2>. QED  BY <2>1
<1>4. CASE Kill(down, mods, pieces)
  <2>1. on' = on \ {cur} /\ cur' = cur  BY <1>4 DEF Kill
  <2>2. CASE cur \in on
    <3>1. Pass(pieces \o Left(cur, on', down))  BY <1>4, <2>2 DEF Kill
    <3>. QED  BY <2>1, <3>1
  <2>3. CASE cur \notin on
    <3>1. SameMode(down, mods) /\ Pass(pieces)  BY <1>4, <2>3 DEF Kill
    <3>. QED  BY <2>1, <2>3, <3>1 DEF SameMode
  <2>. QED  BY <2>2, <2>3
<1>5. CASE Switch(down, mods, pieces)
  <2>1. PICK v \in windows : SwitchTo(v, down, mods, pieces)  BY <1>5 DEF Switch
  <2>2. on' = on  BY <1>5 DEF Switch
  <2>. QED  BY <2>1, <2>2 DEF SwitchTo, SameMode, EndRawMode
<1>6. CASE Destroy(down, mods, pieces)
  <2>1. PICK v : cur' = v /\ EndRawMode(RawInput /\ v \in on', down, mods)
    BY <1>6 DEF Destroy
  <2>2. on' = on \ {cur} /\ Pass(pieces \o Left(cur, on', down))  BY <1>6 DEF Destroy
  <2>. QED  BY <2>1, <2>2 DEF EndRawMode
<1>. QED  BY <1>1, <1>2, <1>3, <1>4, <1>5, <1>6 DEF SysKey

\* Nothing passed on: servers see nothing.
LEMMA NothingPassed ==
  ASSUME imSees \in Sees, Pass(<< >>)
  PROVE  /\ imSees' \in Sees /\ sent' = << >>
         /\ \A w \in Win : imSees'[w] = IF w \in on \cap on' THEN imSees[w] ELSE {}
<1>1. FoldLeft(See, imSees, << >>) = imSees  BY SeeAppend
<1>. QED  BY <1>1, PassSeen

\* A finite number of keys is down.
LEMMA FiniteStep ==
  ASSUME Inv, IsFiniteSet(keyDown), [Next]_vars
  PROVE  IsFiniteSet(keyDown')
<1>1. IsFiniteSet({})  BY FS_EmptySet
<1>2. ASSUME NEW e PROVE IsFiniteSet(DownAfter(e))
  <2>1. IsFiniteSet(keyDown \cup {e.key})  BY FS_AddElement
  <2>2. IsFiniteSet(keyDown \ {e.key})  BY FS_RemoveElement
  <2>. QED  BY <2>1, <2>2 DEF DownAfter
<1>. QED  BY <1>1, <1>2, KeyStateStep

\* All servers have seen no key pressed, and none is taken to be down.
LEMMA NoneSeen ==
  ASSUME KeyType', imSees' \in Sees, \A w \in Win : imSees'[w] = {}, ~ Behind',
         front' /\ cur' \in on' => keyDown' = {}
  PROVE  SeenInv'
<1>1. cur' \in on' => cur' \in Win  BY DEF KeyType
<1>. QED  BY <1>1 DEF SeenInv

\* A shortcut of key codes: it is passed on itself, and when it leaves the window
\* and the server stays on, the keys that are down are released.
LEMMA RawShortcutSeen ==
  ASSUME Inv, Inv', IsFiniteSet(keyDown), ReachInv, RawInv, SeenInv, ~ ahead,
         ReadRawShortcut
  PROVE  SeenInv' /\ AllFollowed(imSees, sent')
<1> DEFINE e == batch[at]
           d == DownAfter(e)
           p == [win |-> cur, keys |-> <<e>>, via |-> "server"]
<1>1. /\ Step /\ e.raw /\ e.down
      /\ SysKey(d, modDown, Flush(at + 1))
      /\ at' = at + 1 /\ start' = at + 1 /\ front' = front
  BY DEF ReadRawShortcut, outside
<1>2. /\ at = 1 /\ start = 1 /\ front = TRUE /\ shell = cur /\ e \in Item /\ rawMode
  BY <1>1, OneKeyRead
<1>3. RawInput /\ cur \in on /\ cur \in windows /\ cur \in Win /\ cur # None /\ ~ Behind
  <2>1. RawInput /\ cur \in on  BY <1>2 DEF Inv, ModeInv
  <2>2. cur \in windows /\ cur \in Win  BY <2>1 DEF Inv, KeyType
  <2>. QED  BY <1>2, <2>1, <2>2, WinAssumption DEF Behind
<1>4. /\ imSees \in Sees /\ imSees[cur] = keyDown
      /\ \A w \in Win : w # cur => imSees[w] = {}
  BY <1>2, <1>3 DEF SeenInv, Active
<1>5. d \in SUBSET Key /\ IsFiniteSet(d) /\ d = Follow(keyDown, e) /\ e.key \in d /\ e.key \in Key
  <2>1. e.key \in Key /\ keyDown \in SUBSET Key  BY <1>2 DEF Inv, KeyType, Item
  <2>2. IsFiniteSet(keyDown \cup {e.key})  BY FS_AddElement
  <2>. QED  BY <1>1, <2>1, <2>2 DEF DownAfter, Follow
<1>6. Flush(at + 1) = <<p>>
  <2>1. <<e>> # << >>  OBVIOUS
  <2>2. Flush(at + 1) = Piece(cur, on, <<e>>)
    BY <1>1, <1>2, OneKeyRead
  <2>. QED  BY <1>3, <2>1, <2>2 DEF Piece
<1>7. p \in Passed /\ p.win = cur /\ p.via = "server" /\ p.keys = <<e>>
  <2>1. <<e>> \in Seq(Item)  BY <1>2
  <2>2. \A r \in Seq(Item) : [win |-> cur, keys |-> r, via |-> "server"] \in Passed
    BY <1>3 DEF Passed
  <2>. QED  BY <2>1, <2>2
<1> HIDE DEF e, d, p
<1>8. /\ See(imSees, p) \in Sees
      /\ \A w \in Win : See(imSees, p)[w] = IF w = cur THEN d ELSE imSees[w]
  <2>1. /\ See(imSees, p) \in Sees
        /\ \A w \in Win : See(imSees, p)[w] =
              IF w = p.win /\ p.via = "server" THEN FoldLeft(Follow, imSees[w], p.keys)
              ELSE imSees[w]
    BY <1>4, <1>7, SeeOne
  <2>2. FoldLeft(Follow, imSees[cur], p.keys) = d
    <3>1. keyDown \in SUBSET Key  BY DEF Inv, KeyType
    <3>2. FoldLeft(Follow, keyDown, <<e>>) = Follow(keyDown, e)
      BY <1>2, <3>1, FollowOne DEF e
    <3>. QED  BY <1>4, <1>5, <1>7, <3>2
  <2>. QED  BY <1>7, <2>1, <2>2
<1>9. p.via = "server" => Followed(imSees[p.win], p.keys)
  <2>1. DOMAIN <<e>> = {1} /\ <<e>>[1] = e  OBVIOUS
  <2>. QED  BY <1>1, <1>7, <2>1 DEF Followed, e
<1>10. /\ AllFollowed(imSees, <<p>>)
       /\ \A q \in Passed :
            (q.via = "server" => Followed(See(imSees, p)[q.win], q.keys)) =>
               AllFollowed(imSees, <<p, q>>)
  BY <1>4, <1>7, <1>9, FollowedPieces
<1>11. ~ Behind'  BY <1>1, <1>2 DEF Behind
<1>12. KeyType'  BY DEF Inv
<1>13. ASSUME NEW q \in Passed
       PROVE  <<p>> \o << >> = <<p>> /\ <<p>> \o <<q>> = <<p, q>>
  <2>1. <<p>> \in Seq(Passed)  BY <1>7
  <2>2. <<p>> \o << >> = <<p>>  BY <2>1, ConcatEmptySeq
  <2>3. <<p>> \o <<q>> = Append(<<p>>, q)  BY <2>1, AppendIsConcat
  <2>. QED  BY <1>7, <2>2, <2>3, Two
<1>14. FoldLeft(See, imSees, <<p>>) = See(imSees, p)  BY <1>4, <1>7, SeePieces
<1>15. CASE Pass(<<p>>) /\ cur' = cur /\ on' = on /\ keyDown' = d
  <2>1. /\ imSees' \in Sees /\ sent' = <<p>>
        /\ \A w \in Win : imSees'[w] = IF w \in on \cap on' THEN See(imSees, p)[w] ELSE {}
    BY <1>8, <1>14, <1>15, PassSeen
  <2>2. imSees'[cur] = keyDown'  BY <1>3, <1>8, <1>15, <2>1
  <2>3. \A w \in Win : w # cur => imSees'[w] = {}  BY <1>4, <1>8, <2>1
  <2>4. Active' = cur  BY <1>1, <1>2, <1>15 DEF Active
  <2>5. \A w \in Win : w \notin on' \/ w # Active' => imSees'[w] = {}
    BY <2>1, <2>3, <2>4
  <2>. QED  BY <1>10, <1>11, <1>15, <2>1, <2>2, <2>5 DEF SeenInv
<1>16. CASE /\ Pass(<<p>> \o Left(cur, on, d)) /\ on' = on /\ cur' # cur
            /\ RawInput /\ cur' \in on' => keyDown' = {}
  <2>2. See(imSees, p)[cur] = d  BY <1>3, <1>8
  <2>3. PICK q \in Passed :
          /\ Left(cur, on, d) = <<q>> /\ q.win = cur
          /\ \A w \in Win : See(See(imSees, p), q)[w] =
               IF w = cur THEN {} ELSE See(imSees, p)[w]
          /\ Followed(See(imSees, p)[cur], q.keys)
    <3> DEFINE sees == See(imSees, p)
    <3>1. sees \in Sees /\ sees[cur] = d  BY <1>8, <2>2
    <3> HIDE DEF sees
    <3>2. \/ Left(cur, on, d) = << >> /\ d = {}
          \/ \E q \in Passed : /\ Left(cur, on, d) = <<q>> /\ q.win = cur
                               /\ \A w \in Win : See(sees, q)[w] = IF w = cur THEN {} ELSE sees[w]
                               /\ Followed(sees[cur], q.keys)
      BY <1>2, <1>3, <1>5, <3>1, LeftSeen
    <3>3. d # {}  BY <1>5
    <3>. QED  BY <3>2, <3>3 DEF sees
  <2>4. Pass(<<p, q>>)  BY <1>13, <1>16, <2>3
  <2>5. FoldLeft(See, imSees, <<p, q>>) = See(See(imSees, p), q) /\ See(See(imSees, p), q) \in Sees
    <3>1. FoldLeft(See, imSees, <<p, q>>) = See(See(imSees, p), q)
      BY <1>4, <1>7, SeePieces
    <3>2. See(See(imSees, p), q) \in Sees  BY <1>8, SeeOne
    <3>. QED  BY <3>1, <3>2
  <2>6. /\ imSees' \in Sees /\ sent' = <<p, q>>
        /\ \A w \in Win : imSees'[w] = IF w \in on \cap on' THEN See(See(imSees, p), q)[w] ELSE {}
    BY <2>4, <2>5, PassSeen
  <2>7. \A w \in Win : imSees'[w] = {}  BY <1>4, <1>8, <2>3, <2>6
  <2>8. AllFollowed(imSees, <<p, q>>)  BY <1>10, <2>3
  <2>. QED  BY <1>3, <1>11, <1>12, <1>16, <2>6, <2>7, <2>8, NoneSeen
<1>17. CASE /\ Pass(<<p>> \o Left(cur, on', d)) /\ cur \notin on' /\ on' \subseteq on
            /\ RawInput /\ cur' \in on' => keyDown' = {}
  <2>1. Left(cur, on', d) = << >> \/ \E q \in Passed : Left(cur, on', d) = <<q>> /\ q.via = "program"
    <3> DEFINE r == Releases(d)
    <3>1. r \in Seq(Item)  BY <1>5, ReleasesOfDown
    <3> HIDE DEF r
    <3>2. CASE r = << >>  BY <3>2 DEF Left, Piece, r
    <3>3. CASE r # << >>
      <4>1. Left(cur, on', d) = <<[win |-> cur, keys |-> r, via |-> "program"]>>
        BY <1>2, <1>3, <1>17, <3>3 DEF Left, Piece, r
      <4>2. [win |-> cur, keys |-> r, via |-> "program"] \in Passed  BY <1>3, <3>1 DEF Passed
      <4>. QED  BY <4>1, <4>2
    <3>. QED  BY <3>2, <3>3
  <2>2. \E ps : /\ Pass(ps) /\ FoldLeft(See, imSees, ps) = See(imSees, p)
                /\ AllFollowed(imSees, ps)
    <3>1. CASE Left(cur, on', d) = << >>
      <4>1. Pass(<<p>>)  BY <1>7, <1>13, <1>17, <3>1
      <4>. QED  BY <1>10, <1>14, <4>1
    <3>2. CASE \E q \in Passed : Left(cur, on', d) = <<q>> /\ q.via = "program"
      <4>1. PICK q \in Passed : Left(cur, on', d) = <<q>> /\ q.via = "program"  BY <3>2
      <4>2. Pass(<<p, q>>)  BY <1>13, <1>17, <4>1
      <4>3. FoldLeft(See, imSees, <<p, q>>) = See(See(imSees, p), q)
        BY <1>4, <1>7, SeePieces
      <4>4. See(See(imSees, p), q) = See(imSees, p)  BY <4>1 DEF See
      <4>5. q.via # "server"  BY <4>1
      <4>6. AllFollowed(imSees, <<p, q>>)  BY <1>10, <4>5
      <4>. QED  BY <4>2, <4>3, <4>4, <4>6
    <3>. QED  BY <2>1, <3>1, <3>2
  <2>3. /\ imSees' \in Sees /\ AllFollowed(imSees, sent')
        /\ \A w \in Win : imSees'[w] = IF w \in on \cap on' THEN See(imSees, p)[w] ELSE {}
    BY <1>8, <2>2, PassSeen
  <2>4. \A w \in Win : imSees'[w] = {}  BY <1>4, <1>8, <1>17, <2>3
  <2>. QED  BY <1>3, <1>11, <1>12, <1>17, <2>3, <2>4, NoneSeen
<1>. QED
  <2>1. SysKey(d, modDown, <<p>>)  BY <1>1, <1>6 DEF e, d
  <2>. QED  BY <1>3, <1>15, <1>16, <1>17, <2>1, SysKeyPasses

\* A shortcut of characters: no server has seen a key.
LEMMA CharShortcutSeen ==
  ASSUME Inv, Inv', ReachInv, RawInv, SeenInv, ~ ahead, ReadShortcut
  PROVE  SeenInv' /\ sent' = << >>
<1>1. /\ Step /\ ~ batch[at].raw /\ SysKey(keyDown, modDown, Flush(at))
      /\ at' = at + 1 /\ start' = at + 1 /\ UNCHANGED <<front, batch>>
  BY DEF ReadShortcut, outside
<1>2. at = 1 /\ front = TRUE /\ ~ rawMode /\ Flush(at) = << >>  BY <1>1, OneKeyRead
<1>3. \A w, oni, down : Left(w, oni, down) = << >>  BY <1>2 DEF Left
<1>4. << >> \o << >> = << >>  OBVIOUS
<1>5. Pass(<< >>)
  <2>1. SysKey(keyDown, modDown, << >>)  BY <1>1, <1>2
  <2>2. \/ Pass(<< >>)
        \/ Pass(<< >> \o Left(cur, on, keyDown))
        \/ Pass(<< >> \o Left(cur, on', keyDown))
    BY <2>1, SysKeyPasses
  <2>3. << >> \o Left(cur, on, keyDown) = << >>  BY <1>3, <1>4
  <2>4. << >> \o Left(cur, on', keyDown) = << >>  BY <1>3, <1>4
  <2>. QED  BY <2>2, <2>3, <2>4
<1>6. sent' = << >>  BY <1>5 DEF Pass
<1>7. SeenInv'
  <2> SUFFICES ASSUME RawInput, ~ ahead'  PROVE SeenInv'  BY DEF SeenInv
  <2>1. imSees \in Sees /\ \A w \in Win : w \in on => imSees[w] = {}
    <3>1. cur \notin on  BY <1>2 DEF Inv, ModeInv
    <3>. QED  BY <1>2, <3>1 DEF SeenInv, Active
  <2>2. imSees' \in Sees /\ \A w \in Win : imSees'[w] = {}
    BY <1>5, <2>1, NothingPassed
  <2>3. ~ Behind'  BY <1>1, <1>2 DEF Behind
  <2>4. front' /\ cur' \in on' => keyDown' = {}
    <3>1. KeyType /\ ModeInv  BY DEF Inv
    <3>2. /\ rawMode' <=> RawInput /\ cur' \in on'
          /\ rawMode' /\ ~ rawMode => keyDown' = {}
      BY <1>1, <1>2, <3>1, SysKeyMode
    <3>. QED  BY <1>2, <3>2
  <2>5. KeyType'  BY DEF Inv
  <2>. QED  BY <2>2, <2>3, <2>4, <2>5, NoneSeen
<1>. QED  BY <1>6, <1>7

\* Keys that stay in the buffer, or are cut out of it.
LEMMA KeyKeptSeen ==
  ASSUME Inv, Inv', ReachInv, RawInv, SeenInv, ~ ahead,
         ReadChar \/ ReadRawKey \/ ReadStrayRelease
  PROVE  SeenInv' /\ sent' = << >>
<1>1. /\ Step /\ at' = at + 1 /\ UNCHANGED <<front, cur, on, batch, ahead>>
  BY DEF ReadChar, ReadRawKey, ReadStrayRelease, outside, manager
<1>2. /\ at = 1 /\ start = 1 /\ front = TRUE /\ (batch[1].raw <=> rawMode)
      /\ batch[1] \in Item /\ Flush(at) = << >>
  BY <1>1, OneKeyRead
<1>3. Active = cur /\ Active' = cur /\ ~ Behind /\ (cur \in on => cur \in Win)
  BY <1>1, <1>2 DEF Active, Behind, Inv, KeyType
<1>4. RawInput => (rawMode <=> cur \in on)  BY <1>2 DEF Inv, ModeInv
<1>5. CASE ReadChar
  <2>1. ~ batch[1].raw /\ sent' = << >> /\ imSees' = imSees
    BY <1>2, <1>5 DEF ReadChar
  <2>. QED  BY <1>1, <1>2, <1>3, <1>4, <2>1 DEF SeenInv, Active
<1>6. CASE ReadRawKey
  <2>1. /\ batch[1].raw /\ sent' = << >> /\ imSees' = imSees
        /\ batch[1].down \/ batch[1].key \in keyDown
        /\ keyDown' = DownAfter(batch[1])
    BY <1>2, <1>6 DEF ReadRawKey
  <2>2. DownAfter(batch[1]) = Follow(keyDown, batch[1])  BY DEF DownAfter, Follow
  <2>3. Behind'
    <3>1. ~ Idle' /\ start' = start  BY <1>1, <1>6 DEF ReadRawKey, Step, Idle
    <3>. QED  BY <1>1, <1>2, <3>1 DEF Behind
  <2>. QED  BY <1>1, <1>2, <1>3, <2>1, <2>2, <2>3 DEF SeenInv, Active
<1>7. CASE ReadStrayRelease
  <2>1. Pass(<< >>) /\ start' = at + 1 /\ keyDown' = keyDown
    BY <1>2, <1>7 DEF ReadStrayRelease
  <2>2. sent' = << >>  BY <2>1 DEF Pass
  <2>3. ~ Behind'  BY <1>1, <1>2, <2>1 DEF Behind
  <2>4. SeenInv'
    <3> SUFFICES ASSUME RawInput  PROVE SeenInv'  BY DEF SeenInv
    <3>1. /\ imSees \in Sees /\ \A w \in Win : w \notin on \/ w # Active => imSees[w] = {}
          /\ cur \in on => keyDown = imSees[cur]
      BY <1>2, <1>3 DEF SeenInv, Active, Behind
    <3>2. imSees' \in Sees /\ \A w \in Win : imSees'[w] = imSees[w]
      BY <1>1, <2>1, <3>1, NothingPassed
    <3>. QED  BY <1>1, <1>2, <1>3, <2>1, <2>3, <3>1, <3>2 DEF SeenInv
  <2>. QED  BY <2>2, <2>4
<1>. QED  BY <1>5, <1>6, <1>7

\* Characters have no release.
LEMMA CharFollowed ==
  ASSUME NEW sees, NEW p, NEW e, p.keys = <<e>>, ~ e.raw
  PROVE  AllFollowed(sees, <<p>>)
<1>1. DOMAIN <<p>> = {1} /\ <<p>>[1] = p /\ DOMAIN <<e>> = {1} /\ <<e>>[1] = e  OBVIOUS
<1>2. Followed(FoldLeft(See, sees, SubSeq(<<p>>, 1, 1 - 1))[p.win], p.keys)
  BY <1>1 DEF Followed
<1>. QED  BY <1>1, <1>2 DEF AllFollowed

\* The end of the buffer: its key is passed on if it was not.
LEMMA FinishSeen ==
  ASSUME Inv, Inv', ReachInv, RawInv, SeenInv, ~ ahead, Finish
  PROVE  SeenInv' /\ AllFollowed(imSees, sent')
<1> DEFINE e == batch[1]
<1>1. /\ ~ Idle /\ at > Len(batch) /\ Pass(Flush(at)) /\ Idle' /\ at' = 1 /\ start' = 1
      /\ UNCHANGED <<front, cur, on, keyDown>>
  BY DEF Finish, outside, manager, keyboard, Idle
<1>2. Len(batch) = 1 /\ at = 2 /\ start \in {1, 2} /\ front = TRUE
  <2>1. front = TRUE  BY <1>1 DEF Inv, KeyType, ModeInv
  <2>2. at \in 1 .. Len(batch) + 1 /\ start \in 1 .. at  BY DEF Inv, KeyType
  <2>3. Len(batch) = 1 /\ at > Len(batch)
    <3>1. Len(batch) = 1  BY <1>1 DEF ReachInv
    <3>. QED  BY <1>1, <3>1
  <2>. QED  BY <2>1, <2>2, <2>3
<1>3. Active = cur /\ Active' = cur /\ ~ Behind' /\ (cur \in on => cur \in Win)
      /\ (cur = None \/ cur \in windows) /\ windows \subseteq Win
  BY <1>1, <1>2 DEF Active, Behind, Inv, KeyType
<1>4. RawInput => (rawMode <=> cur \in on)  BY <1>2 DEF Inv, ModeInv
<1>5. rawMode => RawInput  BY DEF Inv, ModeInv
<1>6. RawInput => /\ imSees \in Sees
                  /\ \A w \in Win : w \notin on \/ w # cur => imSees[w] = {}
  BY <1>3 DEF SeenInv
<1>7. ASSUME RawInput, cur \in on
      PROVE  IF start = 1 THEN /\ keyDown = Follow(imSees[cur], e)
                               /\ ~ e.down => e.key \in imSees[cur]
             ELSE keyDown = imSees[cur]
  <2>1. Behind <=> start = 1  BY <1>1, <1>2 DEF Behind
  <2>. QED  BY <1>2, <1>7, <2>1 DEF SeenInv
\* The servers' view is settled by that of the active window's.
<1>8. ASSUME NEW ps, Pass(ps), RawInput, NEW seen \in Sees, seen = FoldLeft(See, imSees, ps),
             \A w \in Win : w # cur => seen[w] = {},
             cur \in on => seen[cur] = keyDown
      PROVE  SeenInv'
  <2>1. /\ imSees' \in Sees
        /\ \A w \in Win : imSees'[w] = IF w \in on \cap on' THEN seen[w] ELSE {}
    BY <1>8, PassSeen
  <2>. QED  BY <1>1, <1>3, <1>8, <2>1 DEF SeenInv
<1>9. CASE Flush(at) = << >> /\ (RawInput /\ cur \in on => keyDown = imSees[cur])
  <2>1. Pass(<< >>)  BY <1>1, <1>9
  <2>2. sent' = << >>  BY <2>1 DEF Pass
  <2>3. AllFollowed(imSees, sent')  BY <2>2 DEF AllFollowed
  <2>4. SeenInv'
    <3> SUFFICES ASSUME RawInput  PROVE SeenInv'  BY DEF SeenInv
    <3>1. FoldLeft(See, imSees, << >>) = imSees  BY <1>6, SeeAppend
    <3>. QED  BY <1>6, <1>8, <1>9, <2>1, <3>1
  <2>. QED  BY <2>3, <2>4
<1>10. CASE start = 2
  <2>1. SubSeq(batch, start, at - 1) = << >>
    <3>1. start \in Int /\ at - 1 \in Int /\ at - 1 < start  BY <1>2, <1>10
    <3>. QED  BY <3>1, SubSeqEmpty
  <2>2. Flush(at) = << >>  BY <2>1 DEF Flush, Piece
  <2>. QED  BY <1>7, <1>9, <1>10, <2>2
<1>11. CASE start = 1
  <2>1. shell = cur /\ (e.raw <=> rawMode)
    BY <1>1, <1>2, <1>3, <1>11 DEF ReachInv, RawInv
  <2>2. e \in Item
    <3>1. batch \in Seq(Item) /\ 1 \in 1 .. Len(batch)  BY <1>2 DEF Inv, KeyType
    <3>. QED  BY <3>1, ElementOfSeq
  <2>3. Flush(at) = Piece(cur, on, <<e>>)
    <3>1. batch \in Seq(Item)  BY DEF Inv, KeyType
    <3>2. SubSeq(batch, 1, Len(batch)) = batch  BY <3>1, SubSeqFull
    <3>3. batch = <<e>>
      <4> DEFINE u == <<e>>
      <4>1. u \in Seq(Item) /\ Len(u) = 1 /\ u[1] = batch[1]  BY <2>2
      <4> HIDE DEF u, e
      <4>2. Len(batch) = Len(u) /\ \A i \in 1 .. Len(batch) : batch[i] = u[i]  BY <1>2, <4>1
      <4>3. batch = u  BY <3>1, <4>1, <4>2, SeqEqual
      <4>. QED  BY <4>3 DEF u
    <3>4. Flush(at) = Piece(shell, on, SubSeq(batch, start, at - 1))  BY DEF Flush
    <3>5. start = 1 /\ at - 1 = Len(batch)  BY <1>2, <1>11
    <3> HIDE DEF e
    <3>. QED  BY <2>1, <3>2, <3>3, <3>4, <3>5
  <2>4. CASE cur = None
    <3>1. Flush(at) = << >>  BY <2>3, <2>4 DEF Piece
    <3>2. cur \notin on  BY <1>3, <2>4, WinAssumption
    <3>. QED  BY <1>9, <3>1, <3>2
  <2>5. CASE cur # None
    <3> DEFINE p == [win |-> cur, keys |-> <<e>>,
                     via |-> IF cur \in on THEN "server" ELSE "program"]
    <3>1. cur \in windows /\ cur \in Win  BY <1>3, <2>5
    <3>2. Flush(at) = <<p>>
      <4>1. <<e>> # << >>  OBVIOUS
      <4> DEFINE k == <<e>>
      <4> HIDE DEF k
      <4>2. Piece(cur, on, k) = <<[win |-> cur, keys |-> k,
                                   via |-> IF cur \in on THEN "server" ELSE "program"]>>
        BY <2>5, <3>1, <4>1 DEF Piece, k
      <4>. QED  BY <2>3, <4>2 DEF k
    <3>3. p \in Passed /\ p.win = cur /\ p.keys = <<e>> /\ (p.via = "server" <=> cur \in on)
      <4>1. <<e>> \in Seq(Item)  BY <2>2
      <4>2. \A r \in Seq(Item), v \in {"server", "program"} :
              [win |-> cur, keys |-> r, via |-> v] \in Passed
        BY <3>1 DEF Passed
      <4>. QED  BY <4>1, <4>2
    <3> HIDE DEF p, e
    <3>4. CASE ~ RawInput
      <4>1. ~ e.raw  BY <1>5, <2>1, <3>4
      <4>2. sent' = <<p>>  BY <1>1, <3>2 DEF Pass
      <4>3. AllFollowed(imSees, <<p>>)  BY <3>3, <4>1, CharFollowed
      <4>4. SeenInv'  BY <3>4 DEF SeenInv
      <4>. QED  BY <4>2, <4>3, <4>4
    <3>5. CASE RawInput
      <4>1. imSees \in Sees /\ \A w \in Win : w # cur => imSees[w] = {}  BY <1>6, <3>5
      <4>2. /\ See(imSees, p) \in Sees
            /\ \A w \in Win : See(imSees, p)[w] =
                  IF w = p.win /\ p.via = "server" THEN FoldLeft(Follow, imSees[w], p.keys)
                  ELSE imSees[w]
        BY <3>3, <4>1, SeeOne
      <4>3. cur \in on => See(imSees, p)[cur] = keyDown
        <5>1. imSees[cur] \in SUBSET Key  BY <3>1, <4>1 DEF Sees
        <5>2. FoldLeft(Follow, imSees[cur], <<e>>) = Follow(imSees[cur], e)
          BY <2>2, <5>1, FollowOne DEF e
        <5>3. cur \in on => keyDown = Follow(imSees[cur], e)  BY <1>7, <1>11, <3>5 DEF e
        <5>. QED  BY <3>1, <3>3, <4>2, <5>2, <5>3
      <4>4. p.via = "server" => Followed(imSees[p.win], p.keys)
        <5> SUFFICES ASSUME cur \in on  PROVE Followed(imSees[cur], <<e>>)
          BY <3>3
        <5>1. DOMAIN <<e>> = {1} /\ <<e>>[1] = e  OBVIOUS
        <5>2. ~ e.down => e.key \in imSees[cur]  BY <1>7, <1>11, <3>5 DEF e
        <5>3. FoldLeft(Follow, imSees[cur], SubSeq(<<e>>, 1, 1 - 1)) = imSees[cur]
          <6>1. SubSeq(<<e>>, 1, 1 - 1) = << >>  BY NothingYet
          <6>2. imSees[cur] \in SUBSET Key  BY <3>1, <4>1 DEF Sees
          <6>. QED  BY <6>1, <6>2, FollowAppend
        <5>. QED  BY <5>1, <5>2, <5>3 DEF Followed
      <4>5. AllFollowed(imSees, <<p>>)  BY <3>3, <4>1, <4>4, FollowedPieces
      <4>6. Pass(<<p>>)  BY <1>1, <3>2
      <4>7. sent' = <<p>>  BY <4>6 DEF Pass
      <4>8. FoldLeft(See, imSees, <<p>>) = See(imSees, p)  BY <3>3, <4>1, SeePieces
      <4>9. \A w \in Win : w # cur => See(imSees, p)[w] = {}  BY <3>3, <4>1, <4>2
      <4>10. SeenInv'  BY <1>8, <3>5, <4>2, <4>3, <4>6, <4>8, <4>9
      <4>. QED  BY <4>5, <4>7, <4>10
    <3>. QED  BY <3>4, <3>5
  <2>. QED  BY <2>4, <2>5
<1>. QED  BY <1>2, <1>10, <1>11

\* FbTerm's console goes to the back, and comes to the front.
LEMMA SwitchVcSeen ==
  ASSUME Inv, Inv', IsFiniteSet(keyDown), SeenInv, ~ ahead, LeaveVc \/ EnterVc
  PROVE  SeenInv' /\ AllFollowed(imSees, sent')
<1>0. ASSUME sent' = << >>  PROVE AllFollowed(imSees, sent')  BY <1>0 DEF AllFollowed
<1>1. Idle /\ ~ Behind' /\ KeyType' /\ UNCHANGED <<windows, cur, on>>
  <2>1. Idle' /\ Idle  BY DEF LeaveVc, EnterVc, reading, Idle
  <2>. QED  BY <2>1 DEF LeaveVc, EnterVc, manager, Behind, Inv
<1>2. CASE LeaveVc
  <2>1. front /\ front' = FALSE /\ ~ Behind  BY <1>1, <1>2 DEF LeaveVc, Behind
  <2>2. CASE cur \notin on
    <3>1. sent' = << >> /\ imSees' = imSees  BY <1>2, <2>2 DEF LeaveVc
    <3>2. SeenInv'
      <4> SUFFICES ASSUME RawInput  PROVE SeenInv'  BY DEF SeenInv
      <4>1. imSees \in Sees /\ \A w \in Win : imSees[w] = {}
        BY <2>1, <2>2 DEF SeenInv, Active
      <4>. QED  BY <1>1, <2>1, <3>1, <4>1, NoneSeen
    <3>. QED  BY <1>0, <3>1, <3>2
  <2>3. CASE cur \in on
    <3>1. Pass(Left(cur, on, keyDown))  BY <1>2, <2>3 DEF LeaveVc
    <3>2. CASE ~ RawInput
      <4>1. Left(cur, on, keyDown) = << >>  BY <3>2 DEF Left, Inv, ModeInv
      <4>2. sent' = << >>  BY <3>1, <4>1 DEF Pass
      <4>. QED  BY <1>0, <3>2, <4>2 DEF SeenInv
    <3>3. CASE RawInput
      <4>1. rawMode /\ cur \in windows /\ cur \in Win /\ keyDown \in SUBSET Key
        BY <2>1, <2>3, <3>3 DEF Inv, KeyType, ModeInv
      <4>2. /\ imSees \in Sees /\ imSees[cur] = keyDown
            /\ \A w \in Win : w # cur => imSees[w] = {}
        BY <2>1, <2>3, <3>3 DEF SeenInv, Active
      <4>3. CASE Left(cur, on, keyDown) = << >> /\ keyDown = {}
        <5>1. Pass(<< >>)  BY <3>1, <4>3
        <5>2. /\ imSees' \in Sees /\ sent' = << >>
              /\ \A w \in Win : imSees'[w] = IF w \in on \cap on' THEN imSees[w] ELSE {}
          BY <4>2, <5>1, NothingPassed
        <5>3. \A w \in Win : imSees'[w] = {}  BY <4>2, <4>3, <5>2
        <5>. QED  BY <1>0, <1>1, <2>1, <5>2, <5>3, NoneSeen
      <4>4. CASE \E q \in Passed : /\ Left(cur, on, keyDown) = <<q>> /\ q.win = cur
                                   /\ \A w \in Win : See(imSees, q)[w] =
                                        IF w = cur THEN {} ELSE imSees[w]
                                   /\ Followed(imSees[cur], q.keys)
        <5>1. PICK q \in Passed : /\ Left(cur, on, keyDown) = <<q>> /\ q.win = cur
                                  /\ \A w \in Win : See(imSees, q)[w] =
                                       IF w = cur THEN {} ELSE imSees[w]
                                  /\ Followed(imSees[cur], q.keys)
          BY <4>4
        <5>2. Pass(<<q>>)  BY <3>1, <5>1
        <5>3. FoldLeft(See, imSees, <<q>>) = See(imSees, q)  BY <4>2, SeePieces
        <5>4. See(imSees, q) \in Sees  BY <4>2, SeeOne
        <5>5. /\ imSees' \in Sees /\ sent' = <<q>>
              /\ \A w \in Win : imSees'[w] = IF w \in on \cap on' THEN See(imSees, q)[w] ELSE {}
          BY <5>2, <5>3, <5>4, PassSeen
        <5>6. \A w \in Win : imSees'[w] = {}  BY <4>2, <5>1, <5>5
        <5>7. AllFollowed(imSees, <<q>>)  BY <4>2, <5>1, FollowedPieces
        <5>8. SeenInv'  BY <1>1, <2>1, <5>5, <5>6, NoneSeen
        <5>. QED  BY <5>5, <5>7, <5>8
      <4>. QED  BY <2>3, <4>1, <4>2, <4>3, <4>4, LeftSeen
    <3>. QED  BY <3>2, <3>3
  <2>. QED  BY <2>2, <2>3
<1>3. CASE EnterVc
  <2>1. ~ front /\ sent' = << >> /\ imSees' = imSees  BY <1>3 DEF EnterVc
  <2>2. SeenInv'
    <3> SUFFICES ASSUME RawInput  PROVE SeenInv'  BY DEF SeenInv
    <3>1. imSees \in Sees /\ \A w \in Win : imSees[w] = {}
      <4>1. \A w \in Win : w # Active  BY <2>1, WinAssumption DEF Active
      <4>. QED  BY <4>1 DEF SeenInv
    <3>2. cur' \in on' => keyDown' = {}  BY <1>1, <1>3 DEF EnterVc, EndRawMode
    <3>. QED  BY <1>1, <2>1, <3>1, <3>2, NoneSeen
  <2>. QED  BY <1>0, <2>1, <2>2
<1>. QED  BY <1>2, <1>3

\* Keys struck, the buffer read, and steps of others.
LEMMA OthersSeen ==
  ASSUME Inv, SeenInv, ~ ahead',
         (\E k \in Key : Press(k) \/ Release(k)) \/ Read \/ UNCHANGED vars
  PROVE  SeenInv'
<1>1. /\ UNCHANGED <<front, cur, on, keyDown, imSees>> /\ (ahead => ahead')
      /\ Behind' = Behind \/ (~ Behind /\ ~ Behind')
      /\ Behind' => batch' = batch
  <2>1. CASE \E k \in Key : Press(k) \/ Release(k)
    BY <2>1 DEF Press, Release, Strike, manager, keyboard, reading, Behind, Idle
  <2>2. CASE Read
    <3>1. /\ UNCHANGED <<front, cur, on, keyDown, imSees>> /\ ahead' = (ahead \/ Len(queue) > 1)
          /\ Idle /\ at' = 1 /\ start' = 1
      BY <2>2 DEF Read, manager, keyboard
    <3>2. ~ Behind /\ ~ Behind'  BY <3>1 DEF Behind
    <3>3. ahead => ahead'  BY <3>1, Zenon
    <3>. QED  BY <3>1, <3>2, <3>3
  <2>3. CASE UNCHANGED vars
    BY <2>3 DEF vars, outside, manager, keyboard, reading, Behind, Idle
  <2>. QED  BY <2>1, <2>2, <2>3
<1>2. Active' = Active  BY <1>1 DEF Active
<1>. QED  BY <1>1, <1>2 DEF SeenInv

\* The mode a key of a buffer of one was struck in is the present one.
LEMMA RawStep == Inv /\ ReachInv /\ RawInv /\ [Next]_vars => RawInv'
<1> SUFFICES ASSUME Inv, ReachInv, RawInv, [Next]_vars PROVE RawInv'  OBVIOUS
<1>1. CASE Read
  <2>1. batch' = queue /\ rawMode' = rawMode /\ queue # << >>  BY <1>1 DEF Read, keyboard
  <2>2. queue \in Seq(Item) /\ \A n \in DOMAIN queue : queue[n].raw <=> rawMode
    BY DEF Inv, KeyType, ModeInv
  <2>3. 1 \in DOMAIN queue  BY <2>1, <2>2
  <2>. QED  BY <2>1, <2>2, <2>3 DEF RawInv
<1>2. CASE ReadChar \/ ReadRawKey \/ UNCHANGED vars
  <2>1. /\ UNCHANGED <<batch, start, ahead, rawMode>>
        /\ at' = at \/ (Step /\ at' = at + 1)
    BY <1>2 DEF ReadChar, ReadRawKey, vars, reading, keyboard
  <2>2. at \in Nat \ {0}  BY DEF Inv, KeyType
  <2>3. Step /\ ~ ahead => at = 1
    <3>1. ~ ahead /\ Step => Len(batch) = 1  BY DEF ReachInv, Step, Idle
    <3>. QED  BY <2>2, <3>1 DEF Step
  <2>. QED  BY <2>1, <2>2, <2>3 DEF RawInv, Idle
<1>3. CASE ReadShortcut \/ ReadRawShortcut \/ ReadStrayRelease
  <2>1. at' = at + 1 /\ start' = at + 1
    BY <1>3 DEF ReadShortcut, ReadRawShortcut, ReadStrayRelease
  <2>2. at \in Nat \ {0}  BY DEF Inv, KeyType
  <2>3. ~ (at' = 1 \/ start' < at')  BY <2>1, <2>2
  <2>. QED  BY <2>3 DEF RawInv
<1>4. CASE Finish  BY <1>4 DEF Finish, RawInv, Idle
<1>5. CASE \/ \E k \in Key : Press(k) \/ Release(k)
           \/ LeaveVc \/ EnterVc
  <2>1. Idle /\ batch' = batch
    BY <1>5 DEF Press, Release, Strike, LeaveVc, EnterVc, reading, Inv, ModeInv
  <2>. QED  BY <2>1 DEF RawInv, Idle
<1>. QED  BY <1>1, <1>2, <1>3, <1>4, <1>5 DEF Next

\* What is known of the servers, of one step and of all.
SeesInv == IsFiniteSet(keyDown) /\ ReachInv /\ RawInv /\ SeenInv

\* A step keeps it, and tells servers only of releases of keys they have seen
\* pressed.
LEMMA SeesStep ==
  ASSUME Inv, SeesInv, [Next]_vars
  PROVE  SeesInv' /\ (Next /\ ~ ahead' => AllFollowed(imSees, sent'))
<1>1. Inv'  BY StepInv
<1>2. IsFiniteSet(keyDown')  BY FiniteStep DEF SeesInv
<1>3. ReachInv' /\ RawInv'  BY ReachStep, RawStep DEF SeesInv
<1>4. SeenInv' /\ (Next /\ ~ ahead' => AllFollowed(imSees, sent'))
  <2>0. CASE ahead'  BY <2>0 DEF SeenInv
  <2> SUFFICES ASSUME ~ ahead'
               PROVE  SeenInv' /\ (Next => AllFollowed(imSees, sent'))
    BY <2>0
  <2>1. ASSUME sent' = << >>  PROVE AllFollowed(imSees, sent')  BY <2>1 DEF AllFollowed
  <2>2. CASE \/ \E k \in Key : Press(k) \/ Release(k)
             \/ Read
    <3>1. sent' = << >>  BY <2>2 DEF Press, Release, Strike, Read
    <3>. QED  BY <2>1, <2>2, <3>1, OthersSeen DEF SeesInv
  <2>3. CASE UNCHANGED vars /\ ~ Next  BY <2>3, OthersSeen DEF SeesInv
  <2>4. CASE ReadChar \/ ReadRawKey \/ ReadStrayRelease
    <3>1. ahead' = ahead  BY <2>4 DEF ReadChar, ReadRawKey, ReadStrayRelease
    <3>. QED  BY <1>1, <2>1, <2>4, <3>1, KeyKeptSeen DEF SeesInv
  <2>5. CASE ReadShortcut
    <3>1. ahead' = ahead  BY <2>5 DEF ReadShortcut
    <3>. QED  BY <1>1, <2>1, <2>5, <3>1, CharShortcutSeen DEF SeesInv
  <2>6. CASE ReadRawShortcut
    <3>1. ahead' = ahead  BY <2>6 DEF ReadRawShortcut
    <3>. QED  BY <1>1, <2>6, <3>1, RawShortcutSeen DEF SeesInv
  <2>7. CASE Finish
    <3>1. ahead' = ahead  BY <2>7 DEF Finish
    <3>. QED  BY <1>1, <2>7, <3>1, FinishSeen DEF SeesInv
  <2>8. CASE LeaveVc \/ EnterVc
    <3>1. ahead' = ahead  BY <2>8 DEF LeaveVc, EnterVc, reading
    <3>. QED  BY <1>1, <2>8, <3>1, SwitchVcSeen DEF SeesInv
  <2>. QED  BY <2>2, <2>3, <2>4, <2>5, <2>6, <2>7, <2>8 DEF Next
<1>. QED  BY <1>2, <1>3, <1>4 DEF SeesInv

\* No server has seen anything at the start.
LEMMA SeesInit == Init => SeesInv
<1> SUFFICES ASSUME Init PROVE SeesInv  OBVIOUS
<1>1. /\ keyDown = {} /\ on = {} /\ Idle /\ ~ Behind
      /\ imSees = [w \in Win |-> {}]
  BY DEF Init, Idle, Behind
<1>2. imSees \in Sees  BY <1>1 DEF Sees
<1>3. IsFiniteSet(keyDown)  BY <1>1, FS_EmptySet
<1>. QED  BY <1>1, <1>2, <1>3 DEF SeesInv, ReachInv, RawInv, SeenInv

\* Whatever shortcuts and consoles come between, no server is told of a release
\* of a key that it has not seen pressed (setRawMode, processRawKeys; ChangeLog).
THEOREM ReleasesFollowPressesAlways == Spec => ReleasesFollowPresses
<1> DEFINE Told1 == ~ ahead' => AllFollowed(imSees, sent')
<1>1. Inv /\ SeesInv /\ [Next]_vars => SeesInv' /\ [Told1]_vars  BY SeesStep
<1> HIDE DEF Told1
<1>2. Spec => [][Told1]_vars  BY <1>1, SeesInit, InitInv, StepInv, PTL DEF Spec
<1>. QED  BY <1>2 DEF Told1, AllFollowed, Followed, ReleasesFollowPresses

\* A server that asks for key codes holds no key while its window is not active:
\* it was told of every release it will not see (setRawMode).  One that takes
\* characters is told of no release at all.
THEOREM BackgroundHoldsNothingAlways ==
  ASSUME RawInput
  PROVE  Spec => []BackgroundHoldsNothing
<1>1. SeesInv /\ Inv => BackgroundHoldsNothing
  BY DEF SeesInv, SeenInv, BackgroundHoldsNothing, Inv, KeyType
<1>2. Inv /\ SeesInv /\ [Next]_vars => SeesInv'  BY SeesStep
<1>. QED  BY <1>1, <1>2, SeesInit, InitInv, StepInv, PTL DEF Spec

-----------------------------------------------------------------------------
(* The meaning of a stream                                                 *)

\* The bytes of both codecs, and what they mean.
Bytes == {"a", "h", "q", "r", "u", "v", "?"}
Outcome == [lead : BOOLEAN, made : Seq(Bytes)]
Fresh(m) == [lead |-> FALSE, made |-> m]
Open(m) == [lead |-> TRUE, made |-> m]

\* m before what d has made.
Before(m, d) == [lead |-> d.lead, made |-> m \o d.made]

\* What has been made after b: by a codec that does not convert; after the second
\* byte of a character; by a byte which shows that the first one was none.
Plainly(way, d, b) ==
  Append(IF d.lead THEN Append(d.made, Pipe!Lead(way)) ELSE d.made, b)
Joined(way, d) == d.made \o Pipe!Converted(way)
Broken(d) == IF d.lead THEN Append(d.made, "?") ELSE d.made
Anew(d, b) == Append(Broken(d), IF b \in Pipe!Single THEN b ELSE "?")

\* These are bytes.
LEMMA MadeType ==
  ASSUME NEW way, NEW d, NEW b,
         d \in Outcome, b \in Bytes
  PROVE  /\ d.made \in Seq(Bytes) /\ d.lead \in BOOLEAN
         /\ Plainly(way, d, b) \in Seq(Bytes)
         /\ Joined(way, d) \in Seq(Bytes)
         /\ Broken(d) \in Seq(Bytes)
         /\ Anew(d, b) \in Seq(Bytes)
<1>1. d.made \in Seq(Bytes) /\ d.lead \in BOOLEAN  BY DEF Outcome
<1>2. Pipe!Lead(way) \in Bytes  BY DEF Pipe!Lead, Bytes
<1>3. "?" \in Bytes  BY DEF Bytes
<1>4. Pipe!Converted(way) \in Seq(Bytes)
  <2>1. <<"u", "v">> \in Seq(Bytes) /\ <<"h", "h">> \in Seq(Bytes)  BY DEF Bytes
  <2>. QED  BY <2>1 DEF Pipe!Converted
<1>5. Plainly(way, d, b) \in Seq(Bytes)  BY <1>1, <1>2 DEF Plainly
<1>6. Joined(way, d) \in Seq(Bytes)  BY <1>1, <1>4 DEF Joined
<1>7. Broken(d) \in Seq(Bytes)  BY <1>1, <1>3 DEF Broken
<1>8. Anew(d, b) \in Seq(Bytes)  BY <1>3, <1>7 DEF Anew
<1>. QED  BY <1>1, <1>5, <1>6, <1>7, <1>8

\* The cases of a byte.
LEMMA MeaningCases ==
  ASSUME NEW cd, NEW way, NEW d, NEW b,
         d \in Outcome
  PROVE  /\ cd = "none" => Pipe!Meaning(cd, way, d, b) = Fresh(Plainly(way, d, b))
         /\ cd # "none" /\ d.lead /\ b = Pipe!Trail(way) =>
              Pipe!Meaning(cd, way, d, b) = Fresh(Joined(way, d))
         /\ cd # "none" /\ b = Pipe!Lead(way) /\ ~ (d.lead /\ b = Pipe!Trail(way)) =>
              Pipe!Meaning(cd, way, d, b) = Open(Broken(d))
         /\ cd # "none" /\ b # Pipe!Lead(way) /\ ~ (d.lead /\ b = Pipe!Trail(way)) =>
              Pipe!Meaning(cd, way, d, b) = Fresh(Anew(d, b))
<1>1. CASE cd = "none"  BY <1>1 DEF Pipe!Meaning, Fresh, Plainly
<1>2. CASE cd # "none" /\ d.lead /\ b = Pipe!Trail(way)
  BY <1>2 DEF Pipe!Meaning, Fresh, Joined
<1>3. CASE cd # "none" /\ b = Pipe!Lead(way) /\ ~ (d.lead /\ b = Pipe!Trail(way))
  BY <1>3 DEF Pipe!Meaning, Open, Broken
<1>4. CASE cd # "none" /\ b # Pipe!Lead(way) /\ ~ (d.lead /\ b = Pipe!Trail(way))
  BY <1>4 DEF Pipe!Meaning, Fresh, Broken, Anew
<1>. QED  BY <1>1, <1>2, <1>3, <1>4

\* What a byte means is an outcome.
LEMMA MeaningType ==
  ASSUME NEW cd, NEW way, NEW d, NEW b,
         d \in Outcome, b \in Bytes
  PROVE  Pipe!Meaning(cd, way, d, b) \in Outcome
<1>1. \A m \in Seq(Bytes) : Fresh(m) \in Outcome /\ Open(m) \in Outcome
  BY DEF Fresh, Open, Outcome
<1>2. \/ cd = "none"
      \/ cd # "none" /\ d.lead /\ b = Pipe!Trail(way)
      \/ cd # "none" /\ b = Pipe!Lead(way) /\ ~ (d.lead /\ b = Pipe!Trail(way))
      \/ cd # "none" /\ b # Pipe!Lead(way) /\ ~ (d.lead /\ b = Pipe!Trail(way))
  OBVIOUS
<1>3. \E m : /\ m \in Seq(Bytes)
              /\ \/ Pipe!Meaning(cd, way, d, b) = Fresh(m)
                 \/ Pipe!Meaning(cd, way, d, b) = Open(m)
  <2>1. CASE cd = "none"  BY <2>1, MeaningCases, MadeType
  <2>2. CASE cd # "none" /\ d.lead /\ b = Pipe!Trail(way)  BY <2>2, MeaningCases, MadeType
  <2>3. CASE cd # "none" /\ b = Pipe!Lead(way) /\ ~ (d.lead /\ b = Pipe!Trail(way))
    BY <2>3, MeaningCases, MadeType
  <2>4. CASE cd # "none" /\ b # Pipe!Lead(way) /\ ~ (d.lead /\ b = Pipe!Trail(way))
    BY <2>4, MeaningCases, MadeType
  <2>. QED  BY <1>2, <2>1, <2>2, <2>3, <2>4
<1>. QED  BY <1>1, <1>3

MeaningStep(cd, way) ==
  [p \in Outcome \X Bytes |-> Pipe!Meaning(cd, way, p[1], p[2])]

\* F is how the meaning of s after b comes about, place by place.
Tells(F, cd, way, b, s) ==
  /\ F \in [SUBSET (1 .. Len(s)) -> Outcome]
  /\ Recurs(F, MeaningStep(cd, way), b, s)
  /\ Pipe!Meant(cd, way, b, s) = F[1 .. Len(s)]

\* The meaning of some bytes is a fold.
LEMMA MeantFold ==
  ASSUME NEW cd, NEW way, NEW b, NEW s,
         b \in Outcome, s \in Seq(Bytes)
  PROVE  \E F : Tells(F, cd, way, b, s)
<1> DEFINE n == Len(s)
<1> DEFINE Body(G) == [t \in SUBSET DOMAIN s |->
             IF t = {} THEN b ELSE Pipe!Meaning(cd, way, G[t \ {Max(t)}], s[Max(t)])]
<1> DEFINE I == CHOOSE G : G = Body(G)
<1>0. n \in Nat /\ DOMAIN s = 1 .. n /\ \A i \in 1 .. n : s[i] \in Bytes  OBVIOUS
<1>1. Pipe!Meant(cd, way, b, s) = I[DOMAIN s]
  BY DEF Pipe!Meant, Pipe!FoldLeft, Pipe!MapThenFoldSet, Pipe!Max, Max
<1>2. PICK F \in [SUBSET (1 .. n) -> Outcome] : Recurs(F, MeaningStep(cd, way), b, s)
  <2>1. MeaningStep(cd, way) \in [Outcome \X Bytes -> Outcome]
    BY MeaningType DEF MeaningStep
  <2>. QED  BY <2>1, FoldExists
<1>3. ASSUME NEW t \in SUBSET (1 .. n), t # {}
      PROVE  F[t] = Pipe!Meaning(cd, way, F[t \ {Max(t)}], s[Max(t)])
  <2>1. Max(t) \in t  BY <1>0, <1>3, MaxIn
  <2>2. s[Max(t)] \in Bytes /\ t \ {Max(t)} \in SUBSET (1 .. n)  BY <1>0, <2>1
  <2>3. F[t] = MeaningStep(cd, way)[<<F[t \ {Max(t)}], s[Max(t)]>>]
    BY <1>2, <1>3 DEF Recurs
  <2>4. F[t \ {Max(t)}] \in Outcome  BY <1>2, <2>2
  <2>. QED  BY <2>2, <2>3, <2>4 DEF MeaningStep
<1>4. F[{}] = b  BY <1>2 DEF Recurs
<1>5. F = Body(F)
  <2>1. \A t \in SUBSET DOMAIN s : F[t] = Body(F)[t]  BY <1>0, <1>3, <1>4
  <2>. QED  BY <1>0, <1>2, <2>1
<1>6. I = Body(I)
  <2> HIDE DEF Body
  <2>. QED  BY <1>5
<1> HIDE DEF I
<1>7. Alike(F, I, n)
  <2>1. I[{}] = b  BY <1>6
  <2>2. ASSUME NEW t \in SUBSET (1 .. n), t # {}
        PROVE  I[t] = Pipe!Meaning(cd, way, I[t \ {Max(t)}], s[Max(t)])
    BY <1>0, <1>6, <2>2
  <2>. QED  BY <1>3, <1>4, <2>1, <2>2 DEF Alike
<1>8. F[1 .. n] = I[1 .. n]
  <2>1. 1 .. n \in SUBSET (1 .. n)  OBVIOUS
  <2>. QED  BY <1>0, <1>7, <2>1, FoldUnique
<1>. QED  BY <1>0, <1>1, <1>2, <1>8 DEF Tells

\* Byte by byte.
LEMMA MeantNothing ==
  ASSUME NEW cd, NEW way, NEW b, b \in Outcome
  PROVE  Pipe!Meant(cd, way, b, << >>) = b
<1>1. << >> \in Seq(Bytes) /\ Len(<< >>) = 0 /\ 1 .. 0 = {}  OBVIOUS
<1>2. PICK F : Tells(F, cd, way, b, << >>)  BY <1>1, MeantFold
<1>3. Recurs(F, MeaningStep(cd, way), b, << >>)
      /\ Pipe!Meant(cd, way, b, << >>) = F[1 .. Len(<< >>)]
  BY <1>2 DEF Tells
<1>. QED  BY <1>1, <1>3 DEF Recurs

\* The meaning of some bytes is an outcome.
LEMMA MeantType ==
  ASSUME NEW cd, NEW way, NEW b, NEW s, b \in Outcome, s \in Seq(Bytes)
  PROVE  Pipe!Meant(cd, way, b, s) \in Outcome
<1>1. 1 .. Len(s) \in SUBSET (1 .. Len(s))  OBVIOUS
<1>2. PICK F : Tells(F, cd, way, b, s)  BY MeantFold
<1>. QED  BY <1>1, <1>2 DEF Tells

\* One byte more.
LEMMA MeantAppend ==
  ASSUME NEW cd, NEW way, NEW b, NEW s, NEW e,
         b \in Outcome, s \in Seq(Bytes), e \in Bytes
  PROVE  Pipe!Meant(cd, way, b, Append(s, e)) =
           Pipe!Meaning(cd, way, Pipe!Meant(cd, way, b, s), e)
<1>1. Append(s, e) \in Seq(Bytes) /\ Len(Append(s, e)) = Len(s) + 1  OBVIOUS
<1>2. PICK F : Tells(F, cd, way, b, s)  BY MeantFold
<1>3. PICK G : Tells(G, cd, way, b, Append(s, e))  BY <1>1, MeantFold
<1>4. /\ Recurs(F, MeaningStep(cd, way), b, s)
      /\ Pipe!Meant(cd, way, b, s) = F[1 .. Len(s)]
  BY <1>2 DEF Tells
<1>5. /\ Recurs(G, MeaningStep(cd, way), b, Append(s, e))
      /\ Pipe!Meant(cd, way, b, Append(s, e)) = G[1 .. Len(s) + 1]
  BY <1>1, <1>3 DEF Tells
<1>6. Pipe!Meant(cd, way, b, Append(s, e)) =
        MeaningStep(cd, way)[<<Pipe!Meant(cd, way, b, s), e>>]
  BY <1>4, <1>5, FoldAppend
<1>7. Pipe!Meant(cd, way, b, s) \in Outcome  BY MeantType
<1>. QED  BY <1>6, <1>7 DEF MeaningStep

\* A set that has the empty sequence, and with each sequence every longer one,
\* has all.
LEMMA AllSequences ==
  ASSUME NEW S, NEW Q, << >> \in Q,
         \A v \in Seq(S), e \in S : v \in Q => Append(v, e) \in Q
  PROVE  Seq(S) \subseteq Q
<1> DEFINE bad == {m \in Nat : \E u \in Seq(S) : Len(u) = m /\ u \notin Q}
<1>1. bad = {}
  <2>1. SUFFICES ASSUME bad # {}  PROVE FALSE
    OBVIOUS
  <2>2. PICK m \in bad : \A k \in bad : m <= k
    <3>1. bad \in SUBSET Nat  OBVIOUS
    <3> HIDE DEF bad
    <3>. QED  BY <2>1, <3>1, Least
  <2>3. PICK u \in Seq(S) : Len(u) = m /\ u \notin Q  OBVIOUS
  <2>4. PICK v \in Seq(S), e \in S : u = Append(v, e)
    <3>1. u # << >>  BY <2>3
    <3> HIDE DEF bad
    <3>. QED  BY <3>1, SequenceEmptyOrAppend
  <2>5. Len(v) \in Nat /\ Len(v) = m - 1 /\ ~ (m <= Len(v))  BY <2>3, <2>4
  <2>6. Len(v) \notin bad
    <3> HIDE DEF bad
    <3>. QED  BY <2>2, <2>5
  <2>7. v \in Q  BY <2>5, <2>6
  <2> HIDE DEF bad
  <2>. QED  BY <2>3, <2>4, <2>7
<1>2. \A u \in Seq(S) : Len(u) \in Nat  OBVIOUS
<1>. QED  BY <1>1, <1>2

\* Piece by piece.
LEMMA MeantConcat ==
  ASSUME NEW cd, NEW way, NEW d, NEW p, NEW s,
         d \in Outcome, p \in Seq(Bytes), s \in Seq(Bytes)
  PROVE  Pipe!Meant(cd, way, d, p \o s) = Pipe!Meant(cd, way, Pipe!Meant(cd, way, d, p), s)
<1> DEFINE M(t) == Pipe!Meant(cd, way, d, t)
<1> DEFINE N(t) == Pipe!Meant(cd, way, M(p), t)
<1> DEFINE Q == {t \in Seq(Bytes) : M(p \o t) = N(t)}
<1>0. M(p) \in Outcome  BY MeantType
<1>1. << >> \in Q
  <2>1. p \o << >> = p /\ << >> \in Seq(Bytes)  OBVIOUS
  <2>2. N(<< >>) = M(p)  BY <1>0, MeantNothing
  <2>. QED  BY <2>1, <2>2
<1>2. ASSUME NEW t \in Seq(Bytes), NEW e \in Bytes, t \in Q  PROVE Append(t, e) \in Q
  <2>0. p \o t \in Seq(Bytes)  OBVIOUS
  <2>1. p \o Append(t, e) = Append(p \o t, e)  OBVIOUS
  <2>2. Append(t, e) \in Seq(Bytes)  OBVIOUS
  <2>3. M(Append(p \o t, e)) = Pipe!Meaning(cd, way, M(p \o t), e)
    <3>1. \A u \in Seq(Bytes) : M(Append(u, e)) = Pipe!Meaning(cd, way, M(u), e)
      BY MeantAppend
    <3>. QED  BY <2>0, <3>1, Zenon
  <2>4. N(Append(t, e)) = Pipe!Meaning(cd, way, N(t), e)  BY <1>0, MeantAppend
  <2>5. M(p \o t) = N(t)  BY <1>2
  <2> HIDE DEF M, N
  <2>. QED  BY <2>1, <2>2, <2>3, <2>4, <2>5
<1>3. Seq(Bytes) \subseteq Q
  <2> HIDE DEF Q
  <2>. QED  BY <1>1, <1>2, AllSequences
<1>. QED  BY <1>3

\* A byte means the same after more.
LEMMA MeaningBefore ==
  ASSUME NEW cd, NEW way, NEW m, NEW d, NEW b,
         m \in Seq(Bytes), d \in Outcome, b \in Bytes
  PROVE  Pipe!Meaning(cd, way, Before(m, d), b) = Before(m, Pipe!Meaning(cd, way, d, b))
<1>1. /\ Before(m, d) \in Outcome /\ Before(m, d).made = m \o d.made
      /\ Before(m, d).lead <=> d.lead
  BY DEF Before, Outcome
<1>0. Before(m, d) \in Outcome /\ (Before(m, d).lead <=> d.lead)
  BY <1>1
<1>2. \A p \in Seq(Bytes) : /\ Before(m, Fresh(p)) = Fresh(m \o p)
                           /\ Before(m, Open(p)) = Open(m \o p)
  BY DEF Before, Fresh, Open
<1>3. \A p \in Seq(Bytes), e \in Bytes : m \o Append(p, e) = Append(m \o p, e)
  OBVIOUS
<1>4. d.made \in Seq(Bytes) /\ Pipe!Lead(way) \in Bytes /\ "?" \in Bytes
  BY DEF Outcome, Pipe!Lead, Bytes
<1>5. Plainly(way, Before(m, d), b) = m \o Plainly(way, d, b)
  <2>1. CASE d.lead
    <3>1. Append(d.made, Pipe!Lead(way)) \in Seq(Bytes)  BY <1>4
    <3>. QED  BY <1>1, <1>3, <1>4, <2>1, <3>1 DEF Plainly
  <2>2. CASE ~ d.lead  BY <1>1, <1>3, <1>4, <2>2 DEF Plainly
  <2>. QED  BY <2>1, <2>2
<1>6. Joined(way, Before(m, d)) = m \o Joined(way, d)
  <2>1. Pipe!Converted(way) \in Seq(Bytes)
    <3>1. <<"u", "v">> \in Seq(Bytes) /\ <<"h", "h">> \in Seq(Bytes)  BY DEF Bytes
    <3>. QED  BY <3>1 DEF Pipe!Converted
  <2>2. \A p, q \in Seq(Bytes) : m \o (p \o q) = (m \o p) \o q  OBVIOUS
  <2>3. Before(m, d).made = m \o d.made  BY <1>1
  <2>4. m \o (d.made \o Pipe!Converted(way)) = (m \o d.made) \o Pipe!Converted(way)
    BY <1>4, <2>1, <2>2, Zenon
  <2>. QED  BY <2>3, <2>4, Zenon DEF Joined
<1>7. Broken(Before(m, d)) = m \o Broken(d)
  BY <1>1, <1>3, <1>4 DEF Broken
<1>8. Anew(Before(m, d), b) = m \o Anew(d, b)
  <2>1. Broken(d) \in Seq(Bytes)  BY MadeType
  <2>2. (IF b \in Pipe!Single THEN b ELSE "?") \in Bytes  BY <1>4
  <2>. QED  BY <1>3, <1>7, <2>1, <2>2 DEF Anew
<1>9. /\ Plainly(way, d, b) \in Seq(Bytes) /\ Joined(way, d) \in Seq(Bytes)
      /\ Broken(d) \in Seq(Bytes) /\ Anew(d, b) \in Seq(Bytes)
  BY MadeType
<1> DEFINE was == Pipe!Meaning(cd, way, d, b)
<1> DEFINE is == Pipe!Meaning(cd, way, Before(m, d), b)
<1>10. CASE cd = "none"
  <2>1. was = Fresh(Plainly(way, d, b)) /\ is = Fresh(Plainly(way, Before(m, d), b))
    BY <1>0, <1>10, MeaningCases
  <2>2. is = Fresh(m \o Plainly(way, d, b))  BY <1>5, <2>1, Zenon
  <2>. QED  BY <1>2, <1>9, <2>1, <2>2
<1>11. CASE cd # "none" /\ d.lead /\ b = Pipe!Trail(way)
  <2>1. was = Fresh(Joined(way, d)) /\ is = Fresh(Joined(way, Before(m, d)))
    BY <1>0, <1>11, MeaningCases
  <2>2. is = Fresh(m \o Joined(way, d))  BY <1>6, <2>1, Zenon
  <2>. QED  BY <1>2, <1>9, <2>1, <2>2
<1>12. CASE cd # "none" /\ b = Pipe!Lead(way) /\ ~ (d.lead /\ b = Pipe!Trail(way))
  <2>1. was = Open(Broken(d)) /\ is = Open(Broken(Before(m, d)))
    BY <1>0, <1>12, MeaningCases
  <2>2. is = Open(m \o Broken(d))  BY <1>7, <2>1, Zenon
  <2>. QED  BY <1>2, <1>9, <2>1, <2>2
<1>13. CASE cd # "none" /\ b # Pipe!Lead(way) /\ ~ (d.lead /\ b = Pipe!Trail(way))
  <2>1. was = Fresh(Anew(d, b)) /\ is = Fresh(Anew(Before(m, d), b))
    BY <1>0, <1>13, MeaningCases
  <2>2. is = Fresh(m \o Anew(d, b))  BY <1>8, <2>1, Zenon
  <2>. QED  BY <1>2, <1>9, <2>1, <2>2
<1>. QED  BY <1>10, <1>11, <1>12, <1>13

\* So do some bytes.
LEMMA MeantBefore ==
  ASSUME NEW cd, NEW way, NEW m, NEW d, NEW s,
         m \in Seq(Bytes), d \in Outcome, s \in Seq(Bytes)
  PROVE  Pipe!Meant(cd, way, Before(m, d), s) = Before(m, Pipe!Meant(cd, way, d, s))
<1> DEFINE M(t) == Pipe!Meant(cd, way, d, t)
<1> DEFINE N(t) == Pipe!Meant(cd, way, Before(m, d), t)
<1> DEFINE Q == {t \in Seq(Bytes) : N(t) = Before(m, M(t))}
<1>0. Before(m, d) \in Outcome  BY DEF Before, Outcome
<1>1. << >> \in Q
  <2>1. N(<< >>) = Before(m, d)  BY <1>0, MeantNothing
  <2>2. M(<< >>) = d  BY MeantNothing
  <2>. QED  BY <2>1, <2>2
<1>2. ASSUME NEW t \in Seq(Bytes), NEW e \in Bytes, t \in Q  PROVE Append(t, e) \in Q
  <2>1. Append(t, e) \in Seq(Bytes)  OBVIOUS
  <2>2. N(Append(t, e)) = Pipe!Meaning(cd, way, N(t), e)  BY <1>0, MeantAppend
  <2>3. M(Append(t, e)) = Pipe!Meaning(cd, way, M(t), e) /\ M(t) \in Outcome
    BY MeantAppend, MeantType
  <2>4. N(t) = Before(m, M(t))  BY <1>2
  <2> HIDE DEF M, N
  <2>5. Pipe!Meaning(cd, way, Before(m, M(t)), e) = Before(m, Pipe!Meaning(cd, way, M(t), e))
    BY <2>3, MeaningBefore
  <2>. QED  BY <2>1, <2>2, <2>3, <2>4, <2>5
<1>3. Seq(Bytes) \subseteq Q
  <2> HIDE DEF Q
  <2>. QED  BY <1>1, <1>2, AllSequences
<1>. QED  BY <1>3

\* A codec that does not convert leaves the bytes alone.
LEMMA MeantPlainly ==
  ASSUME NEW way, NEW m, NEW s,
         m \in Seq(Bytes), s \in Seq(Bytes)
  PROVE  Pipe!Meant("none", way, Fresh(m), s) = Fresh(m \o s)
<1> DEFINE M(t) == Pipe!Meant("none", way, Fresh(m), t)
<1> DEFINE Q == {t \in Seq(Bytes) : M(t) = Fresh(m \o t)}
<1>0. \A p \in Seq(Bytes) : Fresh(p) \in Outcome /\ ~ Fresh(p).lead /\ Fresh(p).made = p
  BY DEF Fresh, Outcome
<1>1. << >> \in Q
  <2>1. M(<< >>) = Fresh(m)  BY <1>0, MeantNothing
  <2>2. m \o << >> = m  OBVIOUS
  <2>. QED  BY <2>1, <2>2
<1>2. ASSUME NEW t \in Seq(Bytes), NEW e \in Bytes, t \in Q  PROVE Append(t, e) \in Q
  <2>0. m \o Append(t, e) = Append(m \o t, e)  OBVIOUS
  <2>1. Append(t, e) \in Seq(Bytes) /\ m \o t \in Seq(Bytes)  OBVIOUS
  <2>2. M(Append(t, e)) = Pipe!Meaning("none", way, M(t), e)  BY <1>0, MeantAppend
  <2>3. M(t) = Fresh(m \o t)  BY <1>2
  <2>4. Plainly(way, Fresh(m \o t), e) = Append(m \o t, e)
    <3>1. \A p \in Seq(Bytes) : Plainly(way, Fresh(p), e) = Append(p, e)
      BY DEF Plainly, Fresh
    <3>. QED  BY <2>1, <3>1
  <2>5. Pipe!Meaning("none", way, Fresh(m \o t), e) = Fresh(Plainly(way, Fresh(m \o t), e))
    <3>1. \A u \in Seq(Bytes) :
             Pipe!Meaning("none", way, Fresh(u), e) = Fresh(Plainly(way, Fresh(u), e))
      BY <1>0, MeaningCases
    <3>. QED  BY <2>1, <3>1, Zenon
  <2> HIDE DEF M
  <2>6. M(Append(t, e)) = Fresh(m \o Append(t, e))
    BY <2>0, <2>2, <2>3, <2>4, <2>5, Zenon
  <2>. QED  BY <2>1, <2>6 DEF M
<1>3. Seq(Bytes) \subseteq Q
  <2> HIDE DEF Q
  <2>. QED  BY <1>1, <1>2, AllSequences
<1>. QED  BY <1>3

-----------------------------------------------------------------------------
(* What iconv makes of some bytes                                          *)

Scan == [made : Seq(Bytes), took : Nat, lead : BOOLEAN,
         errno : {"none", "E2BIG", "EILSEQ"}]

\* iconv stops at b, behind what it has taken.
Stops(way, c, b, n) ==
  /\ n.errno # "none" /\ n.made = c.made /\ n.took = c.took
  /\ n.errno = "EILSEQ" => IF c.lead THEN b # Pipe!Trail(way)
                                     ELSE b \notin Pipe!Single /\ b # Pipe!Lead(way)

\* b is the second byte of a character; the first one; a character.
Ends(way, c, b, n) ==
  /\ c.lead /\ b = Pipe!Trail(way)
  /\ n.errno = "none" /\ ~ n.lead
  /\ n.made = Joined(way, c) /\ n.took = c.took + 2
Begins(way, c, b, n) ==
  /\ ~ c.lead /\ b = Pipe!Lead(way)
  /\ n.errno = "none" /\ n.lead
  /\ n.made = c.made /\ n.took = c.took
Takes(way, c, b, n) ==
  /\ ~ c.lead /\ b \in Pipe!Single
  /\ n.errno = "none" /\ ~ n.lead
  /\ n.made = Append(c.made, b) /\ n.took = c.took + 1

\* One byte of iconv.
LEMMA ByteCases ==
  ASSUME NEW way, NEW c, NEW b, c \in Scan, b \in Bytes, Pipe!BufSizeAssumption
  PROVE  /\ c.errno # "none" => Pipe!Byte(way, c, b) = c
         /\ c.errno = "none" =>
              \/ Stops(way, c, b, Pipe!Byte(way, c, b))
              \/ Ends(way, c, b, Pipe!Byte(way, c, b))
              \/ Begins(way, c, b, Pipe!Byte(way, c, b))
              \/ Takes(way, c, b, Pipe!Byte(way, c, b))
         /\ Pipe!Byte(way, c, b) \in Scan
<1>0. /\ c.made \in Seq(Bytes) /\ c.took \in Nat /\ c.lead \in BOOLEAN
      /\ Len(c.made) \in Nat /\ BufSize \in Nat
  BY DEF Scan, Pipe!BufSizeAssumption
<1>1. CASE c.errno # "none"  BY <1>1 DEF Pipe!Byte
<1>2. CASE c.errno = "none" /\ c.lead /\ b = Pipe!Trail(way) /\ Len(c.made) + 2 > BufSize
  <2>1. Pipe!Byte(way, c, b) = [c EXCEPT !.errno = "E2BIG"]  BY <1>0, <1>2 DEF Pipe!Byte
  <2>2. Pipe!Byte(way, c, b) \in Scan  BY <2>1 DEF Scan
  <2>3. Stops(way, c, b, Pipe!Byte(way, c, b))  BY <2>1 DEF Scan, Stops
  <2>. QED  BY <1>2, <2>2, <2>3
<1>3. CASE c.errno = "none" /\ c.lead /\ b = Pipe!Trail(way) /\ Len(c.made) + 2 <= BufSize
  <2>1. Pipe!Byte(way, c, b) =
          [c EXCEPT !.made = @ \o Pipe!Converted(way), !.took = @ + 2, !.lead = FALSE]
    BY <1>0, <1>3 DEF Pipe!Byte
  <2>2. Pipe!Converted(way) \in Seq(Bytes)
    <3>1. <<"u", "v">> \in Seq(Bytes) /\ <<"h", "h">> \in Seq(Bytes)  BY DEF Bytes
    <3>. QED  BY <3>1 DEF Pipe!Converted
  <2>3. Pipe!Byte(way, c, b) \in Scan
    <3> DEFINE m == c.made \o Pipe!Converted(way)
               k == c.took + 2
    <3>1. m \in Seq(Bytes) /\ k \in Nat  BY <1>0, <2>2
    <3>2. Pipe!Byte(way, c, b) = [c EXCEPT !.made = m, !.took = k, !.lead = FALSE]  BY <2>1
    <3> HIDE DEF m, k
    <3>. QED  BY <3>1, <3>2 DEF Scan
  <2>4. Ends(way, c, b, Pipe!Byte(way, c, b))  BY <1>3, <2>1 DEF Scan, Ends, Joined
  <2>. QED  BY <1>3, <2>3, <2>4
<1>4. CASE c.errno = "none" /\ ~ c.lead /\ b = Pipe!Lead(way)
  <2>1. Pipe!Byte(way, c, b) = [c EXCEPT !.lead = TRUE]
    BY <1>0, <1>4 DEF Pipe!Byte, Pipe!Lead, Pipe!Single
  <2>2. Pipe!Byte(way, c, b) \in Scan  BY <2>1 DEF Scan
  <2>3. Begins(way, c, b, Pipe!Byte(way, c, b))  BY <1>4, <2>1 DEF Scan, Begins
  <2>. QED  BY <1>4, <2>2, <2>3
<1>5. CASE /\ c.errno = "none" /\ ~ c.lead /\ b # Pipe!Lead(way)
           /\ b \in Pipe!Single /\ Len(c.made) < BufSize
  <2>1. Pipe!Byte(way, c, b) = [c EXCEPT !.made = Append(@, b), !.took = @ + 1]
    BY <1>0, <1>5 DEF Pipe!Byte
  <2>2. Pipe!Byte(way, c, b) \in Scan
    <3> DEFINE m == Append(c.made, b)
               k == c.took + 1
    <3>1. m \in Seq(Bytes) /\ k \in Nat  BY <1>0
    <3>2. Pipe!Byte(way, c, b) = [c EXCEPT !.made = m, !.took = k]  BY <2>1
    <3> HIDE DEF m, k
    <3>. QED  BY <3>1, <3>2 DEF Scan
  <2>3. Takes(way, c, b, Pipe!Byte(way, c, b))  BY <1>5, <2>1 DEF Scan, Takes
  <2>. QED  BY <1>5, <2>2, <2>3
<1>6. CASE /\ c.errno = "none" /\ ~ c.lead /\ b # Pipe!Lead(way)
           /\ b \in Pipe!Single /\ Len(c.made) >= BufSize
  <2>1. Pipe!Byte(way, c, b) = [c EXCEPT !.errno = "E2BIG"]  BY <1>0, <1>6 DEF Pipe!Byte
  <2>2. Pipe!Byte(way, c, b) \in Scan  BY <2>1 DEF Scan
  <2>3. Stops(way, c, b, Pipe!Byte(way, c, b))  BY <2>1 DEF Scan, Stops
  <2>. QED  BY <1>6, <2>2, <2>3
<1>7. CASE /\ c.errno = "none"
           /\ IF c.lead THEN b # Pipe!Trail(way)
                        ELSE b \notin Pipe!Single /\ b # Pipe!Lead(way)
  <2>1. Pipe!Byte(way, c, b) = [c EXCEPT !.errno = "EILSEQ"]  BY <1>0, <1>7 DEF Pipe!Byte
  <2>2. Pipe!Byte(way, c, b) \in Scan  BY <2>1 DEF Scan
  <2>3. Stops(way, c, b, Pipe!Byte(way, c, b))  BY <1>7, <2>1 DEF Scan, Stops
  <2>. QED  BY <1>7, <2>2, <2>3
<1>. QED  BY <1>0, <1>1, <1>2, <1>3, <1>4, <1>5, <1>6, <1>7

ByteStep(way) == [p \in Scan \X Bytes |-> Pipe!Byte(way, p[1], p[2])]

\* F is how iconv comes to what it makes of s.
Scans(F, way, s) ==
  /\ F \in [SUBSET (1 .. Len(s)) -> Scan]
  /\ Recurs(F, ByteStep(way), Pipe!NoByte, s)
  /\ Pipe!Scanned(way, s) = F[1 .. Len(s)]

\* What iconv makes is a fold.
LEMMA ScannedFold ==
  ASSUME NEW way, NEW s, s \in Seq(Bytes), Pipe!BufSizeAssumption
  PROVE  \E F : Scans(F, way, s)
<1> DEFINE n == Len(s)
<1> DEFINE Body(G) == [t \in SUBSET DOMAIN s |->
             IF t = {} THEN Pipe!NoByte ELSE Pipe!Byte(way, G[t \ {Max(t)}], s[Max(t)])]
<1> DEFINE I == CHOOSE G : G = Body(G)
<1>0. n \in Nat /\ DOMAIN s = 1 .. n /\ \A i \in 1 .. n : s[i] \in Bytes  OBVIOUS
<1>1. Pipe!Scanned(way, s) = I[DOMAIN s]
  BY DEF Pipe!Scanned, Pipe!FoldLeft, Pipe!MapThenFoldSet, Pipe!Max, Max
<1>2. PICK F \in [SUBSET (1 .. n) -> Scan] : Recurs(F, ByteStep(way), Pipe!NoByte, s)
  <2>1. ByteStep(way) \in [Scan \X Bytes -> Scan]  BY ByteCases DEF ByteStep
  <2>2. Pipe!NoByte \in Scan
    <3>1. << >> \in Seq(Bytes)  OBVIOUS
    <3>. QED  BY <3>1 DEF Pipe!NoByte, Scan
  <2>. QED  BY <2>1, <2>2, FoldExists
<1>3. ASSUME NEW t \in SUBSET (1 .. n), t # {}
      PROVE  F[t] = Pipe!Byte(way, F[t \ {Max(t)}], s[Max(t)])
  <2>1. Max(t) \in t  BY <1>0, <1>3, MaxIn
  <2>2. s[Max(t)] \in Bytes /\ t \ {Max(t)} \in SUBSET (1 .. n)  BY <1>0, <2>1
  <2>3. F[t] = ByteStep(way)[<<F[t \ {Max(t)}], s[Max(t)]>>]
    BY <1>2, <1>3 DEF Recurs
  <2>4. F[t \ {Max(t)}] \in Scan  BY <1>2, <2>2
  <2>. QED  BY <2>2, <2>3, <2>4 DEF ByteStep
<1>4. F[{}] = Pipe!NoByte  BY <1>2 DEF Recurs
<1>5. F = Body(F)
  <2>1. \A t \in SUBSET DOMAIN s : F[t] = Body(F)[t]  BY <1>0, <1>3, <1>4
  <2>. QED  BY <1>0, <1>2, <2>1
<1>6. I = Body(I)
  <2> HIDE DEF Body
  <2>. QED  BY <1>5
<1> HIDE DEF I
<1>7. Alike(F, I, n)
  <2>1. I[{}] = Pipe!NoByte  BY <1>6
  <2>2. ASSUME NEW t \in SUBSET (1 .. n), t # {}
        PROVE  I[t] = Pipe!Byte(way, I[t \ {Max(t)}], s[Max(t)])
    BY <1>0, <1>6, <2>2
  <2>. QED  BY <1>3, <1>4, <2>1, <2>2 DEF Alike
<1>8. F[1 .. n] = I[1 .. n]
  <2>1. 1 .. n \in SUBSET (1 .. n)  OBVIOUS
  <2>. QED  BY <1>0, <1>7, <2>1, FoldUnique
<1>. QED  BY <1>0, <1>1, <1>2, <1>8 DEF Scans

\* Byte by byte.
LEMMA ScannedAppend ==
  ASSUME NEW way, Pipe!BufSizeAssumption
  PROVE  /\ Pipe!Scanned(way, << >>) = Pipe!NoByte
         /\ \A s \in Seq(Bytes) : Pipe!Scanned(way, s) \in Scan
         /\ \A s \in Seq(Bytes), e \in Bytes :
              Pipe!Scanned(way, Append(s, e)) = Pipe!Byte(way, Pipe!Scanned(way, s), e)
<1>1. Pipe!Scanned(way, << >>) = Pipe!NoByte
  <2>1. << >> \in Seq(Bytes) /\ Len(<< >>) = 0 /\ 1 .. 0 = {}  OBVIOUS
  <2>2. PICK F : Scans(F, way, << >>)  BY <2>1, ScannedFold
  <2>3. Recurs(F, ByteStep(way), Pipe!NoByte, << >>)
        /\ Pipe!Scanned(way, << >>) = F[1 .. Len(<< >>)]
    BY <2>2 DEF Scans
  <2>. QED  BY <2>1, <2>3 DEF Recurs
<1>2. ASSUME NEW s \in Seq(Bytes)  PROVE Pipe!Scanned(way, s) \in Scan
  <2>1. 1 .. Len(s) \in SUBSET (1 .. Len(s))  OBVIOUS
  <2>2. PICK F : Scans(F, way, s)  BY ScannedFold
  <2>. QED  BY <2>1, <2>2 DEF Scans
<1>3. ASSUME NEW s \in Seq(Bytes), NEW e \in Bytes
      PROVE  Pipe!Scanned(way, Append(s, e)) = Pipe!Byte(way, Pipe!Scanned(way, s), e)
  <2>1. Append(s, e) \in Seq(Bytes) /\ Len(Append(s, e)) = Len(s) + 1  OBVIOUS
  <2>2. PICK F : Scans(F, way, s)  BY ScannedFold
  <2>3. PICK G : Scans(G, way, Append(s, e))  BY <2>1, ScannedFold
  <2>4. /\ Recurs(F, ByteStep(way), Pipe!NoByte, s)
        /\ Pipe!Scanned(way, s) = F[1 .. Len(s)]
    BY <2>2 DEF Scans
  <2>5. /\ Recurs(G, ByteStep(way), Pipe!NoByte, Append(s, e))
        /\ Pipe!Scanned(way, Append(s, e)) = G[1 .. Len(s) + 1]
    BY <2>1, <2>3 DEF Scans
  <2>6. Pipe!Scanned(way, Append(s, e)) = ByteStep(way)[<<Pipe!Scanned(way, s), e>>]
    BY <2>4, <2>5, FoldAppend
  <2>. QED  BY <1>2, <2>6 DEF ByteStep
<1>. QED  BY <1>1, <1>2, <1>3

\* A character of two bytes.
LEMMA DoubleCharacter ==
  ASSUME NEW way, NEW m, m \in Seq(Bytes)
  PROVE  /\ Pipe!Meaning("iconv", way, Fresh(m), Pipe!Lead(way)) = Open(m)
         /\ Pipe!Meaning("iconv", way, Open(m), Pipe!Trail(way)) = Fresh(m \o Pipe!Converted(way))
<1>1. /\ ~ Fresh(m).lead /\ Open(m).lead
      /\ Fresh(m) \in Outcome /\ Open(m) \in Outcome
  BY DEF Fresh, Open, Outcome
<1>2. Pipe!Meaning("iconv", way, Fresh(m), Pipe!Lead(way)) = Open(m)
  <2>1. Broken(Fresh(m)) = m  BY DEF Broken, Fresh
  <2>2. Pipe!Meaning("iconv", way, Fresh(m), Pipe!Lead(way)) = Open(Broken(Fresh(m)))
    BY <1>1, MeaningCases
  <2>. QED  BY <2>1, <2>2, Zenon
<1>3. Pipe!Meaning("iconv", way, Open(m), Pipe!Trail(way)) = Fresh(m \o Pipe!Converted(way))
  <2>1. Pipe!Meaning("iconv", way, Open(m), Pipe!Trail(way)) = Fresh(Joined(way, Open(m)))
    BY <1>1, MeaningCases
  <2>2. Open(m).made = m  BY DEF Open
  <2>. QED  BY <2>1, <2>2, Zenon DEF Joined
<1>. QED  BY <1>2, <1>3

\* A byte that is a character, or the beginning of none.
LEMMA SingleCharacter ==
  ASSUME NEW way, NEW m, NEW e, m \in Seq(Bytes), e # Pipe!Lead(way)
  PROVE  Pipe!Meaning("iconv", way, Fresh(m), e) =
           Fresh(Append(m, IF e \in Pipe!Single THEN e ELSE "?"))
<1>1. ~ Fresh(m).lead /\ Fresh(m) \in Outcome  BY DEF Fresh, Outcome
<1>2. Pipe!Meaning("iconv", way, Fresh(m), e) = Fresh(Anew(Fresh(m), e))
  BY <1>1, MeaningCases
<1>3. Broken(Fresh(m)) = m  BY DEF Broken, Fresh
<1>. QED  BY <1>2, <1>3, Zenon DEF Anew

\* After the first byte of a character, a byte that is not the second one.
LEMMA HalfCharacter ==
  ASSUME NEW way, NEW m, NEW e, m \in Seq(Bytes), e # Pipe!Trail(way)
  PROVE  Pipe!Meaning("iconv", way, Open(m), e) =
           Pipe!Meaning("iconv", way, Fresh(Append(m, "?")), e)
<1> DEFINE q == Append(m, "?")
<1>1. Open(m).lead /\ Open(m) \in Outcome  BY DEF Open, Outcome
<1>2. Broken(Open(m)) = q  BY DEF Broken, Open
<1>3. q \in Seq(Bytes)  BY DEF Bytes
<1> HIDE DEF q
<1>4. Broken(Fresh(q)) = q /\ ~ Fresh(q).lead /\ Fresh(q) \in Outcome
  BY <1>3 DEF Broken, Fresh, Outcome
<1>5. CASE e = Pipe!Lead(way)
  <2>1. Pipe!Meaning("iconv", way, Open(m), e) = Open(Broken(Open(m)))
    BY <1>1, <1>5, MeaningCases
  <2>2. Pipe!Meaning("iconv", way, Fresh(q), e) = Open(Broken(Fresh(q)))
    BY <1>4, <1>5, MeaningCases
  <2>. QED  BY <1>2, <1>4, <2>1, <2>2, Zenon DEF q
<1>6. CASE e # Pipe!Lead(way)
  <2>1. Pipe!Meaning("iconv", way, Open(m), e) = Fresh(Anew(Open(m), e))
    BY <1>1, <1>6, MeaningCases
  <2>2. Pipe!Meaning("iconv", way, Fresh(q), e) = Fresh(Anew(Fresh(q), e))
    BY <1>4, <1>6, MeaningCases
  <2>3. Anew(Open(m), e) = Anew(Fresh(q), e)  BY <1>2, <1>4, Zenon DEF Anew
  <2>. QED  BY <2>1, <2>2, <2>3, Zenon DEF q
<1>. QED  BY <1>5, <1>6

\* What iconv has taken, p, it has converted; why it leaves r.
Stuck(way, r) ==
  \/ Len(r) > 0 /\ r[1] \notin Pipe!Single /\ r[1] # Pipe!Lead(way)
  \/ Len(r) > 1 /\ r[1] = Pipe!Lead(way) /\ r[2] # Pipe!Trail(way)
Cut(way, c, s, p, r) ==
  /\ p \in Seq(Bytes) /\ r \in Seq(Bytes) /\ s = p \o r /\ Len(p) = c.took
  /\ Pipe!Meant("iconv", way, Fresh(<< >>), p) = Fresh(c.made)
  /\ c.errno = "none" => r = IF c.lead THEN <<Pipe!Lead(way)>> ELSE << >>
  /\ c.errno = "EILSEQ" => Stuck(way, r)

\* One byte more.
LEMMA CutAppend ==
  ASSUME NEW way, NEW c, NEW s, NEW p, NEW r, NEW e, Pipe!BufSizeAssumption,
         c \in Scan, e \in Bytes, Cut(way, c, s, p, r)
  PROVE  \E q, t : Cut(way, Pipe!Byte(way, c, e), Append(s, e), q, t)
<1> DEFINE n == Pipe!Byte(way, c, e)
<1>0. /\ p \in Seq(Bytes) /\ r \in Seq(Bytes) /\ s = p \o r /\ Len(p) = c.took
      /\ Pipe!Meant("iconv", way, Fresh(<< >>), p) = Fresh(c.made)
      /\ c.made \in Seq(Bytes) /\ n \in Scan
      /\ Pipe!Lead(way) \in Bytes
  BY ByteCases DEF Cut, Scan, Pipe!Lead, Bytes
<1>1. Fresh(<< >>) \in Outcome
  <2>1. << >> \in Seq(Bytes)  OBVIOUS
  <2>. QED  BY <2>1 DEF Fresh, Outcome
<1>2. Append(r, e) \in Seq(Bytes)  BY <1>0
<1>3. Append(s, e) = p \o Append(r, e)
  <2>1. \A u, v \in Seq(Bytes) : Append(u \o v, e) = u \o Append(v, e)  OBVIOUS
  <2>. QED  BY <1>0, <2>1, Zenon
<1>4. ASSUME c.errno # "none"  PROVE Cut(way, n, Append(s, e), p, Append(r, e))
  <2>1. n = c  BY <1>4, ByteCases
  <2>2. Stuck(way, r) => Stuck(way, Append(r, e))  BY <1>0 DEF Stuck
  <2>. QED  BY <1>0, <1>2, <1>3, <1>4, <2>1, <2>2, Zenon DEF Cut
<1>5. ASSUME c.errno = "none", Stops(way, c, e, n)
      PROVE  Cut(way, n, Append(s, e), p, Append(r, e))
  <2>1. r = IF c.lead THEN <<Pipe!Lead(way)>> ELSE << >>  BY <1>5, Zenon DEF Cut
  <2>2. n.errno = "EILSEQ" => Stuck(way, Append(r, e))
    BY <1>5, <2>1 DEF Stops, Stuck
  <2>3. n.errno # "none" /\ n.made = c.made /\ n.took = c.took  BY <1>5, Zenon DEF Stops
  <2>. QED  BY <1>0, <1>2, <1>3, <2>2, <2>3, Zenon DEF Cut
<1>6. ASSUME c.errno = "none", Begins(way, c, e, n)
      PROVE  Cut(way, n, Append(s, e), p, Append(r, e))
  <2>1. r = << >>  BY <1>5, <1>6, Zenon DEF Cut, Begins
  <2>2. Append(r, e) = <<e>>  BY <2>1
  <2>3. n.errno = "none" /\ n.lead /\ n.made = c.made /\ n.took = c.took /\ e = Pipe!Lead(way)
    BY <1>6, Zenon DEF Begins
  <2>4. n.errno # "EILSEQ"  BY <2>3
  <2>. QED  BY <1>0, <1>2, <1>3, <2>2, <2>3, <2>4, Zenon DEF Cut
<1>7. ASSUME c.errno = "none", Takes(way, c, e, n)
      PROVE  Cut(way, n, Append(s, e), Append(p, e), << >>)
  <2>1. r = << >>  BY <1>7, Zenon DEF Cut, Takes
  <2>2. Append(p, e) \in Seq(Bytes) /\ Len(Append(p, e)) = Len(p) + 1 /\ << >> \in Seq(Bytes)
    BY <1>0
  <2>3. n.errno = "none" /\ ~ n.lead /\ n.made = Append(c.made, e) /\ n.took = c.took + 1
        /\ e \in Pipe!Single
    BY <1>7, Zenon DEF Takes
  <2>4. n.errno # "EILSEQ" /\ Len(Append(p, e)) = n.took  BY <1>0, <2>2, <2>3
  <2>5. Append(s, e) = Append(p, e) \o << >>
    <3>1. p \o << >> = p /\ Append(p, e) \o << >> = Append(p, e)  BY <1>0
    <3>. QED  BY <1>0, <2>1, <3>1, Zenon
  <2>6. Pipe!Meant("iconv", way, Fresh(<< >>), Append(p, e)) = Fresh(n.made)
    <3>1. Pipe!Meant("iconv", way, Fresh(<< >>), Append(p, e)) =
            Pipe!Meaning("iconv", way, Pipe!Meant("iconv", way, Fresh(<< >>), p), e)
      BY <1>0, <1>1, MeantAppend
    <3>2. Pipe!Meaning("iconv", way, Fresh(c.made), e) = Fresh(Append(c.made, e))
      <4>1. e \in Pipe!Single  BY <2>3
      <4>2. e # Pipe!Lead(way)  BY <4>1 DEF Pipe!Lead, Pipe!Single
      <4>3. c.made \in Seq(Bytes)  BY <1>0
      <4>4. Pipe!Meaning("iconv", way, Fresh(c.made), e) =
              Fresh(Append(c.made, IF e \in Pipe!Single THEN e ELSE "?"))
        BY <4>2, <4>3, SingleCharacter, Zenon
      <4>. QED  BY <4>1, <4>4, Zenon
    <3>. QED  BY <1>0, <2>3, <3>1, <3>2, Zenon
  <2>. QED  BY <2>2, <2>3, <2>4, <2>5, <2>6, Zenon DEF Cut
<1>8. ASSUME c.errno = "none", Ends(way, c, e, n)
      PROVE  Cut(way, n, Append(s, e), Append(Append(p, Pipe!Lead(way)), e), << >>)
  <2> DEFINE q == Append(p, Pipe!Lead(way))
  <2>1. r = <<Pipe!Lead(way)>>  BY <1>8, Zenon DEF Cut, Ends
  <2>2. q \in Seq(Bytes) /\ Len(q) = Len(p) + 1  BY <1>0
  <2>3. s = q
    <3>1. p \o <<Pipe!Lead(way)>> = q  BY <1>0
    <3>. QED  BY <1>0, <2>1, <3>1, Zenon
  <2>4. /\ n.errno = "none" /\ ~ n.lead /\ n.made = Joined(way, c) /\ n.took = c.took + 2
        /\ e = Pipe!Trail(way)
    BY <1>8, Zenon DEF Ends
  <2>5. Pipe!Meant("iconv", way, Fresh(<< >>), q) =
          Pipe!Meaning("iconv", way, Pipe!Meant("iconv", way, Fresh(<< >>), p), Pipe!Lead(way))
    BY <1>0, <1>1, MeantAppend
  <2> HIDE DEF q
  <2>6. Pipe!Meant("iconv", way, Fresh(<< >>), Append(q, e)) =
          Pipe!Meaning("iconv", way, Pipe!Meant("iconv", way, Fresh(<< >>), q), e)
    BY <1>1, <2>2, MeantAppend
  <2>7. Append(q, e) \in Seq(Bytes) /\ Len(Append(q, e)) = n.took /\ << >> \in Seq(Bytes)
    BY <1>0, <2>2, <2>4 DEF Scan
  <2>8. Append(s, e) = Append(q, e) \o << >>
    <3>1. Append(q, e) \o << >> = Append(q, e)  BY <2>2
    <3>. QED  BY <2>3, <3>1, Zenon
  <2>9. Pipe!Meant("iconv", way, Fresh(<< >>), Append(q, e)) = Fresh(n.made)
    <3>1. Pipe!Meaning("iconv", way, Fresh(c.made), Pipe!Lead(way)) = Open(c.made)
      BY <1>0, DoubleCharacter, Zenon
    <3>2. Pipe!Meaning("iconv", way, Open(c.made), e) = Fresh(Joined(way, c))
      BY <1>0, <2>4, DoubleCharacter, Zenon DEF Joined
    <3>. QED  BY <1>0, <2>4, <2>5, <2>6, <3>1, <3>2, Zenon
  <2>10. n.errno # "EILSEQ"  BY <2>4
  <2>. QED  BY <2>4, <2>7, <2>8, <2>9, <2>10, Zenon DEF Cut, q
<1>. QED  BY <1>4, <1>5, <1>6, <1>7, <1>8, ByteCases

\* What iconv takes of any bytes.
LEMMA ScannedCut ==
  ASSUME NEW way, NEW s, s \in Seq(Bytes), Pipe!BufSizeAssumption
  PROVE  \E p, r : Cut(way, Pipe!Scanned(way, s), s, p, r)
<1> DEFINE Q == {t \in Seq(Bytes) : \E p, r : Cut(way, Pipe!Scanned(way, t), t, p, r)}
<1>1. << >> \in Q
  <2>1. /\ Pipe!NoByte.made = << >> /\ Pipe!NoByte.took = 0 /\ ~ Pipe!NoByte.lead
        /\ Pipe!NoByte.errno = "none" /\ Pipe!NoByte.errno # "EILSEQ"
    BY DEF Pipe!NoByte
  <2>2. << >> \in Seq(Bytes) /\ << >> \o << >> = << >> /\ Len(<< >>) = 0  OBVIOUS
  <2>3. Pipe!Meant("iconv", way, Fresh(<< >>), << >>) = Fresh(<< >>)
    <3>1. Fresh(<< >>) \in Outcome  BY <2>2 DEF Fresh, Outcome
    <3>. QED  BY <3>1, MeantNothing
  <2>4. Cut(way, Pipe!NoByte, << >>, << >>, << >>)  BY <2>1, <2>2, <2>3, Zenon DEF Cut
  <2>. QED  BY <2>2, <2>4, ScannedAppend
<1>2. ASSUME NEW t \in Seq(Bytes), NEW e \in Bytes, t \in Q  PROVE Append(t, e) \in Q
  <2>1. PICK p, r : Cut(way, Pipe!Scanned(way, t), t, p, r)  BY <1>2
  <2>2. Pipe!Scanned(way, t) \in Scan  BY ScannedAppend
  <2>3. \E q, u : Cut(way, Pipe!Byte(way, Pipe!Scanned(way, t), e), Append(t, e), q, u)
    BY <2>1, <2>2, CutAppend
  <2>4. Pipe!Scanned(way, Append(t, e)) = Pipe!Byte(way, Pipe!Scanned(way, t), e)
    BY ScannedAppend
  <2>5. Append(t, e) \in Seq(Bytes)  OBVIOUS
  <2>. QED  BY <2>3, <2>4, <2>5
<1>3. Seq(Bytes) \subseteq Q
  <2> HIDE DEF Q
  <2>. QED  BY <1>1, <1>2, AllSequences
<1>. QED  BY <1>3

-----------------------------------------------------------------------------
(* A round of translate                                                    *)

\* What is owed when m is held and r has yet to be converted.
Owed(cd, way, m, r) == Before(m, Pipe!Meant(cd, way, Fresh(<< >>), r))

\* Outcomes one after the other.
LEMMA BeforeFacts ==
  /\ \A m \in Seq(Bytes) : Fresh(m) \in Outcome /\ Open(m) \in Outcome
  /\ \A m \in Seq(Bytes), d \in Outcome : Before(m, d) \in Outcome
  /\ \A m, k \in Seq(Bytes), d \in Outcome : Before(m, Before(k, d)) = Before(m \o k, d)
  /\ \A m, k \in Seq(Bytes) : Before(m, Fresh(k)) = Fresh(m \o k)
  /\ \A d \in Outcome : Before(<< >>, d) = d
  /\ << >> \in Seq(Bytes)
<1>0. << >> \in Seq(Bytes)  OBVIOUS
<1>1. \A m \in Seq(Bytes) : Fresh(m) \in Outcome /\ Open(m) \in Outcome
  BY DEF Fresh, Open, Outcome
<1>2. \A m \in Seq(Bytes), d \in Outcome : Before(m, d) \in Outcome
  BY DEF Before, Outcome
<1>3. ASSUME NEW m \in Seq(Bytes), NEW k \in Seq(Bytes), NEW d \in Outcome
      PROVE  Before(m, Before(k, d)) = Before(m \o k, d)
  <2>1. d.made \in Seq(Bytes)  BY DEF Outcome
  <2>2. \A v \in Seq(Bytes) : m \o (k \o v) = (m \o k) \o v  OBVIOUS
  <2>3. m \o (k \o d.made) = (m \o k) \o d.made  BY <2>1, <2>2, Zenon
  <2>4. Before(k, d).lead = d.lead /\ Before(k, d).made = k \o d.made  BY DEF Before
  <2>. QED  BY <2>3, <2>4, Zenon DEF Before
<1>4. ASSUME NEW m \in Seq(Bytes), NEW k \in Seq(Bytes)
      PROVE  Before(m, Fresh(k)) = Fresh(m \o k)
  BY DEF Before, Fresh
<1>5. ASSUME NEW d \in Outcome  PROVE Before(<< >>, d) = d
  <2>1. d.made \in Seq(Bytes) /\ d = [lead |-> d.lead, made |-> d.made]  BY DEF Outcome
  <2>2. \A v \in Seq(Bytes) : << >> \o v = v  OBVIOUS
  <2>3. << >> \o d.made = d.made  BY <2>1, <2>2, Zenon
  <2>. QED  BY <2>1, <2>3, Zenon DEF Before
<1>. QED  BY <1>0, <1>1, <1>2, <1>3, <1>4, <1>5

\* What m and then r mean.
LEMMA MeantAfter ==
  ASSUME NEW cd, NEW way, NEW m, NEW r, m \in Seq(Bytes), r \in Seq(Bytes)
  PROVE  /\ Pipe!Meant(cd, way, Fresh(m), r) = Owed(cd, way, m, r)
         /\ Pipe!Meant(cd, way, Fresh(<< >>), r) \in Outcome
         /\ Owed(cd, way, m, r) \in Outcome
<1>1. /\ << >> \in Seq(Bytes) /\ Fresh(<< >>) \in Outcome
      /\ Before(m, Fresh(<< >>)) = Fresh(m \o << >>)
  BY BeforeFacts
<1>2. m \o << >> = m  OBVIOUS
<1>3. Before(m, Fresh(<< >>)) = Fresh(m)  BY <1>1, <1>2, Zenon
<1>4. Pipe!Meant(cd, way, Before(m, Fresh(<< >>)), r) = Owed(cd, way, m, r)
  <2> DEFINE d == Fresh(<< >>)
  <2>1. d \in Outcome  BY <1>1
  <2> HIDE DEF d
  <2>2. Pipe!Meant(cd, way, Before(m, d), r) = Before(m, Pipe!Meant(cd, way, d, r))
    BY <2>1, MeantBefore
  <2>. QED  BY <2>2, Zenon DEF Owed, d
<1>5. Pipe!Meant(cd, way, Fresh(<< >>), r) \in Outcome  BY <1>1, MeantType
<1>6. Owed(cd, way, m, r) \in Outcome  BY <1>5, BeforeFacts, Zenon DEF Owed
<1>. QED  BY <1>3, <1>4, <1>5, <1>6, Zenon

\* Nothing owed but what is held.
LEMMA OwedNothing ==
  ASSUME NEW cd, NEW way, NEW m, m \in Seq(Bytes)
  PROVE  Owed(cd, way, m, << >>) = Fresh(m)
<1>1. << >> \in Seq(Bytes) /\ Fresh(m) \in Outcome  BY BeforeFacts
<1>2. Pipe!Meant(cd, way, Fresh(m), << >>) = Fresh(m)  BY <1>1, MeantNothing
<1>. QED  BY <1>1, <1>2, MeantAfter, Zenon

\* What is behind p.
LEMMA Remainder ==
  ASSUME NEW p, NEW r, NEW n, p \in Seq(Bytes), r \in Seq(Bytes), n = Len(p)
  PROVE  Pipe!From(p \o r, n) = r
<1>1. Len(p \o r) = Len(p) + Len(r) /\ Len(p) \in Nat /\ Len(r) \in Nat  OBVIOUS
<1>2. \A i \in 1 .. Len(r) : (p \o r)[Len(p) + i] = r[i]  OBVIOUS
<1>3. Pipe!From(p \o r, n) \in Seq(Bytes) /\ Len(Pipe!From(p \o r, n)) = Len(r)
  BY <1>1 DEF Pipe!From
<1>4. \A i \in 1 .. Len(r) : Pipe!From(p \o r, n)[i] = r[i]
  BY <1>1, <1>2 DEF Pipe!From
<1>5. \A u, v \in Seq(Bytes) :
         Len(u) = Len(v) /\ (\A i \in 1 .. Len(v) : u[i] = v[i]) => u = v
  OBVIOUS
<1>. QED  BY <1>3, <1>4, <1>5, Zenon

\* iconv has taken some bytes.
LEMMA Took ==
  ASSUME NEW way, NEW s, s \in Seq(Bytes), Pipe!BufSizeAssumption
  PROVE  LET c == Pipe!Iconv(way, s)
             r == Pipe!From(s, c.took)
         IN  /\ c.made \in Seq(Bytes) /\ c.took \in Nat /\ r \in Seq(Bytes)
             /\ Pipe!Meant("iconv", way, Fresh(<< >>), s) = Owed("iconv", way, c.made, r)
<1> DEFINE c == Pipe!Scanned(way, s)
<1>1. PICK p, r : Cut(way, c, s, p, r)  BY ScannedCut
<1>2. c \in Scan  BY ScannedAppend
<1> HIDE DEF c
<1>3. /\ Pipe!Iconv(way, s).made = c.made /\ Pipe!Iconv(way, s).took = c.took
      /\ c.made \in Seq(Bytes) /\ c.took \in Nat
  BY <1>2 DEF Pipe!Iconv, Scan, c
<1>4. /\ p \in Seq(Bytes) /\ r \in Seq(Bytes) /\ s = p \o r /\ Len(p) = c.took
      /\ Pipe!Meant("iconv", way, Fresh(<< >>), p) = Fresh(c.made)
  BY <1>1, Zenon DEF Cut
<1>5. Pipe!From(s, c.took) = r  
  <2>1. Pipe!From(p \o r, c.took) = r  BY <1>4, Remainder, Zenon
  <2>. QED  BY <1>4, <2>1, Zenon
<1>6. << >> \in Seq(Bytes) /\ Fresh(<< >>) \in Outcome  BY BeforeFacts
<1>7. Pipe!Meant("iconv", way, Fresh(<< >>), p \o r) =
        Pipe!Meant("iconv", way, Pipe!Meant("iconv", way, Fresh(<< >>), p), r)
  BY <1>4, <1>6, MeantConcat
<1>8. Pipe!Meant("iconv", way, Fresh(c.made), r) = Owed("iconv", way, c.made, r)
  BY <1>3, <1>4, MeantAfter
<1>. QED  BY <1>3, <1>4, <1>5, <1>7, <1>8, Zenon

\* The first byte, and the bytes behind it.
LEMMA Unfolded ==
  ASSUME NEW s, s \in Seq(Bytes), s # << >>
  PROVE  /\ s[1] \in Bytes /\ Tail(s) \in Seq(Bytes) /\ <<s[1]>> \in Seq(Bytes)
         /\ s = <<s[1]>> \o Tail(s)
         /\ Len(s) > 0 /\ Head(s) = s[1] /\ Len(Tail(s)) = Len(s) - 1
<1>1. s[1] \in Bytes /\ Tail(s) \in Seq(Bytes) /\ Len(s) > 0  OBVIOUS
<1>2. <<s[1]>> \in Seq(Bytes)  BY <1>1
<1>3. s = <<s[1]>> \o Tail(s)  BY <1>1
<1>. QED  BY <1>1, <1>2, <1>3

\* What the first byte means, and then the others.
LEMMA MeantFirst ==
  ASSUME NEW cd, NEW way, NEW d, NEW s, d \in Outcome, s \in Seq(Bytes), s # << >>
  PROVE  Pipe!Meant(cd, way, d, s) =
           Pipe!Meant(cd, way, Pipe!Meaning(cd, way, d, s[1]), Tail(s))
<1> DEFINE b == s[1]
<1>1. /\ b \in Bytes /\ Tail(s) \in Seq(Bytes) /\ <<b>> \in Seq(Bytes)
      /\ s = <<b>> \o Tail(s)
  BY Unfolded
<1> HIDE DEF b
<1>2. Pipe!Meant(cd, way, d, <<b>> \o Tail(s)) =
        Pipe!Meant(cd, way, Pipe!Meant(cd, way, d, <<b>>), Tail(s))
  <2> DEFINE p == <<b>>
  <2> DEFINE t == Tail(s)
  <2>1. t \in Seq(Bytes) /\ p \in Seq(Bytes)  BY <1>1, Zenon
  <2> HIDE DEF p, t
  <2>2. Pipe!Meant(cd, way, d, p \o t) = Pipe!Meant(cd, way, Pipe!Meant(cd, way, d, p), t)
    BY <2>1, MeantConcat
  <2>. QED  BY <2>2, Zenon DEF p, t
<1>3. Pipe!Meant(cd, way, d, <<b>>) = Pipe!Meaning(cd, way, d, b)
  <2>1. << >> \in Seq(Bytes) /\ Append(<< >>, b) = <<b>>  OBVIOUS
  <2>2. Pipe!Meant(cd, way, d, Append(<< >>, b)) =
          Pipe!Meaning(cd, way, Pipe!Meant(cd, way, d, << >>), b)
    <3> DEFINE p == << >>
    <3>1. p \in Seq(Bytes) /\ b \in Bytes  BY <1>1, <2>1, Zenon
    <3> HIDE DEF p
    <3>2. Pipe!Meant(cd, way, d, Append(p, b)) =
            Pipe!Meaning(cd, way, Pipe!Meant(cd, way, d, p), b)
      BY <3>1, MeantAppend
    <3>. QED  BY <3>2, Zenon DEF p
  <2>3. Pipe!Meant(cd, way, d, << >>) = d  BY MeantNothing
  <2>. QED  BY <2>1, <2>2, <2>3, Zenon
<1>. QED  BY <1>1, <1>2, <1>3, Zenon DEF b

\* The second byte.
LEMMA Second ==
  \A s \in Seq(Bytes) : Len(s) > 1 => Tail(s) # << >> /\ Tail(s)[1] = s[2]
<1>1. ASSUME NEW s \in Seq(Bytes), Len(s) > 1  PROVE Len(Tail(s)) # 0
  <2> DEFINE n == Len(s)
  <2> DEFINE k == Len(Tail(s))
  <2>1. n \in Nat /\ k = n - 1  BY <1>1
  <2>2. n > 1  BY <1>1
  <2> HIDE DEF n, k
  <2>3. k # 0  BY <2>1, <2>2
  <2>. QED  BY <2>3 DEF k
<1>2. Len(<< >>) = 0  OBVIOUS
<1>3. \A s \in Seq(Bytes) : Len(s) > 1 => Tail(s) # << >>  BY <1>1, <1>2, Zenon
<1>4. ASSUME NEW s \in Seq(Bytes), Len(s) > 1  PROVE Tail(s)[1] = s[2]  BY <1>4
<1>. QED  BY <1>3, <1>4, Zenon

\* A byte that begins no character means "?".
LEMMA Stray ==
  ASSUME NEW way, NEW s, s \in Seq(Bytes), Stuck(way, s)
  PROVE  /\ s # << >> /\ Tail(s) \in Seq(Bytes) /\ <<"?">> \in Seq(Bytes)
         /\ Pipe!Meant("iconv", way, Fresh(<< >>), s) = Owed("iconv", way, <<"?">>, Tail(s))
<1>1. s # << >>  BY DEF Stuck
<1>2. /\ s[1] \in Bytes /\ Tail(s) \in Seq(Bytes) /\ <<"?">> \in Seq(Bytes)
      /\ << >> \in Seq(Bytes) /\ Fresh(<< >>) \in Outcome /\ Fresh(<<"?">>) \in Outcome
      /\ Open(<< >>) \in Outcome
  <2>1. <<"?">> \in Seq(Bytes)  BY DEF Bytes
  <2>. QED  BY <1>1, <2>1, Unfolded, BeforeFacts
<1>3. Pipe!Meant("iconv", way, Fresh(<< >>), s) =
        Pipe!Meant("iconv", way, Pipe!Meaning("iconv", way, Fresh(<< >>), s[1]), Tail(s))
  BY <1>1, <1>2, MeantFirst
<1>4. Append(<< >>, "?") = <<"?">>  OBVIOUS
<1>5. CASE s[1] \notin Pipe!Single /\ s[1] # Pipe!Lead(way)
  <2>1. Pipe!Meaning("iconv", way, Fresh(<< >>), s[1]) =
          Fresh(Append(<< >>, IF s[1] \in Pipe!Single THEN s[1] ELSE "?"))
    BY <1>2, <1>5, SingleCharacter, Zenon
  <2>2. Pipe!Meaning("iconv", way, Fresh(<< >>), s[1]) = Fresh(<<"?">>)
    BY <1>4, <1>5, <2>1, Zenon
  <2>3. Pipe!Meant("iconv", way, Fresh(<<"?">>), Tail(s)) =
          Owed("iconv", way, <<"?">>, Tail(s))
    BY <1>2, MeantAfter
  <2>. QED  BY <1>1, <1>2, <1>3, <2>2, <2>3, Zenon
<1>6. CASE Len(s) > 1 /\ s[1] = Pipe!Lead(way) /\ s[2] # Pipe!Trail(way)
  <2>1. Tail(s) # << >> /\ Tail(s)[1] = s[2]  BY <1>6, Second, Zenon
  <2>2. Pipe!Meaning("iconv", way, Fresh(<< >>), s[1]) = Open(<< >>)
    BY <1>2, <1>6, DoubleCharacter, Zenon
  <2>3. Pipe!Meant("iconv", way, Open(<< >>), Tail(s)) =
          Pipe!Meant("iconv", way, Pipe!Meaning("iconv", way, Open(<< >>), s[2]), Tail(Tail(s)))
    <3> DEFINE d == Open(<< >>)
    <3> DEFINE t == Tail(s)
    <3>1. d \in Outcome /\ t \in Seq(Bytes) /\ t # << >>  BY <1>2, <2>1, Zenon
    <3> HIDE DEF d, t
    <3>2. Pipe!Meant("iconv", way, d, t) =
            Pipe!Meant("iconv", way, Pipe!Meaning("iconv", way, d, t[1]), Tail(t))
      BY <3>1, MeantFirst
    <3>. QED  BY <2>1, <3>2, Zenon DEF d, t
  <2>4. Pipe!Meant("iconv", way, Fresh(<<"?">>), Tail(s)) =
          Pipe!Meant("iconv", way, Pipe!Meaning("iconv", way, Fresh(<<"?">>), s[2]), Tail(Tail(s)))
    <3> DEFINE d == Fresh(<<"?">>)
    <3> DEFINE t == Tail(s)
    <3>1. d \in Outcome /\ t \in Seq(Bytes) /\ t # << >>  BY <1>2, <2>1, Zenon
    <3> HIDE DEF d, t
    <3>2. Pipe!Meant("iconv", way, d, t) =
            Pipe!Meant("iconv", way, Pipe!Meaning("iconv", way, d, t[1]), Tail(t))
      BY <3>1, MeantFirst
    <3>. QED  BY <2>1, <3>2, Zenon DEF d, t
  <2>5. Pipe!Meaning("iconv", way, Open(<< >>), s[2]) =
          Pipe!Meaning("iconv", way, Fresh(<<"?">>), s[2])
    BY <1>2, <1>4, <1>6, HalfCharacter, Zenon
  <2>6. Pipe!Meant("iconv", way, Fresh(<<"?">>), Tail(s)) =
          Owed("iconv", way, <<"?">>, Tail(s))
    BY <1>2, MeantAfter
  <2>. QED  BY <1>1, <1>2, <1>3, <2>2, <2>3, <2>4, <2>5, <2>6, Zenon
<1>. QED  BY <1>5, <1>6, Zenon DEF Stuck

\* Why iconv takes nothing.
LEMMA TookNothing ==
  ASSUME NEW way, NEW s, s \in Seq(Bytes), Pipe!BufSizeAssumption,
         Pipe!Iconv(way, s).took = 0
  PROVE  /\ Pipe!Iconv(way, s).errno = "EILSEQ" => Stuck(way, s)
         /\ Pipe!Iconv(way, s).errno = "EINVAL" => s = <<Pipe!Lead(way)>>
<1> DEFINE c == Pipe!Scanned(way, s)
<1>1. PICK p, r : Cut(way, c, s, p, r)  BY ScannedCut
<1>2. c \in Scan  BY ScannedAppend
<1> HIDE DEF c
<1>3. /\ Pipe!Iconv(way, s).took = c.took
      /\ Pipe!Iconv(way, s).errno = "EILSEQ" => c.errno = "EILSEQ"
      /\ Pipe!Iconv(way, s).errno = "EINVAL" => c.errno = "none" /\ c.lead
  BY <1>2 DEF Pipe!Iconv, Scan, c
<1>4. /\ p \in Seq(Bytes) /\ r \in Seq(Bytes) /\ s = p \o r /\ Len(p) = c.took
      /\ c.errno = "none" => r = IF c.lead THEN <<Pipe!Lead(way)>> ELSE << >>
      /\ c.errno = "EILSEQ" => Stuck(way, r)
  BY <1>1, Zenon DEF Cut
<1>5. Len(p) = 0  BY <1>3, <1>4, Zenon
<1>6. s = r
  <2>1. \A u, v \in Seq(Bytes) : Len(u) = 0 => u \o v = v  OBVIOUS
  <2>. QED  BY <1>4, <1>5, <2>1, Zenon
<1>. QED  BY <1>3, <1>4, <1>6, Zenon

-----------------------------------------------------------------------------
(* The pipe: how its state says what it owes                               *)

PipeTypes ==
  /\ outq \in Seq(Bytes) /\ inq \in Seq(Bytes) /\ Len(inq) <= Room
  /\ text \in Seq(Bytes) /\ out \in Seq(Bytes) /\ codec \in {"none", "iconv"}
  /\ rest \in [{"read", "write"} -> Seq(Bytes)]
  /\ left \in [{"read", "write"} -> Seq(Bytes)]
  /\ due \in [{"read", "write"} -> Outcome]

\* What the program is owed, d, when the kernel keeps i, writeIo has o, and
\* translate r.
WriteOwes(cd, i, o, r, d) == d = Owed(cd, "write", i \o o, r)

\* What the terminal is owed, d, when VTerm::input has t, translate r, and l is
\* left: between two reads nothing but the character that l begins.
Begun(d, l) ==
  \/ d = Fresh(<< >>) /\ l = << >>
  \/ d = Open(<< >>) /\ l = <<"h">>
ReadOwes(cd, t, r, d, l) ==
  /\ t # << >> \/ r # << >> => d = Owed(cd, "read", t, r) /\ l = << >>
  /\ t = << >> /\ r = << >> => Begun(d, l)

PipeInv ==
  /\ PipeTypes
  /\ WriteOwes(codec, inq, out, rest["write"], due["write"])
  /\ ReadOwes(codec, text, rest["read"], due["read"], left["read"])

\* A round of translate turns s into g, and has yet to convert r.
Turn(cd, way, s, g, r) ==
  /\ g \in Seq(Bytes) /\ r \in Seq(Bytes)
  /\ Pipe!Meant(cd, way, Fresh(<< >>), s) = Owed(cd, way, g, r)

\* What is owed, with nothing held.
LEMMA OwedAlone ==
  ASSUME NEW cd, NEW way, NEW r, r \in Seq(Bytes)
  PROVE  Owed(cd, way, << >>, r) = Pipe!Meant(cd, way, Fresh(<< >>), r)
<1> DEFINE d == Pipe!Meant(cd, way, Fresh(<< >>), r)
<1>1. << >> \in Seq(Bytes)  OBVIOUS
<1>2. d \in Outcome  BY <1>1, MeantAfter
<1> HIDE DEF d
<1>3. Before(<< >>, d) = d  BY <1>2, BeforeFacts
<1>. QED  BY <1>3, Zenon DEF Owed, d

\* What is owed is owed whether or not it is all.
LEMMA Settled ==
  ASSUME NEW cd, NEW t, NEW r, NEW d, NEW l, t \in Seq(Bytes), r \in Seq(Bytes),
         d = Owed(cd, "read", t, r), l = << >>
  PROVE  ReadOwes(cd, t, r, d, l)
<1>1. << >> \in Seq(Bytes)  OBVIOUS
<1>2. Owed(cd, "read", << >>, << >>) = Fresh(<< >>)  BY <1>1, OwedNothing, Zenon
<1>3. t = << >> /\ r = << >> => d = Fresh(<< >>)  BY <1>2, Zenon
<1>. QED  BY <1>3, Zenon DEF ReadOwes, Begun

\* A round, read.
LEMMA TurnRead ==
  ASSUME NEW cd, NEW s, NEW g, NEW r, NEW d, NEW l,
         s \in Seq(Bytes), s # << >>, ReadOwes(cd, << >>, s, d, l), Turn(cd, "read", s, g, r)
  PROVE  ReadOwes(cd, g, r, d, l)
<1>1. d = Owed(cd, "read", << >>, s) /\ l = << >>  BY Zenon DEF ReadOwes
<1>2. g \in Seq(Bytes) /\ r \in Seq(Bytes)  BY Zenon DEF Turn
<1>3. d = Owed(cd, "read", g, r)
  <2>1. Owed(cd, "read", << >>, s) = Pipe!Meant(cd, "read", Fresh(<< >>), s)
    BY OwedAlone, Zenon
  <2>. QED  BY <1>1, <2>1, Zenon DEF Turn
<1>. QED  BY <1>1, <1>2, <1>3, Settled, Zenon

\* A round, written.
LEMMA TurnWrite ==
  ASSUME NEW cd, NEW i, NEW s, NEW g, NEW r, NEW d,
         i \in Seq(Bytes), s \in Seq(Bytes), WriteOwes(cd, i, << >>, s, d),
         Turn(cd, "write", s, g, r)
  PROVE  WriteOwes(cd, i, g, r, d)
<1>1. g \in Seq(Bytes) /\ r \in Seq(Bytes)  BY Zenon DEF Turn
<1>2. i \o << >> = i  OBVIOUS
<1>3. d = Before(i, Pipe!Meant(cd, "write", Fresh(<< >>), s))
  BY <1>2, Zenon DEF WriteOwes, Owed
<1> DEFINE m == Pipe!Meant(cd, "write", Fresh(<< >>), r)
<1>4. << >> \in Seq(Bytes)  OBVIOUS
<1>5. m \in Outcome  BY <1>1, <1>4, MeantAfter
<1> HIDE DEF m
<1>6. Pipe!Meant(cd, "write", Fresh(<< >>), s) = Before(g, m)
  BY Zenon DEF Turn, Owed, m
<1>7. Before(i, Before(g, m)) = Before(i \o g, m)  BY <1>1, <1>5, BeforeFacts
<1>. QED  BY <1>3, <1>6, <1>7, Zenon DEF WriteOwes, Owed, m

\* Without a codec a round is all of it.
LEMMA TurnPlain ==
  ASSUME NEW way, NEW s, s \in Seq(Bytes)
  PROVE  Turn("none", way, s, s, << >>)
<1>1. << >> \in Seq(Bytes) /\ << >> \o s = s  OBVIOUS
<1>2. Pipe!Meant("none", way, Fresh(<< >>), s) = Fresh(<< >> \o s)
  BY <1>1, MeantPlainly, Zenon
<1>3. Owed("none", way, s, << >>) = Fresh(s)  BY OwedNothing, Zenon
<1>. QED  BY <1>1, <1>2, <1>3, Zenon DEF Turn

\* With iconv: what it takes, or the byte it cannot take.
LEMMA TurnIconv ==
  ASSUME NEW way, NEW s, s \in Seq(Bytes), Pipe!BufSizeAssumption
  PROVE  LET c == Pipe!Iconv(way, s)
         IN  /\ Turn("iconv", way, s, c.made, Pipe!From(s, c.took))
             /\ c.took = 0 /\ c.errno = "EILSEQ" => Turn("iconv", way, s, <<"?">>, Tail(s))
             /\ c.took = 0 /\ c.errno = "EINVAL" =>
                  /\ s = <<Pipe!Lead(way)>>
                  /\ Pipe!Meant("iconv", way, Fresh(<< >>), s) = Open(<< >>)
<1> DEFINE c == Pipe!Iconv(way, s)
<1>1. Turn("iconv", way, s, c.made, Pipe!From(s, c.took))  BY Took, Zenon DEF Turn
<1>2. ASSUME c.took = 0, c.errno = "EILSEQ"  PROVE Turn("iconv", way, s, <<"?">>, Tail(s))
  <2>1. Stuck(way, s)  BY <1>2, TookNothing
  <2>. QED  BY <2>1, Stray, Zenon DEF Turn
<1>3. ASSUME c.took = 0, c.errno = "EINVAL"
      PROVE  s = <<Pipe!Lead(way)>> /\ Pipe!Meant("iconv", way, Fresh(<< >>), s) = Open(<< >>)
  <2>1. s = <<Pipe!Lead(way)>>  BY <1>3, TookNothing
  <2> DEFINE e == << >>
  <2>2. e \in Seq(Bytes) /\ Fresh(e) \in Outcome  BY BeforeFacts
  <2>3. Pipe!Lead(way) \in Bytes  BY DEF Pipe!Lead, Bytes
  <2>4. Append(e, Pipe!Lead(way)) = <<Pipe!Lead(way)>>  OBVIOUS
  <2> HIDE DEF e
  <2>5. Pipe!Meant("iconv", way, Fresh(e), Append(e, Pipe!Lead(way))) =
          Pipe!Meaning("iconv", way, Pipe!Meant("iconv", way, Fresh(e), e), Pipe!Lead(way))
    BY <2>2, <2>3, MeantAppend
  <2>6. Pipe!Meant("iconv", way, Fresh(e), e) = Fresh(e)  BY <2>2, MeantNothing, Zenon DEF e
  <2>7. Pipe!Meaning("iconv", way, Fresh(e), Pipe!Lead(way)) = Open(e)
    BY <2>2, DoubleCharacter, Zenon
  <2>. QED  BY <2>1, <2>4, <2>5, <2>6, <2>7, Zenon DEF e
<1>. QED  BY <1>1, <1>2, <1>3

-----------------------------------------------------------------------------
(* The steps of the pipe                                                   *)

\* What begins the next read.
LEMMA Resumed ==
  ASSUME NEW cd, NEW d, NEW l, NEW s, cd \in {"none", "iconv"}, Begun(d, l),
         s \in Seq(Bytes), s # << >>
  PROVE  /\ l \in Seq(Bytes) /\ d \in Outcome
         /\ Pipe!Meant(cd, "read", d, s) = Owed(cd, "read", << >>, l \o s)
<1>1. << >> \in Seq(Bytes) /\ <<"h">> \in Seq(Bytes)  BY DEF Bytes
<1>2. Fresh(<< >>) \in Outcome /\ Open(<< >>) \in Outcome /\ Fresh(<<"h">>) \in Outcome
  BY <1>1, BeforeFacts
<1>3. l \in Seq(Bytes) /\ d \in Outcome  BY <1>1, <1>2, Zenon DEF Begun
<1>4. CASE d = Fresh(<< >>) /\ l = << >>
  <2>1. << >> \o s = s  OBVIOUS
  <2>2. Owed(cd, "read", << >>, s) = Pipe!Meant(cd, "read", Fresh(<< >>), s)
    BY OwedAlone, Zenon
  <2>. QED  BY <1>3, <1>4, <2>1, <2>2, Zenon
<1>5. CASE d = Open(<< >>) /\ l = <<"h">>
  <2> DEFINE e == Fresh(<< >>)
  <2> DEFINE p == <<"h">>
  <2> DEFINE f == Fresh(p)
  <2>0. p \o s \in Seq(Bytes) /\ p \o s # << >> /\ (p \o s)[1] = "h" /\ Tail(p \o s) = s
    <3>1. Len(p \o s) = Len(s) + 1 /\ Len(s) \in Nat  OBVIOUS
    <3>2. p \o s \in Seq(Bytes)  BY <1>1
    <3>3. Len(<< >>) = 0  OBVIOUS
    <3>4. p \o s # << >>  BY <3>1, <3>3
    <3>5. (p \o s)[1] = "h" /\ Tail(p \o s) = s  BY <1>1
    <3>. QED  BY <3>2, <3>4, <3>5, Zenon
  <2>1. e \in Outcome /\ f \in Outcome  BY <1>2, Zenon
  <2>2. Pipe!Meant(cd, "read", e, p \o s) =
          Pipe!Meant(cd, "read", Pipe!Meaning(cd, "read", e, "h"), s)
    <3> DEFINE q == p \o s
    <3>1. q \in Seq(Bytes) /\ q # << >>  BY <2>0, Zenon
    <3> HIDE DEF e, q
    <3>2. Pipe!Meant(cd, "read", e, q) =
            Pipe!Meant(cd, "read", Pipe!Meaning(cd, "read", e, q[1]), Tail(q))
      BY <2>1, <3>1, MeantFirst
    <3>. QED  BY <2>0, <3>2, Zenon DEF q
  <2>3. Pipe!Meant(cd, "read", Open(<< >>), s) =
          Pipe!Meant(cd, "read", Pipe!Meaning(cd, "read", e, "h"), s)
    <3>1. CASE cd = "iconv"
      <4>1. Pipe!Lead("read") = "h"  BY DEF Pipe!Lead
      <4>2. Pipe!Meaning("iconv", "read", e, Pipe!Lead("read")) = Open(<< >>)
        BY <1>1, DoubleCharacter, Zenon
      <4>. QED  BY <3>1, <4>1, <4>2, Zenon
    <3>2. CASE cd = "none"
      <4>1. Pipe!Lead("read") = "h"  BY DEF Pipe!Lead
      <4>2. Pipe!Meaning("none", "read", e, "h") = f
        <5>1. Pipe!Meaning("none", "read", e, "h") = Fresh(Plainly("read", e, "h"))
          BY <1>2, MeaningCases
        <5>2. Plainly("read", e, "h") = p  BY DEF Plainly, Fresh
        <5>. QED  BY <5>1, <5>2, Zenon
      <4>3. \A b : Pipe!Meaning("none", "read", f, b) = Pipe!Meaning("none", "read", Open(<< >>), b)
        <5>1. SUFFICES ASSUME NEW b
              PROVE Pipe!Meaning("none", "read", f, b) =
                      Pipe!Meaning("none", "read", Open(<< >>), b)
          OBVIOUS
        <5>2. Pipe!Meaning("none", "read", f, b) = Fresh(Plainly("read", f, b))
          <6> HIDE DEF f
          <6>. QED  BY <2>1, MeaningCases
        <5>3. Pipe!Meaning("none", "read", Open(<< >>), b) =
                Fresh(Plainly("read", Open(<< >>), b))
          <6> DEFINE o == Open(<< >>)
          <6>1. o \in Outcome  BY <1>2
          <6> HIDE DEF o
          <6>2. Pipe!Meaning("none", "read", o, b) = Fresh(Plainly("read", o, b))
            BY <6>1, MeaningCases
          <6>. QED  BY <6>2, Zenon DEF o
        <5>4. Plainly("read", f, b) = Append(p, b)  BY DEF Plainly, Fresh
        <5>5. Plainly("read", Open(<< >>), b) = Append(p, b)
          <6>1. Plainly("read", Open(<< >>), b) = Append(Append(<< >>, Pipe!Lead("read")), b)
            BY DEF Plainly, Open
          <6>2. Append(<< >>, "h") = p  OBVIOUS
          <6>. QED  BY <4>1, <6>1, <6>2, Zenon
        <5>. QED  BY <5>2, <5>3, <5>4, <5>5, Zenon
      <4>4. \A o \in Outcome : Pipe!Meant("none", "read", o, s) =
              Pipe!Meant("none", "read", Pipe!Meaning("none", "read", o, s[1]), Tail(s))
        BY MeantFirst
      <4>5. Pipe!Meant("none", "read", f, s) = Pipe!Meant("none", "read", Open(<< >>), s)
        <5>1. f \in Outcome /\ Open(<< >>) \in Outcome  BY <1>2, <2>1, Zenon
        <5>. QED  BY <5>1, <4>3, <4>4, Zenon
      <4>. QED  BY <3>2, <4>2, <4>5, Zenon
    <3>. QED  BY <3>1, <3>2
  <2>4. Owed(cd, "read", << >>, p \o s) = Pipe!Meant(cd, "read", e, p \o s)
    BY <2>0, OwedAlone, Zenon
  <2>. QED  BY <1>3, <1>5, <2>2, <2>3, <2>4, Zenon
<1>. QED  BY <1>4, <1>5, Zenon DEF Begun

\* The first n bytes and those behind them.
LEMMA Divided ==
  ASSUME NEW s, NEW n, s \in Seq(Bytes), n \in 0 .. Len(s)
  PROVE  /\ SubSeq(s, 1, n) \in Seq(Bytes) /\ Len(SubSeq(s, 1, n)) = n
         /\ Pipe!From(s, n) \in Seq(Bytes)
         /\ SubSeq(s, 1, n) \o Pipe!From(s, n) = s
<1>1. SubSeq(s, 1, n) \in Seq(Bytes) /\ Len(SubSeq(s, 1, n)) = n  OBVIOUS
<1>2. Pipe!From(s, n) \in Seq(Bytes)  BY DEF Pipe!From
<1>3. SubSeq(s, 1, n) \o Pipe!From(s, n) = s
  <2> DEFINE p == SubSeq(s, 1, n)
  <2> DEFINE r == Pipe!From(s, n)
  <2>1. Len(s) \in Nat /\ Len(p) = n /\ Len(r) = Len(s) - n  BY DEF Pipe!From
  <2>2. \A i \in 1 .. n : p[i] = s[i]  OBVIOUS
  <2>3. \A i \in 1 .. Len(s) - n : r[i] = s[n + i]  BY DEF Pipe!From
  <2>4. p \in Seq(Bytes) /\ r \in Seq(Bytes)  BY <1>1, <1>2
  <2> HIDE DEF p, r
  <2>5. Len(p \o r) = Len(s)  BY <2>1, <2>4
  <2>6. p \o r \in Seq(Bytes)  BY <2>4
  <2>7. ASSUME NEW i \in 1 .. Len(s)  PROVE (p \o r)[i] = s[i]
    <3>1. CASE i <= n
      <4>1. (p \o r)[i] = p[i]  BY <2>1, <2>4, <3>1
      <4>2. i \in 1 .. n  BY <3>1
      <4>. QED  BY <2>2, <4>1, <4>2, Zenon
    <3>2. CASE i > n
      <4>1. (p \o r)[i] = r[i - n]  BY <2>1, <2>4, <3>2
      <4>2. i - n \in 1 .. Len(s) - n /\ n + (i - n) = i  BY <2>1, <3>2
      <4>. QED  BY <2>3, <4>1, <4>2
    <3>3. i <= n \/ i > n  BY <2>1
    <3>. QED  BY <3>1, <3>2, <3>3
  <2>8. \A v, w \in Seq(Bytes) :
           Len(v) = Len(w) /\ (\A i \in 1 .. Len(w) : v[i] = w[i]) => v = w
    OBVIOUS
  <2>9. p \o r = s  BY <2>5, <2>6, <2>7, <2>8, Zenon
  <2>. QED  BY <2>9 DEF p, r
<1>. QED  BY <1>1, <1>2, <1>3, Zenon

\* The conjuncts of the types, one by one.
LEMMA ReadTyped ==
  ASSUME PipeTypes
  PROVE  /\ rest["read"] \in Seq(Bytes) /\ left["read"] \in Seq(Bytes)
         /\ rest["write"] \in Seq(Bytes) /\ left["write"] \in Seq(Bytes)
         /\ due["read"] \in Outcome /\ due["write"] \in Outcome
BY DEF PipeTypes

\* FbTerm reads.
LEMMA ReadyKeeps ==
  ASSUME PipeInv, Pipe!Ready, Pipe!BufSizeAssumption
  PROVE  PipeInv'
<1> DEFINE n == Pipe!Least(Len(outq), BufSize - Len(left["read"]))
<1> DEFINE s == SubSeq(outq, 1, n)
<1>1. /\ text = << >> /\ out = << >> /\ rest["read"] = << >> /\ rest["write"] = << >>
      /\ outq # << >>
  BY DEF Pipe!Ready, Pipe!Idle, Pipe!Reading, Pipe!Writing
<1>2. /\ outq' = Pipe!From(outq, n)
      /\ rest' = [rest EXCEPT !["read"] = left["read"] \o s]
      /\ left' = [left EXCEPT !["read"] = << >>]
      /\ due' = [due EXCEPT !["read"] = Pipe!Meant(codec, "read", @, s)]
      /\ inq' = inq /\ codec' = codec /\ text' = text /\ out' = out
  BY DEF Pipe!Ready, Pipe!Means
<1>3. PipeTypes /\ Begun(due["read"], left["read"])
  BY <1>1, Zenon DEF PipeInv, ReadOwes
<1>4. Len(left["read"]) \in {0, 1}
  <2>1. Len(<< >>) = 0 /\ Len(<<"h">>) = 1  OBVIOUS
  <2>. QED  BY <1>3, <2>1, Zenon DEF Begun
<1>5. outq \in Seq(Bytes) /\ Len(outq) \in Nat /\ Len(outq) # 0
  <2>1. outq \in Seq(Bytes)  BY <1>3 DEF PipeTypes
  <2>. QED  BY <1>1, <2>1
<1>6. n \in 0 .. Len(outq) /\ n # 0
  <2> DEFINE k == Len(outq)
  <2> DEFINE l == Len(left["read"])
  <2>1. k \in Nat /\ k # 0 /\ l \in {0, 1}  BY <1>4, <1>5
  <2> HIDE DEF k, l
  <2>2. Pipe!Least(k, BufSize - l) \in 0 .. k /\ Pipe!Least(k, BufSize - l) # 0
    BY <2>1 DEF Pipe!Least, Pipe!BufSizeAssumption
  <2>. QED  BY <2>2 DEF k, l
<1> HIDE DEF n
<1>7. s \in Seq(Bytes) /\ Len(s) = n /\ Pipe!From(outq, n) \in Seq(Bytes)
  BY <1>5, <1>6, Divided, Zenon
<1> HIDE DEF s
<1>8. s # << >>
  <2>1. Len(<< >>) = 0  OBVIOUS
  <2>. QED  BY <1>6, <1>7, <2>1, Zenon
<1>9. /\ left["read"] \in Seq(Bytes) /\ due["read"] \in Outcome
      /\ Pipe!Meant(codec, "read", due["read"], s) =
           Owed(codec, "read", << >>, left["read"] \o s)
  <2>1. codec \in {"none", "iconv"}  BY <1>3 DEF PipeTypes
  <2> DEFINE l == left["read"]
  <2> DEFINE d == due["read"]
  <2>2. Begun(d, l)  BY <1>3, Zenon
  <2> HIDE DEF l, d
  <2>3. /\ l \in Seq(Bytes) /\ d \in Outcome
        /\ Pipe!Meant(codec, "read", d, s) = Owed(codec, "read", << >>, l \o s)
    BY <1>7, <1>8, <2>1, <2>2, Resumed
  <2>. QED  BY <2>3, Zenon DEF l, d
<1>10. Pipe!Meant(codec, "read", due["read"], s) \in Outcome  BY <1>7, <1>9, MeantType
<1>11. /\ rest'["read"] = left["read"] \o s /\ rest'["write"] = rest["write"]
       /\ left'["read"] = << >>
       /\ due'["read"] = Pipe!Meant(codec, "read", due["read"], s)
       /\ due'["write"] = due["write"]
  BY <1>2, <1>3 DEF PipeTypes
<1>12. left["read"] \o s \in Seq(Bytes) /\ << >> \in Seq(Bytes)  BY <1>7, <1>9
<1>13. PipeTypes'
  BY <1>2, <1>3, <1>7, <1>10, <1>12 DEF PipeTypes
<1>14. ReadOwes(codec, << >>, left["read"] \o s, due'["read"], << >>)
  BY <1>9, <1>11, <1>12, Settled, Zenon
<1>15. ReadOwes(codec', text', rest'["read"], due'["read"], left'["read"])
  BY <1>1, <1>2, <1>11, <1>14, Zenon
<1>16. WriteOwes(codec', inq', out', rest'["write"], due'["write"])
  BY <1>2, <1>11, Zenon DEF PipeInv
<1>. QED  BY <1>13, <1>15, <1>16 DEF PipeInv

\* A round of translate hands on what it has made.
LEMMA TurnKeeps ==
  ASSUME NEW way \in {"read", "write"}, NEW g, NEW r,
         PipeInv, rest[way] # << >>, out = << >>, way = "read" => text = << >>,
         Turn(codec, way, rest[way], g, r), Pipe!Give(way, g),
         rest' = [rest EXCEPT ![way] = r],
         outq' = outq, inq' = inq, codec' = codec, left' = left, due' = due
  PROVE  PipeInv'
<1>1. PipeTypes /\ g \in Seq(Bytes) /\ r \in Seq(Bytes)  BY Zenon DEF PipeInv, Turn
<1>2. /\ rest["read"] \in Seq(Bytes) /\ rest["write"] \in Seq(Bytes)
      /\ inq \in Seq(Bytes)
  BY <1>1, ReadTyped DEF PipeTypes
<1>3. outq' = outq /\ inq' = inq /\ codec' = codec /\ left' = left /\ due' = due  OBVIOUS
<1>4. CASE way = "read"
  <2>1. text' = g /\ out' = out  BY <1>4 DEF Pipe!Give
  <2>2. rest'["read"] = r /\ rest'["write"] = rest["write"] /\ rest' \in [{"read", "write"} -> Seq(Bytes)]
    BY <1>1, <1>4 DEF PipeTypes
  <2>3. PipeTypes'  BY <1>1, <1>3, <2>1, <2>2 DEF PipeTypes
  <2>4. ReadOwes(codec, << >>, rest["read"], due["read"], left["read"])
    BY <1>4, Zenon DEF PipeInv
  <2>5. ReadOwes(codec, g, r, due["read"], left["read"])
    BY <1>2, <1>4, <2>4, TurnRead, Zenon
  <2>6. ReadOwes(codec', text', rest'["read"], due'["read"], left'["read"])
    BY <1>3, <2>1, <2>2, <2>5, Zenon
  <2>7. WriteOwes(codec', inq', out', rest'["write"], due'["write"])
    BY <1>3, <2>1, <2>2, Zenon DEF PipeInv
  <2>. QED  BY <2>3, <2>6, <2>7 DEF PipeInv
<1>5. CASE way = "write"
  <2>1. text' = text /\ out' = g  BY <1>5 DEF Pipe!Give
  <2>2. rest'["write"] = r /\ rest'["read"] = rest["read"] /\ rest' \in [{"read", "write"} -> Seq(Bytes)]
    BY <1>1, <1>5 DEF PipeTypes
  <2>3. PipeTypes'  BY <1>1, <1>3, <2>1, <2>2 DEF PipeTypes
  <2>4. WriteOwes(codec, inq, << >>, rest["write"], due["write"])
    BY Zenon DEF PipeInv
  <2>5. WriteOwes(codec, inq, g, r, due["write"])
    BY <1>2, <1>5, <2>4, TurnWrite, Zenon
  <2>6. WriteOwes(codec', inq', out', rest'["write"], due'["write"])
    BY <1>3, <2>1, <2>2, <2>5, Zenon
  <2>7. ReadOwes(codec', text', rest'["read"], due'["read"], left'["read"])
    BY <1>3, <2>1, <2>2, Zenon DEF PipeInv
  <2>. QED  BY <2>3, <2>6, <2>7 DEF PipeInv
<1>. QED  BY <1>4, <1>5
\* What r will make.
Coming(cd, way, r) == Pipe!Meant(cd, way, Fresh(<< >>), r).made

\* What is owed is the bytes held, in order, and then those of what is to be converted.
LEMMA OwedMade ==
  ASSUME NEW cd, NEW way, NEW m, NEW r, m \in Seq(Bytes), r \in Seq(Bytes)
  PROVE  /\ Owed(cd, way, m, r).made = m \o Coming(cd, way, r)
         /\ Coming(cd, way, r) \in Seq(Bytes)
         /\ r = << >> => Coming(cd, way, r) = << >>
<1> DEFINE d == Pipe!Meant(cd, way, Fresh(<< >>), r)
<1>1. d \in Outcome  BY MeantAfter
<1>2. Owed(cd, way, m, r).made = m \o d.made  BY DEF Owed, Before
<1>3. d.made \in Seq(Bytes)  BY <1>1 DEF Outcome
<1>4. r = << >> => d.made = << >>
  <2>1. Fresh(<< >>) \in Outcome  BY BeforeFacts
  <2>2. r = << >> => d = Fresh(<< >>)  BY <2>1, MeantNothing, Zenon
  <2>. QED  BY <2>2 DEF Fresh
<1>. QED  BY <1>2, <1>3, <1>4, Zenon DEF Coming

\* An outcome is what it has made, and whether a character has begun.
LEMMA SameOutcome ==
  ASSUME NEW d, NEW e, d \in Outcome, e \in Outcome, e.lead <=> d.lead, e.made = d.made
  PROVE  e = d
BY DEF Outcome

\* The character that has begun is given up.
LEMMA Ended ==
  ASSUME NEW d, d \in Outcome
  PROVE  [d EXCEPT !.lead = FALSE] = Fresh(d.made)
<1> DEFINE e == [d EXCEPT !.lead = FALSE]
<1>1. e \in Outcome /\ ~ e.lead /\ e.made = d.made  BY DEF Outcome
<1>2. Fresh(d.made) \in Outcome /\ ~ Fresh(d.made).lead /\ Fresh(d.made).made = d.made
  BY DEF Outcome, Fresh
<1> HIDE DEF e
<1>3. e.lead <=> Fresh(d.made).lead  BY <1>1, <1>2
<1>. QED  BY <1>1, <1>2, <1>3, SameOutcome, Zenon DEF e

\* One round of translate.
LEMMA TranslateKeeps ==
  ASSUME NEW way \in {"read", "write"}, PipeInv, Pipe!Translate(way), Pipe!BufSizeAssumption
  PROVE  PipeInv'
<1> DEFINE s == rest[way]
<1> DEFINE c == Pipe!Iconv(way, s)
<1>1. /\ s # << >> /\ out = << >>
      /\ way = "read" => text = << >>
      /\ outq' = outq /\ inq' = inq /\ codec' = codec
  BY DEF Pipe!Translate
<1>2. PipeTypes /\ codec \in {"none", "iconv"}  BY DEF PipeInv, PipeTypes
<1>3. s \in Seq(Bytes)  BY <1>2, ReadTyped
<1>4. ASSUME NEW g, NEW r, Turn(codec, way, s, g, r), Pipe!Give(way, g),
             rest' = [rest EXCEPT ![way] = r], left' = left, due' = due
      PROVE  PipeInv'
  BY <1>1, <1>4, TurnKeeps, Zenon
<1>5. CASE codec = "none"
  <2>1. Pipe!Give(way, s) /\ rest' = [rest EXCEPT ![way] = << >>] /\ left' = left /\ due' = due
    BY <1>5 DEF Pipe!Translate
  <2>2. Turn(codec, way, s, s, << >>)  BY <1>3, <1>5, TurnPlain, Zenon
  <2> HIDE DEF s
  <2>. QED  BY <1>4, <2>1, <2>2, Zenon
<1>6. CASE codec # "none"
  <2>1. codec = "iconv"  BY <1>2, <1>6
  <2>2. /\ Turn("iconv", way, s, c.made, Pipe!From(s, c.took))
        /\ c.took = 0 /\ c.errno = "EILSEQ" => Turn("iconv", way, s, <<"?">>, Tail(s))
        /\ c.took = 0 /\ c.errno = "EINVAL" =>
             /\ s = <<Pipe!Lead(way)>>
             /\ Pipe!Meant("iconv", way, Fresh(<< >>), s) = Open(<< >>)
    <3> HIDE DEF s
    <3>. QED  BY <1>3, TurnIconv, Zenon
  <2>3. \/ /\ Pipe!Give(way, c.made) /\ left' = left /\ due' = due
           /\ rest' = [rest EXCEPT ![way] = Pipe!From(s, c.took)]
        \/ /\ c.took = 0 /\ c.errno = "EILSEQ"
           /\ Pipe!Give(way, <<"?">>) /\ left' = left /\ due' = due
           /\ rest' = [rest EXCEPT ![way] = Tail(s)]
        \/ /\ c.took = 0 /\ c.errno = "EINVAL"
           /\ left' = [left EXCEPT ![way] = s]
           /\ rest' = [rest EXCEPT ![way] = << >>]
           /\ due' = IF way = "read" THEN due ELSE [due EXCEPT !["write"].lead = FALSE]
           /\ text' = text /\ out' = out
    BY <1>6 DEF Pipe!Translate
  <2> HIDE DEF c
  <2>4. CASE /\ Pipe!Give(way, c.made) /\ left' = left /\ due' = due
             /\ rest' = [rest EXCEPT ![way] = Pipe!From(s, c.took)]
    BY <1>4, <2>1, <2>2, <2>4, Zenon
  <2>5. CASE /\ c.took = 0 /\ c.errno = "EILSEQ"
             /\ Pipe!Give(way, <<"?">>) /\ left' = left /\ due' = due
             /\ rest' = [rest EXCEPT ![way] = Tail(s)]
    BY <1>4, <2>1, <2>2, <2>5, Zenon
  <2>6. CASE /\ c.took = 0 /\ c.errno = "EINVAL"
             /\ left' = [left EXCEPT ![way] = s]
             /\ rest' = [rest EXCEPT ![way] = << >>]
             /\ due' = IF way = "read" THEN due ELSE [due EXCEPT !["write"].lead = FALSE]
             /\ text' = text /\ out' = out
    <3>1. /\ s = <<Pipe!Lead(way)>>
          /\ Pipe!Meant("iconv", way, Fresh(<< >>), s) = Open(<< >>)
          /\ Owed("iconv", way, << >>, s) = Open(<< >>)
      <4>1. Owed("iconv", way, << >>, s) = Pipe!Meant("iconv", way, Fresh(<< >>), s)
        BY <1>3, OwedAlone, Zenon
      <4>. QED  BY <2>2, <2>6, <4>1, Zenon
    <3>2. << >> \in Seq(Bytes) /\ Open(<< >>) \in Outcome /\ inq \in Seq(Bytes)
      BY <1>2, BeforeFacts DEF PipeTypes
    <3> HIDE DEF s
    <3>3. CASE way = "read"
      <4>1. text = << >> /\ due' = due  BY <1>1, <2>6, <3>3, Zenon
      <4>2. left'["read"] = s /\ rest'["read"] = << >> /\ rest'["write"] = rest["write"]
        BY <1>2, <2>6, <3>3 DEF PipeTypes
      <4>3. PipeTypes'
        BY <1>1, <1>2, <1>3, <2>6, <3>2, <3>3, <4>1 DEF PipeTypes
      <4>4. due["read"] = Open(<< >>)
        <5>1. ReadOwes(codec, text, s, due["read"], left["read"])
          BY <3>3, Zenon DEF PipeInv, s
        <5>2. due["read"] = Owed(codec, "read", text, s)  BY <1>1, <5>1, Zenon DEF ReadOwes
        <5>. QED  BY <2>1, <3>1, <3>3, <4>1, <5>2, Zenon
      <4>5. s = <<"h">>
        <5>1. Pipe!Lead("read") = "h"  BY DEF Pipe!Lead
        <5>. QED  BY <3>1, <3>3, <5>1, Zenon
      <4>6. ReadOwes(codec', text', rest'["read"], due'["read"], left'["read"])
        BY <2>6, <4>1, <4>2, <4>4, <4>5, Zenon DEF ReadOwes, Begun
      <4>7. WriteOwes(codec', inq', out', rest'["write"], due'["write"])
        BY <1>1, <2>6, <4>1, <4>2, Zenon DEF PipeInv
      <4>. QED  BY <4>3, <4>6, <4>7 DEF PipeInv
    <3>4. CASE way = "write"
      <4>1. due' = [due EXCEPT !["write"].lead = FALSE]  BY <2>6, <3>4
      <4>2. /\ left'["read"] = left["read"]
            /\ rest'["write"] = << >> /\ rest'["read"] = rest["read"]
        BY <1>2, <2>6, <3>4 DEF PipeTypes
      <4>3. due["write"] \in Outcome /\ Fresh(due["write"].made) \in Outcome
        <5>1. due["write"] \in Outcome  BY <1>2, ReadTyped
        <5>. QED  BY <5>1 DEF Outcome, Fresh
      <4>4. due'["write"] = Fresh(due["write"].made) /\ due'["read"] = due["read"]
            /\ due' \in [{"read", "write"} -> Outcome]
        <5>1. \A d \in Outcome : [d EXCEPT !.lead = FALSE] = Fresh(d.made)  BY Ended
        <5>2. [due["write"] EXCEPT !.lead = FALSE] = Fresh(due["write"].made)
          BY <4>3, <5>1, Zenon
        <5>. QED  BY <1>2, <4>1, <4>3, <5>2 DEF PipeTypes
      <4>5. PipeTypes'
        BY <1>1, <1>2, <1>3, <2>6, <3>2, <3>4, <4>4 DEF PipeTypes
      <4>6. due["write"].made = inq
        <5>1. WriteOwes(codec, inq, << >>, s, due["write"])
          BY <1>1, <3>4, Zenon DEF PipeInv, s
        <5>2. inq \o << >> = inq  BY <3>2
        <5>3. due["write"] = Owed(codec, "write", inq, s)  BY <5>1, <5>2, Zenon DEF WriteOwes
        <5>4. Pipe!Meant(codec, "write", Fresh(<< >>), s) = Open(<< >>)
          BY <2>1, <3>1, <3>4, Zenon
        <5>5. due["write"] = Before(inq, Open(<< >>))  BY <5>3, <5>4, Zenon DEF Owed
        <5>6. due["write"].made = inq \o << >>  BY <5>5 DEF Before, Open
        <5>. QED  BY <5>2, <5>6, Zenon
      <4>7. WriteOwes(codec', inq', out', rest'["write"], due'["write"])
        <5>1. Owed(codec, "write", inq, << >>) = Fresh(inq)  BY <3>2, OwedNothing, Zenon
        <5>2. inq \o << >> = inq  BY <3>2
        <5>. QED
          BY <1>1, <2>6, <4>2, <4>4, <4>6, <5>1, <5>2, Zenon DEF WriteOwes
      <4>8. ReadOwes(codec', text', rest'["read"], due'["read"], left'["read"])
        BY <1>1, <2>6, <4>2, <4>4, Zenon DEF PipeInv
      <4>. QED  BY <4>5, <4>7, <4>8 DEF PipeInv
    <3>. QED  BY <3>3, <3>4
  <2>. QED  BY <2>3, <2>4, <2>5, <2>6, Zenon
<1>. QED  BY <1>5, <1>6
\* A byte arrives, of what is held first.
LEMMA Dropped ==
  ASSUME NEW cd, NEW way, NEW m, NEW r, NEW d, m \in Seq(Bytes), r \in Seq(Bytes),
         m # << >>, d = Owed(cd, way, m, r)
  PROVE  /\ Tail(m) \in Seq(Bytes) /\ d.made # << >> /\ d \in Outcome
         /\ [d EXCEPT !.made = Tail(d.made)] = Owed(cd, way, Tail(m), r)
<1> DEFINE x == Pipe!Meant(cd, way, Fresh(<< >>), r)
<1> DEFINE t == Tail(m)
<1>1. x \in Outcome /\ d \in Outcome
  <2>1. Pipe!Meant(cd, way, Fresh(<< >>), r) \in Outcome /\ Owed(cd, way, m, r) \in Outcome
    BY MeantAfter
  <2>. QED  BY <2>1, Zenon
<1>2. d = Before(m, x)  BY Zenon DEF Owed
<1> HIDE DEF x
<1>3. x.made \in Seq(Bytes)  BY <1>1 DEF Outcome
<1>4. (d.lead <=> x.lead) /\ d.made = m \o x.made
  BY <1>1, <1>2 DEF Before, Outcome
<1>5. t \in Seq(Bytes) /\ \A v \in Seq(Bytes) : m \o v # << >> /\ Tail(m \o v) = t \o v
  <2>1. t \in Seq(Bytes) /\ Len(m) \in Nat /\ Len(m) # 0  OBVIOUS
  <2>2. ASSUME NEW v \in Seq(Bytes)  PROVE m \o v # << >>
    <3>1. Len(m \o v) = Len(m) + Len(v) /\ Len(v) \in Nat  OBVIOUS
    <3>2. Len(m \o v) # 0  BY <2>1, <3>1
    <3>3. Len(<< >>) = 0  OBVIOUS
    <3>. QED  BY <3>2, <3>3, Zenon
  <2>3. ASSUME NEW v \in Seq(Bytes)  PROVE Tail(m \o v) = t \o v
    OBVIOUS
  <2>. QED  BY <2>1, <2>2, <2>3
<1> HIDE DEF t
<1>6. d.made # << >> /\ Tail(d.made) = t \o x.made  BY <1>3, <1>4, <1>5, Zenon
<1>7. t \o x.made \in Seq(Bytes)  BY <1>3, <1>5
<1> DEFINE e == [d EXCEPT !.made = Tail(d.made)]
<1>8. e \in Outcome /\ (e.lead <=> d.lead) /\ e.made = Tail(d.made)
  <2> DEFINE w == Tail(d.made)
  <2>1. w \in Seq(Bytes)  BY <1>6, <1>7, Zenon
  <2> HIDE DEF w
  <2>2. /\ [d EXCEPT !.made = w] \in Outcome
        /\ [d EXCEPT !.made = w].lead <=> d.lead
        /\ [d EXCEPT !.made = w].made = w
    BY <1>1, <2>1 DEF Outcome
  <2>. QED  BY <2>2, Zenon DEF w
<1>9. /\ Before(t, x) \in Outcome /\ (Before(t, x).lead <=> x.lead)
      /\ Before(t, x).made = t \o x.made
  BY <1>1, <1>5, <1>7 DEF Before, Outcome
<1> HIDE DEF e
<1>10. e = Before(t, x)
  <2>1. (e.lead <=> Before(t, x).lead) /\ e.made = Before(t, x).made
    BY <1>4, <1>6, <1>8, <1>9, Zenon
  <2>. QED  BY <1>8, <1>9, <2>1, SameOutcome, Zenon
<1>. QED  BY <1>1, <1>5, <1>6, <1>10, Zenon DEF Owed, e, t, x

\* write is given some bytes when nothing waits to be written.
LEMMA Given ==
  ASSUME NEW cd, NEW cb, NEW i, NEW s, NEW d, i \in Seq(Bytes), s \in Seq(Bytes),
         WriteOwes(cb, i, << >>, << >>, d)
  PROVE  /\ d = Fresh(i) /\ d \in Outcome
         /\ Pipe!Meant(cd, "write", d, s) \in Outcome
         /\ WriteOwes(cd, i, << >>, s, Pipe!Meant(cd, "write", d, s))
<1>1. i \o << >> = i  OBVIOUS
<1>2. d = Owed(cb, "write", i, << >>)  BY <1>1, Zenon DEF WriteOwes
<1>3. Owed(cb, "write", i, << >>) = Fresh(i)  BY OwedNothing, Zenon
<1>4. Pipe!Meant(cd, "write", Fresh(i), s) = Owed(cd, "write", i, s)
  BY MeantAfter
<1>5. Owed(cd, "write", i, s) \in Outcome /\ Fresh(i) \in Outcome  BY MeantAfter, BeforeFacts
<1>. QED  BY <1>1, <1>2, <1>3, <1>4, <1>5, Zenon DEF WriteOwes

\* VTerm::input handles a byte.
LEMMA InputKeeps ==
  ASSUME PipeInv, Pipe!Input
  PROVE  PipeInv'
<1>1. /\ text # << >> /\ out = << >> /\ rest["write"] = << >> /\ text' = Tail(text)
      /\ outq' = outq /\ inq' = inq /\ codec' = codec /\ left' = left /\ out' = out
  BY DEF Pipe!Input, Pipe!Writing
<1>2. PipeTypes  BY DEF PipeInv
<1>3. /\ text \in Seq(Bytes) /\ inq \in Seq(Bytes) /\ rest["read"] \in Seq(Bytes)
      /\ due["read"] \in Outcome /\ due["write"] \in Outcome
  BY <1>2, ReadTyped DEF PipeTypes
<1>4. due["read"] = Owed(codec, "read", text, rest["read"]) /\ left["read"] = << >>
  BY <1>1, Zenon DEF PipeInv, ReadOwes
<1> DEFINE t == Tail(text)
<1> DEFINE e == [due["read"] EXCEPT !.made = Tail(due["read"].made)]
<1>5. /\ t \in Seq(Bytes) /\ due["read"].made # << >>
      /\ e = Owed(codec, "read", t, rest["read"])
  <2> DEFINE d == due["read"]
  <2> DEFINE q == rest["read"]
  <2> DEFINE m == text
  <2>1. m \in Seq(Bytes) /\ q \in Seq(Bytes) /\ m # << >> /\ d = Owed(codec, "read", m, q)
    BY <1>1, <1>3, <1>4, Zenon
  <2> HIDE DEF d, q, m
  <2>2. /\ Tail(m) \in Seq(Bytes) /\ d.made # << >>
        /\ [d EXCEPT !.made = Tail(d.made)] = Owed(codec, "read", Tail(m), q)
    BY <2>1, Dropped
  <2>. QED  BY <2>2, Zenon DEF d, q, m
<1>6. e \in Outcome
  <2> HIDE DEF e, t
  <2>1. Owed(codec, "read", t, rest["read"]) \in Outcome  BY <1>3, <1>5, MeantAfter
  <2>. QED  BY <1>5, <2>1, Zenon
<1>7. CASE Head(text) = "q"
  <2> DEFINE f == Pipe!Meaning(codec, "write", due["write"], "r")
  <2>1. /\ rest' = [rest EXCEPT !["write"] = <<"r">>]
        /\ due' = [due EXCEPT !["read"].made = Tail(@),
                              !["write"] = Pipe!Meaning(codec, "write", @, "r")]
    BY <1>7 DEF Pipe!Input, Pipe!Answer
  <2>2. <<"r">> \in Seq(Bytes) /\ f \in Outcome /\ << >> \in Seq(Bytes)
    <3>1. "r" \in Bytes  BY DEF Bytes
    <3>2. <<"r">> \in Seq(Bytes)  BY <3>1
    <3>. QED  BY <1>3, <3>1, <3>2, MeaningType
  <2>3. due'["read"] = e /\ due'["write"] = f /\ due' \in [{"read", "write"} -> Outcome]
    <3>1. due' = [due EXCEPT !["read"] = e, !["write"] = f]  BY <2>1, Zenon
    <3> HIDE DEF e, f
    <3>. QED  BY <1>2, <1>6, <2>2, <3>1 DEF PipeTypes
  <2>4. rest'["read"] = rest["read"] /\ rest'["write"] = <<"r">>
        /\ rest' \in [{"read", "write"} -> Seq(Bytes)]
    BY <1>2, <2>1, <2>2 DEF PipeTypes
  <2> HIDE DEF e, t
  <2>5. PipeTypes'
    BY <1>1, <1>2, <1>5, <2>3, <2>4 DEF PipeTypes, t
  <2>6. ReadOwes(codec, t, rest["read"], e, left["read"])
    BY <1>3, <1>4, <1>5, Settled, Zenon
  <2>7. ReadOwes(codec', text', rest'["read"], due'["read"], left'["read"])
    BY <1>1, <2>3, <2>4, <2>6, Zenon DEF t
  <2>8. WriteOwes(codec, inq, << >>, << >>, due["write"])
    BY <1>1, Zenon DEF PipeInv
  <2>9. f = Pipe!Meant(codec, "write", due["write"], <<"r">>)
    <3> DEFINE p == << >>
    <3> DEFINE d == due["write"]
    <3>1. p \in Seq(Bytes) /\ "r" \in Bytes /\ d \in Outcome /\ Append(p, "r") = <<"r">>
      BY <1>3, <2>2 DEF Bytes
    <3>2. Pipe!Meant(codec, "write", d, p) = d  BY <3>1, MeantNothing, Zenon
    <3> HIDE DEF p, d
    <3>3. Pipe!Meant(codec, "write", d, Append(p, "r")) =
            Pipe!Meaning(codec, "write", Pipe!Meant(codec, "write", d, p), "r")
      BY <3>1, MeantAppend
    <3>. QED  BY <3>1, <3>2, <3>3, Zenon DEF d
  <2>10. WriteOwes(codec, inq, << >>, <<"r">>, f)
    <3> DEFINE d == due["write"]
    <3> DEFINE b == <<"r">>
    <3>1. b \in Seq(Bytes) /\ inq \in Seq(Bytes) /\ WriteOwes(codec, inq, << >>, << >>, d)
      BY <1>3, <2>2, <2>8, Zenon
    <3> HIDE DEF d, b
    <3>2. WriteOwes(codec, inq, << >>, b, Pipe!Meant(codec, "write", d, b))
      BY <3>1, Given
    <3>. QED  BY <2>9, <3>2, Zenon DEF d, b
  <2>11. WriteOwes(codec', inq', out', rest'["write"], due'["write"])
    BY <1>1, <2>3, <2>4, <2>10, Zenon
  <2>. QED  BY <2>5, <2>7, <2>11 DEF PipeInv
<1>8. CASE Head(text) # "q"
  <2>1. rest' = rest /\ Pipe!Arrives("read")  BY <1>8 DEF Pipe!Input
  <2>2. due'["read"] = e /\ due'["write"] = due["write"]
        /\ due' \in [{"read", "write"} -> Outcome]
    <3>1. due' = [due EXCEPT !["read"] = e]  BY <1>5, <2>1, Zenon DEF Pipe!Arrives
    <3> HIDE DEF e
    <3>. QED  BY <1>2, <1>6, <3>1 DEF PipeTypes
  <2> HIDE DEF e, t
  <2>3. PipeTypes'
    BY <1>1, <1>2, <1>5, <2>1, <2>2 DEF PipeTypes, t
  <2>4. ReadOwes(codec, t, rest["read"], e, left["read"])
    BY <1>3, <1>4, <1>5, Settled, Zenon
  <2>5. ReadOwes(codec', text', rest'["read"], due'["read"], left'["read"])
    BY <1>1, <2>1, <2>2, <2>4, Zenon DEF t
  <2>6. WriteOwes(codec', inq', out', rest'["write"], due'["write"])
    BY <1>1, <2>1, <2>2, Zenon DEF PipeInv
  <2>. QED  BY <2>3, <2>5, <2>6 DEF PipeInv
<1>. QED  BY <1>7, <1>8

\* A round of writeIo.
LEMMA WriteIoKeeps ==
  ASSUME PipeInv, Pipe!WriteIo, Room \in Nat
  PROVE  PipeInv'
<1> DEFINE n == Pipe!Least(Len(out), Room - Len(inq))
<1> DEFINE s == SubSeq(out, 1, n)
<1> DEFINE r == Pipe!From(out, n)
<1>1. /\ out # << >>
      /\ outq' = outq /\ codec' = codec /\ left' = left /\ rest' = rest /\ text' = text
  BY DEF Pipe!WriteIo
<1>2. \/ inq' = inq \o s /\ out' = r /\ due' = due
      \/ inq' = inq /\ out' = out /\ due' = due
      \/ /\ inq' = inq /\ out' = << >>
         /\ due' = [due EXCEPT !["write"] =
                      Pipe!Meant(codec, "write", Fresh(inq), rest["write"])]
  BY DEF Pipe!WriteIo, Pipe!GivenUp, Fresh
<1>3. PipeTypes  BY DEF PipeInv
<1>4. /\ out \in Seq(Bytes) /\ inq \in Seq(Bytes) /\ Len(inq) <= Room
      /\ rest["write"] \in Seq(Bytes) /\ << >> \in Seq(Bytes)
  BY <1>3, ReadTyped DEF PipeTypes
<1>5. n \in 0 .. Len(out) /\ Len(inq) + n <= Room
  <2> DEFINE k == Len(out)
  <2> DEFINE l == Len(inq)
  <2>1. k \in Nat /\ l \in Nat /\ l <= Room  BY <1>4
  <2> HIDE DEF k, l
  <2>2. Pipe!Least(k, Room - l) \in 0 .. k /\ l + Pipe!Least(k, Room - l) <= Room
    BY <2>1 DEF Pipe!Least
  <2>. QED  BY <2>2 DEF k, l
<1> HIDE DEF n
<1>6. s \in Seq(Bytes) /\ Len(s) = n /\ r \in Seq(Bytes) /\ s \o r = out
  BY <1>4, <1>5, Divided, Zenon
<1> HIDE DEF s, r
<1>7. WriteOwes(codec, inq, out, rest["write"], due["write"])  BY DEF PipeInv
<1>8. ReadOwes(codec, text, rest["read"], due["read"], left["read"])  BY DEF PipeInv
<1>9. CASE inq' = inq \o s /\ out' = r /\ due' = due
  <2>1. inq \o s \in Seq(Bytes) /\ Len(inq \o s) <= Room
    <3>1. inq \in Seq(Bytes) /\ s \in Seq(Bytes)  BY <1>4, <1>6, Zenon
    <3>2. inq \o s \in Seq(Bytes) /\ Len(inq \o s) = Len(inq) + Len(s)  BY <3>1
    <3>3. Len(s) = n  BY <1>6, Zenon
    <3>. QED  BY <1>5, <3>2, <3>3
  <2>2. PipeTypes'  BY <1>1, <1>3, <1>6, <1>9, <2>1 DEF PipeTypes
  <2>3. (inq \o s) \o r = inq \o out
    <3>1. inq \in Seq(Bytes) /\ s \in Seq(Bytes) /\ r \in Seq(Bytes)
      BY <1>4, <1>6, Zenon
    <3>2. (inq \o s) \o r = inq \o (s \o r)  BY <3>1
    <3>. QED  BY <1>6, <3>2, Zenon
  <2>4. WriteOwes(codec', inq', out', rest'["write"], due'["write"])
    BY <1>1, <1>7, <1>9, <2>3, Zenon DEF WriteOwes
  <2>5. ReadOwes(codec', text', rest'["read"], due'["read"], left'["read"])
    BY <1>1, <1>8, <1>9, Zenon
  <2>. QED  BY <2>2, <2>4, <2>5 DEF PipeInv
<1>10. CASE inq' = inq /\ out' = out /\ due' = due
  <2>1. PipeTypes'  BY <1>1, <1>3, <1>10 DEF PipeTypes
  <2>2. WriteOwes(codec', inq', out', rest'["write"], due'["write"])
    BY <1>1, <1>7, <1>10, Zenon
  <2>3. ReadOwes(codec', text', rest'["read"], due'["read"], left'["read"])
    BY <1>1, <1>8, <1>10, Zenon
  <2>. QED  BY <2>1, <2>2, <2>3 DEF PipeInv
<1>11. CASE /\ inq' = inq /\ out' = << >>
            /\ due' = [due EXCEPT !["write"] =
                         Pipe!Meant(codec, "write", Fresh(inq), rest["write"])]
  <2> DEFINE e == Pipe!Meant(codec, "write", Fresh(inq), rest["write"])
  <2>1. e = Owed(codec, "write", inq, rest["write"])
    <3> DEFINE q == rest["write"]
    <3>1. q \in Seq(Bytes)  BY <1>4
    <3> HIDE DEF q
    <3>2. Pipe!Meant(codec, "write", Fresh(inq), q) = Owed(codec, "write", inq, q)
      BY <1>4, <3>1, MeantAfter
    <3>. QED  BY <3>2 DEF q
  <2>2. e \in Outcome
    <3>1. Owed(codec, "write", inq, rest["write"]) \in Outcome  BY <1>4, MeantAfter
    <3>. QED  BY <2>1, <3>1, Zenon
  <2> HIDE DEF e
  <2>3. due' = [due EXCEPT !["write"] = e]  BY <1>11, Zenon DEF e
  <2>4. due'["write"] = e /\ due'["read"] = due["read"]
        /\ due' \in [{"read", "write"} -> Outcome]
    BY <1>3, <2>2, <2>3 DEF PipeTypes
  <2>5. PipeTypes'  BY <1>1, <1>3, <1>4, <1>11, <2>4 DEF PipeTypes
  <2>6. inq \o << >> = inq  BY <1>4
  <2>7. WriteOwes(codec', inq', out', rest'["write"], due'["write"])
    BY <1>1, <1>11, <2>1, <2>4, <2>6, Zenon DEF WriteOwes
  <2>8. ReadOwes(codec', text', rest'["read"], due'["read"], left'["read"])
    BY <1>1, <1>8, <2>4, Zenon
  <2>. QED  BY <2>5, <2>7, <2>8 DEF PipeInv
<1>. QED  BY <1>2, <1>9, <1>10, <1>11
\* The user types, when nothing is on its way through.
LEMMA TypeKeeps ==
  ASSUME PipeInv, NEW chunk \in Chunks, Pipe!Type(chunk), Pipe!ChunksAssumption
  PROVE  PipeInv'
<1>1. /\ out = << >> /\ rest["write"] = << >>
      /\ outq' = outq /\ inq' = inq /\ codec' = codec /\ left' = left /\ text' = text
      /\ out' = out
      /\ rest' = [rest EXCEPT !["write"] = chunk]
      /\ due' = [due EXCEPT !["write"] = Pipe!Meant(codec, "write", @, chunk)]
  BY DEF Pipe!Type, Pipe!Idle, Pipe!Writing, Pipe!Write, Pipe!Means
<1>2. chunk \in Seq(Bytes)  BY DEF Pipe!ChunksAssumption, Bytes
<1>3. PipeTypes /\ inq \in Seq(Bytes)  BY DEF PipeInv, PipeTypes
<1> DEFINE e == Pipe!Meant(codec, "write", due["write"], chunk)
<1>4. WriteOwes(codec, inq, << >>, << >>, due["write"])  BY <1>1, Zenon DEF PipeInv
<1>5. WriteOwes(codec, inq, << >>, chunk, e) /\ e \in Outcome
  <2> DEFINE d == due["write"]
  <2>1. WriteOwes(codec, inq, << >>, << >>, d)  BY <1>4, Zenon
  <2> HIDE DEF d
  <2>2. /\ WriteOwes(codec, inq, << >>, chunk, Pipe!Meant(codec, "write", d, chunk))
        /\ Pipe!Meant(codec, "write", d, chunk) \in Outcome
    BY <1>2, <1>3, <2>1, Given
  <2>. QED  BY <2>2, Zenon DEF d
<1>6. due' = [due EXCEPT !["write"] = e]  BY <1>1, Zenon
<1> HIDE DEF e
<1>7. /\ due'["write"] = e /\ due'["read"] = due["read"]
      /\ due' \in [{"read", "write"} -> Outcome]
  BY <1>3, <1>5, <1>6 DEF PipeTypes
<1>8. /\ rest'["write"] = chunk /\ rest'["read"] = rest["read"]
      /\ rest' \in [{"read", "write"} -> Seq(Bytes)]
  BY <1>1, <1>2, <1>3 DEF PipeTypes
<1>9. PipeTypes'  BY <1>1, <1>3, <1>7, <1>8 DEF PipeTypes
<1>10. WriteOwes(codec', inq', out', rest'["write"], due'["write"])
  BY <1>1, <1>5, <1>7, <1>8, Zenon
<1>11. ReadOwes(codec', text', rest'["read"], due'["read"], left'["read"])
  BY <1>1, <1>7, <1>8, Zenon DEF PipeInv
<1>. QED  BY <1>9, <1>10, <1>11 DEF PipeInv

\* The codec changes.
LEMMA SwitchCodecKeeps ==
  ASSUME PipeInv, Pipe!SwitchCodec
  PROVE  PipeInv'
<1>1. /\ text = << >> /\ out = << >> /\ rest["read"] = << >> /\ rest["write"] = << >>
      /\ outq' = outq /\ inq' = inq /\ left' = left /\ rest' = rest /\ text' = text
      /\ out' = out /\ due' = due /\ codec' \in {"none", "iconv"}
  BY DEF Pipe!SwitchCodec, Pipe!Idle, Pipe!Reading, Pipe!Writing, Pipe!SetCodec, Pipe!Codec
<1>2. PipeTypes /\ inq \in Seq(Bytes) /\ << >> \in Seq(Bytes)  BY DEF PipeInv, PipeTypes
<1>3. PipeTypes'  BY <1>1, <1>2 DEF PipeTypes
<1>4. WriteOwes(codec, inq, << >>, << >>, due["write"])  BY <1>1, Zenon DEF PipeInv
<1>5. WriteOwes(codec', inq, << >>, << >>, due["write"])
  <2>1. inq \o << >> = inq  BY <1>2
  <2>2. Owed(codec, "write", inq, << >>) = Fresh(inq)  BY <1>2, OwedNothing, Zenon
  <2>3. Owed(codec', "write", inq, << >>) = Fresh(inq)  BY <1>2, OwedNothing, Zenon
  <2>. QED  BY <1>4, <2>1, <2>2, <2>3, Zenon DEF WriteOwes
<1>6. WriteOwes(codec', inq', out', rest'["write"], due'["write"])  BY <1>1, <1>5, Zenon
<1>7. ReadOwes(codec, << >>, << >>, due["read"], left["read"])  BY <1>1, Zenon DEF PipeInv
<1>8. ReadOwes(codec', << >>, << >>, due["read"], left["read"])  BY <1>7, Zenon DEF ReadOwes
<1>9. ReadOwes(codec', text', rest'["read"], due'["read"], left'["read"])
  BY <1>1, <1>8, Zenon
<1>. QED  BY <1>3, <1>6, <1>9 DEF PipeInv

\* The program writes; what it has written is owed only when it is read.
LEMMA ProgramWritesKeeps ==
  ASSUME PipeInv, NEW b \in Output, Pipe!ProgramWrites(b), Pipe!OutputAssumption
  PROVE  PipeInv'
<1>1. /\ outq' = Append(outq, b) /\ inq' = inq /\ codec' = codec /\ left' = left
      /\ rest' = rest /\ text' = text /\ out' = out /\ due' = due
  BY DEF Pipe!ProgramWrites
<1>2. b \in Bytes  BY DEF Pipe!OutputAssumption, Bytes
<1>3. PipeTypes'
  <2>1. PipeTypes  BY DEF PipeInv
  <2>2. Append(outq, b) \in Seq(Bytes)  BY <1>2, <2>1 DEF PipeTypes
  <2>. QED  BY <1>1, <2>1, <2>2 DEF PipeTypes
<1>4. WriteOwes(codec', inq', out', rest'["write"], due'["write"])
  BY <1>1, Zenon DEF PipeInv
<1>5. ReadOwes(codec', text', rest'["read"], due'["read"], left'["read"])
  BY <1>1, Zenon DEF PipeInv
<1>. QED  BY <1>3, <1>4, <1>5 DEF PipeInv

\* The program reads.
LEMMA ProgramReadsKeeps ==
  ASSUME PipeInv, Pipe!ProgramReads, Room \in Nat
  PROVE  PipeInv'
<1>1. /\ inq # << >> /\ inq' = Tail(inq) /\ outq' = outq /\ codec' = codec /\ left' = left
      /\ rest' = rest /\ text' = text /\ out' = out
  BY DEF Pipe!ProgramReads
<1>2. PipeTypes  BY DEF PipeInv
<1>3. inq \in Seq(Bytes) /\ out \in Seq(Bytes) /\ Len(inq) <= Room /\ rest["write"] \in Seq(Bytes)
  BY <1>2, ReadTyped DEF PipeTypes
<1> DEFINE t == Tail(inq)
<1>4. /\ t \in Seq(Bytes) /\ Len(t) <= Room
      /\ inq \o out \in Seq(Bytes) /\ inq \o out # << >> /\ Tail(inq \o out) = t \o out
  <2>1. t \in Seq(Bytes) /\ Len(t) = Len(inq) - 1 /\ Len(inq) \in Nat /\ Len(inq) # 0
    BY <1>1, <1>3
  <2>2. inq \o out \in Seq(Bytes) /\ Len(inq \o out) = Len(inq) + Len(out) /\ Len(out) \in Nat
    BY <1>3
  <2>3. inq \o out # << >>
    <3>1. Len(inq \o out) # 0  BY <2>1, <2>2
    <3>2. Len(<< >>) = 0  OBVIOUS
    <3>. QED  BY <3>1, <3>2, Zenon
  <2>4. Tail(inq \o out) = t \o out  BY <1>1, <1>3
  <2>5. Len(t) <= Room
    <3> DEFINE k == Len(inq)
    <3> DEFINE l == Len(t)
    <3>1. k \in Nat /\ l = k - 1 /\ k <= Room  BY <1>3, <2>1
    <3> HIDE DEF k, l
    <3>2. l <= Room  BY <3>1
    <3>. QED  BY <3>2 DEF l
  <2>. QED  BY <2>1, <2>2, <2>3, <2>4, <2>5, Zenon
<1>5. due["write"] = Owed(codec, "write", inq \o out, rest["write"])
  BY Zenon DEF PipeInv, WriteOwes
<1> DEFINE e == [due["write"] EXCEPT !.made = Tail(due["write"].made)]
<1>6. /\ due["write"].made # << >> /\ e = Owed(codec, "write", t \o out, rest["write"])
  <2> DEFINE d == due["write"]
  <2> DEFINE q == rest["write"]
  <2> DEFINE m == inq \o out
  <2>1. /\ m \in Seq(Bytes) /\ q \in Seq(Bytes) /\ m # << >>
        /\ d = Owed(codec, "write", m, q) /\ Tail(m) = t \o out
    BY <1>3, <1>4, <1>5, Zenon
  <2> HIDE DEF d, q, m
  <2>2. /\ d.made # << >>
        /\ [d EXCEPT !.made = Tail(d.made)] = Owed(codec, "write", Tail(m), q)
    BY <2>1, Dropped
  <2>3. [d EXCEPT !.made = Tail(d.made)] = Owed(codec, "write", t \o out, q)
    BY <2>1, <2>2, Zenon
  <2>. QED  BY <2>2, <2>3, Zenon DEF d, q
<1>7. e \in Outcome
  <2> HIDE DEF e, t
  <2>1. t \o out \in Seq(Bytes)  BY <1>3, <1>4
  <2>2. Owed(codec, "write", t \o out, rest["write"]) \in Outcome
    BY <1>3, <2>1, MeantAfter
  <2>. QED  BY <1>6, <2>2, Zenon
<1>8. due' = [due EXCEPT !["write"] = e]
  <2>1. Pipe!Arrives("write")  BY DEF Pipe!ProgramReads
  <2>. QED  BY <1>6, <2>1, Zenon DEF Pipe!Arrives
<1> HIDE DEF e
<1>9. /\ due'["write"] = e /\ due'["read"] = due["read"]
      /\ due' \in [{"read", "write"} -> Outcome]
  BY <1>2, <1>7, <1>8 DEF PipeTypes
<1>10. PipeTypes'
  <2>1. inq' \in Seq(Bytes) /\ Len(inq') <= Room  BY <1>1, <1>4, Zenon
  <2>. QED  BY <1>1, <1>2, <1>9, <2>1 DEF PipeTypes
<1>11. WriteOwes(codec', inq', out', rest'["write"], due'["write"])
  BY <1>1, <1>6, <1>9, Zenon DEF WriteOwes
<1>12. ReadOwes(codec', text', rest'["read"], due'["read"], left'["read"])
  BY <1>1, <1>9, Zenon DEF PipeInv
<1>. QED  BY <1>10, <1>11, <1>12 DEF PipeInv

-----------------------------------------------------------------------------
(* The theorems                                                            *)

\* Between two characters nothing is owed.
LEMMA PipeStarts ==
  ASSUME Pipe!Init, Room \in Nat
  PROVE  PipeInv
<1>1. /\ outq = << >> /\ inq = << >> /\ text = << >> /\ out = << >>
      /\ codec \in {"none", "iconv"}
      /\ left = [way \in {"read", "write"} |-> << >>]
      /\ rest = [way \in {"read", "write"} |-> << >>]
      /\ due = [way \in {"read", "write"} |-> Fresh(<< >>)]
  BY DEF Pipe!Init, Pipe!Codec, Pipe!Way, Fresh
<1>2. /\ << >> \in Seq(Bytes) /\ Len(<< >>) = 0 /\ Fresh(<< >>) \in Outcome
  BY BeforeFacts
<1>3. /\ due["write"] = Fresh(<< >>) /\ due["read"] = Fresh(<< >>)
      /\ rest["write"] = << >> /\ rest["read"] = << >> /\ left["read"] = << >>
  BY <1>1
<1>4. PipeTypes
  <2>1. outq \in Seq(Bytes) /\ inq \in Seq(Bytes) /\ text \in Seq(Bytes) /\ out \in Seq(Bytes)
    BY <1>1, <1>2, Zenon
  <2>2. Len(inq) <= Room  BY <1>1, <1>2
  <2> DEFINE n == << >>
  <2> DEFINE f == Fresh(n)
  <2>3. n \in Seq(Bytes) /\ f \in Outcome  BY <1>2, Zenon
  <2>4. /\ rest = [way \in {"read", "write"} |-> n] /\ left = [way \in {"read", "write"} |-> n]
        /\ due = [way \in {"read", "write"} |-> f]
    BY <1>1, Zenon
  <2> HIDE DEF n, f
  <2>5. /\ rest \in [{"read", "write"} -> Seq(Bytes)]
        /\ left \in [{"read", "write"} -> Seq(Bytes)]
        /\ due \in [{"read", "write"} -> Outcome]
    BY <2>3, <2>4
  <2>. QED  BY <1>1, <2>1, <2>2, <2>5, Zenon DEF PipeTypes
<1>5. Owed(codec, "write", << >>, << >>) = Fresh(<< >>)  BY <1>2, OwedNothing, Zenon
<1>6. << >> \o << >> = << >>  OBVIOUS
<1>7. WriteOwes(codec, inq, out, rest["write"], due["write"])
  BY <1>1, <1>3, <1>5, <1>6, Zenon DEF WriteOwes
<1>8. ReadOwes(codec, text, rest["read"], due["read"], left["read"])
  BY <1>1, <1>3, Zenon DEF ReadOwes, Begun
<1>. QED  BY <1>4, <1>7, <1>8 DEF PipeInv

\* Every step keeps it.
LEMMA PipeKeeps ==
  ASSUME PipeInv, [Pipe!Next]_(Pipe!vars), Pipe!BufSizeAssumption, Pipe!RoomAssumption,
         Pipe!OutputAssumption, Pipe!ChunksAssumption
  PROVE  PipeInv'
<1>1. Room \in Nat  BY DEF Pipe!RoomAssumption
<1>2. CASE Pipe!FbTerm
  <2>1. CASE Pipe!Ready  BY <2>1, ReadyKeeps
  <2>2. CASE \E way \in {"read", "write"} : Pipe!Translate(way)  BY <2>2, TranslateKeeps
  <2>3. CASE Pipe!Input  BY <2>3, InputKeeps
  <2>4. CASE Pipe!WriteIo  BY <1>1, <2>4, WriteIoKeeps
  <2>. QED  BY <1>2, <2>1, <2>2, <2>3, <2>4, Zenon DEF Pipe!FbTerm, Pipe!Way
<1>3. CASE \E chunk \in Chunks : Pipe!Type(chunk)  BY <1>3, TypeKeeps
<1>4. CASE Pipe!SwitchCodec  BY <1>4, SwitchCodecKeeps
<1>5. CASE \E b \in Output : Pipe!ProgramWrites(b)  BY <1>5, ProgramWritesKeeps
<1>6. CASE Pipe!ProgramReads  BY <1>1, <1>6, ProgramReadsKeeps
<1>7. CASE UNCHANGED Pipe!vars
  <2>1. /\ outq' = outq /\ inq' = inq /\ codec' = codec /\ left' = left /\ rest' = rest
        /\ text' = text /\ out' = out /\ due' = due
    BY <1>7 DEF Pipe!vars
  <2>2. PipeTypes'  BY <2>1 DEF PipeTypes, PipeInv
  <2>3. WriteOwes(codec', inq', out', rest'["write"], due'["write"])
    BY <2>1, Zenon DEF PipeInv
  <2>4. ReadOwes(codec', text', rest'["read"], due'["read"], left'["read"])
    BY <2>1, Zenon DEF PipeInv
  <2>. QED  BY <2>2, <2>3, <2>4 DEF PipeInv
<1>. QED  BY <1>2, <1>3, <1>4, <1>5, <1>6, <1>7 DEF Pipe!Next

\* What VTerm::input has yet to handle is what the terminal is owed first.
LEMMA ReadsRight ==
  ASSUME PipeInv
  PROVE  ReadsAsSent
<1>1. text \in Seq(Bytes) /\ rest["read"] \in Seq(Bytes) /\ << >> \in Seq(Bytes)
  <2>1. PipeTypes  BY DEF PipeInv
  <2>. QED  BY <2>1, ReadTyped DEF PipeTypes
<1>2. CASE Reading
  <2>1. due["read"] = Owed(codec, "read", text, rest["read"])
    BY <1>2, Zenon DEF PipeInv, ReadOwes, Reading
  <2> DEFINE v == Coming(codec, "read", rest["read"])
  <2>2. due["read"].made = text \o v /\ v \in Seq(Bytes)
    <3> DEFINE q == rest["read"]
    <3>1. q \in Seq(Bytes) /\ text \in Seq(Bytes)  BY <1>1
    <3> HIDE DEF q
    <3>2. Owed(codec, "read", text, q).made = text \o Coming(codec, "read", q)
      BY <3>1, OwedMade
    <3>3. Coming(codec, "read", q) \in Seq(Bytes)  BY <3>1, OwedMade
    <3>. QED  BY <2>1, <3>2, <3>3, Zenon DEF q
  <2> HIDE DEF v
  <2>3. IsPrefix(text, text \o v)
    <3>1. v \in Seq(Bytes)  BY <2>2, Zenon
    <3>. QED  BY <1>1, <3>1 DEF IsPrefix
  <2>. QED  BY <1>2, <2>2, <2>3, Zenon DEF ReadsAsSent
<1>3. CASE ~ Reading
  <2>1. text = << >> /\ Begun(due["read"], left["read"])
    BY <1>3, Zenon DEF PipeInv, ReadOwes, Reading
  <2>2. due["read"].made = << >> /\ (due["read"].lead <=> left["read"] # << >>)
    <3>1. <<"h">> # << >>
      <4>1. Len(<<"h">>) = 1 /\ Len(<< >>) = 0  OBVIOUS
      <4>. QED  BY <4>1
    <3>2. /\ Fresh(<< >>).made = << >> /\ ~ Fresh(<< >>).lead
          /\ Open(<< >>).made = << >> /\ Open(<< >>).lead
      BY DEF Fresh, Open
    <3>. QED  BY <2>1, <3>1, <3>2, Zenon DEF Begun
  <2>3. IsPrefix(<< >>, << >>)  BY DEF IsPrefix
  <2>. QED  BY <2>1, <2>2, <2>3, Zenon DEF ReadsAsSent
<1>. QED  BY <1>2, <1>3

\* What is on its way to the program is what it is owed first.
LEMMA WritesRight ==
  ASSUME PipeInv
  PROVE  KeysReachProgram
<1>1. /\ inq \in Seq(Bytes) /\ out \in Seq(Bytes) /\ rest["write"] \in Seq(Bytes)
      /\ inq \o out \in Seq(Bytes)
  <2>1. PipeTypes  BY DEF PipeInv
  <2>. QED  BY <2>1, ReadTyped DEF PipeTypes
<1>2. due["write"] = Owed(codec, "write", inq \o out, rest["write"])
  BY Zenon DEF PipeInv, WriteOwes
<1> DEFINE m == inq \o out
<1> HIDE DEF m
<1>3. m \in Seq(Bytes)  BY <1>1 DEF m
<1> DEFINE v == Coming(codec, "write", rest["write"])
<1>4. due["write"].made = m \o v /\ v \in Seq(Bytes) /\ (rest["write"] = << >> => v = << >>)
  <2> DEFINE q == rest["write"]
  <2>1. q \in Seq(Bytes)  BY <1>1
  <2> HIDE DEF q
  <2>2. Owed(codec, "write", m, q).made = m \o Coming(codec, "write", q)
    BY <1>3, <2>1, OwedMade
  <2>3. Coming(codec, "write", q) \in Seq(Bytes) /\ (q = << >> => Coming(codec, "write", q) = << >>)
    BY <1>3, <2>1, OwedMade
  <2>. QED  BY <1>2, <2>2, <2>3, Zenon DEF m, q
<1> HIDE DEF v
<1>5. v \in Seq(Bytes)  BY <1>4, Zenon
<1>6. IsPrefix(m, m \o v)  BY <1>3, <1>5 DEF IsPrefix
<1>7. ASSUME ~ Writing  PROVE inq = due["write"].made
  <2>1. out = << >> /\ rest["write"] = << >>  BY <1>7 DEF Writing
  <2>2. inq \o << >> = inq /\ (inq \o << >>) \o << >> = inq  BY <1>1
  <2>. QED  BY <1>4, <2>1, <2>2, Zenon DEF m
<1>. QED  BY <1>4, <1>6, <1>7, Zenon DEF KeysReachProgram, m

\* However the output of a program is cut into reads, whatever iconv takes of it
\* at a time, and wherever the codec changes, the terminal gets the characters of
\* the whole stream, in order, and only an unfinished one is kept back (IoPipe::ready,
\* translate, mBufRead), for every size of the buffers.
THEOREM ReadsAsSentAlways ==
  ASSUME Pipe!BufSizeAssumption, Pipe!RoomAssumption, Pipe!OutputAssumption,
         Pipe!ChunksAssumption
  PROVE  Pipe!Spec => []ReadsAsSent
<1>1. Pipe!Init => PipeInv
  <2>1. Room \in Nat  BY DEF Pipe!RoomAssumption
  <2>. QED  BY <2>1, PipeStarts
<1>2. PipeInv /\ [Pipe!Next]_(Pipe!vars) => PipeInv'  BY PipeKeeps
<1>3. PipeInv => ReadsAsSent  BY ReadsRight
<1>. QED  BY <1>1, <1>2, <1>3, PTL DEF Pipe!Spec

\* The program reads what was typed and answered, in order, through partial writes,
\* retries and errors of iconv, except what writeIo gave up and a character given to
\* write in two pieces (IoPipe::write, translate, writeIo), for every number of
\* retries and every capacity of the pseudo terminal.
THEOREM KeysReachProgramAlways ==
  ASSUME Pipe!BufSizeAssumption, Pipe!RoomAssumption, Pipe!OutputAssumption,
         Pipe!ChunksAssumption
  PROVE  Pipe!Spec => []KeysReachProgram
<1>1. Pipe!Init => PipeInv
  <2>1. Room \in Nat  BY DEF Pipe!RoomAssumption
  <2>. QED  BY <2>1, PipeStarts
<1>2. PipeInv /\ [Pipe!Next]_(Pipe!vars) => PipeInv'  BY PipeKeeps
<1>3. PipeInv => KeysReachProgram  BY WritesRight
<1>. QED  BY <1>1, <1>2, <1>3, PTL DEF Pipe!Spec
==============================================================================
