---------------------------- MODULE ParserProofs ----------------------------
(***************************************************************************)
(* Machine-checked proofs about the terminal's parser, for every number of *)
(* parameters and any bytes: that characters are shown as written, broken  *)
(* ones replaced, that an action gets the parameters written, and that ESC *)
(* is heard.  Numbers and code points are folds over bytes; the lemmas on  *)
(* folds are those of InputProofs.                                         *)
(***************************************************************************)
EXTENDS VTermParser, FiniteSetTheorems, SequenceTheorems, TLAPS

(* Folding a sequence.  FoldLeft is defined by a recursive function on sets   *)
(* of places; Recurs says what it comes to, and induction over the number of  *)
(* places is by a least counterexample.                                      *)

\* F is what a fold of s with the function h, from b, comes to on the way: F[t]
\* for the elements whose places are in t.
Recurs(F, h, b, s) ==
  /\ F[{}] = b
  /\ \A t \in SUBSET (1 .. Len(s)) :
       t # {} => F[t] = h[<<F[t \ {Max(t)}], s[Max(t)]>>]

\* The greatest of places up to n.
LEMMA MaxTop ==
  ASSUME NEW n \in Nat \ {0}, NEW t \in SUBSET (1 .. n), n \in t
  PROVE  Max(t) = n
<1>1. \A y \in t : n >= y /\ y \in Nat  OBVIOUS
<1>2. \A x \in t : (\A y \in t : x >= y) => x = n  BY <1>1
<1>3. \E x \in t : \A y \in t : x >= y  BY <1>1
<1>. QED  BY <1>2, <1>3 DEF Max

\* Places up to m without m.
LEMMA WithoutTop ==
  ASSUME NEW m \in Nat \ {0}, NEW t \in SUBSET (1 .. m)
  PROVE  t \ {m} \in SUBSET (1 .. m - 1)
<1>1. ASSUME NEW y \in t, y # m  PROVE y \in 1 .. m - 1
  <2>1. y \in 1 .. m  OBVIOUS
  <2>. QED  BY <1>1, <2>1
<1>. QED  BY <1>1

\* A set of numbers has a least element.
LEMMA Least ==
  ASSUME NEW S \in SUBSET Nat, S # {}
  PROVE  \E x \in S : \A y \in S : x <= y
<1>1. \E x \in S : \A y \in S : ~ (<<y, x>> \in OpToRel(<, Nat))
  BY NatLessThanWellFounded, WFMin
<1>2. ASSUME NEW x \in Nat, NEW y \in Nat, ~ (<<y, x>> \in OpToRel(<, Nat))
      PROVE  x <= y
  <2>1. ~ (y < x)  BY <1>2 DEF OpToRel
  <2>. QED  BY <2>1
<1>. QED  BY <1>1, <1>2

\* The greatest of some places is one of them.
LEMMA MaxIn ==
  ASSUME NEW n \in Nat, NEW t \in SUBSET (1 .. n), t # {}
  PROVE  Max(t) \in t
<1> DEFINE below == {i \in Nat : \E x \in t : i = n - x}
<1>1. below # {} /\ below \in SUBSET Nat
  <2>1. PICK x \in t : TRUE  OBVIOUS
  <2>2. n - x \in below  BY <2>1
  <2>. QED  BY <2>2
<1>2. PICK i \in below : \A j \in below : i <= j  BY <1>1, Least
<1>3. PICK x \in t : i = n - x  BY <1>2
<1>4. ASSUME NEW y \in t  PROVE x >= y
  <2>1. n - y \in below  OBVIOUS
  <2>2. n - x <= n - y  BY <1>2, <1>3, <2>1
  <2>. QED  BY <2>2
<1>. QED  BY <1>4 DEF Max

\* F and G agree wherever they agree on one place less.
Alike(F, G, n) ==
  /\ F[{}] = G[{}]
  /\ \A t \in SUBSET (1 .. n) :
       t # {} /\ F[t \ {Max(t)}] = G[t \ {Max(t)}] => F[t] = G[t]

\* Then they agree.
LEMMA FoldUnique ==
  ASSUME NEW n \in Nat, NEW F, NEW G, Alike(F, G, n)
  PROVE  \A t \in SUBSET (1 .. n) : F[t] = G[t]
<1> DEFINE bad == {m \in 0 .. n : \E t \in SUBSET (1 .. m) : F[t] # G[t]}
<1>1. bad = {}
  <2>1. SUFFICES ASSUME bad # {}  PROVE FALSE
    OBVIOUS
  <2>2. PICK m \in bad : \A k \in bad : m <= k
    <3>1. bad \in SUBSET Nat  OBVIOUS
    <3> HIDE DEF bad
    <3>. QED  BY <2>1, <3>1, Least
  <2>3. PICK t \in SUBSET (1 .. m) : F[t] # G[t]  OBVIOUS
  <2>4. t # {}  BY <2>3 DEF Alike
  <2>5. m \in Nat \ {0} /\ m <= n
    <3>1. m \in 0 .. n  OBVIOUS
    <3>2. m # 0
      <4>1. SUFFICES ASSUME m = 0  PROVE FALSE
        OBVIOUS
      <4>2. 1 .. m = {}  BY <4>1
      <4> HIDE DEF bad
      <4>3. t \in SUBSET {}  BY <4>2
      <4>. QED  BY <2>4, <4>3
    <3>. QED  BY <3>1, <3>2
  <2>6. m - 1 \notin bad
    <3>1. ~ (m <= m - 1)  BY <2>5
    <3> HIDE DEF bad
    <3>. QED  BY <2>2, <3>1
  <2>7. \A u \in SUBSET (1 .. m - 1) : F[u] = G[u]  BY <2>5, <2>6
  <2>8. m \in t
    <3>1. SUFFICES ASSUME m \notin t  PROVE FALSE
      OBVIOUS
    <3>2. t \in SUBSET (1 .. m - 1)
      <4>1. t \ {m} = t  BY <3>1
      <4>. QED  BY <2>5, <4>1, WithoutTop
    <3>. QED  BY <2>3, <2>7, <3>2
  <2>9. Max(t) = m  BY <2>5, <2>8, MaxTop
  <2>10. t \ {m} \in SUBSET (1 .. m - 1)  BY <2>5, WithoutTop
  <2>11. t \in SUBSET (1 .. n)  BY <2>5
  <2>. QED  BY <2>3, <2>4, <2>7, <2>9, <2>10, <2>11 DEF Alike
<1>2. ASSUME NEW t \in SUBSET (1 .. n)  PROVE F[t] = G[t]
  <2>1. n \in 0 .. n  OBVIOUS
  <2>. QED  BY <1>1, <2>1
<1>. QED  BY <1>2

\* There is such a function for every sequence.
LEMMA FoldExists ==
  ASSUME NEW X, NEW S, NEW h \in [X \X S -> X], NEW b \in X, NEW s \in Seq(S)
  PROVE  \E F \in [SUBSET (1 .. Len(s)) -> X] : Recurs(F, h, b, s)
<1> DEFINE n == Len(s)
<1> DEFINE Upto(m, F) ==
      /\ F \in [SUBSET (1 .. m) -> X] /\ F[{}] = b
      /\ \A t \in SUBSET (1 .. m) : t # {} => F[t] = h[<<F[t \ {Max(t)}], s[Max(t)]>>]
<1> DEFINE bad == {m \in 0 .. n : ~ \E F : Upto(m, F)}
<1>0. n \in Nat /\ \A i \in 1 .. n : s[i] \in S  OBVIOUS
<1>1. bad = {}
  <2>1. SUFFICES ASSUME bad # {}  PROVE FALSE
    OBVIOUS
  <2>2. PICK m \in bad : \A k \in bad : m <= k
    <3>1. bad \in SUBSET Nat  BY <1>0
    <3> HIDE DEF bad
    <3>. QED  BY <2>1, <3>1, Least
  <2>3. m \in 0 .. n /\ ~ \E F : Upto(m, F)  OBVIOUS
  <2>4. m # 0
    <3>1. SUFFICES ASSUME m = 0  PROVE FALSE
      OBVIOUS
    <3> DEFINE F == [t \in {{}} |-> b]
    <3>2. SUBSET (1 .. 0) = {{}}  OBVIOUS
    <3>3. Upto(0, F)  BY <3>2
    <3>. QED  BY <2>3, <3>1, <3>3
  <2>5. m \in Nat \ {0} /\ m <= n /\ m - 1 \in 0 .. n /\ m - 1 < m  BY <1>0, <2>3, <2>4
  <2>6. m - 1 \notin bad
    <3>1. ~ (m <= m - 1)  BY <2>5
    <3> HIDE DEF bad
    <3>. QED  BY <2>2, <3>1
  <2>7. PICK E : Upto(m - 1, E)  BY <2>5, <2>6
  <2> DEFINE F == [t \in SUBSET (1 .. m) |->
                     IF m \in t THEN h[<<E[t \ {m}], s[m]>>] ELSE E[t]]
  <2>8. \A t \in SUBSET (1 .. m) : t \ {m} \in SUBSET (1 .. m - 1)
    BY <2>5, WithoutTop
  <2>9. ASSUME NEW t \in SUBSET (1 .. m)  PROVE F[t] \in X
    <3>1. m \in 1 .. n  BY <1>0, <2>5
    <3>2. s[m] \in S  BY <1>0, <3>1
    <3>3. t \ {m} \in SUBSET (1 .. m - 1)  BY <2>8
    <3>4. E[t \ {m}] \in X  BY <2>7, <3>3
    <3>5. CASE m \in t
      <4>1. <<E[t \ {m}], s[m]>> \in X \X S  BY <3>2, <3>4
      <4>2. F[t] = h[<<E[t \ {m}], s[m]>>]  BY <3>5
      <4> HIDE DEF F
      <4>. QED  BY <4>1, <4>2
    <3>6. CASE m \notin t
      <4>1. t \ {m} = t  BY <3>6
      <4>. QED  BY <3>4, <3>6, <4>1
    <3>. QED  BY <3>5, <3>6
  <2>10. F \in [SUBSET (1 .. m) -> X]  BY <2>9
  <2>11. F[{}] = b  BY <2>7
  <2>12. ASSUME NEW t \in SUBSET (1 .. m), t # {}
         PROVE  F[t] = h[<<F[t \ {Max(t)}], s[Max(t)]>>]
    <3>1. CASE m \in t
      <4>1. Max(t) = m  BY <2>5, <3>1, MaxTop
      <4>2. F[t \ {m}] = E[t \ {m}]  BY <2>8
      <4>3. F[t] = h[<<E[t \ {m}], s[m]>>]  BY <3>1
      <4> HIDE DEF F
      <4>. QED  BY <4>1, <4>2, <4>3
    <3>2. CASE m \notin t
      <4>0. t \ {m} = t  BY <3>2
      <4>1. t \in SUBSET (1 .. m - 1)  BY <2>8, <4>0
      <4>2. E[t] = h[<<E[t \ {Max(t)}], s[Max(t)]>>]  BY <2>7, <2>12, <4>1
      <4>3. F[t] = E[t]  BY <3>2
      <4>4. F[t \ {Max(t)}] = E[t \ {Max(t)}]  BY <3>2
      <4> HIDE DEF F
      <4>. QED  BY <4>2, <4>3, <4>4
    <3>. QED  BY <3>1, <3>2
  <2> HIDE DEF F
  <2>13. \A t \in SUBSET (1 .. m) : t # {} => F[t] = h[<<F[t \ {Max(t)}], s[Max(t)]>>]
    BY <2>12
  <2>14. Upto(m, F)  BY <2>10, <2>11, <2>13
  <2>. QED  BY <2>3, <2>14
<1>2. PICK F : Upto(n, F)
  <2>1. n \in 0 .. n  BY <1>0
  <2>. QED  BY <1>1, <2>1
<1>. QED  BY <1>2 DEF Recurs

\* One element more.
LEMMA FoldAppend ==
  ASSUME NEW S, NEW s \in Seq(S), NEW e \in S, NEW h, NEW b,
         NEW F, Recurs(F, h, b, s), NEW G, Recurs(G, h, b, Append(s, e))
  PROVE  G[1 .. Len(s) + 1] = h[<<F[1 .. Len(s)], e>>]
<1> DEFINE n == Len(s)
<1> DEFINE r == Append(s, e)
<1>1. /\ n \in Nat /\ Len(r) = n + 1 /\ r[n + 1] = e
      /\ \A i \in 1 .. n : r[i] = s[i]
  OBVIOUS
<1> HIDE DEF n, r
<1>2. \A t \in SUBSET (1 .. n) : F[t] = G[t]
  <2>1. F[{}] = G[{}]  BY DEF Recurs, r
  <2>2. ASSUME NEW t \in SUBSET (1 .. n), t # {}, F[t \ {Max(t)}] = G[t \ {Max(t)}]
        PROVE  F[t] = G[t]
    <3>1. Max(t) \in t  BY <1>1, <2>2, MaxIn
    <3>2. r[Max(t)] = s[Max(t)]  BY <1>1, <3>1
    <3>3. F[t] = h[<<F[t \ {Max(t)}], s[Max(t)]>>]  BY <2>2 DEF Recurs, n
    <3>4. t \in SUBSET (1 .. Len(r))  BY <1>1
    <3>5. G[t] = h[<<G[t \ {Max(t)}], r[Max(t)]>>]  BY <2>2, <3>4 DEF Recurs, r
    <3>. QED  BY <2>2, <3>2, <3>3, <3>5
  <2>3. \A t \in SUBSET (1 .. n) :
           t # {} /\ F[t \ {Max(t)}] = G[t \ {Max(t)}] => F[t] = G[t]
    BY <2>2
  <2>4. n \in Nat  BY <1>1
  <2>5. Alike(F, G, n)  BY <2>1, <2>3 DEF Alike
  <2>. QED  BY <2>4, <2>5, FoldUnique, SMTT(30)
<1> DEFINE all == 1 .. n + 1
<1>3. all \in SUBSET (1 .. Len(r)) /\ all # {} /\ n + 1 \in all /\ n + 1 \in Nat \ {0}
  <2>1. n + 1 \in Nat \ {0} /\ n + 1 \in all  BY <1>1
  <2>2. all = 1 .. Len(r)  BY <1>1
  <2>. QED  BY <2>1, <2>2
<1>4. Max(all) = n + 1  BY <1>1, <1>3, MaxTop
<1>5. all \ {n + 1} = 1 .. n  BY <1>1
<1>6. G[all] = h[<<G[all \ {Max(all)}], r[Max(all)]>>]
  <2> HIDE DEF all
  <2>. QED  BY <1>3 DEF Recurs, r
<1>7. G[1 .. n] = F[1 .. n]  BY <1>2
<1>. QED  BY <1>1, <1>4, <1>5, <1>6, <1>7 DEF n

-----------------------------------------------------------------------------
(* Types, and where the indices of param stay.                             *)

\* The states of the parser, and the two kinds of character sets.
States == {"normal", "esc", "square", "nonstd", "percent", "charset", "hash", "funckey"}
Map == {"text", "glyphs"}

\* The types, by what the variables are for.
DecoderTypes == need \in 0 .. 5 /\ char \in Nat /\ part \in Seq(Bytes)
ArgTypes ==
  /\ npar \in Params /\ param \in [Params -> 0 .. U16 - 1]
  /\ qMode \in BOOLEAN /\ paletteMode \in BOOLEAN
ModeTypes == utf8 \in BOOLEAN /\ displayCtrl \in BOOLEAN /\ toggleMeta \in BOOLEAN
SetTypes ==
  /\ charset \in Map /\ g0 \in Map /\ g1 \in Map
  /\ g0Active \in BOOLEAN /\ g0Current \in BOOLEAN
  /\ saved \in [g0 : Map, g1 : Map, g0Active : BOOLEAN]

\* All of them.
Types == esc \in States /\ DecoderTypes /\ ArgTypes /\ ModeTypes /\ SetTypes

\* A colour's digits are fewer than it has.
PaletteInv == esc = "nonstd" /\ paletteMode => npar < PaletteLen

\* The incomplete character: as many bytes as npar says are read of those its
\* first byte asks for, and what they come to is known.
CharInv ==
  /\ need = 0 => part = << >>
  /\ need > 0 =>
       /\ esc = "normal" /\ utf8 /\ ~ displayCtrl
       /\ Len(part) = npar + 1 /\ Lead(part[1]) = npar + need
       /\ \A i \in 2 .. Len(part) : IsContinuation(part[i])
       /\ char = Denoted(part)

\* The inductive invariant of characters and states.
ParserInv == Types /\ PaletteInv /\ CharInv

\* A byte asks for no more continuation bytes than npar can count.
LEMMA LeadRange ==
  ASSUME NEW b \in Bytes
  PROVE  /\ b \in 0 .. 255 /\ Lead(b) \in 0 .. 5 /\ Lead(b) < NPar
         /\ Lead(b) > 0 => b >= 192
<1>1. b \in 0 .. 255  BY BytesAssumption
<1>2. Lead(b) < NPar  BY LeadAssumption
<1>3. Lead(b) \in 0 .. 5 /\ (Lead(b) > 0 => b >= 192)  BY <1>1 DEF Lead
<1>. QED  BY <1>1, <1>2, <1>3

\* What a control code changes.
LEMMA ControlCodeDoes ==
  ASSUME Types, NEW c, NEW pre, ControlCode(c, pre)
  PROVE  /\ esc' \in States /\ ModeTypes' /\ SetTypes'
         /\ UNCHANGED args
         /\ esc' = "normal" \/ esc' = "esc" \/ esc' = "square" \/ esc' = esc
         /\ out' = pre \/ out' = Append(pre, Act("control", c))
<1>1. esc' \in {"normal", "esc", "square", esc}  BY DEF ControlCode
<1>2. ModeTypes' /\ SetTypes'
  <2>1. ASSUME NEW a \in BOOLEAN, Select(a) PROVE ModeTypes' /\ SetTypes'
    <3>1. utf8' \in BOOLEAN /\ toggleMeta' \in BOOLEAN /\ g0Active' \in BOOLEAN
      BY <2>1 DEF Select, Types, ModeTypes
    <3>2. displayCtrl' \in BOOLEAN
      <4>1. displayCtrl' = ~ a  BY <2>1 DEF Select
      <4>. QED  BY <4>1, Zenon
    <3>3. /\ charset' \in Map /\ g0' \in Map /\ g1' \in Map /\ g0Current' \in BOOLEAN
          /\ saved' \in [g0 : Map, g1 : Map, g0Active : BOOLEAN]
      BY <2>1 DEF Select, Types, SetTypes
    <3>. QED  BY <3>1, <3>2, <3>3 DEF ModeTypes, SetTypes
  <2>2. CASE UNCHANGED <<modes, sets>>
    BY <2>2 DEF Types, ModeTypes, SetTypes, modes, sets
  <2>3. Select(FALSE) \/ Select(TRUE) \/ UNCHANGED <<modes, sets>>  BY DEF ControlCode
  <2>. QED  BY <2>1, <2>2, <2>3
<1>3. out' = pre \/ out' = Append(pre, Act("control", c))  BY DEF ControlCode
<1>4. UNCHANGED args  BY DEF ControlCode
<1>. QED  BY <1>1, <1>2, <1>3, <1>4 DEF Types, States

\* What becomes of a code that is taken as a character.
LEMMA TakeDoes ==
  ASSUME Types, esc = "normal", NEW c, NEW tc, NEW bytes, NEW pre, Take(c, tc, bytes, pre)
  PROVE  /\ esc' \in {"normal", "esc", "square"} /\ ModeTypes' /\ SetTypes'
         /\ UNCHANGED args
         /\ \/ out' = Append(pre, Shown(tc, bytes)) /\ UNCHANGED modes
            \/ out' = pre \/ out' = Append(pre, Act("control", tc))
<1>1. CASE ControlCode(tc, pre)  BY <1>1, ControlCodeDoes
<1>2. CASE UNCHANGED <<esc, args, modes, sets>> /\ out' = pre
  BY <1>2 DEF Types, ModeTypes, SetTypes, modes, sets
<1>3. CASE UNCHANGED <<esc, args, modes, sets>> /\ out' = Append(pre, Shown(tc, bytes))
  BY <1>3 DEF Types, ModeTypes, SetTypes, modes, sets
<1>. QED  BY <1>1, <1>2, <1>3 DEF Take

-----------------------------------------------------------------------------
(* Escape sequences.                                                       *)

\* What a byte of a sequence leads to, but a control code; a colour is complete
\* with its last digit.
Kinds == {"esc", "square", "nonstd", "palette", "hash"}
Coloured(c) ==
  /\ esc = "nonstd" /\ paletteMode /\ npar + 1 = PaletteLen
  /\ param' = [param EXCEPT ![npar] = Hex(c)]
\* What a byte puts out: nothing, or one action that its state may take.
Led ==
  \/ out' = << >>
  \/ \E k \in Kinds, c \in Bytes :
       /\ out' = <<Act(k, c)>>
       /\ k = "square" => esc = "square"
       /\ k = "palette" => Coloured(c)

\* What a byte within a sequence has to keep.
Kept == esc' \in States /\ ArgTypes' /\ ModeTypes' /\ SetTypes' /\ PaletteInv' /\ Led

\* A byte that only changes the state.
LEMMA QuietKeeps ==
  ASSUME Types, PaletteInv, NEW state \in States, state # "nonstd" \/ state = esc, Quiet(state)
  PROVE  Kept
<1>1. esc' = state /\ out' = << >> /\ UNCHANGED <<npar, args, modes, sets>>  BY DEF Quiet, Go
<1>. QED
  BY <1>1 DEF Types, PaletteInv, ArgTypes, ModeTypes, SetTypes, Kept, Led, args, modes, sets

\* A sequence that begins.
LEMMA ClearParamKeeps ==
  ASSUME Types, NEW state \in States, NEW c, ClearParam(state, c)
  PROVE  Kept
<1>1. /\ esc' = state /\ out' = << >> /\ npar' = 0 /\ qMode' = FALSE /\ paletteMode' = FALSE
      /\ param' = [i \in Params |-> 0] /\ UNCHANGED <<modes, sets>>
  BY DEF ClearParam, Go
<1>2. npar' \in Params  BY <1>1, NParAssumption DEF Params
<1>3. param' \in [Params -> 0 .. U16 - 1]  BY <1>1 DEF U16
<1>. QED
  BY <1>1, <1>2, <1>3 DEF Types, PaletteInv, ArgTypes, ModeTypes, SetTypes, Kept, Led, modes, sets

\* Saving and restoring the cursor, which takes the character sets with it.
LEMMA CursorSets ==
  ASSUME Types, SaveCursor \/ RestoreCursor
  PROVE  SetTypes'
<1>1. CASE SaveCursor  BY <1>1 DEF SaveCursor, Types, SetTypes
<1>2. CASE RestoreCursor
  <2>1. /\ saved \in [g0 : Map, g1 : Map, g0Active : BOOLEAN]  BY DEF Types, SetTypes
  <2>2. g0' = saved.g0 /\ g1' = saved.g1 /\ g0Active' = saved.g0Active
        /\ charset' \in {saved.g0, saved.g1} /\ UNCHANGED <<g0Current, saved>>
    BY <1>2 DEF RestoreCursor
  <2>. QED  BY <2>1, <2>2 DEF Types, SetTypes
<1>. QED  BY <1>1, <1>2

\* The byte after ESC.
LEMMA EscKeeps ==
  ASSUME Types, PaletteInv, esc = "esc", NEW c \in Bytes, EscCode(c)
  PROVE  Kept
<1>1. CASE ClearParam("square", c) \/ ClearParam("nonstd", c)
  BY <1>1, ClearParamKeeps DEF States
<1>2. CASE Quiet("percent") \/ Quiet("hash") \/ Quiet("normal")
  BY <1>2, QuietKeeps DEF States
<1>3. CASE c \in {40, 41}
  <2>1. /\ esc' = "charset" /\ out' = << >> /\ g0Current' = (c = 40)
        /\ UNCHANGED <<npar, args, modes, charset, g0, g1, g0Active, saved>>
    <3>1. c # 91 /\ c # 93 /\ c # 37 /\ c # 35 /\ c # 99 /\ c \notin EscFinals \ {99}
      BY <1>3 DEF EscFinals
    <3>. QED  BY <1>3, <3>1, Zenon DEF EscCode, Go
  <2>2. g0Current' \in BOOLEAN
    <3>1. (c = 40) \in BOOLEAN  OBVIOUS
    <3>. QED  BY <2>1, <3>1, Zenon
  <2>3. UNCHANGED <<npar, param, qMode, paletteMode, utf8, displayCtrl, toggleMeta, charset,
                    g0, g1, g0Active, saved>>
    BY <2>1 DEF args, modes
  <2>4. esc' = "charset" /\ out' = << >>  BY <2>1
  <2>. QED  BY <2>2, <2>3, <2>4 DEF Types, PaletteInv, ArgTypes, ModeTypes, SetTypes, Kept, Led, States
<1>4. CASE Reset /\ c = 99
  <2>1. /\ esc' = "normal" /\ out' = <<Act("esc", 99)>> /\ utf8' = TRUE /\ displayCtrl' = FALSE
        /\ toggleMeta' = FALSE /\ g0Active' = TRUE /\ g0' = "text" /\ g1' = "text"
        /\ charset' = "text" /\ UNCHANGED <<npar, args, g0Current, saved>>
    BY <1>4 DEF Reset, Go
  <2>2. Led  BY <1>4, <2>1 DEF Led, Kinds
  <2>. QED  BY <2>1, <2>2 DEF Types, PaletteInv, ArgTypes, ModeTypes, SetTypes, Kept,
               args, States, Map
<1>5. CASE c \in EscFinals \ {99}
  <2>1. /\ esc' = "normal" /\ out' = <<Act("esc", c)>>
        /\ SaveCursor \/ RestoreCursor \/ UNCHANGED sets
        /\ UNCHANGED <<npar, args, modes>>
    <3>1. c # 91 /\ c # 93 /\ c # 37 /\ c # 35 /\ c # 99 /\ c \notin {40, 41}
      BY <1>5 DEF EscFinals
    <3>2. /\ Go("normal") /\ out' = <<Act("esc", c)>>
          /\ CASE c = 55 -> SaveCursor [] c = 56 -> RestoreCursor [] OTHER -> UNCHANGED sets
          /\ UNCHANGED <<npar, args, modes>>
      BY <1>5, <3>1, Zenon DEF EscCode
    <3>3. SaveCursor \/ RestoreCursor \/ UNCHANGED sets
      <4>1. CASE c = 55  BY <3>2, <4>1
      <4>2. CASE c = 56  BY <3>2, <4>2
      <4>3. CASE c # 55 /\ c # 56  BY <3>2, <4>3
      <4>. QED  BY <4>1, <4>2, <4>3
    <3>. QED  BY <3>2, <3>3 DEF Go
  <2>2. SetTypes'
    <3>1. CASE UNCHANGED sets  BY <3>1 DEF Types, SetTypes, sets
    <3>. QED  BY <2>1, <3>1, CursorSets
  <2>3. Led  BY <2>1 DEF Led, Kinds
  <2>. QED  BY <2>1, <2>2, <2>3 DEF Types, PaletteInv, ArgTypes, ModeTypes, Kept, args, modes, States
<1>. QED
  <2>1. \/ c \in {91, 93, 37, 35, 40, 41, 99} \/ c \in EscFinals \ {99}
        \/ c \notin {91, 93, 37, 35, 40, 41, 99} /\ c \notin EscFinals \ {99}
    OBVIOUS
  <2>2. c \notin {91, 93, 37, 35, 40, 41, 99} /\ c \notin EscFinals \ {99} => Quiet("normal")
    BY Zenon DEF EscCode
  <2>3. c = 99 => Reset
    <3>1. c = 99 => c # 91 /\ c # 93 /\ c # 37 /\ c # 35 /\ c \notin {40, 41} /\ c \notin EscFinals \ {99}
      BY DEF EscFinals
    <3>. QED  BY <3>1, Zenon DEF EscCode
  <2>4. c = 91 => ClearParam("square", c)
    <3>1. c = 91 => c # 93 /\ c # 37 /\ c # 35 /\ c # 99 /\ c \notin {40, 41} /\ c \notin EscFinals \ {99}
      BY DEF EscFinals
    <3>. QED  BY <3>1, Zenon DEF EscCode
  <2>5. c = 93 => ClearParam("nonstd", c)
    <3>1. c = 93 => c # 91 /\ c # 37 /\ c # 35 /\ c # 99 /\ c \notin {40, 41} /\ c \notin EscFinals \ {99}
      BY DEF EscFinals
    <3>. QED  BY <3>1, Zenon DEF EscCode
  <2>6. c = 37 => Quiet("percent")
    <3>1. c = 37 => c # 91 /\ c # 93 /\ c # 35 /\ c # 99 /\ c \notin {40, 41} /\ c \notin EscFinals \ {99}
      BY DEF EscFinals
    <3>. QED  BY <3>1, Zenon DEF EscCode
  <2>7. c = 35 => Quiet("hash")
    <3>1. c = 35 => c # 91 /\ c # 93 /\ c # 37 /\ c # 99 /\ c \notin {40, 41} /\ c \notin EscFinals \ {99}
      BY DEF EscFinals
    <3>. QED  BY <3>1, Zenon DEF EscCode
  <2>. QED  BY <1>1, <1>2, <1>3, <1>4, <1>5, <2>1, <2>2, <2>3, <2>4, <2>5, <2>6, <2>7

\* ESC [ m, which goes through the parameters.
LEMMA DisplayAttrKeeps ==
  ASSUME Types, DisplayAttr, UNCHANGED <<g0, g1, g0Active, g0Current, saved, utf8>>
  PROVE  ModeTypes' /\ SetTypes'
<1>1. CASE UNCHANGED <<charset, displayCtrl, toggleMeta>>
  BY <1>1 DEF Types, ModeTypes, SetTypes
<1>2. ASSUME NEW last, charset' = IF param[last] = 10 THEN (IF g0Active THEN g0 ELSE g1) ELSE "glyphs",
             displayCtrl' = (param[last] # 10), toggleMeta' = (param[last] = 12)
      PROVE  ModeTypes' /\ SetTypes'
  <2>1. displayCtrl' \in BOOLEAN /\ toggleMeta' \in BOOLEAN
    <3>1. (param[last] # 10) \in BOOLEAN /\ (param[last] = 12) \in BOOLEAN  OBVIOUS
    <3>. QED  BY <1>2, <3>1, Zenon
  <2>2. charset' \in {g0, g1, "glyphs"}  BY <1>2
  <2>. QED  BY <2>1, <2>2 DEF Types, ModeTypes, SetTypes, Map
<1>3. \/ UNCHANGED <<charset, displayCtrl, toggleMeta>>
      \/ \E last : /\ charset' = IF param[last] = 10 THEN (IF g0Active THEN g0 ELSE g1) ELSE "glyphs"
                   /\ displayCtrl' = (param[last] # 10) /\ toggleMeta' = (param[last] = 12)
  BY Zenon DEF DisplayAttr
<1>. QED  BY <1>1, <1>2, <1>3

\* The byte that ends a sequence begun with ESC [.
LEMMA SquareFinalKeeps ==
  ASSUME Types, PaletteInv, esc = "square", NEW c \in Bytes, SquareFinal(c)
  PROVE  Kept
<1>1. /\ esc' = "normal" /\ out' = <<Act("square", c)>> /\ UNCHANGED <<npar, args, utf8>>
  BY DEF SquareFinal, Go
<1>2. ModeTypes' /\ SetTypes'
  <2>1. CASE DisplayAttr /\ UNCHANGED <<g0, g1, g0Active, g0Current, saved>>
    BY <1>1, <2>1, DisplayAttrKeeps
  <2>2. CASE displayCtrl' = (c = 104) /\ UNCHANGED <<toggleMeta, sets>>
    <3>1. displayCtrl' \in BOOLEAN
      <4>1. (c = 104) \in BOOLEAN  OBVIOUS
      <4>. QED  BY <2>2, <4>1, Zenon
    <3>2. UNCHANGED <<toggleMeta, sets>>  BY <2>2
    <3>. QED  BY <1>1, <3>1, <3>2 DEF Types, ModeTypes, SetTypes, sets
  <2>3. CASE (SaveCursor \/ RestoreCursor) /\ UNCHANGED <<displayCtrl, toggleMeta>>
    BY <1>1, <2>3, CursorSets DEF Types, ModeTypes
  <2>4. CASE UNCHANGED <<displayCtrl, toggleMeta, sets>>
    BY <1>1, <2>4 DEF Types, ModeTypes, SetTypes, sets
  <2>. QED  BY <2>1, <2>2, <2>3, <2>4, Zenon DEF SquareFinal
<1>3. Led  BY <1>1 DEF Led, Kinds
<1>. QED  BY <1>1, <1>2, <1>3 DEF Kept, Types, PaletteInv, ArgTypes, args, States

\* The range of a parameter holds every byte's digit.
LEMMA U16Nat == U16 \in Nat \ {0} /\ U16 > 255
  BY DEF U16

\* One digit more of a parameter.
LEMMA DigitFits ==
  ASSUME NEW v \in 0 .. U16 - 1, NEW c \in 0 .. 255
  PROVE  (v * 10 + c - 48) % U16 \in 0 .. U16 - 1
<1>1. \A n \in Nat \ {0} : \A x \in Int : x % n \in 0 .. n - 1  OBVIOUS
<1>2. v * 10 + c - 48 \in Int  BY U16Nat
<1>. QED  BY <1>1, <1>2, U16Nat

\* A byte after ESC [.
LEMMA SquareKeeps ==
  ASSUME Types, PaletteInv, esc = "square", NEW c \in Bytes, SquareCode(c)
  PROVE  Kept
<1>0. c \in 0 .. 255 /\ npar \in Params /\ Params \subseteq Int
      /\ param \in [Params -> 0 .. U16 - 1]
  BY BytesAssumption DEF Types, ArgTypes, Params
<1>1. CASE c \in Digits
  <2>1. /\ param' = [param EXCEPT ![npar] = (@ * 10 + c - 48) % U16]
        /\ out' = << >>
        /\ UNCHANGED <<esc, npar, qMode, paletteMode, modes, sets>>
    <3>1. c # 59 /\ c # 63 /\ c # 91 /\ c \notin SquareFinals  BY <1>1 DEF Digits, SquareFinals
    <3>. QED  BY <1>1, <3>1, Zenon DEF SquareCode
  <2>2. (param[npar] * 10 + c - 48) % U16 \in 0 .. U16 - 1
    <3>1. param[npar] \in 0 .. U16 - 1  BY <1>0
    <3>. QED  BY <1>0, <3>1, DigitFits
  <2>3. param' \in [Params -> 0 .. U16 - 1]  BY <1>0, <2>1, <2>2
  <2>. QED  BY <2>1, <2>3 DEF Kept, Led, Types, PaletteInv, ArgTypes, ModeTypes, SetTypes, modes, sets
<1>2. CASE c = 59
  <2>1. npar' = NextParam /\ out' = << >> /\ UNCHANGED <<esc, args, modes, sets>>
    <3>1. c \notin Digits /\ c # 63 /\ c # 91 /\ c \notin SquareFinals  BY <1>2 DEF Digits, SquareFinals
    <3>. QED  BY <1>2, <3>1, ZenonT(40) DEF SquareCode
  <2>2. npar' \in Params  BY <1>0, <2>1, NParAssumption DEF NextParam, Params
  <2>3. PaletteInv'
    BY <2>1 DEF PaletteInv
  <2>. QED  BY <2>1, <2>2, <2>3 DEF Kept, Led, Types, ArgTypes, ModeTypes, SetTypes, args, modes, sets
<1>3. CASE c = 63
  <2>1. qMode' = TRUE /\ out' = << >> /\ UNCHANGED <<esc, npar, param, paletteMode, modes, sets>>
    <3>1. c \notin Digits /\ c # 59 /\ c # 91 /\ c \notin SquareFinals  BY <1>3 DEF Digits, SquareFinals
    <3>. QED  BY <1>3, <3>1, Zenon DEF SquareCode
  <2>. QED  BY <2>1 DEF Kept, Led, Types, PaletteInv, ArgTypes, ModeTypes, SetTypes, modes, sets
<1>4. CASE Quiet("funckey") \/ Quiet("normal")
  BY <1>4, QuietKeeps DEF States
<1>5. CASE SquareFinal(c)  BY <1>5, SquareFinalKeeps
<1>. QED
  <2>1. c \notin Digits /\ c # 59 /\ c # 63 => Quiet("funckey") \/ Quiet("normal") \/ SquareFinal(c)
    BY Zenon DEF SquareCode
  <2>. QED  BY <1>1, <1>2, <1>3, <1>4, <1>5, <2>1

\* A digit of a colour, or what is none.
LEMMA SetPaletteKeeps ==
  ASSUME Types, PaletteInv, esc = "nonstd", NEW c \in Bytes,
         c \in Digits \cup (65 .. 70) \cup (97 .. 102), SetPalette(c)
  PROVE  Kept
<1>1. CASE ~ paletteMode  BY <1>1, QuietKeeps DEF SetPalette, States
<1>2. CASE paletteMode
  <2>1. /\ param' = [param EXCEPT ![npar] = Hex(c)] /\ npar' = npar + 1
        /\ IF npar' = PaletteLen THEN Go("normal") /\ out' = <<Act("palette", c)>>
                                 ELSE UNCHANGED esc /\ out' = << >>
        /\ UNCHANGED <<qMode, paletteMode, modes, sets>>
    BY <1>2 DEF SetPalette
  <2>2. npar \in 0 .. PaletteLen - 1  BY <1>2, NParAssumption DEF PaletteInv, Types, ArgTypes, Params
  <2>3. npar' \in Params  BY <2>1, <2>2, NParAssumption DEF Params
  <2>4. Hex(c) \in 0 .. U16 - 1
    <3>1. c \in 48 .. 57 \/ c \in 65 .. 70 \/ c \in 97 .. 102  BY DEF Digits
    <3>2. Hex(c) \in 0 .. 15
      <4>1. ASSUME c \in 48 .. 57  PROVE Hex(c) \in 0 .. 15  BY <4>1 DEF Hex
      <4>2. ASSUME c \in 65 .. 70  PROVE Hex(c) \in 0 .. 15  BY <4>2 DEF Hex
      <4>3. ASSUME c \in 97 .. 102  PROVE Hex(c) \in 0 .. 15  BY <4>3 DEF Hex
      <4>. QED  BY <3>1, <4>1, <4>2, <4>3
    <3>. QED  BY <3>2, U16Nat
  <2>5. param' \in [Params -> 0 .. U16 - 1]  BY <2>1, <2>4 DEF Types, ArgTypes
  <2>6. CASE npar' = PaletteLen
    <3>1. esc' = "normal" /\ out' = <<Act("palette", c)>>  BY <2>1, <2>6 DEF Go
    <3>2. Coloured(c)  BY <1>2, <2>1, <2>6 DEF Coloured
    <3>3. Led  BY <3>1, <3>2 DEF Led, Kinds
    <3>. QED  BY <2>1, <2>3, <2>5, <3>1, <3>3 DEF Kept, Types, PaletteInv, ArgTypes, ModeTypes, SetTypes,
                                          modes, sets, States
  <2>7. CASE npar' # PaletteLen
    <3>1. esc' = esc /\ Led  BY <2>1, <2>7 DEF Led
    <3>2. npar' < PaletteLen  BY <2>1, <2>2, <2>7, NParAssumption
    <3>3. PaletteInv'  BY <3>2 DEF PaletteInv
    <3>. QED  BY <2>1, <2>3, <2>5, <3>1, <3>3 DEF Kept, Types, ArgTypes, ModeTypes, SetTypes,
                                                modes, sets
  <2>. QED  BY <2>6, <2>7
<1>. QED  BY <1>1, <1>2

\* A byte after ESC ].
LEMMA NonstdKeeps ==
  ASSUME Types, PaletteInv, esc = "nonstd", NEW c \in Bytes, NonstdCode(c)
  PROVE  Kept
<1> DEFINE hex == Digits \cup (65 .. 70) \cup (97 .. 102)
<1>1. CASE c \in hex
  <2>1. c # 80 /\ c # 82  BY <1>1 DEF Digits
  <2>2. SetPalette(c)
    <3> HIDE DEF hex
    <3>. QED  BY <1>1, <2>1, Zenon DEF NonstdCode, hex
  <2>. QED  BY <1>1, <2>2, SetPaletteKeeps
<1>2. CASE Quiet("normal")  BY <1>2, QuietKeeps DEF States
<1>3. CASE c = 80 /\ ~ (paletteMode \/ npar # 0)
  <2>1. c \notin hex  BY <1>3 DEF Digits
  <2>2. paletteMode' = TRUE /\ out' = << >> /\ UNCHANGED <<esc, npar, param, qMode, modes, sets>>
    <3>1. c \notin hex /\ c = 80 /\ c # 82 /\ ~ (paletteMode \/ npar # 0)  BY <1>3, <2>1
    <3>. QED  BY <3>1, Zenon DEF NonstdCode
  <2>3. npar' < PaletteLen
    <3>1. npar = 0  BY <1>3
    <3>. QED  BY <2>2, <3>1, NParAssumption
  <2>. QED  BY <2>2, <2>3 DEF Kept, Led, Types, PaletteInv, ArgTypes, ModeTypes, SetTypes, modes, sets
<1>4. CASE c = 82
  <2>1. c \notin hex /\ c # 80  BY <1>4 DEF Digits
  <2>2. esc' = "normal" /\ out' = <<Act("nonstd", c)>> /\ UNCHANGED <<npar, args, modes, sets>>
    BY <1>4, <2>1, Zenon DEF NonstdCode, Go
  <2>3. Led  BY <2>2 DEF Led, Kinds
  <2>. QED  BY <2>2, <2>3 DEF Kept, Types, PaletteInv, ArgTypes, ModeTypes, SetTypes,
                              args, modes, sets, States
<1>. QED
  <2>1. c \notin hex /\ c # 82 /\ ~ (c = 80 /\ ~ (paletteMode \/ npar # 0)) => Quiet("normal")
    BY Zenon DEF NonstdCode
  <2> HIDE DEF hex
  <2>. QED  BY <1>1, <1>2, <1>3, <1>4, <2>1

\* A byte of the sequences of one more byte.
LEMMA OtherKeeps ==
  ASSUME Types, PaletteInv, NEW c \in Bytes, PercentCode(c) \/ CharsetCode(c) \/ HashCode(c)
  PROVE  Kept
<1>1. CASE PercentCode(c)
  <2>1. /\ esc' = "normal" /\ out' = << >> /\ utf8' \in {TRUE, FALSE, utf8}
        /\ UNCHANGED <<npar, args, displayCtrl, toggleMeta, sets>>
    BY <1>1 DEF PercentCode, Go
  <2>. QED  BY <2>1 DEF Kept, Led, Types, PaletteInv, ArgTypes, ModeTypes, SetTypes, args, sets, States
<1>2. CASE CharsetCode(c)
  <2>1. /\ esc' = "normal" /\ out' = << >> /\ g0' \in {"text", "glyphs", g0}
        /\ g1' \in {"text", "glyphs", g1}
        /\ UNCHANGED <<npar, args, modes, charset, g0Active, g0Current, saved>>
    BY <1>2 DEF CharsetCode, Go
  <2>. QED  BY <2>1 DEF Kept, Led, Types, PaletteInv, ArgTypes, ModeTypes, SetTypes, args, modes,
                        States, Map
<1>3. CASE HashCode(c)
  <2>1. /\ esc' = "normal" /\ UNCHANGED <<npar, args, modes, sets>>
        /\ out' = << >> \/ out' = <<Act("hash", c)>>
    BY <1>3 DEF HashCode, Go
  <2>2. Led  BY <2>1 DEF Led, Kinds
  <2>. QED  BY <2>1, <2>2 DEF Kept, Types, PaletteInv, ArgTypes, ModeTypes, SetTypes, args, modes,
                              sets, States
<1>. QED  BY <1>1, <1>2, <1>3

-----------------------------------------------------------------------------
(* The code point that bytes stand for.                                    *)

\* One continuation byte: six bits.
DenotedStep == [p \in Nat \X Bytes |-> p[1] * 64 + (p[2] % 64)]

\* The type of a step of decoding.
LEMMA DenotedType == DenotedStep \in [Nat \X Bytes -> Nat]
<1>1. ASSUME NEW v \in Nat, NEW b \in Bytes PROVE v * 64 + (b % 64) \in Nat
  <2>1. b \in Nat  BY LeadRange
  <2>2. b % 64 \in Nat  BY <2>1
  <2>. QED  BY <2>2
<1>. QED  BY <1>1 DEF DenotedStep

\* What a first byte contributes.
LEMMA PayloadRange ==
  ASSUME NEW b \in Bytes
  PROVE  /\ Payload(b) \in Nat /\ Payload(b) < 64
         /\ Lead(b) = 0 => Payload(b) = b % 64
         /\ Lead(b) = 1 => Payload(b) = b - 192
         /\ Lead(b) = 2 => Payload(b) = b - 224
<1>1. b \in Nat /\ b <= 255  BY LeadRange
<1>2. CASE Lead(b) = 0
  <2>1. Payload(b) = b % 64  BY <1>2 DEF Payload
  <2>. QED  BY <1>1, <1>2, <2>1
<1>3. CASE Lead(b) = 1
  <2>1. Payload(b) = b % 32  BY <1>3 DEF Payload
  <2>2. b \in 192 .. 223  BY <1>1, <1>3 DEF Lead
  <2>. QED  BY <1>3, <2>1, <2>2
<1>4. CASE Lead(b) = 2
  <2>1. Payload(b) = b % 16  BY <1>4 DEF Payload
  <2>2. b \in 224 .. 239  BY <1>1, <1>4 DEF Lead
  <2>. QED  BY <1>4, <2>1, <2>2
<1>5. CASE Lead(b) = 3
  <2>1. Payload(b) = b % 8  BY <1>5 DEF Payload
  <2>. QED  BY <1>1, <1>5, <2>1
<1>6. CASE Lead(b) = 4
  <2>1. Payload(b) = b % 4  BY <1>6 DEF Payload
  <2>. QED  BY <1>1, <1>6, <2>1
<1>7. CASE Lead(b) = 5
  <2>1. Payload(b) = b % 2  BY <1>7 DEF Payload
  <2>. QED  BY <1>1, <1>7, <2>1
<1>. QED  BY <1>2, <1>3, <1>4, <1>5, <1>6, <1>7, LeadRange

\* Rest(b, s) is what Denoted makes of a first byte b and the bytes s after it.
Rest(b, s) == FoldLeft(LAMBDA v, e : v * 64 + (e % 64), Payload(b), s)

\* The bytes after the first, as a fold.
LEMMA RestFold ==
  ASSUME NEW b \in Bytes, NEW s \in Seq(Bytes)
  PROVE  \E F : /\ F \in [SUBSET (1 .. Len(s)) -> Nat]
                /\ Recurs(F, DenotedStep, Payload(b), s)
                /\ Rest(b, s) = F[1 .. Len(s)]
<1> DEFINE n == Len(s)
<1> DEFINE Body(G) == [t \in SUBSET DOMAIN s |->
             IF t = {} THEN Payload(b) ELSE G[t \ {Max(t)}] * 64 + (s[Max(t)] % 64)]
<1> DEFINE I == CHOOSE G : G = Body(G)
<1>0. n \in Nat /\ DOMAIN s = 1 .. n /\ \A i \in 1 .. n : s[i] \in Bytes  OBVIOUS
<1>1. Rest(b, s) = I[DOMAIN s]
  BY DEF Rest, FoldLeft, MapThenFoldSet
<1>2. PICK F \in [SUBSET (1 .. n) -> Nat] : Recurs(F, DenotedStep, Payload(b), s)
  <2>1. Payload(b) \in Nat  BY PayloadRange
  <2>. QED  BY <2>1, DenotedType, FoldExists
<1>3. ASSUME NEW t \in SUBSET (1 .. n), t # {}
      PROVE  F[t] = F[t \ {Max(t)}] * 64 + (s[Max(t)] % 64)
  <2>1. Max(t) \in t  BY <1>0, <1>3, MaxIn
  <2>2. s[Max(t)] \in Bytes /\ t \ {Max(t)} \in SUBSET (1 .. n)  BY <1>0, <2>1
  <2>3. F[t] = DenotedStep[<<F[t \ {Max(t)}], s[Max(t)]>>]  BY <1>2, <1>3 DEF Recurs
  <2>4. F[t \ {Max(t)}] \in Nat  BY <1>2, <2>2
  <2>. QED  BY <2>2, <2>3, <2>4 DEF DenotedStep
<1>4. F[{}] = Payload(b)  BY <1>2 DEF Recurs
<1>5. F = Body(F)
  <2>1. \A t \in SUBSET DOMAIN s : F[t] = Body(F)[t]  BY <1>0, <1>3, <1>4
  <2>. QED  BY <1>0, <1>2, <2>1
<1>6. I = Body(I)
  <2> HIDE DEF Body
  <2>. QED  BY <1>5
<1> HIDE DEF I
<1>7. Alike(F, I, n)
  <2>1. I[{}] = Payload(b)  BY <1>6
  <2>2. ASSUME NEW t \in SUBSET (1 .. n), t # {}
        PROVE  I[t] = I[t \ {Max(t)}] * 64 + (s[Max(t)] % 64)
    BY <1>0, <1>6, <2>2
  <2>. QED  BY <1>3, <1>4, <2>1, <2>2 DEF Alike
<1>8. F[1 .. n] = I[1 .. n]
  <2>1. 1 .. n \in SUBSET (1 .. n)  OBVIOUS
  <2>. QED  BY <1>0, <1>7, <2>1, FoldUnique
<1>. QED  BY <1>0, <1>1, <1>2, <1>8

\* One more byte adds six bits.
LEMMA RestAppend ==
  ASSUME NEW b \in Bytes
  PROVE  /\ Rest(b, << >>) = Payload(b)
         /\ \A s \in Seq(Bytes) : Rest(b, s) \in Nat
         /\ \A s \in Seq(Bytes), e \in Bytes : Rest(b, Append(s, e)) = Rest(b, s) * 64 + (e % 64)
<1>1. Rest(b, << >>) = Payload(b)
  <2>1. << >> \in Seq(Bytes) /\ Len(<< >>) = 0 /\ 1 .. 0 = {}  OBVIOUS
  <2>2. PICK F : Recurs(F, DenotedStep, Payload(b), << >>) /\ Rest(b, << >>) = F[1 .. Len(<< >>)]
    BY <2>1, RestFold
  <2>. QED  BY <2>1, <2>2 DEF Recurs
<1>2. ASSUME NEW s \in Seq(Bytes)  PROVE Rest(b, s) \in Nat
  <2>1. 1 .. Len(s) \in SUBSET (1 .. Len(s))  OBVIOUS
  <2>2. PICK F \in [SUBSET (1 .. Len(s)) -> Nat] : Rest(b, s) = F[1 .. Len(s)]
    BY RestFold
  <2>. QED  BY <2>1, <2>2
<1>3. ASSUME NEW s \in Seq(Bytes), NEW e \in Bytes
      PROVE  Rest(b, Append(s, e)) = Rest(b, s) * 64 + (e % 64)
  <2>1. Append(s, e) \in Seq(Bytes) /\ Len(Append(s, e)) = Len(s) + 1  OBVIOUS
  <2>2. PICK F : Recurs(F, DenotedStep, Payload(b), s) /\ Rest(b, s) = F[1 .. Len(s)]
    BY RestFold
  <2>3. PICK G : /\ Recurs(G, DenotedStep, Payload(b), Append(s, e))
                 /\ Rest(b, Append(s, e)) = G[1 .. Len(s) + 1]
    BY <2>1, RestFold
  <2>4. Rest(b, Append(s, e)) = DenotedStep[<<Rest(b, s), e>>]
    BY <2>2, <2>3, FoldAppend
  <2>. QED  BY <1>2, <2>4 DEF DenotedStep
<1>. QED  BY <1>1, <1>2, <1>3

\* Byte by byte.
LEMMA DenotedAppend ==
  /\ \A b \in Bytes : Denoted(<<b>>) = Payload(b)
  /\ \A s \in Seq(Bytes) : s # << >> => Denoted(s) \in Nat
  /\ \A s \in Seq(Bytes), e \in Bytes :
       s # << >> => Denoted(Append(s, e)) = Denoted(s) * 64 + (e % 64)
<1>1. \A s : Denoted(s) = Rest(s[1], Tail(s))  BY DEF Denoted, Rest
<1>2. ASSUME NEW b \in Bytes  PROVE Denoted(<<b>>) = Payload(b)
  <2>1. <<b>>[1] = b /\ Tail(<<b>>) = << >>  OBVIOUS
  <2>2. Denoted(<<b>>) = Rest(b, << >>)  BY <1>1, <2>1
  <2>. QED  BY <2>2, RestAppend
<1>3. ASSUME NEW s \in Seq(Bytes), s # << >>  PROVE Denoted(s) \in Nat
  <2>1. s[1] \in Bytes /\ Tail(s) \in Seq(Bytes)  BY <1>3
  <2>. QED  BY <1>1, <2>1, RestAppend
<1>4. ASSUME NEW s \in Seq(Bytes), NEW e \in Bytes, s # << >>
      PROVE  Denoted(Append(s, e)) = Denoted(s) * 64 + (e % 64)
  <2>1. s[1] \in Bytes /\ Tail(s) \in Seq(Bytes)  BY <1>4
  <2>2. Append(s, e)[1] = s[1] /\ Tail(Append(s, e)) = Append(Tail(s), e)  BY <1>4
  <2>3. Rest(s[1], Append(Tail(s), e)) = Rest(s[1], Tail(s)) * 64 + (e % 64)
    BY <2>1, RestAppend, ZenonT(40)
  <2>. QED  BY <1>1, <2>2, <2>3
<1>. QED  BY <1>2, <1>3, <1>4

\* Lists of a few numbers.
LEMMA FirstAndRest ==
  ASSUME NEW x \in Int, NEW t \in Seq(Int)
  PROVE  /\ <<x>> \o t \in Seq(Int) /\ Len(<<x>> \o t) = 1 + Len(t) /\ (<<x>> \o t)[1] = x
         /\ \A i \in 1 .. Len(t) : (<<x>> \o t)[i + 1] = t[i]
<1>1. <<x>> \in Seq(Int) /\ Len(<<x>>) = 1 /\ <<x>>[1] = x  OBVIOUS
<1>2. Len(t) \in Nat  OBVIOUS
<1> DEFINE s == <<x>>
<1> HIDE DEF s
<1>3. /\ s \o t \in Seq(Int) /\ Len(s \o t) = 1 + Len(t)
      /\ \A i \in 1 .. 1 + Len(t) : (s \o t)[i] = IF i <= 1 THEN s[i] ELSE t[i - 1]
  BY <1>1, ConcatProperties DEF s
<1>4. (s \o t)[1] = x  BY <1>1, <1>2, <1>3 DEF s
<1>5. \A i \in 1 .. Len(t) : (s \o t)[i + 1] = t[i]
  BY <1>2, <1>3
<1>. QED  BY <1>3, <1>4, <1>5 DEF s

\* Two bytes.
LEMMA PairOf ==
  ASSUME NEW x \in Int, NEW t \in Seq(Int), Len(t) = 1
  PROVE  <<x>> \o t = <<x, t[1]>>
<1>1. t[1] \in Int  OBVIOUS
<1>2. <<x, t[1]>> \in Seq(Int) /\ Len(<<x, t[1]>>) = 2  BY <1>1
<1> DEFINE s == <<x>> \o t
<1>3. s \in Seq(Int) /\ Len(s) = 2 /\ s[1] = x /\ s[2] = t[1]
  <2>1. 1 \in 1 .. Len(t)  OBVIOUS
  <2>2. s[1 + 1] = t[1]  BY <2>1, FirstAndRest
  <2>. QED  BY <2>2, FirstAndRest
<1> HIDE DEF s
<1>4. s = <<x, t[1]>>  BY <1>2, <1>3, SeqEqual
<1>. QED BY <1>4 DEF s

\* Three bytes.
LEMMA TripleOf ==
  ASSUME NEW x \in Int, NEW t \in Seq(Int), Len(t) = 2
  PROVE  <<x>> \o t = <<x, t[1], t[2]>>
<1>1. t[1] \in Int /\ t[2] \in Int  BY SMTT(30)
<1>2. <<x, t[1], t[2]>> \in Seq(Int) /\ Len(<<x, t[1], t[2]>>) = 3  BY <1>1
<1> DEFINE s == <<x>> \o t
<1>3. s \in Seq(Int) /\ Len(s) = 1 + Len(t) /\ s[1] = x /\ \A i \in 1 .. Len(t) : s[i + 1] = t[i]
  BY FirstAndRest, Zenon
<1> HIDE DEF s
<1>4. s[1 + 1] = t[1] /\ s[2 + 1] = t[2]
  <2>1. 1 \in 1 .. Len(t) /\ 2 \in 1 .. Len(t)  OBVIOUS
  <2>. QED  BY <1>3, <2>1, Zenon
<1>5. s[2] = t[1] /\ s[3] = t[2]  BY <1>4
<1>6. s = <<x, t[1], t[2]>>  BY <1>1, <1>2, <1>3, <1>5, SeqEqual
<1>. QED  BY <1>6 DEF s

\* Four bytes, by their places.
LEMMA FourFirst ==
  ASSUME NEW x \in Int, NEW t \in Seq(Int), Len(t) = 3
  PROVE  Len(<<x>> \o t) = 4 /\ (<<x>> \o t)[1] = x
<1>1. Len(<<x>> \o t) = 1 + Len(t) /\ (<<x>> \o t)[1] = x  BY FirstAndRest, Zenon
<1>. QED  BY <1>1

\* The six low bits, as the encoding writes them.
LEMMA Tail6Is ==
  ASSUME NEW c \in Nat, NEW n \in Nat, \A i \in 1 .. n : 64 ^ (n - i) \in Nat \ {0}
  PROVE  Tail6(c, n) \in Seq(Int) /\ Len(Tail6(c, n)) = n
<1>1. \A i \in 1 .. n : 128 + ((c \div (64 ^ (n - i))) % 64) \in Int
  <2>1. \A d \in Nat \ {0} : 128 + ((c \div d) % 64) \in Int  OBVIOUS
  <2>. QED  BY <2>1
<1>2. Tail6(c, n) \in [1 .. n -> Int]  BY <1>1 DEF Tail6
<1>3. Tail6(c, n) \in Seq(Int)  BY <1>2, SeqDef
<1>. QED  BY <1>2, <1>3

\* The powers of 64.
LEMMA Powers ==
  ASSUME NEW c \in Nat
  PROVE  64 ^ 0 = 1 /\ 64 ^ 1 = 64 /\ 64 ^ 2 = 4096 /\ c \div 1 = c
BY SMT

\* How many bytes an encoding has.
LEMMA TailLengths ==
  ASSUME NEW c \in Nat
  PROVE  /\ Tail6(c, 2) \in Seq(Int) /\ Len(Tail6(c, 2)) = 2
         /\ Tail6(c, 3) \in Seq(Int) /\ Len(Tail6(c, 3)) = 3
<1>1. 2 \in Nat /\ \A i \in 1 .. 2 : 64 ^ (2 - i) \in Nat \ {0}  BY SMT
<1>2. 3 \in Nat /\ \A i \in 1 .. 3 : 64 ^ (3 - i) \in Nat \ {0}  BY SMT
<1>3. Tail6(c, 2) \in Seq(Int) /\ Len(Tail6(c, 2)) = 2  BY <1>1, Tail6Is, Zenon
<1>4. Tail6(c, 3) \in Seq(Int) /\ Len(Tail6(c, 3)) = 3  BY <1>2, Tail6Is, Zenon
<1>. QED  BY <1>3, <1>4

\* The bytes of a code point.
LEMMA EncodedOne ==
  ASSUME NEW c \in Nat, c < 128
  PROVE  Encoded(c) = <<c>>
BY SMT DEF Encoded

\* The encoding of a character below 2048.
LEMMA EncodedTwo ==
  ASSUME NEW c \in Nat, 128 <= c, c < 2048
  PROVE  Encoded(c) = <<192 + (c \div 64), 128 + (c % 64)>>
<1>1. Encoded(c) = <<192 + (c \div 64)>> \o Tail6(c, 1)
  <2>1. ~ (c < 128) /\ ~ (2048 <= c /\ c < 65536) /\ ~ (65536 <= c /\ c < 2097152) /\ ~ (2097152 <= c)
    BY SMT
  <2>. QED  BY <2>1, SMT DEF Encoded
<1>2. Tail6(c, 1) = <<128 + (c % 64)>>
  <2>1. Tail6(c, 1) = [i \in 1 .. 1 |-> 128 + ((c \div (64 ^ (1 - i))) % 64)]  BY SMT DEF Tail6
  <2>2. Tail6(c, 1) = [i \in 1 .. 1 |-> 128 + (c % 64)]  BY Powers, <2>1, SMT
  <2>. QED  BY <2>2, SMT
<1>3. <<128 + (c % 64)>> \in Seq(Int) /\ Len(<<128 + (c % 64)>>) = 1 /\ 192 + (c \div 64) \in Int
  BY SMT
<1>4. Encoded(c) = <<192 + (c \div 64), 128 + (c % 64)>>  BY <1>1, <1>2, <1>3, PairOf, SMTT(30)
<1>. QED  BY <1>4, SMT

\* Below 65536.
LEMMA EncodedThree ==
  ASSUME NEW c \in Nat, 2048 <= c, c < 65536
  PROVE  Encoded(c) = <<224 + (c \div 4096), 128 + ((c \div 64) % 64), 128 + (c % 64)>>
<1>1. Encoded(c) = <<224 + (c \div 4096)>> \o Tail6(c, 2)
  <2>1. ~ (c < 128) /\ ~ (128 <= c /\ c < 2048) /\ ~ (65536 <= c /\ c < 2097152) /\ ~ (2097152 <= c)
    BY SMT
  <2>. QED  BY <2>1, SMT DEF Encoded
<1>2. /\ Tail6(c, 2) \in Seq(Int) /\ Len(Tail6(c, 2)) = 2
      /\ Tail6(c, 2)[1] = 128 + ((c \div 64) % 64) /\ Tail6(c, 2)[2] = 128 + (c % 64)
  <2>1. Tail6(c, 2) = [i \in 1 .. 2 |-> 128 + ((c \div (64 ^ (2 - i))) % 64)]  BY SMT DEF Tail6
  <2>2. Tail6(c, 2)[1] = 128 + ((c \div 64) % 64) /\ Tail6(c, 2)[2] = 128 + (c % 64)
    BY Powers, <2>1, SMT
  <2>. QED  BY <2>2, TailLengths, SMT
<1>3. 224 + (c \div 4096) \in Int  BY SMT
<1>4. Encoded(c) = <<224 + (c \div 4096), Tail6(c, 2)[1], Tail6(c, 2)[2]>>
  BY <1>1, <1>2, <1>3, TripleOf, SMT
<1>. QED  BY <1>2, <1>4, SMT

\* Below 2097152.
LEMMA EncodedFour ==
  ASSUME NEW c \in Nat, 65536 <= c, c < 2097152
  PROVE  Len(Encoded(c)) = 4 /\ Encoded(c)[1] = 240 + (c \div 262144)
<1>1. Encoded(c) = <<240 + (c \div 262144)>> \o Tail6(c, 3)  BY SMTT(30) DEF Encoded
<1>2. Tail6(c, 3) \in Seq(Int) /\ Len(Tail6(c, 3)) = 3  BY TailLengths, SMT
<1>3. 240 + (c \div 262144) \in Int  BY SMT
<1> DEFINE x == 240 + (c \div 262144)
<1> DEFINE t == Tail6(c, 3)
<1>4. Encoded(c) = <<x>> \o t /\ x \in Int /\ t \in Seq(Int) /\ Len(t) = 3  BY <1>1, <1>2, <1>3, SMT
<1> HIDE DEF x, t
<1>5. Len(Encoded(c)) = 4 /\ Encoded(c)[1] = x  BY <1>4, FourFirst, SMT
<1>. QED  BY <1>5, SMT DEF x

\* Beyond, there is none.
LEMMA EncodedNone ==
  ASSUME NEW c \in Nat, 2097152 <= c
  PROVE  Encoded(c) = << >>
BY SMT DEF Encoded

-----------------------------------------------------------------------------
(* Characters.                                                             *)

\* An encoding has the bytes that its first byte asks for.
LEMMA EncodedLead ==
  ASSUME NEW v \in Nat
  PROVE  \/ Encoded(v) = << >>
         \/ Len(Encoded(v)) = Lead(Encoded(v)[1]) + 1
<1>1. CASE v < 128
  <2>1. Encoded(v) = <<v>>  BY <1>1, EncodedOne
  <2>2. Lead(v) = 0  BY <1>1 DEF Lead
  <2>. QED  BY <2>1, <2>2
<1>2. CASE 128 <= v /\ v < 2048
  <2>1. Encoded(v) = <<192 + (v \div 64), 128 + (v % 64)>>  BY <1>2, EncodedTwo, SMT
  <2>2. 192 + (v \div 64) \in 192 .. 223  BY <1>2, SMT
  <2>3. Lead(192 + (v \div 64)) = 1  BY <2>2, SMT DEF Lead
  <2>. QED  BY <2>1, <2>3, SMT
<1>3. CASE 2048 <= v /\ v < 65536
  <2>1. Encoded(v) = <<224 + (v \div 4096), 128 + ((v \div 64) % 64), 128 + (v % 64)>>
    BY <1>3, EncodedThree, SMT
  <2>2. 224 + (v \div 4096) \in 224 .. 239  BY <1>3, SMT
  <2>3. Lead(224 + (v \div 4096)) = 2  BY <2>2, SMT DEF Lead
  <2>. QED  BY <2>1, <2>3, SMT
<1>4. CASE 65536 <= v /\ v < 2097152
  <2>1. Len(Encoded(v)) = 4 /\ Encoded(v)[1] = 240 + (v \div 262144)  BY <1>4, EncodedFour, SMT
  <2>2. 240 + (v \div 262144) \in 240 .. 247  BY <1>4, SMT
  <2>3. Lead(240 + (v \div 262144)) = 3  BY <2>2, SMT DEF Lead
  <2>. QED  BY <2>1, <2>3, SMT
<1>5. CASE 2097152 <= v  BY <1>5, EncodedNone, SMT
<1>. QED  BY <1>1, <1>2, <1>3, <1>4, <1>5, SMT

\* A character broken off is no encoding of another.
LEMMA BrokenRight ==
  ASSUME Types, CharInv, need > 0
  PROVE  Right(Shown(Replacement, part))
<1>1. /\ part \in Seq(Bytes) /\ Len(part) = npar + 1 /\ Lead(part[1]) = npar + need
      /\ npar \in Nat /\ need \in Nat /\ part # << >>
  BY NParAssumption DEF Types, DecoderTypes, ArgTypes, Params, CharInv
<1>2. Denoted(part) \in Nat  BY <1>1, DenotedAppend
<1>3. Encoded(Denoted(part)) # part
  <2> DEFINE v == Denoted(part)
  <2>1. v \in Nat  BY <1>2
  <2> HIDE DEF v
  <2>2. \/ Encoded(v) = << >> \/ Len(Encoded(v)) = Lead(Encoded(v)[1]) + 1  BY <2>1, EncodedLead
  <2>3. SUFFICES ASSUME Encoded(v) = part  PROVE FALSE
    BY DEF v
  <2>. QED  BY <1>1, <2>2, <2>3
<1>4. Shown(Replacement, part).code = Replacement /\ Shown(Replacement, part).bytes = part
  BY SMT DEF Shown, Replacement
<1>. QED  BY <1>3, <1>4, Zenon DEF Right

\* A byte that is a character of its own, or cannot begin one.
LEMMA AloneRight ==
  ASSUME NEW b \in Bytes, Lead(b) = 0, NEW c, c = IF b < 128 THEN b ELSE Replacement
  PROVE  Right(Shown(c, <<b>>))
<1>1. b \in 0 .. 255  BY LeadRange
<1>2. CASE b < 128
  <2>1. Shown(c, <<b>>).code = b /\ Shown(c, <<b>>).bytes = <<b>> /\ b # Replacement
    BY <1>1, <1>2, SMT DEF Shown, Replacement
  <2>2. Encoded(b) = <<b>>  BY <1>1, <1>2, EncodedOne, SMT
  <2>. QED  BY <2>1, <2>2, Zenon DEF Right
<1>3. CASE ~ (b < 128)
  <2>1. Shown(c, <<b>>).code = Replacement /\ Shown(c, <<b>>).bytes = <<b>>
    BY <1>1, <1>3, SMT DEF Shown, Replacement
  <2>2. Denoted(<<b>>) = b % 64  BY DenotedAppend, PayloadRange
  <2>3. b % 64 \in Nat /\ b % 64 < 128 /\ b # b % 64  BY <1>1, <1>3
  <2>4. Encoded(b % 64) = <<b % 64>>  BY <2>3, EncodedOne, SMT
  <2>5. Encoded(Denoted(<<b>>)) # <<b>>  BY <2>2, <2>3, <2>4
  <2>. QED  BY <2>1, <2>5, Zenon DEF Right
<1>. QED  BY <1>2, <1>3

\* The bounds of utf8_length_changes.
LEMMA CheckedIs ==
  ASSUME NEW v \in Nat, NEW n \in 1 .. 5
  PROVE  /\ Checked(v, n) = v \/ Checked(v, n) = Replacement
         /\ n = 1 /\ Checked(v, n) # Replacement => 128 <= v /\ v < 2048
         /\ n = 2 /\ Checked(v, n) # Replacement => 2048 <= v /\ v < 65536
         /\ n > 2 /\ Checked(v, n) # Replacement => v > 65535
         /\ n = 1 /\ 128 <= v /\ v < 2048 /\ v \notin Surrogates => Checked(v, n) = v
         /\ n = 2 /\ 2048 <= v /\ v < 65533 /\ v \notin Surrogates => Checked(v, n) = v
<1> DEFINE bound == <<127, 2047, 65535, 2097151, 67108863, 2147483647>>
<1>1. /\ bound[1] = 127 /\ bound[2] = 2047 /\ bound[3] = 65535
      /\ bound[3] = 65535 /\ bound[4] = 2097151 /\ bound[5] = 67108863
  BY SMT
<1>2. Checked(v, n) = IF v <= bound[n] \/ v > bound[n + 1] \/ v \in Surrogates \cup {65534, 65535}
                      THEN Replacement ELSE v
  BY SMT DEF Checked
<1> HIDE DEF bound
<1>3. Checked(v, n) = v \/ Checked(v, n) = Replacement  BY <1>2, SMT
<1>4. ASSUME n = 1
      PROVE  /\ Checked(v, n) # Replacement => 128 <= v /\ v < 2048
             /\ 128 <= v /\ v < 2048 /\ v \notin Surrogates => Checked(v, n) = v
  BY <1>1, <1>2, <1>4, SMT
<1>5. ASSUME n = 2
      PROVE  /\ Checked(v, n) # Replacement => 2048 <= v /\ v < 65536
             /\ 2048 <= v /\ v < 65533 /\ v \notin Surrogates => Checked(v, n) = v
  BY <1>1, <1>2, <1>5, SMT
<1>6. ASSUME n > 2, Checked(v, n) # Replacement  PROVE v > 65535
  <2>1. n = 3 \/ n = 4 \/ n = 5  BY <1>6, SMT
  <2>2. ~ (v <= bound[n])  BY <1>2, <1>6, SMT
  <2>. QED  BY <1>1, <2>1, <2>2, SMT
<1>. QED  BY <1>3, <1>4, <1>5, <1>6, SMT

\* A complete character of two bytes, and one of three.
LEMMA TwoBytes ==
  ASSUME NEW a \in Bytes, NEW b \in Bytes, Lead(a) = 1, IsContinuation(b),
         NEW v, v = (a - 192) * 64 + (b % 64), 128 <= v, v < 2048
  PROVE  Encoded(v) = <<a, b>>
<1>1. a \in 192 .. 223  BY LeadRange DEF Lead
<1>2. b \in 128 .. 191 /\ b % 64 = b - 128  BY DEF IsContinuation
<1>3. v \in Nat /\ 192 + (v \div 64) = a /\ 128 + (v % 64) = b  BY <1>1, <1>2, SMT
<1>. QED  BY <1>3, EncodedTwo, SMT

\* Three bytes in range are the encoding of what they come to.
LEMMA ThreeBytes ==
  ASSUME NEW a \in Bytes, NEW d \in Bytes, NEW b \in Bytes, Lead(a) = 2,
         IsContinuation(d), IsContinuation(b),
         NEW v, v = ((a - 224) * 64 + (d % 64)) * 64 + (b % 64), 2048 <= v, v < 65536
  PROVE  Encoded(v) = <<a, d, b>>
<1>1. a \in 224 .. 239  BY LeadRange DEF Lead
<1>2. d \in 128 .. 191 /\ d % 64 = d - 128  BY DEF IsContinuation
<1>3. b \in 128 .. 191 /\ b % 64 = b - 128  BY DEF IsContinuation
<1>4. v \in Nat  BY <1>1, <1>2, <1>3, SMT
<1>5. v % 64 = b - 128 /\ v \div 64 = (a - 224) * 64 + (d - 128)  BY <1>1, <1>2, <1>3, <1>4, SMT
<1>6. (v \div 64) % 64 = d - 128  BY <1>1, <1>2, <1>5, SMT
<1>7. v \div 4096 = a - 224  BY <1>1, <1>2, <1>3, SMT
<1>8. Encoded(v) = <<224 + (v \div 4096), 128 + ((v \div 64) % 64), 128 + (v % 64)>>
  BY <1>4, EncodedThree, SMT
<1>. QED  BY <1>1, <1>2, <1>3, <1>5, <1>6, <1>7, <1>8, SMT

\* Sequences made byte by byte.
LEMMA AppendTuples ==
  ASSUME NEW p \in Bytes, NEW q \in Bytes
  PROVE  /\ Append(<<p>>, q) = <<p, q>>
         /\ \A r \in Bytes : Append(<<p, q>>, r) = <<p, q, r>>
<1>1. Append(<<p>>, q) = <<p, q>>
  <2>1. Append(<<p>>, q) \in Seq(Bytes) /\ <<p, q>> \in Seq(Bytes)  OBVIOUS
  <2>2. Len(Append(<<p>>, q)) = 2 /\ Append(<<p>>, q)[1] = p /\ Append(<<p>>, q)[2] = q  OBVIOUS
  <2>3. Len(<<p, q>>) = 2 /\ <<p, q>>[1] = p /\ <<p, q>>[2] = q  OBVIOUS
  <2> DEFINE s == Append(<<p>>, q)
  <2> DEFINE t == <<p, q>>
  <2> HIDE DEF s, t
  <2>4. s \in Seq(Bytes) /\ t \in Seq(Bytes) /\ Len(s) = Len(t) /\ \A i \in 1 .. Len(s) : s[i] = t[i]
    BY <2>1, <2>2, <2>3 DEF s, t
  <2>5. s = t  BY <2>4, SeqEqual
  <2>. QED  BY <2>5 DEF s, t
<1>2. ASSUME NEW r \in Bytes  PROVE Append(<<p, q>>, r) = <<p, q, r>>
  <2> DEFINE s == Append(<<p, q>>, r)
  <2> DEFINE t == <<p, q, r>>
  <2>1. s \in Seq(Bytes) /\ t \in Seq(Bytes)  OBVIOUS
  <2>2. Len(s) = 3 /\ s[1] = p /\ s[2] = q /\ s[3] = r  OBVIOUS
  <2>3. Len(t) = 3 /\ t[1] = p /\ t[2] = q /\ t[3] = r  OBVIOUS
  <2> HIDE DEF s, t
  <2>4. Len(s) = Len(t) /\ \A i \in 1 .. Len(s) : s[i] = t[i]  BY <2>2, <2>3
  <2>5. s = t  BY <2>1, <2>4, SeqEqual
  <2>. QED  BY <2>5 DEF s, t
<1>. QED  BY <1>1, <1>2

\* The bytes read so far of a character that is one byte short, by how many they are.
LEMMA CompleteRight ==
  ASSUME Types, CharInv, need = 1, NEW b \in Bytes, IsContinuation(b)
  PROVE  Right(Shown(Checked(char * 64 + (b % 64), npar + 1), Append(part, b)))
<1> DEFINE n == npar + 1
<1> DEFINE v == char * 64 + (b % 64)
<1> DEFINE bytes == Append(part, b)
<1> DEFINE c == Checked(v, n)
<1> DEFINE o == Shown(c, bytes)
<1>1. /\ part \in Seq(Bytes) /\ Len(part) = n /\ part[1] \in Bytes /\ Lead(part[1]) = n
      /\ n \in 1 .. 5 /\ part # << >> /\ char = Denoted(part) /\ char \in Nat
      /\ \A i \in 2 .. Len(part) : IsContinuation(part[i])
  <2>1. npar \in Nat  BY NParAssumption DEF Types, ArgTypes, Params
  <2>2. part \in Seq(Bytes) /\ Len(part) = n /\ Lead(part[1]) = n  BY DEF Types, DecoderTypes, CharInv
  <2>3. part[1] \in Bytes /\ part # << >>  BY <2>1, <2>2
  <2>4. n \in 1 .. 5
    <3>1. Lead(part[1]) \in 0 .. 5  BY <2>3, LeadRange
    <3>. QED  BY <2>1, <2>2, <3>1
  <2>. QED  BY <2>2, <2>3, <2>4 DEF CharInv, Types, DecoderTypes
<1>2. v \in Nat /\ bytes \in Seq(Bytes) /\ Len(bytes) = n + 1 /\ Denoted(bytes) = v
  <2>1. b \in Nat  BY LeadRange
  <2>2. Denoted(bytes) = v  BY <1>1, DenotedAppend
  <2>3. b % 64 \in Nat  BY <2>1
  <2>. QED  BY <1>1, <2>2, <2>3
<1>3. o.bytes = bytes /\ o.code = IF c > 65535 THEN Replacement ELSE c  BY SMT DEF Shown
<1> HIDE DEF n, v, bytes, o
<1>4. ASSUME o.code # Replacement  PROVE bytes = Encoded(o.code)
  <2>1. o.code = v /\ v <= 65535 /\ Checked(v, n) # Replacement /\ c = v
    BY <1>1, <1>2, <1>3, <1>4, CheckedIs, SMT
  <2>2. n = 1 \/ n = 2  BY <1>1, <1>2, <2>1, CheckedIs, SMT
  <2>3. CASE n = 1
    <3>1. 128 <= v /\ v < 2048  BY <1>1, <1>2, <2>1, <2>3, CheckedIs, SMT
    <3>2. part = <<part[1]>>  BY <1>1, <2>3
    <3>3. bytes = <<part[1], b>>
      <4>1. Append(<<part[1]>>, b) = <<part[1], b>>  BY <1>1, AppendTuples
      <4>. QED  BY <3>2, <4>1 DEF bytes
    <3>4. Lead(part[1]) = 1 /\ part[1] \in Bytes  BY <1>1, <2>3
    <3>5. char = part[1] - 192
      <4>1. Denoted(<<part[1]>>) = part[1] - 192  BY <3>4, DenotedAppend, PayloadRange
      <4>. QED  BY <1>1, <3>2, <4>1
    <3>6. v = (part[1] - 192) * 64 + (b % 64)  BY <3>5 DEF v
    <3>7. Encoded(v) = <<part[1], b>>  BY <3>1, <3>4, <3>6, TwoBytes, SMT
    <3>. QED  BY <2>1, <3>3, <3>7
  <2>4. CASE n = 2
    <3>1. 2048 <= v /\ v < 65536  BY <1>1, <1>2, <2>1, <2>4, CheckedIs, SMT
    <3> DEFINE p == part[1]
    <3> DEFINE q == part[2]
    <3>2. p \in Bytes /\ q \in Bytes /\ Lead(p) = 2 /\ IsContinuation(q)
      <4>1. 2 \in 2 .. Len(part) /\ 2 \in 1 .. Len(part)  BY <1>1, <2>4
      <4>. QED  BY <1>1, <2>4, <4>1
    <3>3. part = Append(<<p>>, q)
      <4>1. Append(<<p>>, q) = <<p, q>>  BY <3>2, AppendTuples
      <4>2. part = <<p, q>>  BY <1>1, <2>4
      <4>. QED  BY <4>1, <4>2
    <3>4. bytes = <<p, q, b>>
      <4>1. Append(<<p, q>>, b) = <<p, q, b>>  BY <3>2, AppendTuples
      <4>2. part = <<p, q>>  BY <1>1, <2>4
      <4>. QED  BY <4>1, <4>2 DEF bytes
    <3> HIDE DEF p, q
    <3>5. char = (p - 224) * 64 + (q % 64)
      <4>1. Denoted(<<p>>) = p - 224  BY <3>2, DenotedAppend, PayloadRange
      <4>2. <<p>> \in Seq(Bytes) /\ <<p>> # << >>  BY <3>2
      <4>3. Denoted(Append(<<p>>, q)) = Denoted(<<p>>) * 64 + (q % 64)
        BY <3>2, <4>2, DenotedAppend
      <4>. QED  BY <1>1, <3>3, <4>1, <4>3
    <3>6. v = ((p - 224) * 64 + (q % 64)) * 64 + (b % 64)  BY <3>5 DEF v
    <3>7. Encoded(v) = <<p, q, b>>  BY <3>1, <3>2, <3>6, ThreeBytes, SMT
    <3>. QED  BY <2>1, <3>4, <3>7
  <2>. QED  BY <2>2, <2>3, <2>4
<1>5. ASSUME o.code = Replacement, Encoded(v) = bytes, v \notin Surrogates, ~ (v >= Replacement)
      PROVE  FALSE
  <2>1. v < 65533  BY <1>2, <1>5, SMT DEF Replacement
  <2>2. Len(Encoded(v)) = n + 1  BY <1>2, <1>5
  <2>3. \/ v < 128 /\ Len(Encoded(v)) = 1
        \/ 128 <= v /\ v < 2048 /\ Len(Encoded(v)) = 2
        \/ 2048 <= v /\ Len(Encoded(v)) = 3
    <3>1. v < 128 \/ (128 <= v /\ v < 2048) \/ (2048 <= v /\ v < 65536)  BY <1>2, <2>1, SMT
    <3>2. v < 128 => Len(Encoded(v)) = 1
      <4>1. v < 128 => Encoded(v) = <<v>>  BY <1>2, EncodedOne, SMT
      <4>. QED  BY <4>1, SMT
    <3>3. 128 <= v /\ v < 2048 => Len(Encoded(v)) = 2
      <4>1. 128 <= v /\ v < 2048 => Encoded(v) = <<192 + (v \div 64), 128 + (v % 64)>>
        BY <1>2, EncodedTwo, SMT
      <4>. QED  BY <4>1, SMT
    <3>4. 2048 <= v /\ v < 65536 => Len(Encoded(v)) = 3
      <4>1. 2048 <= v /\ v < 65536 =>
              Encoded(v) = <<224 + (v \div 4096), 128 + ((v \div 64) % 64), 128 + (v % 64)>>
        BY <1>2, EncodedThree, SMT
      <4>. QED  BY <4>1, SMT
    <3>. QED  BY <3>1, <3>2, <3>3, <3>4, SMT
  <2>4. c = v
    <3>0. n \in Int /\ 1 <= n  BY <1>1
    <3>1. \/ n = 1 /\ 128 <= v /\ v < 2048
          \/ n = 2 /\ 2048 <= v
      <4>1. ASSUME Len(Encoded(v)) = 1  PROVE FALSE
        <5>1. n + 1 = 1  BY <2>2, <4>1
        <5>. QED  BY <3>0, <5>1
      <4>2. ASSUME Len(Encoded(v)) = 2  PROVE n = 1
        <5>1. n + 1 = 2  BY <2>2, <4>2
        <5>. QED  BY <3>0, <5>1
      <4>3. ASSUME Len(Encoded(v)) = 3  PROVE n = 2
        <5>1. n + 1 = 3  BY <2>2, <4>3
        <5>. QED  BY <3>0, <5>1
      <4>4. ~ (Len(Encoded(v)) = 1)  BY <4>1
      <4>. QED  BY <2>3, <4>2, <4>3, <4>4, SMT
    <3>. QED  BY <1>1, <1>2, <1>5, <2>1, <3>1, CheckedIs, SMT
  <2>. QED  BY <1>2, <1>3, <1>5, <2>1, <2>4, SMT DEF Replacement
<1>6. Right(o)
  <2>1. o.bytes = bytes /\ Denoted(o.bytes) = v  BY <1>2, <1>3, SMT
  <2>. QED  BY <1>4, <1>5, <2>1, Zenon DEF Right
<1>. QED  BY <1>6 DEF o, v, n, bytes

\* What is right of some outputs and of one more is right of all.
LEMMA OneMoreRight ==
  ASSUME NEW pre, pre = << >> \/ \E x : Right(x) /\ pre = <<x>>, NEW y, y.kind = "char" => Right(y)
  PROVE  \A i \in DOMAIN Append(pre, y) : Append(pre, y)[i].kind = "char" => Right(Append(pre, y)[i])
<1>1. CASE pre = << >>
  <2>1. Append(<< >>, y) = <<y>>  OBVIOUS
  <2>2. DOMAIN <<y>> = {1} /\ <<y>>[1] = y  OBVIOUS
  <2>. QED  BY <1>1, <2>1, <2>2
<1>2. ASSUME NEW x, Right(x), pre = <<x>>
      PROVE  \A i \in DOMAIN Append(pre, y) : Append(pre, y)[i].kind = "char" => Right(Append(pre, y)[i])
  <2> DEFINE s == Append(<<x>>, y)
  <2>1. DOMAIN s = {1, 2} /\ s[1] = x /\ s[2] = y
    <3>1. <<x>> \in Seq({x, y}) /\ y \in {x, y} /\ Len(<<x>>) = 1 /\ <<x>>[1] = x  OBVIOUS
    <3>. QED  BY <3>1
  <2> HIDE DEF s
  <2>2. \A i \in DOMAIN s : s[i].kind = "char" => Right(s[i])  BY <1>2, <2>1
  <2>. QED  BY <1>2, <2>2 DEF s
<1>. QED  BY <1>1, <1>2

\* The characters the last byte led to, if the rest are right.
AllRight == \A i \in DOMAIN out' : out'[i].kind = "char" => Right(out'[i])

\* What a control code does is not to show a character.
LEMMA ControlIsNoCharacter == \A c : Act("control", c).kind # "char"
BY DEF Act

\* A code taken as a character that is right.
LEMMA TakeRight ==
  ASSUME Types, esc = "normal", NEW c, NEW tc, NEW bytes, NEW pre,
         pre = << >> \/ \E x : Right(x) /\ pre = <<x>>,
         Right(Shown(tc, bytes)), Take(c, tc, bytes, pre)
  PROVE  AllRight
<1>1. out' = Append(pre, Shown(tc, bytes)) \/ out' = pre \/ out' = Append(pre, Act("control", tc))
  BY TakeDoes
<1>2. CASE out' = Append(pre, Shown(tc, bytes))
  BY <1>2, OneMoreRight DEF AllRight
<1>3. CASE out' = Append(pre, Act("control", tc))
  BY <1>3, OneMoreRight, ControlIsNoCharacter DEF AllRight
<1>4. CASE out' = pre
  <2>1. CASE pre = << >>  BY <1>4, <2>1 DEF AllRight
  <2>2. ASSUME NEW x, Right(x), pre = <<x>>  PROVE AllRight
    <3>1. DOMAIN <<x>> = {1} /\ <<x>>[1] = x  OBVIOUS
    <3>. QED  BY <1>4, <2>2, <3>1 DEF AllRight
  <2>. QED  BY <2>1, <2>2
<1>. QED  BY <1>1, <1>2, <1>3, <1>4

\* A character that is shown is right, unless UTF-8 is not decoded.
ShownRight == AllRight \/ ~ (utf8' /\ ~ displayCtrl')

\* A byte of a sequence keeps the invariant, or is a control code.
LEMMA InSequenceDoes ==
  ASSUME ParserInv, NEW b \in Bytes, InSequence(b)
  PROVE  Kept \/ (ControlCode(b, << >>) /\ UNCHANGED npar)
<1>1. Types /\ PaletteInv /\ CharInv /\ esc # "normal"  BY DEF ParserInv, InSequence
<1>2. CASE Quiet(esc)
  <2>1. esc \in States  BY <1>1 DEF Types
  <2>. QED  BY <1>1, <1>2, <2>1, QuietKeeps
<1>3. CASE esc = "esc" /\ EscCode(b)  BY <1>1, <1>3, EscKeeps
<1>4. CASE esc = "square" /\ SquareCode(b)  BY <1>1, <1>4, SquareKeeps
<1>5. CASE esc = "nonstd" /\ NonstdCode(b)  BY <1>1, <1>5, NonstdKeeps
<1>6. CASE PercentCode(b) \/ CharsetCode(b) \/ HashCode(b)  BY <1>1, <1>6, OtherKeeps
<1>7. CASE Quiet("normal")  BY <1>1, <1>7, QuietKeeps DEF States
<1>8. CASE /\ ~ (ControlCode(b, << >>) /\ UNCHANGED npar)
           /\ ~ Quiet(esc)
  <2>1. (CASE esc = "esc" -> EscCode(b)
           [] esc = "square" -> SquareCode(b)
           [] esc = "nonstd" -> NonstdCode(b)
           [] esc = "percent" -> PercentCode(b)
           [] esc = "charset" -> CharsetCode(b)
           [] esc = "hash" -> HashCode(b)
           [] esc = "funckey" -> Quiet("normal"))
    BY <1>8, Zenon DEF InSequence
  <2>2. esc = "esc" => EscCode(b)  BY <2>1, Zenon
  <2>3. esc = "square" => SquareCode(b)  BY <2>1, Zenon
  <2>4. esc = "nonstd" => NonstdCode(b)  BY <2>1, Zenon
  <2>5. esc = "percent" => PercentCode(b)  BY <2>1, Zenon
  <2>6. esc = "charset" => CharsetCode(b)  BY <2>1, Zenon
  <2>7. esc = "hash" => HashCode(b)  BY <2>1, Zenon
  <2>8. esc = "funckey" => Quiet("normal")  BY <2>1, Zenon
  <2>9. \/ esc = "esc" \/ esc = "square" \/ esc = "nonstd" \/ esc = "percent" \/ esc = "charset"
        \/ esc = "hash" \/ esc = "funckey"
    BY <1>1 DEF Types, States
  <2>. QED  BY <1>3, <1>4, <1>5, <1>6, <1>7, <2>2, <2>3, <2>4, <2>5, <2>6, <2>7, <2>8, <2>9
<1>. QED  BY <1>2, <1>8

\* And a control code keeps it, too.
LEMMA InSequenceKeeps ==
  ASSUME ParserInv, NEW b \in Bytes, InSequence(b)
  PROVE  ParserInv' /\ AllRight
<1>1. Types /\ PaletteInv /\ CharInv /\ esc # "normal" /\ UNCHANGED <<need, char, part>>
  BY DEF ParserInv, InSequence, decoder
<1>2. CharInv'
  <2>1. need = 0  BY <1>1 DEF CharInv, Types, DecoderTypes
  <2>. QED  BY <1>1, <2>1 DEF CharInv
<1>3. DecoderTypes'  BY <1>1 DEF Types, DecoderTypes
<1>4. ASSUME Kept PROVE ParserInv' /\ AllRight
  <2>1. Types' /\ PaletteInv'  BY <1>3, <1>4 DEF Kept, Types
  <2>2. AllRight
    <3>1. CASE out' = << >>  BY <3>1 DEF AllRight
    <3>2. ASSUME NEW k \in Kinds, NEW c \in Bytes, out' = <<Act(k, c)>>  PROVE AllRight
      <4>1. DOMAIN <<Act(k, c)>> = {1} /\ <<Act(k, c)>>[1] = Act(k, c)  OBVIOUS
      <4>2. Act(k, c).kind # "char"  BY DEF Act, Kinds
      <4>. QED  BY <3>2, <4>1, <4>2 DEF AllRight
    <3>. QED  BY <1>4, <3>1, <3>2 DEF Kept, Led
  <2>. QED  BY <1>2, <2>1, <2>2 DEF ParserInv
<1>5. CASE ControlCode(b, << >>) /\ UNCHANGED npar
  <2>1. /\ esc' \in States /\ ModeTypes' /\ SetTypes' /\ UNCHANGED args
        /\ esc' = "normal" \/ esc' = "esc" \/ esc' = "square" \/ esc' = esc
        /\ out' = << >> \/ out' = Append(<< >>, Act("control", b))
    BY <1>1, <1>5, ControlCodeDoes
  <2>2. ArgTypes' /\ PaletteInv'  BY <1>1, <1>5, <2>1 DEF Types, ArgTypes, PaletteInv, args
  <2>3. AllRight
    <3>1. CASE out' = << >>  BY <3>1 DEF AllRight
    <3>2. CASE out' = Append(<< >>, Act("control", b))
      BY <3>2, OneMoreRight, ControlIsNoCharacter DEF AllRight
    <3>. QED  BY <2>1, <3>1, <3>2
  <2>. QED  BY <1>2, <1>3, <2>1, <2>2, <2>3 DEF ParserInv, Types
<1>. QED  BY <1>4, <1>5, InSequenceDoes

\* So does one that is decoded by the table alone,
LEMMA UntranslatedKeeps ==
  ASSUME ParserInv, NEW b \in Bytes, Untranslated(b)
  PROVE  ParserInv' /\ ShownRight
<1>1. /\ Types /\ CharInv /\ esc = "normal" /\ ~ (utf8 /\ ~ displayCtrl)
      /\ UNCHANGED <<need, char, part, npar>> /\ Take(b, Translated(b), <<b>>, << >>)
  BY DEF ParserInv, Untranslated, decoder
<1>2. /\ esc' \in {"normal", "esc", "square"} /\ ModeTypes' /\ SetTypes' /\ UNCHANGED args
      /\ \/ out' = Append(<< >>, Shown(Translated(b), <<b>>)) /\ UNCHANGED modes
         \/ out' = << >> \/ out' = Append(<< >>, Act("control", Translated(b)))
  BY <1>1, TakeDoes, Zenon
<1>3. CharInv' /\ DecoderTypes'
  <2>1. need = 0  BY <1>1 DEF CharInv, Types, DecoderTypes
  <2>. QED  BY <1>1, <2>1 DEF CharInv, Types, DecoderTypes
<1>4. ArgTypes' /\ PaletteInv'  BY <1>1, <1>2 DEF Types, ArgTypes, PaletteInv, args
<1>5. esc' \in States  BY <1>2 DEF States
<1>6. ShownRight
  <2>1. CASE out' = << >>  BY <2>1 DEF ShownRight, AllRight
  <2>2. CASE out' = Append(<< >>, Act("control", Translated(b)))
    BY <2>2, OneMoreRight, ControlIsNoCharacter DEF ShownRight, AllRight
  <2>3. CASE UNCHANGED modes  BY <1>1, <2>3 DEF ShownRight, modes
  <2>. QED  BY <1>2, <2>1, <2>2, <2>3
<1>. QED  BY <1>2, <1>3, <1>4, <1>5, <1>6 DEF ParserInv, Types

\* one that begins a character,
LEMMA BeginKeeps ==
  ASSUME ParserInv, esc = "normal", utf8, NEW b \in Bytes, ~ displayCtrl \/ b < 32,
         NEW pre, pre = << >> \/ \E x : Right(x) /\ pre = <<x>>, Begin(b, pre)
  PROVE  ParserInv' /\ AllRight
<1>1. CASE Lead(b) > 0
  <2>1. /\ need' = Lead(b) /\ char' = Payload(b) /\ part' = <<b>> /\ npar' = 0 /\ out' = pre
        /\ UNCHANGED <<esc, args, modes, sets>>
    BY <1>1 DEF Begin
  <2>2. b >= 192 /\ Lead(b) \in 0 .. 5 /\ b \in 0 .. 255  BY <1>1, LeadRange
  <2>3. ~ displayCtrl  BY <2>2
  <2>4. DecoderTypes'  BY <2>1, <2>2, PayloadRange DEF DecoderTypes
  <2>5. CharInv'
    <3>1. char' = Denoted(<<b>>)  BY <2>1, DenotedAppend
    <3>2. Len(part') = npar' + 1 /\ Lead(part'[1]) = npar' + need' /\ char' = Denoted(part')
      BY <2>1, <2>2, <3>1
    <3>3. \A i \in 2 .. Len(part') : IsContinuation(part'[i])  BY <2>1
    <3>4. need' # 0  BY <1>1, <2>1
    <3>. QED  BY <2>1, <2>3, <3>2, <3>3, <3>4 DEF CharInv, modes
  <2>6. ArgTypes'
    <3>1. 0 \in Params  BY NParAssumption DEF Params
    <3>. QED  BY <2>1, <3>1 DEF ParserInv, Types, ArgTypes, args
  <2>7. esc' \in States /\ ModeTypes' /\ SetTypes' /\ PaletteInv'
    BY <2>1 DEF ParserInv, Types, ModeTypes, SetTypes, PaletteInv, modes, sets
  <2>8. AllRight
    <3>1. CASE pre = << >>  BY <2>1, <3>1 DEF AllRight
    <3>2. ASSUME NEW x, Right(x), pre = <<x>>  PROVE AllRight
      <4>1. DOMAIN <<x>> = {1} /\ <<x>>[1] = x  OBVIOUS
      <4>. QED  BY <2>1, <3>2, <4>1 DEF AllRight
    <3>. QED  BY <3>1, <3>2
  <2>. QED  BY <2>4, <2>5, <2>6, <2>7, <2>8 DEF ParserInv, Types
<1>2. CASE ~ (Lead(b) > 0)
  <2> DEFINE c == IF b < 128 THEN b ELSE Replacement
  <2>1. Complete /\ Take(c, c, <<b>>, pre) /\ (npar' = 0 \/ npar' = npar)  BY <1>2 DEF Begin
  <2>2. Lead(b) = 0  BY <1>2, LeadRange
  <2>3. Right(Shown(c, <<b>>))  BY <2>2, AloneRight
  <2> HIDE DEF c
  <2>4. Types  BY DEF ParserInv
  <2>5. AllRight  BY <2>1, <2>3, <2>4, TakeRight
  <2>6. esc' \in {"normal", "esc", "square"} /\ ModeTypes' /\ SetTypes' /\ UNCHANGED args
    BY <2>1, <2>4, TakeDoes
  <2>7. DecoderTypes' /\ CharInv'  BY <2>1 DEF Complete, DecoderTypes, CharInv
  <2>8. ArgTypes' /\ PaletteInv' /\ esc' \in States
    <3>1. 0 \in Params  BY NParAssumption DEF Params
    <3>. QED  BY <2>1, <2>4, <2>6, <3>1 DEF Types, ArgTypes, PaletteInv, args, States
  <2>. QED  BY <2>5, <2>6, <2>7, <2>8 DEF ParserInv, Types
<1>. QED  BY <1>1, <1>2

\* one that continues it,
LEMMA ContinueKeeps ==
  ASSUME ParserInv, need > 0, NEW b \in Bytes, IsContinuation(b), Continue(b)
  PROVE  ParserInv' /\ AllRight
<1>1. /\ Types /\ CharInv /\ PaletteInv /\ esc = "normal" /\ utf8 /\ ~ displayCtrl
      /\ need \in Nat /\ npar \in Nat /\ part \in Seq(Bytes) /\ Len(part) = npar + 1
      /\ Lead(part[1]) = npar + need
      /\ \A i \in 2 .. Len(part) : IsContinuation(part[i])
      /\ char \in Nat /\ char = Denoted(part)
  BY NParAssumption DEF ParserInv, Types, DecoderTypes, ArgTypes, Params, CharInv
<1>2. npar' = npar + 1 /\ npar' \in Params
  <2>1. npar' = npar + 1  BY DEF Continue
  <2>2. part[1] \in Bytes  BY <1>1
  <2>3. Lead(part[1]) < NPar  BY <2>2, LeadRange
  <2>. QED  BY <1>1, <2>1, <2>3, NParAssumption DEF Params
<1>3. CASE need > 1
  <2>1. /\ need' = need - 1 /\ char' = char * 64 + (b % 64) /\ part' = Append(part, b)
        /\ out' = << >> /\ UNCHANGED <<esc, args, modes, sets>>
    BY <1>3 DEF Continue
  <2>2. char' \in Nat
    <3>1. b \in Nat  BY LeadRange
    <3>2. b % 64 \in Nat  BY <3>1
    <3>. QED  BY <1>1, <2>1, <3>2
  <2>3. DecoderTypes'
    <3>1. need' \in 0 .. 5  BY <1>1, <1>3, <2>1 DEF Types, DecoderTypes
    <3>. QED  BY <1>1, <2>1, <2>2, <3>1 DEF DecoderTypes
  <2>4. CharInv'
    <3>1. part # << >>  BY <1>1
    <3>2. char' = Denoted(part')  BY <1>1, <2>1, <3>1, DenotedAppend
    <3>3. Len(part') = npar' + 1  BY <1>1, <1>2, <2>1
    <3>4. part'[1] = part[1]  BY <1>1, <2>1
    <3>5. Lead(part'[1]) = npar' + need'  BY <1>1, <1>2, <2>1, <3>4
    <3>6. ASSUME NEW i \in 2 .. Len(part')  PROVE IsContinuation(part'[i])
      <4>1. CASE i = Len(part) + 1  BY <1>1, <2>1, <4>1
      <4>2. CASE i # Len(part) + 1
        <5>1. i \in 2 .. Len(part) /\ part'[i] = part[i]  BY <1>1, <2>1, <4>2
        <5>. QED  BY <1>1, <5>1
      <4>. QED  BY <4>1, <4>2
    <3>7. esc' = "normal" /\ utf8' /\ ~ displayCtrl'  BY <1>1, <2>1 DEF modes
    <3>8. need' # 0  BY <1>1, <1>3, <2>1
    <3>. QED  BY <3>2, <3>3, <3>5, <3>6, <3>7, <3>8 DEF CharInv
  <2>5. ArgTypes'  BY <1>1, <1>2, <2>1 DEF Types, ArgTypes, args
  <2>6. esc' \in States /\ ModeTypes' /\ SetTypes' /\ PaletteInv'
    BY <1>1, <2>1 DEF Types, ModeTypes, SetTypes, PaletteInv, modes, sets
  <2>7. AllRight  BY <2>1 DEF AllRight
  <2>. QED  BY <2>3, <2>4, <2>5, <2>6, <2>7 DEF ParserInv, Types
<1>4. CASE ~ (need > 1)
  <2> DEFINE c == Checked(char * 64 + (b % 64), npar + 1)
  <2>1. Complete /\ Take(c, c, Append(part, b), << >>)  BY <1>4 DEF Continue
  <2>2. need = 1  BY <1>1, <1>4
  <2>3. Right(Shown(c, Append(part, b)))  BY <1>1, <2>2, CompleteRight
  <2> HIDE DEF c
  <2>4. AllRight  BY <1>1, <2>1, <2>3, TakeRight
  <2>5. esc' \in {"normal", "esc", "square"} /\ ModeTypes' /\ SetTypes' /\ UNCHANGED args
    BY <1>1, <2>1, TakeDoes
  <2>6. DecoderTypes' /\ CharInv'  BY <2>1 DEF Complete, DecoderTypes, CharInv
  <2>7. ArgTypes' /\ PaletteInv' /\ esc' \in States
    BY <1>1, <1>2, <2>5 DEF Types, ArgTypes, PaletteInv, args, States
  <2>. QED  BY <2>4, <2>5, <2>6, <2>7 DEF ParserInv, Types
<1>. QED  BY <1>3, <1>4

\* and one of UTF-8, whatever was read before.
LEMMA DecodedKeeps ==
  ASSUME ParserInv, NEW b \in Bytes, Decoded(b)
  PROVE  ParserInv' /\ AllRight
<1>1. esc = "normal" /\ utf8 /\ (~ displayCtrl \/ b < 32)  BY DEF Decoded
<1>2. CASE need > 0 /\ IsContinuation(b)  BY <1>2, ContinueKeeps DEF Decoded
<1>3. CASE ~ (need > 0 /\ IsContinuation(b))
  <2> DEFINE pre == IF need > 0 THEN <<Shown(Replacement, part)>> ELSE << >>
  <2>1. Begin(b, pre)  BY <1>3 DEF Decoded
  <2>2. pre = << >> \/ \E x : Right(x) /\ pre = <<x>>
    <3>1. need > 0 => Right(Shown(Replacement, part))  BY BrokenRight DEF ParserInv
    <3>. QED  BY <3>1
  <2> HIDE DEF pre
  <2>. QED  BY <1>1, <2>1, <2>2, BeginKeeps
<1>. QED  BY <1>2, <1>3

\* Nothing is read and nothing shown.
LEMMA ParserInit == Init => ParserInv
<1> SUFFICES ASSUME Init  PROVE ParserInv
  OBVIOUS
<1>1. 0 \in Params  BY NParAssumption DEF Params
<1>2. param \in [Params -> 0 .. U16 - 1]  BY U16Nat DEF Init
<1>3. Types
  <2>1. saved \in [g0 : Map, g1 : Map, g0Active : BOOLEAN]  BY UnwrittenAssumption DEF Init, Map
  <2>2. SetTypes  BY <2>1 DEF Init, SetTypes, Map
  <2>3. ArgTypes /\ ModeTypes  BY <1>1, <1>2 DEF Init, ArgTypes, ModeTypes
  <2>4. DecoderTypes /\ esc \in States  BY DEF Init, DecoderTypes, States
  <2>. QED  BY <2>2, <2>3, <2>4 DEF Types
<1>4. PaletteInv /\ CharInv  BY DEF Init, PaletteInv, CharInv
<1>. QED  BY <1>3, <1>4 DEF ParserInv

\* A step of the parser, or of what sets the mode, keeps the invariant.
LEMMA ParserStep == ParserInv /\ [Next]_vars => ParserInv'
<1> SUFFICES ASSUME ParserInv, [Next]_vars  PROVE ParserInv'
  OBVIOUS
<1>1. ASSUME NEW b \in Bytes, Feed(b)  PROVE ParserInv'
  <2>1. CASE InSequence(b)  BY <2>1, InSequenceKeeps
  <2>2. CASE Untranslated(b)  BY <2>2, UntranslatedKeeps
  <2>3. CASE Decoded(b)  BY <2>3, DecodedKeeps
  <2>. QED  BY <1>1, <2>1, <2>2, <2>3 DEF Feed
<1>2. CASE UNCHANGED vars
  <2>1. UNCHANGED <<esc, need, char, part, npar, param, qMode, paletteMode, utf8, displayCtrl,
                    toggleMeta, charset, g0, g1, g0Active, g0Current, saved, out>>
    BY <1>2 DEF vars, decoder, args, modes, sets
  <2>. QED
    BY <2>1 DEF ParserInv, Types, DecoderTypes, ArgTypes, ModeTypes, SetTypes, PaletteInv, CharInv
<1>. QED  BY <1>1, <1>2 DEF Next

-----------------------------------------------------------------------------
(* Bytes in, bytes out.                                                    *)

\* The bytes of one thing that a byte led to.
BytesOf(o) == IF o.kind = "char" THEN o.bytes ELSE << >>

\* What is accounted for when a byte leads to nothing, to one thing or to two.
LEMMA AccountedNone ==
  ASSUME out' = << >>, NEW s \in Seq(Bytes), part' = s
  PROVE  Accounted = s /\ Len(out') = 0
<1>1. DOMAIN out' = {}  OBVIOUS
<1>2. << >> \o << >> \o s = s  OBVIOUS
<1>. QED  BY <1>1, <1>2 DEF Accounted

LEMMA AccountedOne ==
  ASSUME NEW x, out' = <<x>>, NEW s \in Seq(Bytes), part' = s, BytesOf(x) \in Seq(Bytes)
  PROVE  Accounted = BytesOf(x) \o s /\ Len(out') = 1 /\ out'[Len(out')] = x
<1>1. DOMAIN out' = {1} /\ out'[1] = x /\ Len(out') = 1  OBVIOUS
<1>2. Accounted = BytesOf(x) \o << >> \o s  BY <1>1 DEF Accounted, BytesOf
<1>3. BytesOf(x) \o << >> = BytesOf(x)  OBVIOUS
<1>. QED  BY <1>1, <1>2, <1>3

LEMMA AccountedTwo ==
  ASSUME NEW x, NEW y, out' = Append(<<x>>, y), NEW s \in Seq(Bytes), part' = s,
         BytesOf(x) \in Seq(Bytes), BytesOf(y) \in Seq(Bytes)
  PROVE  Accounted = BytesOf(x) \o BytesOf(y) \o s /\ Len(out') = 2 /\ out'[Len(out')] = y
<1>1. DOMAIN out' = {1, 2} /\ out'[1] = x /\ out'[2] = y /\ Len(out') = 2
  <2>1. <<x>> \in Seq({x, y}) /\ y \in {x, y} /\ Len(<<x>>) = 1 /\ <<x>>[1] = x  OBVIOUS
  <2>. QED  BY <2>1
<1>2. Accounted = BytesOf(x) \o BytesOf(y) \o s  BY <1>1 DEF Accounted, BytesOf
<1>. QED  BY <1>1, <1>2

\* The same after a character broken off, or none, which pre says.
LEMMA AccountedAfter ==
  ASSUME NEW p \in Seq(Bytes), NEW pre,
         \/ pre = << >> /\ p = << >>
         \/ \E x : pre = <<x>> /\ BytesOf(x) = p,
         NEW s \in Seq(Bytes), part' = s
  PROVE  /\ out' = pre => Accounted = p \o s /\ Len(out') <= 2
         /\ \A y : out' = Append(pre, y) /\ BytesOf(y) \in Seq(Bytes) =>
              /\ Accounted = p \o BytesOf(y) \o s /\ Len(out') <= 2
              /\ out'[Len(out')] = y
<1>1. CASE pre = << >> /\ p = << >>
  <2>1. << >> \o s = s  OBVIOUS
  <2>2. out' = pre => Accounted = p \o s /\ Len(out') <= 2  BY <1>1, <2>1, AccountedNone
  <2>3. ASSUME NEW y, out' = Append(pre, y), BytesOf(y) \in Seq(Bytes)
        PROVE  Accounted = p \o BytesOf(y) \o s /\ Len(out') <= 2 /\ out'[Len(out')] = y
    <3>1. out' = <<y>>  BY <1>1, <2>3
    <3>2. << >> \o BytesOf(y) = BytesOf(y)  BY <2>3
    <3>. QED  BY <1>1, <2>3, <3>1, <3>2, AccountedOne
  <2>. QED  BY <2>2, <2>3
<1>2. ASSUME NEW x, pre = <<x>>, BytesOf(x) = p
      PROVE  /\ out' = pre => Accounted = p \o s /\ Len(out') <= 2
             /\ \A y : out' = Append(pre, y) /\ BytesOf(y) \in Seq(Bytes) =>
                  /\ Accounted = p \o BytesOf(y) \o s /\ Len(out') <= 2
                  /\ out'[Len(out')] = y
  <2>1. out' = pre => Accounted = p \o s /\ Len(out') <= 2  BY <1>2, AccountedOne
  <2>2. ASSUME NEW y, out' = Append(pre, y), BytesOf(y) \in Seq(Bytes)
        PROVE  Accounted = p \o BytesOf(y) \o s /\ Len(out') <= 2 /\ out'[Len(out')] = y
    <3>1. out' = Append(<<x>>, y) /\ BytesOf(x) \in Seq(Bytes)  BY <1>2, <2>2
    <3>2. Accounted = BytesOf(x) \o BytesOf(y) \o s /\ Len(out') = 2 /\ out'[Len(out')] = y
      BY <2>2, <3>1, AccountedTwo
    <3>. QED  BY <1>2, <3>2
  <2>. QED  BY <2>1, <2>2
<1>. QED  BY <1>1, <1>2

\* A code taken as a character is shown, or is one that shows nothing.
LEMMA TakeAccounts ==
  ASSUME NEW c \in Nat, NEW bytes \in Seq(Bytes), NEW pre, ~ displayCtrl, utf8,
         Take(c, c, bytes, pre)
  PROVE  \/ out' = Append(pre, Shown(c, bytes)) /\ c \notin (0 .. 31) \cup {127, Csi}
         \/ /\ c \in (0 .. 31) \cup {127, Csi}
            /\ \/ out' = pre /\ c \notin 7 .. 15
               \/ out' = Append(pre, Act("control", c))
            /\ c = Esc => esc' = "esc"
            /\ c = Csi => esc' = "square"
<1>1. CASE Ok(c, c)  BY <1>1 DEF Take, Ok
<1>2. CASE ~ Ok(c, c)
  <2>1. c \in (0 .. 31) \cup {127, Csi}  BY <1>2 DEF Ok, Csi
  <2>2. CASE c \in ControlCodes
    <3>1. ControlCode(c, pre)  BY <1>2, <2>2 DEF Take
    <3>2. out' = IF c \in 7 .. 15 THEN Append(pre, Act("control", c)) ELSE pre  BY <3>1 DEF ControlCode
    <3>3. c = Esc => esc' = "esc"  BY <3>1, SMT DEF ControlCode, Esc, Cancel, Csi
    <3>4. c = Csi => esc' = "square"  BY <3>1, SMT DEF ControlCode, Esc, Cancel, Csi
    <3>. QED  BY <2>1, <3>2, <3>3, <3>4
  <2>3. CASE c \notin ControlCodes
    <3>1. out' = pre  BY <1>2, <2>3 DEF Take
    <3>2. c \notin 7 .. 15 /\ c # Esc /\ c # Csi  BY <2>3 DEF ControlCodes
    <3>. QED  BY <2>1, <3>1, <3>2
  <2>. QED  BY <2>2, <2>3
<1>. QED  BY <1>1, <1>2

\* The bytes of what is shown, and of what is not a character.
LEMMA BytesOfThem ==
  /\ \A c, bytes : BytesOf(Shown(c, bytes)) = bytes
  /\ \A c : BytesOf(Act("control", c)) = << >>
<1>1. ASSUME NEW c, NEW bytes  PROVE BytesOf(Shown(c, bytes)) = bytes
  BY DEF Shown, BytesOf
<1>2. ASSUME NEW c  PROVE BytesOf(Act("control", c)) = << >>
  BY DEF Act, BytesOf
<1>. QED  BY <1>1, <1>2

\* A byte that begins a character, or is one.
LEMMA BeginAccounts ==
  ASSUME ParserInv, utf8, ~ displayCtrl, NEW b \in Bytes,
         NEW pre, pre = IF need > 0 THEN <<Shown(Replacement, part)>> ELSE << >>,
         Begin(b, pre)
  PROVE  NothingLost(b)
<1>1. part \in Seq(Bytes) /\ b \in Nat /\ <<b>> \in Seq(Bytes) /\ << >> \in Seq(Bytes)
  <2>1. b \in 0 .. 255  BY LeadRange
  <2>2. part \in Seq(Bytes)  BY DEF ParserInv, Types, DecoderTypes
  <2>. QED  BY <2>1, <2>2
<1>2. \/ pre = << >> /\ part = << >>
      \/ \E x : pre = <<x>> /\ BytesOf(x) = part
  <2>1. CASE need > 0  BY <2>1, BytesOfThem
  <2>2. CASE ~ (need > 0)
    <3>1. need = 0  BY <2>2 DEF ParserInv, Types, DecoderTypes
    <3>. QED  BY <3>1 DEF ParserInv, CharInv
  <2>. QED  BY <2>1, <2>2
<1>3. Begin(b, pre)  OBVIOUS
<1>4. part \o <<b>> = Append(part, b) /\ part \o << >> = part  BY <1>1
<1>5. CASE Lead(b) > 0
  <2>1. part' = <<b>> /\ out' = pre  BY <1>3, <1>5 DEF Begin
  <2>2. Accounted = Append(part, b) /\ Len(out') <= 2
    BY <1>1, <1>2, <1>4, <2>1, AccountedAfter
  <2>3. b \notin 7 .. 15 /\ b # Esc
    <3>1. b >= 192  BY <1>5, LeadRange
    <3>. QED  BY <1>1, <3>1, SMT DEF Esc
  <2>. QED  BY <2>2, <2>3 DEF NothingLost
<1>6. CASE ~ (Lead(b) > 0)
  <2> DEFINE c == IF b < 128 THEN b ELSE Replacement
  <2>1. part' = << >> /\ Take(c, c, <<b>>, pre)  BY <1>3, <1>6 DEF Begin, Complete
  <2>2. /\ c \in Nat /\ (c \in (0 .. 31) \cup {127, Csi} <=> b \in (0 .. 31) \cup {127})
        /\ b < 128 => c = b
        /\ Csi \notin (0 .. 31) \cup {127} /\ Esc \in 0 .. 31
    BY <1>1, SMT DEF Replacement, Csi, Esc
  <2> HIDE DEF c
  <2>0. /\ out' = pre => Accounted = part \o << >> /\ Len(out') <= 2
        /\ \A y : out' = Append(pre, y) /\ BytesOf(y) \in Seq(Bytes) =>
             /\ Accounted = part \o BytesOf(y) \o << >> /\ Len(out') <= 2
             /\ out'[Len(out')] = y
    <3> DEFINE none == << >>
    <3>1. none \in Seq(Bytes) /\ part' = none  BY <1>1, <2>1
    <3> HIDE DEF none
    <3>2. out' = pre => Accounted = part \o none /\ Len(out') <= 2
      BY <1>1, <1>2, <3>1, AccountedAfter
    <3>3. ASSUME NEW y, out' = Append(pre, y), BytesOf(y) \in Seq(Bytes)
          PROVE  /\ Accounted = part \o BytesOf(y) \o none /\ Len(out') <= 2
                 /\ out'[Len(out')] = y
      BY <1>1, <1>2, <3>1, <3>3, AccountedAfter, ZenonT(40)
    <3>. QED  BY <3>2, <3>3 DEF none
  <2>3. CASE out' = Append(pre, Shown(c, <<b>>)) /\ c \notin (0 .. 31) \cup {127, Csi}
    <3>1. BytesOf(Shown(c, <<b>>)) = <<b>>  BY BytesOfThem
    <3>2. Accounted = part \o <<b>> \o << >> /\ Len(out') <= 2
      BY <1>1, <2>0, <2>3, <3>1
    <3>3. Accounted = Append(part, b)
      <4>1. Append(part, b) \o << >> = Append(part, b)  BY <1>1
      <4>. QED  BY <1>4, <3>2, <4>1
    <3>4. b \notin 7 .. 15 /\ b # Esc  BY <1>1, <2>2, <2>3
    <3>. QED  BY <3>2, <3>3, <3>4 DEF NothingLost
  <2>4. CASE /\ c \in (0 .. 31) \cup {127, Csi}
             /\ \/ out' = pre /\ c \notin 7 .. 15
                \/ out' = Append(pre, Act("control", c))
             /\ c = Esc => esc' = "esc"
    <3>1. b \in (0 .. 31) \cup {127} /\ c = b
      <4>1. b \in (0 .. 31) \cup {127}  BY <2>2, <2>4
      <4>2. b < 128  BY <1>1, <4>1
      <4>. QED  BY <2>2, <4>1, <4>2
    <3>2. BytesOf(Act("control", c)) = << >>  BY BytesOfThem
    <3>3. /\ Accounted = part \o << >> \/ Accounted = part \o << >> \o << >>
          /\ Len(out') <= 2
          /\ b \in 7 .. 15 => out'[Len(out')] = Act("control", b)
      <4>1. CASE out' = pre /\ c \notin 7 .. 15
        BY <2>0, <3>1, <4>1
      <4>2. CASE out' = Append(pre, Act("control", c))
        BY <1>1, <2>0, <3>1, <3>2, <4>2
      <4>. QED  BY <2>4, <4>1, <4>2
    <3>4. Accounted = part  BY <1>4, <3>3
    <3>. QED  BY <2>4, <3>1, <3>3, <3>4 DEF NothingLost
  <2>5. \/ out' = Append(pre, Shown(c, <<b>>)) /\ c \notin (0 .. 31) \cup {127, Csi}
        \/ /\ c \in (0 .. 31) \cup {127, Csi}
           /\ \/ out' = pre /\ c \notin 7 .. 15
              \/ out' = Append(pre, Act("control", c))
           /\ c = Esc => esc' = "esc"
    BY <1>1, <2>1, <2>2, TakeAccounts, ZenonT(40)
  <2>. QED  BY <2>3, <2>4, <2>5
<1>. QED  BY <1>5, <1>6

\* And one that continues a character.
LEMMA ContinueAccounts ==
  ASSUME ParserInv, need > 0, NEW b \in Bytes, IsContinuation(b), Continue(b)
  PROVE  NothingLost(b)
<1>1. /\ Types /\ CharInv /\ utf8 /\ ~ displayCtrl /\ need \in Nat /\ npar \in Nat
      /\ part \in Seq(Bytes) /\ char \in Nat /\ Append(part, b) \in Seq(Bytes)
  BY NParAssumption DEF ParserInv, Types, DecoderTypes, ArgTypes, Params, CharInv
<1>2. b \notin 7 .. 15 /\ b # Esc  BY SMT DEF IsContinuation, Esc
<1>3. CASE need > 1
  <2>1. part' = Append(part, b) /\ out' = << >>  BY <1>3 DEF Continue
  <2>2. Accounted = Append(part, b) /\ Len(out') <= 2  BY <1>1, <2>1, AccountedNone
  <2>. QED  BY <1>2, <2>2 DEF NothingLost
<1>4. CASE ~ (need > 1)
  <2> DEFINE n == npar + 1
  <2> DEFINE v == char * 64 + (b % 64)
  <2> DEFINE c == Checked(v, n)
  <2> DEFINE all == Append(part, b)
  <2>1. part' = << >> /\ Take(c, c, all, << >>)  BY <1>4 DEF Continue, Complete
  <2>2. need = 1  BY <1>1, <1>4
  <2>3. Right(Shown(c, all))  BY <1>1, <2>2, CompleteRight
  <2>4. v \in Nat /\ n \in 1 .. 5
    <3>1. b \in Nat /\ b % 64 \in Nat  BY LeadRange
    <3>2. part # << >> /\ part[1] \in Bytes /\ Lead(part[1]) = n
      BY <1>1, <2>2 DEF CharInv
    <3>3. Lead(part[1]) \in 0 .. 5  BY <3>2, LeadRange
    <3>. QED  BY <1>1, <3>1, <3>2, <3>3
  <2>5. all \in Seq(Bytes) /\ << >> \in Seq(Bytes)  BY <1>1
  <2> HIDE DEF all, v, n
  <2>6. c \in Nat /\ c \notin (0 .. 31) \cup {127}
    <3>1. c = v \/ c = Replacement  BY <2>4, CheckedIs
    <3>2. c # Replacement => 128 <= c
      <4>1. n = 1 \/ n = 2 \/ n > 2  BY <2>4
      <4>2. n = 1 /\ c # Replacement => 128 <= v  BY <2>4, CheckedIs
      <4>3. n = 2 /\ c # Replacement => 2048 <= v  BY <2>4, CheckedIs
      <4>4. n > 2 /\ c # Replacement => v > 65535  BY <2>4, CheckedIs
      <4> HIDE DEF c
      <4>. QED  BY <2>4, <3>1, <4>1, <4>2, <4>3, <4>4, SMT
    <3> HIDE DEF c
    <3>. QED  BY <2>4, <3>1, <3>2, SMT DEF Replacement
  <2> HIDE DEF c
  <2>7. \/ out' = Append(<< >>, Shown(c, all)) /\ c \notin (0 .. 31) \cup {127, Csi}
        \/ /\ c \in (0 .. 31) \cup {127, Csi}
           /\ \/ out' = << >> /\ c \notin 7 .. 15
              \/ out' = Append(<< >>, Act("control", c))
           /\ c = Csi => esc' = "square"
    <3> DEFINE none == << >>
    <3>1. Take(c, c, all, none)  BY <2>1
    <3> HIDE DEF none
    <3>2. \/ out' = Append(none, Shown(c, all)) /\ c \notin (0 .. 31) \cup {127, Csi}
          \/ /\ c \in (0 .. 31) \cup {127, Csi}
             /\ \/ out' = none /\ c \notin 7 .. 15
                \/ out' = Append(none, Act("control", c))
             /\ c = Csi => esc' = "square"
      BY <1>1, <2>5, <2>6, <3>1, TakeAccounts
    <3>. QED  BY <3>2 DEF none
  <2>8. CASE out' = Append(<< >>, Shown(c, all))
    <3>1. out' = <<Shown(c, all)>> /\ BytesOf(Shown(c, all)) = all  BY <2>8, BytesOfThem
    <3>2. BytesOf(Shown(c, all)) \in Seq(Bytes)  BY <2>5, <3>1
    <3>4. Accounted = BytesOf(Shown(c, all)) \o << >> /\ Len(out') = 1
      BY <2>1, <2>5, <3>1, <3>2, AccountedOne
    <3>3. all \o << >> = all  BY <2>5
    <3>5. Accounted = Append(part, b)  BY <3>1, <3>3, <3>4 DEF all
    <3>. QED  BY <1>2, <3>4, <3>5 DEF NothingLost
  <2>9. CASE /\ c = Csi /\ esc' = "square"
             /\ out' = << >> \/ out' = Append(<< >>, Act("control", c))
    <3>1. c \notin 7 .. 15 /\ c # Replacement /\ ~ (c > 65535)
      BY <2>9, SMT DEF Csi, Replacement
    <3>2. all = Encoded(Csi)
      <4> DEFINE o == Shown(c, all)
      <4>1. o.code = c /\ o.bytes = all  BY <3>1, SMT DEF Shown
      <4> HIDE DEF o
      <4>2. Right(o)  BY <2>3 DEF o
      <4>3. o.code # Replacement  BY <3>1, <4>1
      <4>4. o.bytes = Encoded(o.code)  BY <4>2, <4>3, Zenon DEF Right
      <4>. QED  BY <2>9, <4>1, <4>4
    <3>3. Accounted = << >> /\ Len(out') <= 2
      <4>1. CASE out' = << >>
        <5> DEFINE none == << >>
        <5>1. part' = none /\ none \in Seq(Bytes)  BY <2>1, <2>5
        <5> HIDE DEF none
        <5>2. Accounted = none /\ Len(out') = 0  BY <4>1, <5>1, AccountedNone
        <5>. QED  BY <5>2 DEF none
      <4>2. CASE out' = Append(<< >>, Act("control", c))
        <5>1. out' = <<Act("control", c)>> /\ BytesOf(Act("control", c)) = << >>
          BY <4>2, BytesOfThem
        <5>2. << >> \in Seq(Bytes) /\ << >> \o << >> = << >>  OBVIOUS
        <5>3. BytesOf(Act("control", c)) \in Seq(Bytes)  BY <5>1, <5>2
        <5>4. Accounted = << >> \o << >> /\ Len(out') = 1
          BY <2>1, <5>1, <5>2, <5>3, AccountedOne
        <5>. QED  BY <5>2, <5>4
      <4>. QED  BY <2>9, <4>1, <4>2
    <3>. QED  BY <1>2, <2>9, <3>2, <3>3 DEF NothingLost, all
  <2>. QED  BY <2>6, <2>7, <2>8, <2>9
<1>. QED  BY <1>3, <1>4

\* Every character shown for UTF-8 is the one written and every byte is accounted
\* for: it is part of a character, or a code that is obeyed or shows nothing; a
\* byte that breaks a character off is read again (input).
THEOREM ShownAsWrittenAlways == Spec => ShownAsWritten
<1> DEFINE AllShown ==
     esc = "normal" /\ utf8 /\ ~ displayCtrl => \A b \in Bytes : Feed(b) =>
       /\ \A i \in DOMAIN out' : out'[i].kind = "char" => Right(out'[i])
       /\ NothingLost(b)
<1>1. ASSUME ParserInv, esc = "normal", utf8, ~ displayCtrl, NEW b \in Bytes, Feed(b)
      PROVE  AllRight /\ NothingLost(b)
  <2>1. Decoded(b)  BY <1>1 DEF Feed, InSequence, Untranslated
  <2>2. AllRight  BY <1>1, <2>1, DecodedKeeps
  <2>3. CASE need > 0 /\ IsContinuation(b)
    <3>1. Continue(b)  BY <2>1, <2>3 DEF Decoded
    <3>. QED  BY <1>1, <2>2, <2>3, <3>1, ContinueAccounts
  <2>4. CASE ~ (need > 0 /\ IsContinuation(b))
    <3>1. Begin(b, IF need > 0 THEN <<Shown(Replacement, part)>> ELSE << >>)
      BY <2>1, <2>4 DEF Decoded
    <3>. QED  BY <1>1, <2>2, <3>1, BeginAccounts
  <2>. QED  BY <2>3, <2>4
<1>2. ParserInv => AllShown  BY <1>1 DEF AllRight
<1> HIDE DEF AllShown
<1>3. Spec => [][AllShown]_vars
  <2>1. ParserInv /\ [Next]_vars => [AllShown]_vars  BY <1>2
  <2>. QED  BY <2>1, ParserInit, ParserStep, PTL DEF Spec
<1>. QED  BY <1>3 DEF AllShown, ShownAsWritten

\* Every variable keeps its type, and npar stays an index of param.
THEOREM TypeCorrect == Spec => []TypeOK
<1>1. ParserInv => TypeOK
  BY DEF ParserInv, Types, DecoderTypes, ArgTypes, ModeTypes, SetTypes, States, Map, TypeOK
<1>. QED  BY <1>1, ParserInit, ParserStep, PTL DEF Spec

-----------------------------------------------------------------------------
(* ESC.                                                                    *)

\* ESC as a control code begins a sequence.
LEMMA EscObeyed ==
  ASSUME NEW pre, ControlCode(Esc, pre)
  PROVE  esc' = "esc"
<1>1. Esc \notin Cancel /\ Esc # Csi  BY DEF Esc, Cancel, Csi
<1>2. esc' = CASE Esc \in Cancel -> "normal" [] Esc = Esc -> "esc" [] Esc = Csi -> "square" [] OTHER -> esc
  BY Zenon DEF ControlCode
<1>. QED  BY <1>1, <1>2

\* ESC is never a glyph, so that taking it begins a sequence.
LEMMA EscTaken ==
  ASSUME NEW bytes, NEW pre, Take(Esc, Esc, bytes, pre)
  PROVE  esc' = "esc"
<1>1. ~ Ok(Esc, Esc)
  <2>1. Esc \in CtrlAlways /\ Esc \in CtrlAction /\ Esc \in 0 .. 31 /\ ~ (Esc >= 32)
    BY DEF Esc, CtrlAlways, CtrlAction
  <2>. QED  BY <2>1 DEF Ok
<1>2. Esc \in ControlCodes  BY DEF Esc, ControlCodes, Cancel, Csi
<1>3. ControlCode(Esc, pre)  BY <1>1, <1>2, Zenon DEF Take
<1>. QED  BY <1>3, EscObeyed

\* Wherever ESC stands, a sequence begins, unless UTF-8 is off and the map has a
\* glyph for it or toggle_meta makes it CSI.
THEOREM EscapeHeardAlways == Spec => EscapeHeard
<1>1. ASSUME Feed(Esc), utf8 \/ esc # "normal" \/ (charset = "text" /\ ~ toggleMeta)
      PROVE  esc' = "esc"
  <2>1. CASE InSequence(Esc)
    <3>1. Esc \in ControlCodes /\ Esc # 0  BY DEF Esc, ControlCodes, Cancel, Csi
    <3>2. ControlCode(Esc, << >>)  BY <2>1, <3>1, Zenon DEF InSequence
    <3>. QED  BY <3>2, EscObeyed
  <2>2. CASE Untranslated(Esc)
    <3>1. Esc < 32 /\ Esc # 0 /\ Esc = 27  BY DEF Esc
    <3>2. charset = "text" /\ ~ toggleMeta  BY <1>1, <2>2, <3>1 DEF Untranslated
    <3>3. Translated(Esc) = Esc  BY <3>2 DEF Translated
    <3>4. Take(Esc, Esc, <<Esc>>, << >>)  BY <2>2, <3>3 DEF Untranslated
    <3>. QED  BY <3>4, EscTaken
  <2>3. CASE Decoded(Esc)
    <3>1. ~ IsContinuation(Esc) /\ Lead(Esc) = 0 /\ Esc < 128  BY DEF IsContinuation, Lead, Esc
    <3>2. \E pre : Begin(Esc, pre)  BY <2>3, <3>1, Zenon DEF Decoded
    <3>3. \E pre : Take(Esc, Esc, <<Esc>>, pre)
      <4>1. ~ (Lead(Esc) > 0)  BY <3>1
      <4>. QED  BY <3>1, <3>2, <4>1, Zenon DEF Begin
    <3>. QED  BY <3>3, EscTaken
  <2>. QED  BY <1>1, <2>1, <2>2, <2>3 DEF Feed
<1> DEFINE Heard == Feed(Esc) /\ (utf8 \/ esc # "normal" \/ (charset = "text" /\ ~ toggleMeta))
                    => esc' = "esc"
<1>2. Heard  BY <1>1
<1> HIDE DEF Heard
<1>3. [Next]_vars => [Heard]_vars  BY <1>2
<1>4. Spec => [][Heard]_vars  BY <1>3, PTL DEF Spec
<1>. QED  BY <1>4 DEF Heard, EscapeHeard

-----------------------------------------------------------------------------
(* The fields of a sequence of parameter bytes, byte by byte.               *)

\* The semicolons up to place i, the field that follows n of them, the places of
\* field k and how many of a set of places are up to i.
Semis(q, i) == Cardinality({j \in 1 .. i : q[j] = 59})
\* The parameter of field n.
Slot(n) == IF n < NPar THEN n ELSE NPar - 1
\* The places of field k.
Places(q, k) == {i \in DOMAIN q : q[i] # 59 /\ Slot(Semis(q, i)) = k}
\* How many of a set of places are up to i.
Rank(A, i) == Cardinality({j \in A : j <= i})

\* Every number up to the size of a set of places is the rank of one of them.
Ranked(A) == \A n \in 1 .. Cardinality(A) : \E i \in A : Rank(A, i) = n

\* The bytes of a field are those at its places, in order.
LEMMA FieldsAre ==
  ASSUME NEW q, NEW k
  PROVE  Fields(q, k) = [n \in 1 .. Cardinality(Places(q, k)) |->
                           q[CHOOSE i \in Places(q, k) : Rank(Places(q, k), i) = n]]
BY DEF Fields, Places, Slot, Semis, Rank

\* Places of a longer sequence.
LEMMA SemisAppend ==
  ASSUME NEW q \in Seq(Bytes), NEW b \in Bytes
  PROVE  /\ \A i \in 1 .. Len(q) : Semis(Append(q, b), i) = Semis(q, i)
         /\ Semis(q, Len(q)) \in Nat
         /\ Semis(Append(q, b), Len(q) + 1) =
              Semis(q, Len(q)) + (IF b = 59 THEN 1 ELSE 0)
<1> DEFINE r == Append(q, b)
<1> DEFINE m == Len(q)
<1>1. /\ m \in Nat /\ Len(r) = m + 1 /\ r[m + 1] = b
      /\ \A i \in 1 .. m : r[i] = q[i]
  OBVIOUS
<1> HIDE DEF r, m
<1>2. ASSUME NEW i \in 1 .. m  PROVE Semis(r, i) = Semis(q, i)
  <2>1. {j \in 1 .. i : r[j] = 59} = {j \in 1 .. i : q[j] = 59}
    <3>1. \A j \in 1 .. i : j \in 1 .. m  BY <1>1
    <3>. QED  BY <1>1, <3>1
  <2>. QED  BY <2>1 DEF Semis
<1> DEFINE s == {j \in 1 .. m : q[j] = 59}
<1>3. IsFiniteSet(s) /\ Cardinality(s) \in Nat
  <2>1. IsFiniteSet(1 .. m)  BY <1>1, FS_Interval
  <2>2. IsFiniteSet(s)  BY <2>1, FS_Subset
  <2>. QED  BY <2>2, FS_CardinalityType
<1>4. {j \in 1 .. m + 1 : r[j] = 59} = IF b = 59 THEN s \cup {m + 1} ELSE s
  <2>1. \A j : j \in 1 .. m + 1 <=> (j \in 1 .. m \/ j = m + 1)  BY <1>1
  <2>. QED  BY <1>1, <2>1
<1>5. Cardinality({j \in 1 .. m + 1 : r[j] = 59}) = Cardinality(s) + (IF b = 59 THEN 1 ELSE 0)
  <2>1. m + 1 \notin s  BY <1>1
  <2> HIDE DEF s
  <2>2. CASE b = 59
    <3>1. Cardinality(s \cup {m + 1}) = Cardinality(s) + 1  BY <1>3, <2>1, FS_AddElement
    <3>. QED  BY <1>4, <2>2, <3>1
  <2>3. CASE b # 59
    <3>1. {j \in 1 .. m + 1 : r[j] = 59} = s  BY <1>4, <2>3
    <3>2. Cardinality({j \in 1 .. m + 1 : r[j] = 59}) = Cardinality(s)  BY <3>1
    <3>. QED  BY <1>3, <2>3, <3>2
  <2>. QED  BY <2>2, <2>3
<1>. QED  BY <1>2, <1>3, <1>5 DEF r, m, Semis

\* One more byte is in one field at most.
LEMMA PlacesAppend ==
  ASSUME NEW q \in Seq(Bytes), NEW b \in Bytes, NEW k
  PROVE  Places(Append(q, b), k) =
           IF b # 59 /\ Slot(Semis(q, Len(q))) = k THEN Places(q, k) \cup {Len(q) + 1}
           ELSE Places(q, k)
<1> DEFINE r == Append(q, b)
<1> DEFINE m == Len(q)
<1>1. /\ m \in Nat /\ DOMAIN q = 1 .. m /\ DOMAIN r = 1 .. m + 1 /\ r[m + 1] = b
      /\ \A i \in 1 .. m : r[i] = q[i]
  OBVIOUS
<1>2. \A i \in 1 .. m : Semis(r, i) = Semis(q, i)  BY SemisAppend
<1>3. b # 59 => Semis(r, m + 1) = Semis(q, m)
  <2>1. Semis(r, m + 1) = Semis(q, m) + (IF b = 59 THEN 1 ELSE 0) /\ Semis(q, m) \in Nat
    BY SemisAppend
  <2> HIDE DEF r, m
  <2>. QED  BY <2>1
<1> HIDE DEF r, m
<1>4. \A i : i \in 1 .. m + 1 <=> (i \in 1 .. m \/ i = m + 1)  BY <1>1
<1>5. m + 1 \in Places(r, k) <=> b # 59 /\ Slot(Semis(q, m)) = k
  BY <1>1, <1>3, <1>4 DEF Places
<1>6. \A i \in 1 .. m : i \in Places(r, k) <=> i \in Places(q, k)
  BY <1>1, <1>2, <1>4 DEF Places
<1>7. \A i \in Places(r, k) : i \in 1 .. m \/ i = m + 1  BY <1>1, <1>4 DEF Places
<1>8. \A i \in Places(q, k) : i \in 1 .. m  BY <1>1 DEF Places
<1> DEFINE B == Places(r, k)
<1> DEFINE A == Places(q, k)
<1> HIDE DEF A, B
<1>9. B = IF b # 59 /\ Slot(Semis(q, m)) = k THEN A \cup {m + 1} ELSE A
  <2>1. \A i : i \in B <=> (i \in A \/ (i = m + 1 /\ m + 1 \in B))
    BY <1>5, <1>6, <1>7, <1>8 DEF A, B
  <2>2. CASE b # 59 /\ Slot(Semis(q, m)) = k
    <3>1. m + 1 \in B  BY <1>5, <2>2 DEF B
    <3>2. B = A \cup {m + 1}  BY <2>1, <3>1
    <3>. QED  BY <2>2, <3>2
  <2>3. CASE ~ (b # 59 /\ Slot(Semis(q, m)) = k)
    <3>1. m + 1 \notin B  BY <1>5, <2>3 DEF B
    <3>2. B = A  BY <2>1, <3>1
    <3>. QED  BY <2>3, <3>2
  <2>. QED  BY <2>2, <2>3
<1>. QED  BY <1>9 DEF A, B, r, m

\* The places of a field are finitely many.
LEMMA PlacesFinite ==
  ASSUME NEW q \in Seq(Bytes), NEW k
  PROVE  IsFiniteSet(Places(q, k)) /\ Cardinality(Places(q, k)) \in Nat
         /\ \A i \in Places(q, k) : i \in 1 .. Len(q)
<1>1. DOMAIN q = 1 .. Len(q) /\ Len(q) \in Nat  OBVIOUS
<1>2. IsFiniteSet(1 .. Len(q))  BY <1>1, FS_Interval
<1>3. Places(q, k) \in SUBSET (1 .. Len(q))  BY <1>1 DEF Places
<1>4. IsFiniteSet(Places(q, k))  BY <1>2, <1>3, FS_Subset
<1>. QED  BY <1>3, <1>4, FS_CardinalityType

\* One place after all the others.
LEMMA RankAdd ==
  ASSUME NEW A, IsFiniteSet(A), Cardinality(A) \in Nat, NEW m \in Nat,
         \A i \in A : i \in 1 .. m, Ranked(A)
  PROVE  /\ Cardinality(A \cup {m + 1}) = Cardinality(A) + 1
         /\ Ranked(A \cup {m + 1})
         /\ \A i \in A : Rank(A \cup {m + 1}, i) = Rank(A, i) /\ Rank(A, i) \in Nat
                         /\ Rank(A, i) <= Cardinality(A)
         /\ Rank(A \cup {m + 1}, m + 1) = Cardinality(A) + 1
<1> DEFINE B == A \cup {m + 1}
<1>1. m + 1 \notin A  OBVIOUS
<1>2. Cardinality(B) = Cardinality(A) + 1  BY <1>1, FS_AddElement
<1>3. ASSUME NEW i \in A
      PROVE  Rank(B, i) = Rank(A, i) /\ Rank(A, i) \in Nat /\ Rank(A, i) <= Cardinality(A)
  <2>1. {j \in B : j <= i} = {j \in A : j <= i}  OBVIOUS
  <2>2. {j \in A : j <= i} \in SUBSET A  OBVIOUS
  <2>3. IsFiniteSet({j \in A : j <= i}) /\ Cardinality({j \in A : j <= i}) <= Cardinality(A)
    BY <2>2, FS_Subset
  <2>4. Cardinality({j \in A : j <= i}) \in Nat  BY <2>3, FS_CardinalityType
  <2>. QED  BY <2>1, <2>3, <2>4 DEF Rank
<1>4. Rank(B, m + 1) = Cardinality(A) + 1
  <2>1. {j \in B : j <= m + 1} = B  OBVIOUS
  <2>. QED  BY <1>2, <2>1 DEF Rank
<1> HIDE DEF B
<1>5. Ranked(B)
  <2>1. SUFFICES ASSUME NEW n \in 1 .. Cardinality(B)  PROVE \E i \in B : Rank(B, i) = n
    BY DEF Ranked
  <2>2. CASE n = Cardinality(A) + 1
    <3>1. m + 1 \in B  BY DEF B
    <3>. QED  BY <1>4, <2>2, <3>1
  <2>3. CASE n # Cardinality(A) + 1
    <3>1. n \in 1 .. Cardinality(A)  BY <1>2, <2>3
    <3>2. PICK i \in A : Rank(A, i) = n  BY <3>1 DEF Ranked
    <3>3. i \in B /\ Rank(B, i) = n  BY <1>3, <3>2 DEF B
    <3>. QED  BY <3>3
  <2>. QED  BY <2>2, <2>3
<1>. QED  BY <1>2, <1>3, <1>4, <1>5 DEF B

\* A byte more, in another field or none.
LEMMA FieldKept ==
  ASSUME NEW q \in Seq(Bytes), NEW b \in Bytes, NEW k, Ranked(Places(q, k)),
         b = 59 \/ Slot(Semis(q, Len(q))) # k
  PROVE  Fields(Append(q, b), k) = Fields(q, k)
<1> DEFINE r == Append(q, b)
<1> DEFINE A == Places(q, k)
<1>1. Places(r, k) = A  BY PlacesAppend
<1>2. \A i \in A : r[i] = q[i]
  <2>1. \A i \in A : i \in 1 .. Len(q)  BY PlacesFinite
  <2>2. \A i \in 1 .. Len(q) : r[i] = q[i]  OBVIOUS
  <2> HIDE DEF r, A
  <2>. QED  BY <2>1, <2>2
<1> HIDE DEF r, A
<1>3. ASSUME NEW n \in 1 .. Cardinality(A)
      PROVE  r[CHOOSE i \in A : Rank(A, i) = n] = q[CHOOSE i \in A : Rank(A, i) = n]
  <2>1. \E i \in A : Rank(A, i) = n  BY DEF Ranked, A
  <2>2. (CHOOSE i \in A : Rank(A, i) = n) \in A  BY <2>1
  <2>. QED  BY <1>2, <2>2
<1>4. Fields(r, k) = [n \in 1 .. Cardinality(A) |-> r[CHOOSE i \in A : Rank(A, i) = n]]
  <2>1. Fields(r, k) = [n \in 1 .. Cardinality(Places(r, k)) |->
                          r[CHOOSE i \in Places(r, k) : Rank(Places(r, k), i) = n]]
    BY FieldsAre
  <2>. QED  BY <1>1, <2>1
<1>5. Fields(q, k) = [n \in 1 .. Cardinality(A) |-> q[CHOOSE i \in A : Rank(A, i) = n]]
  BY FieldsAre DEF A
<1>. QED  BY <1>3, <1>4, <1>5 DEF r

\* A byte more of the field.
LEMMA FieldGrows ==
  ASSUME NEW q \in Seq(Bytes), NEW b \in Bytes, NEW k, Ranked(Places(q, k)),
         b # 59, Slot(Semis(q, Len(q))) = k, Fields(q, k) \in Seq(Digits), b \in Digits
  PROVE  /\ Fields(Append(q, b), k) = Append(Fields(q, k), b)
         /\ Ranked(Places(Append(q, b), k))
<1> DEFINE r == Append(q, b)
<1> DEFINE m == Len(q)
<1> DEFINE A == Places(q, k)
<1> DEFINE B == A \cup {m + 1}
<1> DEFINE c == Cardinality(A)
<1> DEFINE At(n) == CHOOSE i \in A : Rank(A, i) = n
<1> DEFINE Bt(n) == CHOOSE i \in B : Rank(B, i) = n
<1>1. Places(r, k) = B  BY PlacesAppend
<1>2. m \in Nat /\ r[m + 1] = b /\ \A i \in 1 .. m : r[i] = q[i]  OBVIOUS
<1>3. IsFiniteSet(A) /\ c \in Nat /\ \A i \in A : i \in 1 .. m  BY PlacesFinite
<1> HIDE DEF r, m
<1>4. /\ Cardinality(B) = c + 1 /\ Ranked(B) /\ Rank(B, m + 1) = c + 1
      /\ \A i \in A : Rank(B, i) = Rank(A, i) /\ Rank(A, i) \in Nat /\ Rank(A, i) <= c
  BY <1>2, <1>3, RankAdd
<1>5. \A n \in 1 .. c : At(n) \in A  BY DEF Ranked
<1>6. Fields(q, k) = [n \in 1 .. c |-> q[At(n)]]  BY FieldsAre
<1>7. Fields(r, k) = [n \in 1 .. c + 1 |-> r[Bt(n)]]
  <2>1. Fields(r, k) = [n \in 1 .. Cardinality(Places(r, k)) |->
                          r[CHOOSE i \in Places(r, k) : Rank(Places(r, k), i) = n]]
    BY FieldsAre
  <2>. QED  BY <1>1, <1>4, <2>1
<1>8. ASSUME NEW n \in 1 .. c  PROVE r[Bt(n)] = q[At(n)]
  <2>1. \A i : (i \in B /\ Rank(B, i) = n) <=> (i \in A /\ Rank(A, i) = n)
    <3>1. Rank(B, m + 1) # n  BY <1>3, <1>4
    <3>2. \A i : i \in B <=> (i \in A \/ i = m + 1)  OBVIOUS
    <3> HIDE DEF B, A, c
    <3>. QED  BY <1>4, <3>1, <3>2
  <2>2. Bt(n) = At(n)
    <3> HIDE DEF B, A
    <3>. QED  BY <2>1
  <2>3. At(n) \in A  BY <1>5
  <2> HIDE DEF At, Bt, A
  <2>. QED  BY <1>2, <1>3, <2>2, <2>3
<1>9. Bt(c + 1) = m + 1
  <2>1. m + 1 \in B  OBVIOUS
  <2>2. ASSUME NEW i \in B, Rank(B, i) = c + 1  PROVE i = m + 1
    <3>1. i \in A \/ i = m + 1  OBVIOUS
    <3> HIDE DEF A, B, c
    <3>2. i \notin A  BY <1>3, <1>4, <2>2
    <3>. QED  BY <3>1, <3>2
  <2>3. Rank(B, m + 1) = c + 1  BY <1>4
  <2> HIDE DEF A, B, c
  <2>. QED  BY <2>1, <2>2, <2>3
<1> HIDE DEF A, B, At, Bt, c
<1>10. Len(Fields(q, k)) = c  BY <1>3, <1>6
<1> DEFINE s == Append(Fields(q, k), b)
<1>11. /\ s = [n \in 1 .. c + 1 |-> s[n]] /\ s[c + 1] = b
       /\ \A n \in 1 .. c : s[n] = Fields(q, k)[n]
  <2>1. Len(s) = c + 1 /\ s \in Seq(Digits)  BY <1>10
  <2>2. s = [n \in 1 .. Len(s) |-> s[n]]
    <3> HIDE DEF s
    <3>1. s \in [1 .. Len(s) -> Digits]  BY <2>1, LenProperties
    <3>. QED  BY <3>1
  <2>3. \A n \in 1 .. c : s[n] = Fields(q, k)[n]  BY <1>3, <1>10
  <2>4. s[c + 1] = b  BY <1>3, <1>10
  <2> HIDE DEF s
  <2>. QED  BY <2>1, <2>2, <2>3, <2>4
<1> HIDE DEF s
<1>12. ASSUME NEW n \in 1 .. c + 1  PROVE r[Bt(n)] = s[n]
  <2>1. CASE n = c + 1  BY <1>2, <1>9, <1>11, <2>1
  <2>2. CASE n # c + 1
    <3>1. n \in 1 .. c  BY <1>3, <2>2
    <3>2. Fields(q, k)[n] = q[At(n)]  BY <1>6, <3>1
    <3>. QED  BY <1>8, <1>11, <3>1, <3>2
  <2>. QED  BY <2>1, <2>2
<1>13. Fields(r, k) = s  BY <1>7, <1>11, <1>12
<1>14. Ranked(Places(r, k))  BY <1>1, <1>4
<1>. QED  BY <1>13, <1>14 DEF r, s

\* Nothing yet.
LEMMA FieldsNone ==
  ASSUME NEW k
  PROVE  Fields(<< >>, k) = << >> /\ Ranked(Places(<< >>, k)) /\ Semis(<< >>, 0) = 0
<1>1. Places(<< >>, k) = {}  BY DEF Places
<1>2. Cardinality({}) = 0 /\ 1 .. 0 = {}  BY FS_EmptySet
<1>3. Fields(<< >>, k) = << >>
  <2>1. Fields(<< >>, k) = [n \in {} |-> << >>[CHOOSE i \in {} : Rank({}, i) = n]]
    BY <1>1, <1>2, FieldsAre
  <2>. QED  BY <2>1
<1>4. Ranked({})  BY <1>2 DEF Ranked
<1>5. {j \in 1 .. 0 : << >>[j] = 59} = {}  BY <1>2
<1>. QED  BY <1>1, <1>2, <1>3, <1>4, <1>5 DEF Semis

-----------------------------------------------------------------------------
(* The number that digits stand for.                                       *)

\* One digit.
NumberStep == [p \in Int \X Digits |-> p[1] * 10 + p[2] - 48]

\* The type of a step of reading a number.
LEMMA NumberType == NumberStep \in [Int \X Digits -> Int]
<1>1. \A d \in Digits : d \in Int  BY DEF Digits
<1>. QED  BY <1>1 DEF NumberStep

\* What Number takes the remainder of.
Sum10(s) == FoldLeft(LAMBDA v, d : v * 10 + d - 48, 0, s)

\* A number is a fold over its digits.
LEMMA SumFold ==
  ASSUME NEW s \in Seq(Digits)
  PROVE  \E F : /\ F \in [SUBSET (1 .. Len(s)) -> Int]
                /\ Recurs(F, NumberStep, 0, s)
                /\ Sum10(s) = F[1 .. Len(s)]
<1> DEFINE n == Len(s)
<1> DEFINE Body(G) == [t \in SUBSET DOMAIN s |->
             IF t = {} THEN 0 ELSE G[t \ {Max(t)}] * 10 + s[Max(t)] - 48]
<1> DEFINE I == CHOOSE G : G = Body(G)
<1>0. n \in Nat /\ DOMAIN s = 1 .. n /\ \A i \in 1 .. n : s[i] \in Digits  OBVIOUS
<1>1. Sum10(s) = I[DOMAIN s]
  BY DEF Sum10, FoldLeft, MapThenFoldSet
<1>2. PICK F \in [SUBSET (1 .. n) -> Int] : Recurs(F, NumberStep, 0, s)
  <2>1. 0 \in Int  OBVIOUS
  <2>. QED  BY <2>1, NumberType, FoldExists
<1>3. ASSUME NEW t \in SUBSET (1 .. n), t # {}
      PROVE  F[t] = F[t \ {Max(t)}] * 10 + s[Max(t)] - 48
  <2>1. Max(t) \in t  BY <1>0, <1>3, MaxIn
  <2>2. s[Max(t)] \in Digits /\ t \ {Max(t)} \in SUBSET (1 .. n)  BY <1>0, <2>1
  <2>3. F[t] = NumberStep[<<F[t \ {Max(t)}], s[Max(t)]>>]  BY <1>2, <1>3 DEF Recurs
  <2>4. F[t \ {Max(t)}] \in Int  BY <1>2, <2>2
  <2>. QED  BY <2>2, <2>3, <2>4 DEF NumberStep
<1>4. F[{}] = 0  BY <1>2 DEF Recurs
<1>5. F = Body(F)
  <2>1. \A t \in SUBSET DOMAIN s : F[t] = Body(F)[t]  BY <1>0, <1>3, <1>4
  <2>. QED  BY <1>0, <1>2, <2>1
<1>6. I = Body(I)
  <2> HIDE DEF Body
  <2>. QED  BY <1>5
<1> HIDE DEF I
<1>7. Alike(F, I, n)
  <2>1. I[{}] = 0  BY <1>6
  <2>2. ASSUME NEW t \in SUBSET (1 .. n), t # {}
        PROVE  I[t] = I[t \ {Max(t)}] * 10 + s[Max(t)] - 48
    BY <1>0, <1>6, <2>2
  <2>. QED  BY <1>3, <1>4, <2>1, <2>2 DEF Alike
<1>8. F[1 .. n] = I[1 .. n]
  <2>1. 1 .. n \in SUBSET (1 .. n)  OBVIOUS
  <2>. QED  BY <1>0, <1>7, <2>1, FoldUnique
<1>. QED  BY <1>0, <1>1, <1>2, <1>8

\* Cutting to 16 bits may wait for the next digit.
LEMMA TimesTen ==
  ASSUME NEW x \in Int, NEW e \in Int
  PROVE  ((x % U16) * 10 + e) % U16 = (x * 10 + e) % U16
BY SMT DEF U16

\* Digit by digit.
LEMMA NumberAppend ==
  /\ Number(<< >>) = 0
  /\ \A s \in Seq(Digits), d \in Digits :
       Number(Append(s, d)) = (Number(s) * 10 + d - 48) % U16
<1>1. \A s : Number(s) = Sum10(s) % U16  BY DEF Number, Sum10
<1>2. Number(<< >>) = 0
  <2>1. << >> \in Seq(Digits) /\ Len(<< >>) = 0 /\ 1 .. 0 = {}  OBVIOUS
  <2>2. PICK F : Recurs(F, NumberStep, 0, << >>) /\ Sum10(<< >>) = F[1 .. Len(<< >>)]
    BY <2>1, SumFold
  <2>3. Sum10(<< >>) = 0  BY <2>1, <2>2 DEF Recurs
  <2>4. \A n \in Nat \ {0} : 0 % n = 0  OBVIOUS
  <2>. QED  BY <1>1, <2>3, <2>4, U16Nat
<1>3. ASSUME NEW s \in Seq(Digits)  PROVE Sum10(s) \in Int
  <2>1. 1 .. Len(s) \in SUBSET (1 .. Len(s))  OBVIOUS
  <2>2. PICK F \in [SUBSET (1 .. Len(s)) -> Int] : Sum10(s) = F[1 .. Len(s)]
    BY SumFold
  <2>. QED  BY <2>1, <2>2
<1>4. ASSUME NEW s \in Seq(Digits), NEW d \in Digits
      PROVE  Number(Append(s, d)) = (Number(s) * 10 + d - 48) % U16
  <2>1. Append(s, d) \in Seq(Digits) /\ Len(Append(s, d)) = Len(s) + 1  OBVIOUS
  <2>2. PICK F : Recurs(F, NumberStep, 0, s) /\ Sum10(s) = F[1 .. Len(s)]
    BY SumFold
  <2>3. PICK G : /\ Recurs(G, NumberStep, 0, Append(s, d))
                 /\ Sum10(Append(s, d)) = G[1 .. Len(s) + 1]
    BY <2>1, SumFold
  <2>4. Sum10(Append(s, d)) = NumberStep[<<Sum10(s), d>>]
    BY <2>2, <2>3, FoldAppend
  <2>5. Sum10(Append(s, d)) = Sum10(s) * 10 + d - 48  BY <1>3, <2>4 DEF NumberStep
  <2>6. d - 48 \in Int /\ Sum10(s) \in Int  BY <1>3 DEF Digits
  <2>7. ((Sum10(s) % U16) * 10 + (d - 48)) % U16 = (Sum10(s) * 10 + (d - 48)) % U16
    BY <2>6, TimesTen
  <2>8. \A x \in Int : x * 10 + (d - 48) = x * 10 + d - 48  BY DEF Digits
  <2>9. Sum10(s) % U16 \in Int
    <3>1. \A n \in Nat \ {0} : \A x \in Int : x % n \in Int  OBVIOUS
    <3>. QED  BY <2>6, <3>1, U16Nat
  <2>. QED  BY <1>1, <2>5, <2>6, <2>7, <2>8, <2>9
<1>. QED  BY <1>2, <1>4

-----------------------------------------------------------------------------
(* The sequence and the parameters read from it.                           *)

\* After ESC [ the parameters are those of the bytes seen, read so far.
SquareInv ==
  esc = "square" =>
    /\ seen # << >>
    /\ Head(seen) = 91 =>
         LET q == Tail(seen) IN
         /\ \A k \in Params : /\ Ranked(Places(q, k)) /\ Fields(q, k) \in Seq(Digits)
                              /\ param[k] = Number(Fields(q, k))
         /\ npar = Slot(Semis(q, Len(q))) /\ npar = Slot(Semis(seen, Len(seen)))

\* After ESC ] P the digits of the colour are.
ColourInv ==
  esc = "nonstd" =>
    /\ ~ paletteMode => seen = <<93>> /\ npar = 0
    /\ paletteMode => /\ Len(seen) = npar + 2 /\ seen[2] = 80
                      /\ \A k \in 1 .. npar : param[k - 1] = Hex(seen[k + 2])

\* And that of the parameters.
ArgInv == seen \in Seq(Bytes) /\ SquareInv /\ ColourInv

\* Where a control code leads.
LEMMA ControlLeads ==
  ASSUME NEW c, NEW pre, ControlCode(c, pre)
  PROVE  /\ esc' = "square" => c = Csi \/ esc = "square"
         /\ esc' = "nonstd" => esc = "nonstd"
         /\ c = Csi => esc' = "square"
         /\ UNCHANGED args
<1>1. esc' = CASE c \in Cancel -> "normal" [] c = Esc -> "esc" [] c = Csi -> "square" [] OTHER -> esc
  BY Zenon DEF ControlCode
<1>2. UNCHANGED args  BY DEF ControlCode
<1>3. Csi \notin Cancel /\ Csi # Esc  BY DEF Csi, Cancel, Esc
<1>. QED  BY <1>1, <1>2, <1>3

\* Outside of sequences: a byte leads to characters and control codes, and [ to
\* no CSI.
LEMMA NormalDoes ==
  ASSUME Types, esc = "normal", NEW b \in Bytes, Feed(b)
  PROVE  \E pre :
           /\ pre = << >> \/ \E x : x.kind = "char" /\ pre = <<x>>
           /\ \/ UNCHANGED esc /\ out' = pre
              \/ \E c, tc, bytes : Take(c, tc, bytes, pre) /\ (b = 91 => tc # Csi)
<1>1. CASE Untranslated(b)
  <2>1. Take(b, Translated(b), <<b>>, << >>)  BY <1>1 DEF Untranslated
  <2>2. b = 91 => Translated(b) # Csi
    <3>1. 128 + (91 % 128) = 219  OBVIOUS
    <3>2. b = 91 => Translated(b) \in {91, 219, 347, 475}  BY <3>1 DEF Translated
    <3>. QED  BY <3>2 DEF Csi
  <2>. QED  BY <2>1, <2>2
<1>2. ASSUME NEW pre, pre = << >> \/ \E x : x.kind = "char" /\ pre = <<x>>, Begin(b, pre)
      PROVE  \/ UNCHANGED esc /\ out' = pre
             \/ \E c, tc, bytes : Take(c, tc, bytes, pre) /\ (b = 91 => tc # Csi)
  <2>1. CASE Lead(b) > 0  BY <1>2, <2>1 DEF Begin
  <2>2. CASE ~ (Lead(b) > 0)
    <3> DEFINE c == IF b < 128 THEN b ELSE Replacement
    <3>1. Take(c, c, <<b>>, pre)  BY <1>2, <2>2, Zenon DEF Begin
    <3>2. b = 91 => c # Csi  BY DEF Csi
    <3> HIDE DEF c
    <3>. QED  BY <3>1, <3>2
  <2>. QED  BY <2>1, <2>2
<1>3. CASE Decoded(b)
  <2>1. CASE need > 0 /\ IsContinuation(b)
    <3>1. Continue(b)  BY <1>3, <2>1, Zenon DEF Decoded
    <3>2. b # 91  BY <2>1 DEF IsContinuation
    <3>3. (UNCHANGED esc /\ out' = << >>) \/ \E c, bytes : Take(c, c, bytes, << >>)
      BY <3>1, Zenon DEF Continue
    <3>. QED  BY <3>2, <3>3, Zenon
  <2>2. CASE ~ (need > 0 /\ IsContinuation(b))
    <3> DEFINE pre == IF need > 0 THEN <<Shown(Replacement, part)>> ELSE << >>
    <3>1. Begin(b, pre)  BY <1>3, <2>2, Zenon DEF Decoded
    <3>2. pre = << >> \/ \E x : x.kind = "char" /\ pre = <<x>>
      <4>1. Shown(Replacement, part).kind = "char"  BY DEF Shown
      <4>. QED  BY <4>1, Zenon
    <3> HIDE DEF pre
    <3>3. \/ UNCHANGED esc /\ out' = pre
          \/ \E c, tc, bytes : Take(c, tc, bytes, pre) /\ (b = 91 => tc # Csi)
      BY <1>2, <3>1, <3>2
    <3>. QED  BY <3>2, <3>3
  <2>. QED  BY <2>1, <2>2
<1>. QED  BY <1>1, <1>3 DEF Feed, InSequence

\* Outside of sequences no colour begins, nor parameters with [.
LEMMA NormalLeads ==
  ASSUME Types, esc = "normal", NEW b \in Bytes, Feed(b)
  PROVE  /\ esc' # "nonstd" /\ (esc' = "square" => b # 91)
         /\ \A i \in DOMAIN out' : out'[i].kind \in {"char", "control"}
<1>1. PICK pre : /\ pre = << >> \/ \E x : x.kind = "char" /\ pre = <<x>>
                 /\ \/ UNCHANGED esc /\ out' = pre
                    \/ \E c, tc, bytes : Take(c, tc, bytes, pre) /\ (b = 91 => tc # Csi)
  BY NormalDoes
<1>2. \A i \in DOMAIN pre : pre[i].kind \in {"char", "control"}
  <2>1. CASE pre = << >>  BY <2>1
  <2>2. ASSUME NEW x, x.kind = "char", pre = <<x>>
        PROVE  \A i \in DOMAIN pre : pre[i].kind \in {"char", "control"}
    <3>1. DOMAIN <<x>> = {1} /\ <<x>>[1] = x  OBVIOUS
    <3>. QED  BY <2>2, <3>1
  <2>. QED  BY <1>1, <2>1, <2>2
<1>3. ASSUME NEW y, y.kind \in {"char", "control"}
      PROVE  \A i \in DOMAIN Append(pre, y) : Append(pre, y)[i].kind \in {"char", "control"}
  <2>1. CASE pre = << >>
    <3>1. Append(<< >>, y) = <<y>>  OBVIOUS
    <3>2. DOMAIN <<y>> = {1} /\ <<y>>[1] = y  OBVIOUS
    <3>. QED  BY <1>3, <2>1, <3>1, <3>2
  <2>2. ASSUME NEW x, x.kind = "char", pre = <<x>>
        PROVE  \A i \in DOMAIN Append(pre, y) : Append(pre, y)[i].kind \in {"char", "control"}
    <3> DEFINE s == Append(<<x>>, y)
    <3>1. DOMAIN s = {1, 2} /\ s[1] = x /\ s[2] = y
      <4>1. <<x>> \in Seq({x, y}) /\ y \in {x, y} /\ Len(<<x>>) = 1 /\ <<x>>[1] = x  OBVIOUS
      <4>. QED  BY <4>1
    <3> HIDE DEF s
    <3>2. \A i \in DOMAIN s : s[i].kind \in {"char", "control"}  BY <1>3, <2>2, <3>1
    <3>. QED  BY <2>2, <3>2 DEF s
  <2>. QED  BY <1>1, <2>1, <2>2
<1>4. CASE UNCHANGED esc /\ out' = pre  BY <1>2, <1>4
<1>5. ASSUME NEW c, NEW tc, NEW bytes, Take(c, tc, bytes, pre), b = 91 => tc # Csi
      PROVE  /\ esc' # "nonstd" /\ (esc' = "square" => b # 91)
             /\ \A i \in DOMAIN out' : out'[i].kind \in {"char", "control"}
  <2>1. \/ out' = pre \/ out' = Append(pre, Shown(tc, bytes)) \/ out' = Append(pre, Act("control", tc))
    BY <1>5, TakeDoes
  <2>2. Shown(tc, bytes).kind = "char" /\ Act("control", tc).kind = "control"  BY DEF Shown, Act
  <2>3. \A i \in DOMAIN out' : out'[i].kind \in {"char", "control"}
    BY <1>2, <1>3, <2>1, <2>2
  <2>4. ControlCode(tc, pre) \/ UNCHANGED esc  BY <1>5, Zenon DEF Take
  <2>5. CASE ControlCode(tc, pre)
    <3>1. /\ esc' = "square" => tc = Csi \/ esc = "square"
          /\ esc' = "nonstd" => esc = "nonstd"
      BY <2>5, ControlLeads
    <3>. QED  BY <1>5, <2>3, <3>1
  <2>. QED  BY <2>3, <2>4, <2>5
<1>. QED  BY <1>1, <1>4, <1>5

\* A control code within a sequence.
LEMMA ControlRead ==
  ASSUME NEW b, InSequence(b), b \in ControlCodes
  PROVE  ControlCode(b, << >>) /\ UNCHANGED npar
<1>1. b # 0  BY DEF ControlCodes, Cancel, Esc, Csi
<1>. QED  BY <1>1, Zenon DEF InSequence

\* What a byte of a sequence begun with ESC [ or CSI does that does not end it.
LEMMA SquareDoes ==
  ASSUME Types, esc = "square", NEW b \in Bytes, Feed(b), esc' = "square", b # Csi
  PROVE  /\ seen' = IF b \in ControlCodes \cup {0, 63} THEN seen ELSE Append(seen, b)
         /\ \/ b \in ControlCodes \cup {0, 63} /\ UNCHANGED <<npar, param>>
            \/ /\ b \in Digits /\ b \notin ControlCodes \cup {0, 63} /\ UNCHANGED npar
               /\ param' = [param EXCEPT ![npar] = (@ * 10 + b - 48) % U16]
            \/ b = 59 /\ b \notin ControlCodes \cup {0, 63} /\ npar' = NextParam /\ UNCHANGED param
<1>1. InSequence(b) /\ seen' = Sequence(b)  BY DEF Feed, Untranslated, Decoded
<1>2. seen' = IF b \in ControlCodes \cup {0, 63} THEN seen ELSE Append(seen, b)
  <2>1. esc' \in {"square", "nonstd"} /\ esc' = esc  OBVIOUS
  <2>. QED  BY <1>1, <2>1, Zenon DEF Sequence
<1>3. CASE b \in ControlCodes
  <2>1. ControlCode(b, << >>) /\ UNCHANGED npar  BY <1>1, <1>3, ControlRead
  <2>2. UNCHANGED <<npar, param>>  BY <2>1, ControlLeads DEF args
  <2>. QED  BY <1>2, <1>3, <2>2
<1>4. CASE b = 0
  <2>1. 0 \notin ControlCodes  BY DEF ControlCodes, Cancel, Esc, Csi
  <2>2. Quiet(esc)  BY <1>1, <1>4, <2>1, Zenon DEF InSequence
  <2>3. UNCHANGED <<npar, param>>  BY <2>2 DEF Quiet, args
  <2>. QED  BY <1>2, <1>4, <2>3
<1>5. CASE b \notin ControlCodes \cup {0}
  <2>1. SquareCode(b)
    <3>1. esc # "esc" /\ esc # "nonstd" /\ esc # "percent" /\ esc # "charset" /\ esc # "hash" /\ esc # "funckey"
      OBVIOUS
    <3>. QED  BY <1>1, <1>5, <3>1, Zenon DEF InSequence
  <2>2. CASE b \in Digits
    <3>1. UNCHANGED npar /\ param' = [param EXCEPT ![npar] = (@ * 10 + b - 48) % U16]
      <4>1. b # 59 /\ b # 63 /\ b # 91 /\ b \notin SquareFinals  BY <2>2 DEF Digits, SquareFinals
      <4>. QED  BY <2>1, <2>2, <4>1, Zenon DEF SquareCode
    <3>2. b # 63  BY <2>2 DEF Digits
    <3>. QED  BY <1>2, <1>5, <2>2, <3>1, <3>2
  <2>3. CASE b = 59
    <3>1. b \notin Digits /\ b # 63 /\ b # 91 /\ b \notin SquareFinals  BY <2>3 DEF Digits, SquareFinals
    <3>2. npar' = NextParam /\ UNCHANGED args  BY <2>1, <2>3, <3>1, Zenon DEF SquareCode
    <3>. QED  BY <1>2, <1>5, <2>3, <3>1, <3>2 DEF args
  <2>4. CASE b = 63
    <3>1. b \notin Digits /\ b # 59 /\ b # 91 /\ b \notin SquareFinals  BY <2>4 DEF Digits, SquareFinals
    <3>2. UNCHANGED <<npar, param>>  BY <2>1, <2>4, <3>1, Zenon DEF SquareCode
    <3>. QED  BY <1>2, <2>4, <3>2
  <2>5. CASE b \notin Digits /\ b # 59 /\ b # 63
    <3>1. Quiet("funckey") \/ SquareFinal(b) \/ Quiet("normal")
      BY <2>1, <2>5, Zenon DEF SquareCode
    <3>2. esc' # "square"  BY <3>1 DEF Quiet, SquareFinal, Go
    <3>. QED  BY <3>2
  <2>. QED  BY <2>2, <2>3, <2>4, <2>5
<1>. QED  BY <1>3, <1>4, <1>5

\* And one of a sequence begun with ESC ].
LEMMA NonstdDoes ==
  ASSUME Types, esc = "nonstd", NEW b \in Bytes, Feed(b), esc' = "nonstd"
  PROVE  /\ seen' = IF b \in ControlCodes \cup {0, 63} THEN seen ELSE Append(seen, b)
         /\ \/ b \in ControlCodes \cup {0, 63} /\ UNCHANGED <<npar, param, paletteMode>>
            \/ /\ b \notin ControlCodes \cup {0, 63} /\ paletteMode /\ npar' = npar + 1
               /\ param' = [param EXCEPT ![npar] = Hex(b)] /\ UNCHANGED paletteMode
            \/ /\ b = 80 /\ b \notin ControlCodes \cup {0, 63} /\ ~ paletteMode /\ npar = 0
               /\ paletteMode' = TRUE /\ UNCHANGED <<npar, param>>
<1>1. InSequence(b) /\ seen' = Sequence(b)  BY DEF Feed, Untranslated, Decoded
<1>2. b # Csi
  <2>1. ASSUME b = Csi PROVE FALSE
    <3>1. b \in ControlCodes  BY <2>1 DEF ControlCodes
    <3>2. ControlCode(b, << >>)  BY <1>1, <3>1, ControlRead
    <3>3. esc' = "square"  BY <2>1, <3>2, ControlLeads
    <3>. QED  BY <3>3
  <2>. QED  BY <2>1
<1>3. seen' = IF b \in ControlCodes \cup {0, 63} THEN seen ELSE Append(seen, b)
  <2>1. esc' \in {"square", "nonstd"} /\ esc' = esc  OBVIOUS
  <2>. QED  BY <1>1, <1>2, <2>1, Zenon DEF Sequence
<1>4. CASE b \in ControlCodes
  <2>1. ControlCode(b, << >>) /\ UNCHANGED npar  BY <1>1, <1>4, ControlRead
  <2>2. UNCHANGED <<npar, param, paletteMode>>  BY <2>1, ControlLeads DEF args
  <2>. QED  BY <1>3, <1>4, <2>2
<1>5. CASE b = 0
  <2>1. 0 \notin ControlCodes  BY DEF ControlCodes, Cancel, Esc, Csi
  <2>2. Quiet(esc)  BY <1>1, <1>5, <2>1, Zenon DEF InSequence
  <2>3. UNCHANGED <<npar, param, paletteMode>>  BY <2>2 DEF Quiet, args
  <2>. QED  BY <1>3, <1>5, <2>3
<1>6. CASE b \notin ControlCodes \cup {0}
  <2>1. NonstdCode(b)
    <3>1. esc # "esc" /\ esc # "square" /\ esc # "percent" /\ esc # "charset" /\ esc # "hash" /\ esc # "funckey"
      OBVIOUS
    <3>. QED  BY <1>1, <1>6, <3>1, Zenon DEF InSequence
  <2> DEFINE hex == Digits \cup (65 .. 70) \cup (97 .. 102)
  <2>2. ~ Quiet("normal")  BY DEF Quiet, Go
  <2>3. CASE b \in hex
    <3>1. b # 63 /\ b # 80 /\ b # 82  BY <2>3 DEF Digits
    <3> HIDE DEF hex
    <3>2. SetPalette(b)  BY <2>1, <2>3, <3>1, Zenon DEF NonstdCode, hex
    <3>3. /\ paletteMode /\ npar' = npar + 1 /\ param' = [param EXCEPT ![npar] = Hex(b)]
          /\ UNCHANGED paletteMode
      BY <2>2, <3>2, Zenon DEF SetPalette
    <3>. QED  BY <1>3, <1>6, <3>1, <3>3
  <2>4. CASE b = 80 /\ ~ (paletteMode \/ npar # 0)
    <3>1. b \notin hex /\ b # 82 /\ b # 63  BY <2>4 DEF Digits
    <3> HIDE DEF hex
    <3>2. paletteMode' = TRUE /\ UNCHANGED <<npar, param>>
      BY <2>1, <2>4, <3>1, ZenonT(40) DEF NonstdCode, hex
    <3>. QED  BY <1>3, <1>6, <2>4, <3>1, <3>2
  <2>5. CASE b = 82
    <3>1. b \notin hex /\ b # 80  BY <2>5 DEF Digits
    <3> HIDE DEF hex
    <3>2. Go("normal")  BY <2>1, <2>5, <3>1, Zenon DEF NonstdCode, hex
    <3>. QED  BY <3>2 DEF Go
  <2>6. b \notin hex /\ b # 82 /\ ~ (b = 80 /\ ~ (paletteMode \/ npar # 0)) => Quiet("normal")
    BY <2>1, Zenon DEF NonstdCode
  <2> HIDE DEF hex
  <2>. QED  BY <2>2, <2>3, <2>4, <2>5, <2>6
<1>. QED  BY <1>4, <1>5, <1>6

\* How such a sequence begins.
LEMMA SequenceBegins ==
  ASSUME ParserInv, NEW b \in Bytes, Feed(b), esc' \in {"square", "nonstd"}, esc' # esc \/ b = Csi
  PROVE  /\ seen' = <<b>>
         /\ (b = 91 \/ esc' = "nonstd") =>
              /\ npar' = 0 /\ param' = [i \in Params |-> 0] /\ paletteMode' = FALSE
              /\ esc' = "nonstd" => b = 93
<1>1. seen' = <<b>>  BY Zenon DEF Feed, Sequence
<1>2. CASE esc = "normal"
  <2>1. Types  BY DEF ParserInv
  <2>2. esc' # "nonstd" /\ (esc' = "square" => b # 91)  BY <1>2, <2>1, NormalLeads
  <2>. QED  BY <1>1, <2>2
<1>3. CASE esc # "normal" /\ (b = 91 \/ esc' = "nonstd")
  <2>1. InSequence(b)  BY <1>3 DEF Feed, Untranslated, Decoded
  <2>2. b \in ControlCodes => esc' = esc
    <3>1. ASSUME b \in ControlCodes  PROVE esc' = esc
      <4>1. ControlCode(b, << >>)  BY <2>1, <3>1, ControlRead
      <4>2. esc' = "nonstd" => esc = "nonstd"  BY <4>1, ControlLeads
      <4>3. b # 91  BY <3>1 DEF ControlCodes, Cancel, Esc, Csi
      <4>. QED  BY <1>3, <4>2, <4>3
    <3>. QED  BY <3>1
  <2>3. b # Csi
    <3>1. ASSUME b = Csi PROVE FALSE
      <4>1. b \in ControlCodes  BY <3>1 DEF ControlCodes
      <4>2. ControlCode(b, << >>)  BY <2>1, <4>1, ControlRead
      <4>3. esc' = "square"  BY <3>1, <4>2, ControlLeads
      <4>4. b # 91  BY <3>1 DEF Csi
      <4>. QED  BY <1>3, <4>3, <4>4
    <3>. QED  BY <3>1
  <2>4. b \notin ControlCodes /\ esc' # esc  BY <1>3, <2>2, <2>3
  <2>5. ~ Quiet(esc) /\ ~ Quiet("normal") /\ ~ Go("normal") /\ ~ Quiet("funckey") /\ ~ Quiet("percent")
        /\ ~ Quiet("hash") /\ ~ Go("charset")
    BY <2>4 DEF Quiet, Go
  <2>6. b # 0  BY <2>1, <2>4, <2>5, Zenon DEF InSequence
  <2>7. (CASE esc = "esc" -> EscCode(b)
           [] esc = "square" -> SquareCode(b)
           [] esc = "nonstd" -> NonstdCode(b)
           [] esc = "percent" -> PercentCode(b)
           [] esc = "charset" -> CharsetCode(b)
           [] esc = "hash" -> HashCode(b)
           [] esc = "funckey" -> Quiet("normal"))
    BY <2>1, <2>4, <2>6, Zenon DEF InSequence
  <2>8. ~ PercentCode(b) /\ ~ CharsetCode(b) /\ ~ HashCode(b)
    BY <2>5, Zenon DEF PercentCode, CharsetCode, HashCode
  <2>9. esc = "square" => ~ SquareCode(b)
    <3>1. ~ SquareFinal(b)  BY <2>5, Zenon DEF SquareFinal
    <3>. QED  BY <2>4, <2>5, <3>1, Zenon DEF SquareCode
  <2>10. esc = "nonstd" => ~ NonstdCode(b)
    <3>1. ~ SetPalette(b)  BY <2>4, <2>5, Zenon DEF SetPalette
    <3>. QED  BY <2>4, <2>5, <3>1, Zenon DEF NonstdCode
  <2>11. esc \in States  BY DEF ParserInv, Types
  <2>12. esc = "esc"
    <3>1. esc # "square"  BY <2>7, <2>9, Zenon
    <3>2. esc # "nonstd"  BY <2>7, <2>10, Zenon
    <3>3. esc # "percent"  BY <2>7, <2>8, Zenon
    <3>4. esc # "charset"  BY <2>7, <2>8, Zenon
    <3>5. esc # "hash"  BY <2>7, <2>8, Zenon
    <3>6. esc # "funckey"  BY <2>5, <2>7, Zenon
    <3>. QED  BY <1>3, <2>11, <3>1, <3>2, <3>3, <3>4, <3>5, <3>6 DEF States
  <2>13. EscCode(b)  BY <2>7, <2>12, Zenon
  <2>14. (b = 91 /\ ClearParam("square", b)) \/ (b = 93 /\ ClearParam("nonstd", b))
    <3>1. ~ Reset  BY <2>5, Zenon DEF Reset
    <3>2. b = 91 \/ b = 93  BY <2>5, <2>13, <3>1, Zenon DEF EscCode
    <3>3. b \notin {37, 35, 40, 41, 99} /\ b \notin EscFinals  BY <3>2 DEF EscFinals
    <3>4. b # 37 /\ b # 35 /\ b \notin {40, 41} /\ b # 99 /\ b \notin EscFinals \ {99}  BY <3>3
    <3>5. b = 91 => ClearParam("square", b)
      <4>1. b = 91 => b # 93  OBVIOUS
      <4>. QED  BY <2>13, <3>4, <4>1, Zenon DEF EscCode
    <3>6. b = 93 => ClearParam("nonstd", b)
      <4>1. b = 93 => b # 91  OBVIOUS
      <4>. QED  BY <2>13, <3>4, <4>1, Zenon DEF EscCode
    <3>. QED  BY <3>2, <3>5, <3>6
  <2>15. /\ npar' = 0 /\ param' = [i \in Params |-> 0] /\ paletteMode' = FALSE
         /\ esc' = "nonstd" => b = 93
    BY <2>14 DEF ClearParam, Go
  <2>. QED  BY <1>1, <2>15
<1>. QED  BY <1>1, <1>2, <1>3

\* A field's parameter, and the next one's: those too many share the last.
LEMMA SlotIndex ==
  ASSUME NEW n \in Nat
  PROVE  /\ Slot(n) \in Params /\ 0 \in Params /\ Slot(0) = 0
         /\ Slot(n + 1) = IF Slot(n) < NPar - 1 THEN Slot(n) + 1 ELSE Slot(n)
BY NParAssumption DEF Slot, Params

\* Nothing is read yet.
LEMMA ArgInit == Init => ArgInv
<1>1. Init => esc = "normal" /\ seen = << >>  BY DEF Init
<1>. QED  BY <1>1 DEF ArgInv, SquareInv, ColourInv

\* A sequence that begins has no parameters yet.
LEMMA BeginsArg ==
  ASSUME ParserInv, NEW b \in Bytes, Feed(b), esc' \in {"square", "nonstd"}, esc' # esc \/ b = Csi
  PROVE  ArgInv'
<1>1. /\ seen' = <<b>>
      /\ (b = 91 \/ esc' = "nonstd") =>
           /\ npar' = 0 /\ param' = [i \in Params |-> 0] /\ paletteMode' = FALSE
           /\ esc' = "nonstd" => b = 93
  BY SequenceBegins
<1>2. /\ <<b>> \in Seq(Bytes) /\ Len(<<b>>) = 1 /\ Head(<<b>>) = b /\ Tail(<<b>>) = << >>
      /\ Len(<< >>) = 0 /\ <<b>> # << >> /\ << >> \in Seq(Bytes) /\ << >> \in Seq(Digits)
      /\ Append(<< >>, b) = <<b>>
  OBVIOUS
<1>3. SquareInv'
  <2>1. CASE b = 91 /\ esc' = "square"
    <3>1. npar' = 0 /\ param' = [i \in Params |-> 0]  BY <1>1, <2>1
    <3>2. \A k \in Params : /\ Ranked(Places(<< >>, k)) /\ Fields(<< >>, k) \in Seq(Digits)
                            /\ param'[k] = Number(Fields(<< >>, k))
      BY <1>2, <3>1, FieldsNone, NumberAppend
    <3>3. 0 = Slot(Semis(<< >>, 0))
      <4>1. Semis(<< >>, 0) = 0  BY FieldsNone
      <4>. QED  BY <4>1, SlotIndex
    <3>4. Semis(<<b>>, 1) = 0
      <4>1. Semis(Append(<< >>, b), Len(<< >>) + 1)
              = Semis(<< >>, Len(<< >>)) + (IF b = 59 THEN 1 ELSE 0)
        BY <1>2, SemisAppend
      <4>2. Semis(<< >>, 0) = 0  BY FieldsNone
      <4>3. 0 + 1 = 1 /\ 0 + 0 = 0  OBVIOUS
      <4>. QED  BY <1>2, <2>1, <4>1, <4>2, <4>3
    <3>5. 0 = Slot(Semis(<<b>>, 1))  BY <3>4, SlotIndex
    <3> DEFINE s == <<b>>
    <3>6. seen' = s /\ s # << >> /\ Tail(s) = << >> /\ Len(s) = 1  BY <1>1, <1>2
    <3>7. 0 = Slot(Semis(s, 1))  BY <3>5
    <3> HIDE DEF s
    <3>. QED  BY <1>2, <3>1, <3>2, <3>3, <3>6, <3>7, ZenonT(40) DEF SquareInv
  <2>2. CASE b # 91
    <3>1. seen' # << >> /\ Head(seen') # 91  BY <1>1, <1>2, <2>2
    <3>. QED  BY <3>1 DEF SquareInv
  <2>3. CASE esc' # "square"  BY <2>3 DEF SquareInv
  <2>. QED  BY <2>1, <2>2, <2>3
<1>4. ColourInv'  BY <1>1 DEF ColourInv
<1>. QED  BY <1>1, <1>2, <1>3, <1>4 DEF ArgInv

\* A digit is one of its field and of no other; a semicolon begins the next field.
LEMMA DigitCounts ==
  ASSUME NEW q \in Seq(Bytes), NEW b \in Bytes, b \in Digits \/ b = 59, Types,
         \A k \in Params : /\ Ranked(Places(q, k)) /\ Fields(q, k) \in Seq(Digits)
                           /\ param[k] = Number(Fields(q, k)),
         npar = Slot(Semis(q, Len(q))),
         \/ /\ b \in Digits /\ UNCHANGED npar
            /\ param' = [param EXCEPT ![npar] = (@ * 10 + b - 48) % U16]
         \/ b = 59 /\ npar' = NextParam /\ UNCHANGED param
  PROVE  \A k \in Params : /\ Ranked(Places(Append(q, b), k)) /\ Fields(Append(q, b), k) \in Seq(Digits)
                           /\ param'[k] = Number(Fields(Append(q, b), k))
<1> DEFINE r == Append(q, b)
<1> SUFFICES ASSUME NEW k \in Params
             PROVE  /\ Ranked(Places(r, k)) /\ Fields(r, k) \in Seq(Digits)
                    /\ param'[k] = Number(Fields(r, k))
  OBVIOUS
<1>1. Ranked(Places(q, k)) /\ Fields(q, k) \in Seq(Digits) /\ param[k] = Number(Fields(q, k))
  OBVIOUS
<1>2. npar \in Params /\ param \in [Params -> 0 .. U16 - 1]  BY DEF Types, ArgTypes
<1>3. CASE b = 59 \/ npar # k
  <2>1. Fields(r, k) = Fields(q, k)  BY <1>1, <1>3, FieldKept
  <2>2. Places(r, k) = Places(q, k)  BY <1>3, PlacesAppend
  <2>3. param'[k] = param[k]
    <3>1. CASE b = 59
      <4>1. b \notin Digits  BY <3>1 DEF Digits
      <4>. QED  BY <4>1
    <3>2. CASE npar # k  BY <1>2, <3>2
    <3>. QED  BY <1>3, <3>1, <3>2
  <2> HIDE DEF r
  <2>. QED  BY <1>1, <2>1, <2>2, <2>3
<1>4. CASE b # 59 /\ npar = k
  <2>1. b \in Digits  BY <1>4
  <2>2. Fields(r, k) = Append(Fields(q, k), b) /\ Ranked(Places(r, k))
    <3>1. b # 59 /\ Slot(Semis(q, Len(q))) = k  BY <1>4
    <3> HIDE DEF r
    <3>. QED  BY <1>1, <2>1, <3>1, FieldGrows DEF r
  <2>3. Number(Append(Fields(q, k), b)) = (Number(Fields(q, k)) * 10 + b - 48) % U16
    BY <1>1, <2>1, NumberAppend
  <2>4. param'[k] = (param[k] * 10 + b - 48) % U16
    <3>1. param' = [param EXCEPT ![npar] = (@ * 10 + b - 48) % U16]  BY <1>4
    <3>. QED  BY <1>2, <1>4, <3>1
  <2>5. Append(Fields(q, k), b) \in Seq(Digits)  BY <1>1, <2>1
  <2> HIDE DEF r
  <2>. QED  BY <1>1, <2>2, <2>3, <2>4, <2>5
<1>. QED  BY <1>3, <1>4

\* The parameter that counts after another byte of the sequence.
LEMMA SlotCounts ==
  ASSUME NEW q \in Seq(Bytes), NEW b \in Bytes, npar = Slot(Semis(q, Len(q))),
         (b # 59 /\ UNCHANGED npar) \/ (b = 59 /\ npar' = NextParam)
  PROVE  npar' = Slot(Semis(Append(q, b), Len(Append(q, b))))
<1> DEFINE n == Semis(q, Len(q))
<1>1. Semis(Append(q, b), Len(q) + 1) = n + (IF b = 59 THEN 1 ELSE 0) /\ n \in Nat  BY SemisAppend
<1>2. Len(Append(q, b)) = Len(q) + 1  OBVIOUS
<1> HIDE DEF n
<1>3. Slot(n + 1) = IF Slot(n) < NPar - 1 THEN Slot(n) + 1 ELSE Slot(n)  BY <1>1, SlotIndex
<1>4. npar = Slot(n)  BY DEF n
<1>5. CASE b # 59
  <2>1. n + 0 = n  BY <1>1
  <2>2. Semis(Append(q, b), Len(q) + 1) = n  BY <1>1, <1>5, <2>1
  <2>. QED  BY <1>2, <1>4, <1>5, <2>2
<1>6. CASE b = 59
  <2>1. Semis(Append(q, b), Len(q) + 1) = n + 1  BY <1>1, <1>6
  <2>2. npar' = IF npar < NPar - 1 THEN npar + 1 ELSE npar  BY <1>6 DEF NextParam
  <2>. QED  BY <1>2, <1>3, <1>4, <2>1, <2>2
<1>. QED  BY <1>5, <1>6

\* A byte of a sequence begun with ESC [ goes to its field's parameter.
LEMMA SquareArg ==
  ASSUME ParserInv, ArgInv, esc = "square", NEW b \in Bytes, Feed(b), esc' = "square", b # Csi
  PROVE  ArgInv'
<1>0. Types  BY DEF ParserInv
<1>1. /\ seen' = IF b \in ControlCodes \cup {0, 63} THEN seen ELSE Append(seen, b)
      /\ \/ b \in ControlCodes \cup {0, 63} /\ UNCHANGED <<npar, param>>
         \/ /\ b \in Digits /\ b \notin ControlCodes \cup {0, 63} /\ UNCHANGED npar
            /\ param' = [param EXCEPT ![npar] = (@ * 10 + b - 48) % U16]
         \/ b = 59 /\ b \notin ControlCodes \cup {0, 63} /\ npar' = NextParam /\ UNCHANGED param
  BY <1>0, SquareDoes
<1>2. seen \in Seq(Bytes) /\ seen # << >>  BY DEF ArgInv, SquareInv
<1>3. ColourInv'  BY DEF ColourInv
<1>4. CASE b \in ControlCodes \cup {0, 63}
  <2>1. UNCHANGED <<seen, npar, param, esc>>  BY <1>1, <1>4
  <2>2. SquareInv'  BY <2>1 DEF ArgInv, SquareInv
  <2>. QED  BY <1>2, <1>3, <2>1, <2>2 DEF ArgInv
<1>5. CASE b \notin ControlCodes \cup {0, 63}
  <2> DEFINE q == Tail(seen)
  <2>1. seen' = Append(seen, b)  BY <1>1, <1>5
  <2>2. /\ q \in Seq(Bytes) /\ Head(seen') = Head(seen) /\ Tail(seen') = Append(q, b)
        /\ seen' \in Seq(Bytes) /\ seen' # << >>
    BY <1>2, <2>1
  <2> HIDE DEF q
  <2>3. \/ /\ b \in Digits /\ UNCHANGED npar
           /\ param' = [param EXCEPT ![npar] = (@ * 10 + b - 48) % U16]
        \/ b = 59 /\ npar' = NextParam /\ UNCHANGED param
    BY <1>1, <1>5
  <2>4. b \in Digits => b # 59  BY DEF Digits
  <2>5. ASSUME Head(seen) = 91
        PROVE  /\ \A k \in Params : /\ Ranked(Places(Append(q, b), k))
                                    /\ Fields(Append(q, b), k) \in Seq(Digits)
                                    /\ param'[k] = Number(Fields(Append(q, b), k))
               /\ npar' = Slot(Semis(Append(q, b), Len(Append(q, b))))
               /\ npar' = Slot(Semis(Append(seen, b), Len(Append(seen, b))))
    <3>1. /\ \A k \in Params : /\ Ranked(Places(q, k)) /\ Fields(q, k) \in Seq(Digits)
                               /\ param[k] = Number(Fields(q, k))
          /\ npar = Slot(Semis(q, Len(q))) /\ npar = Slot(Semis(seen, Len(seen)))
      BY <2>5 DEF ArgInv, SquareInv, q
    <3>2. (b # 59 /\ UNCHANGED npar) \/ (b = 59 /\ npar' = NextParam)  BY <2>3, <2>4
    <3>3. npar' = Slot(Semis(Append(q, b), Len(Append(q, b))))
      BY <2>2, <3>1, <3>2, SlotCounts
    <3>4. npar' = Slot(Semis(Append(seen, b), Len(Append(seen, b))))
      BY <1>2, <3>1, <3>2, SlotCounts
    <3>5. b \in Digits \/ b = 59  BY <2>3
    <3>6. \A k \in Params : /\ Ranked(Places(Append(q, b), k))
                            /\ Fields(Append(q, b), k) \in Seq(Digits)
                            /\ param'[k] = Number(Fields(Append(q, b), k))
      BY <1>0, <2>2, <2>3, <3>1, <3>5, DigitCounts, ZenonT(40)
    <3>. QED  BY <3>3, <3>4, <3>6
  <2>6. SquareInv'  BY <2>1, <2>2, <2>5, Zenon DEF SquareInv
  <2>. QED  BY <1>3, <2>2, <2>6 DEF ArgInv
<1>. QED  BY <1>4, <1>5

\* A digit of a colour goes to its place.
LEMMA ColourArg ==
  ASSUME ParserInv, ArgInv, esc = "nonstd", NEW b \in Bytes, Feed(b), esc' = "nonstd"
  PROVE  ArgInv'
<1>0. Types /\ npar \in Nat /\ npar \in Params /\ param \in [Params -> 0 .. U16 - 1]
      /\ paletteMode \in BOOLEAN
  BY NParAssumption DEF ParserInv, Types, ArgTypes, Params
<1>1. /\ seen' = IF b \in ControlCodes \cup {0, 63} THEN seen ELSE Append(seen, b)
      /\ \/ b \in ControlCodes \cup {0, 63} /\ UNCHANGED <<npar, param, paletteMode>>
         \/ /\ b \notin ControlCodes \cup {0, 63} /\ paletteMode /\ npar' = npar + 1
            /\ param' = [param EXCEPT ![npar] = Hex(b)] /\ UNCHANGED paletteMode
         \/ /\ b = 80 /\ b \notin ControlCodes \cup {0, 63} /\ ~ paletteMode /\ npar = 0
            /\ paletteMode' = TRUE /\ UNCHANGED <<npar, param>>
  BY <1>0, NonstdDoes
<1>2. seen \in Seq(Bytes) /\ ColourInv  BY DEF ArgInv
<1>3. SquareInv'  BY DEF SquareInv
<1>4. CASE b \in ControlCodes \cup {0, 63}
  <2>1. UNCHANGED <<seen, npar, param, paletteMode>>  BY <1>1, <1>4
  <2>2. ColourInv'  BY <1>2, <2>1 DEF ColourInv
  <2>. QED  BY <1>2, <1>3, <2>1, <2>2 DEF ArgInv
<1>5. CASE /\ b \notin ControlCodes \cup {0, 63} /\ paletteMode /\ npar' = npar + 1
           /\ param' = [param EXCEPT ![npar] = Hex(b)] /\ UNCHANGED paletteMode
  <2>1. /\ Len(seen) = npar + 2 /\ seen[2] = 80
        /\ \A k \in 1 .. npar : param[k - 1] = Hex(seen[k + 2])
    BY <1>2, <1>5 DEF ColourInv
  <2>2. seen' = Append(seen, b)  BY <1>1, <1>5
  <2>3. /\ seen' \in Seq(Bytes) /\ Len(seen') = npar + 3 /\ seen'[npar + 3] = b
        /\ \A i \in 1 .. npar + 2 : seen'[i] = seen[i]
    BY <1>0, <1>2, <2>1, <2>2
  <2>4. ASSUME NEW k \in 1 .. npar + 1  PROVE param'[k - 1] = Hex(seen'[k + 2])
    <3>1. CASE k = npar + 1
      <4>1. k - 1 = npar /\ k + 2 = npar + 3  BY <1>0, <3>1
      <4>. QED  BY <1>0, <1>5, <2>3, <4>1
    <3>2. CASE k # npar + 1
      <4>1. k \in 1 .. npar /\ k - 1 # npar /\ k + 2 \in 1 .. npar + 2  BY <1>0, <3>2
      <4>2. k - 1 \in Params  BY <1>0, <4>1, NParAssumption DEF Params
      <4>. QED  BY <1>0, <1>5, <2>1, <2>3, <4>1, <4>2
    <3>. QED  BY <3>1, <3>2
  <2>5. Len(seen') = npar' + 2 /\ seen'[2] = 80
    <3>1. 2 \in 1 .. npar + 2 /\ npar + 1 + 2 = npar + 3  BY <1>0
    <3>. QED  BY <1>5, <2>1, <2>3, <3>1
  <2>6. ColourInv'  BY <1>5, <2>4, <2>5 DEF ColourInv
  <2>. QED  BY <1>3, <2>3, <2>6 DEF ArgInv
<1>6. CASE /\ b = 80 /\ b \notin ControlCodes \cup {0, 63} /\ ~ paletteMode /\ npar = 0
           /\ paletteMode' = TRUE /\ UNCHANGED <<npar, param>>
  <2>1. seen' = Append(<<93>>, 80) /\ seen = <<93>>  BY <1>1, <1>2, <1>6 DEF ColourInv
  <2>2. Len(Append(<<93>>, 80)) = 2 /\ Append(<<93>>, 80)[2] = 80  OBVIOUS
  <2>3. seen' \in Seq(Bytes)  BY <1>1, <1>2, <1>6
  <2>4. ColourInv'
    <3>1. Len(seen') = npar' + 2 /\ seen'[2] = 80  BY <1>6, <2>1, <2>2
    <3>2. 1 .. npar' = {}  BY <1>6
    <3>. QED  BY <1>6, <3>1, <3>2 DEF ColourInv
  <2>. QED  BY <1>3, <2>3, <2>4 DEF ArgInv
<1>. QED  BY <1>1, <1>4, <1>5, <1>6

\* Every step keeps the parameters those of the bytes seen.
LEMMA ArgStep ==
  ASSUME ParserInv, ArgInv, [Next]_vars
  PROVE  ArgInv'
<1>1. CASE UNCHANGED vars
  BY <1>1 DEF vars, args, ArgInv, SquareInv, ColourInv
<1>2. ASSUME NEW b \in Bytes, Feed(b)  PROVE ArgInv'
  <2>1. CASE esc' \notin {"square", "nonstd"}
    <3>1. seen' = << >>  BY <1>2, <2>1, Zenon DEF Feed, Sequence
    <3>2. << >> \in Seq(Bytes)  OBVIOUS
    <3>. QED  BY <2>1, <3>1, <3>2 DEF ArgInv, SquareInv, ColourInv
  <2>2. CASE esc' \in {"square", "nonstd"} /\ (esc' # esc \/ b = Csi)
    BY <1>2, <2>2, BeginsArg
  <2>3. CASE esc' = "square" /\ esc = "square" /\ b # Csi  BY <1>2, <2>3, SquareArg
  <2>4. CASE esc' = "nonstd" /\ esc = "nonstd"  BY <1>2, <2>4, ColourArg
  <2>. QED  BY <2>1, <2>2, <2>3, <2>4
<1>. QED  BY <1>1, <1>2 DEF Next

-----------------------------------------------------------------------------
(* What an action is given.                                                *)

\* An action is one of a sequence begun with ESC [ or CSI, or sets a colour.
LEMMA OutSays ==
  ASSUME ParserInv, NEW b \in Bytes, Feed(b), NEW i \in DOMAIN out'
  PROVE  /\ out'[i].kind = "square" => esc = "square"
         /\ out'[i].kind = "palette" => Coloured(out'[i].code) /\ out'[i].code \in Bytes
<1>1. CASE esc = "normal"
  <2>1. out'[i].kind \in {"char", "control"}  BY <1>1, NormalLeads DEF ParserInv
  <2>. QED  BY <2>1
<1>2. CASE esc # "normal"
  <2>1. InSequence(b)  BY <1>2 DEF Feed, Untranslated, Decoded
  <2>2. CASE Kept
    <3>1. CASE out' = << >>  BY <3>1
    <3>2. ASSUME NEW k \in Kinds, NEW c \in Bytes, out' = <<Act(k, c)>>,
                 k = "square" => esc = "square", k = "palette" => Coloured(c)
          PROVE  /\ out'[i].kind = "square" => esc = "square"
                 /\ out'[i].kind = "palette" => Coloured(out'[i].code) /\ out'[i].code \in Bytes
      <4>1. DOMAIN <<Act(k, c)>> = {1} /\ <<Act(k, c)>>[1] = Act(k, c)  OBVIOUS
      <4>2. Act(k, c).kind = k /\ Act(k, c).code = c  BY DEF Act
      <4>3. out'[i] = Act(k, c)  BY <3>2, <4>1
      <4>4. out'[i].kind = k /\ out'[i].code = c  BY <4>2, <4>3
      <4>. QED  BY <3>2, <4>4, Zenon
    <3>. QED  BY <2>2, <3>1, <3>2, Zenon DEF Kept, Led
  <2>3. CASE ControlCode(b, << >>) /\ UNCHANGED npar
    <3>1. out' = << >> \/ out' = Append(<< >>, Act("control", b))
      BY <2>3, Zenon DEF ControlCode
    <3>2. Append(<< >>, Act("control", b)) = <<Act("control", b)>>  OBVIOUS
    <3>3. DOMAIN <<Act("control", b)>> = {1} /\ <<Act("control", b)>>[1] = Act("control", b)  OBVIOUS
    <3>4. Act("control", b).kind = "control"  BY DEF Act
    <3>. QED  BY <3>1, <3>2, <3>3, <3>4
  <2>. QED  BY <2>1, <2>2, <2>3, InSequenceDoes
<1>. QED  BY <1>1, <1>2

\* At an action of ESC [ the parameters are those written.
LEMMA SquareAsWritten ==
  ASSUME ArgInv, esc = "square", Head(seen) = 91
  PROVE  /\ \A k \in Params : param[k] = Number(Fields(Tail(seen), k))
         /\ npar = LET n == Cardinality({j \in DOMAIN seen : seen[j] = 59})
                   IN  IF n < NPar THEN n ELSE NPar - 1
<1>1. /\ \A k \in Params : param[k] = Number(Fields(Tail(seen), k))
      /\ npar = Slot(Semis(seen, Len(seen))) /\ seen \in Seq(Bytes)
  BY DEF ArgInv, SquareInv
<1>2. DOMAIN seen = 1 .. Len(seen)  BY <1>1
<1>3. Semis(seen, Len(seen)) = Cardinality({j \in DOMAIN seen : seen[j] = 59})
  BY <1>2 DEF Semis
<1>. QED  BY <1>1, <1>3, Zenon DEF Slot

\* At the seventh digit of a colour the digits are those written.
LEMMA ColourAsWritten ==
  ASSUME ParserInv, ArgInv, NEW c \in Bytes, Coloured(c)
  PROVE  /\ seen[2] = 80 /\ Len(seen) = PaletteLen + 1
         /\ \A k \in 1 .. PaletteLen : param'[k - 1] = Hex(Append(seen, c)[k + 2])
<1>0. npar \in Nat /\ npar \in Params /\ param \in [Params -> 0 .. U16 - 1] /\ seen \in Seq(Bytes)
      /\ PaletteLen = npar + 1
  <2>1. npar \in Params /\ param \in [Params -> 0 .. U16 - 1]  BY DEF ParserInv, Types, ArgTypes
  <2>2. npar + 1 = PaletteLen /\ seen \in Seq(Bytes)  BY DEF Coloured, ArgInv
  <2>. QED  BY <2>1, <2>2, NParAssumption DEF Params
<1>1. /\ Len(seen) = npar + 2 /\ seen[2] = 80
      /\ \A k \in 1 .. npar : param[k - 1] = Hex(seen[k + 2])
  BY DEF ArgInv, ColourInv, Coloured
<1>2. param' = [param EXCEPT ![npar] = Hex(c)]  BY DEF Coloured
<1> DEFINE s == Append(seen, c)
<1>3. s[npar + 3] = c /\ \A i \in 1 .. npar + 2 : s[i] = seen[i]  BY <1>0, <1>1
<1> HIDE DEF s
<1>4. ASSUME NEW k \in 1 .. npar + 1  PROVE param'[k - 1] = Hex(s[k + 2])
  <2>1. CASE k = npar + 1
    <3>1. k - 1 = npar /\ k + 2 = npar + 3  BY <1>0, <2>1
    <3>. QED  BY <1>0, <1>2, <1>3, <3>1
  <2>2. CASE k # npar + 1
    <3>1. k \in 1 .. npar /\ k - 1 # npar /\ k + 2 \in 1 .. npar + 2  BY <1>0, <2>2
    <3>2. k - 1 \in Params  BY <1>0, <3>1, NParAssumption DEF Params
    <3>. QED  BY <1>0, <1>1, <1>2, <1>3, <3>1, <3>2
  <2>. QED  BY <2>1, <2>2
<1>5. Len(seen) = PaletteLen + 1  BY <1>0, <1>1
<1>. QED  BY <1>0, <1>1, <1>4, <1>5 DEF s

\* An action of ESC [ gets the parameters written after it, a colour its digits.
THEOREM ArgumentsAsWrittenAlways == Spec => ArgumentsAsWritten
<1> DEFINE Given(i) ==
      /\ out'[i].kind = "square" /\ Head(seen) = 91 =>
           /\ \A k \in Params : param[k] = Number(Fields(Tail(seen), k))
           /\ npar = LET n == Cardinality({j \in DOMAIN seen : seen[j] = 59})
                     IN  IF n < NPar THEN n ELSE NPar - 1
      /\ out'[i].kind = "palette" =>
           /\ seen[2] = 80 /\ Len(seen) = PaletteLen + 1
           /\ \A k \in 1 .. PaletteLen :
                param'[k - 1] = Hex(Append(seen, out'[i].code)[k + 2])
<1> DEFINE AllGiven == \A i \in DOMAIN out' : Given(i)
<1>1. ASSUME ParserInv, ArgInv, NEW b \in Bytes, Feed(b)  PROVE AllGiven
  <2> SUFFICES ASSUME NEW i \in DOMAIN out'  PROVE Given(i)
    OBVIOUS
  <2>1. /\ out'[i].kind = "square" => esc = "square"
        /\ out'[i].kind = "palette" => Coloured(out'[i].code) /\ out'[i].code \in Bytes
    BY <1>1, OutSays
  <2>. QED  BY <1>1, <2>1, SquareAsWritten, ColourAsWritten, Zenon
<1>2. ParserInv /\ ArgInv /\ [Next]_vars => [AllGiven]_vars
  BY <1>1 DEF Next
<1> HIDE DEF AllGiven
<1>3. Spec => [][AllGiven]_vars
  <2>1. ParserInv /\ ArgInv /\ [Next]_vars => ParserInv' /\ ArgInv'
    BY ParserStep, ArgStep
  <2>. QED  BY <1>2, <2>1, ParserInit, ArgInit, PTL DEF Spec
<1>. QED  BY <1>3 DEF AllGiven, ArgumentsAsWritten
=============================================================================
