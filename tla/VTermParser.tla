----------------------------- MODULE VTermParser -----------------------------
(***************************************************************************)
(* What VTerm::input makes of the bytes a program writes: characters, after *)
(* UTF-8 decoding, and the actions of control codes and escape sequences    *)
(* with their parameters (control_sequences, escape_sequences).            *)
(*                                                                         *)
(* An action is named by the state and the byte that lead to it; what it    *)
(* does to the screen is the subject of Scroll, what it does to the parser  *)
(* is here.  Of the four character maps it matters only whether they have   *)
(* glyphs for the control codes (IbmpcMap, UserMap) or not.                *)
(***************************************************************************)
EXTENDS Integers, Sequences, FiniteSets, SequencesExt

CONSTANTS
  Bytes,       \* the bytes programs write
  NPar,        \* NPAR
  PaletteLen,  \* hexadecimal digits of ESC ] P
  MaxSeen,     \* bound: parameter bytes of a sequence
  MaxParam,    \* bound: a parameter that gets another digit is smaller
  Unwritten    \* what memory holds for save_cursor's variables before it

ASSUME BytesAssumption == Bytes \subseteq 0 .. 255
ASSUME NParAssumption == NPar \in Nat /\ PaletteLen \in Nat \ {0} /\ PaletteLen < NPar
ASSUME UnwrittenAssumption ==
  Unwritten \subseteq [g0 : {"text", "glyphs"}, g1 : {"text", "glyphs"}, g0Active : BOOLEAN]
ASSUME BoundsAssumption == MaxSeen \in Nat /\ MaxParam \in Nat

VARIABLES
  esc,         \* esc_state
  need,        \* utf8_count
  char,        \* cur_char while a character is incomplete
  npar, param, qMode, paletteMode,
  utf8, displayCtrl, toggleMeta,
  charset, g0, g1,         \* "text" or "glyphs"
  g0Active, g0Current, saved,
  part,        \* the bytes of the incomplete character
  seen,        \* the sequence so far: what began it, its digits and semicolons
  out          \* what the last byte led to

decoder == <<need, char, part>>
args == <<param, qMode, paletteMode>>
modes == <<utf8, displayCtrl, toggleMeta>>
sets == <<charset, g0, g1, g0Active, g0Current, saved>>
vars == <<esc, decoder, npar, args, modes, sets, seen, out>>

U16 == 65536
Replacement == 65533
Esc == 27
Csi == 155
Cancel == {24, 26}

Digits == 48 .. 57
Params == 0 .. NPar - 1

\* Bytes that end a sequence begun with ESC [ and the ones that end ESC itself.
SquareFinals == (64 .. 72) \cup {74, 75, 76, 77, 80, 88, 93, 96, 97, 117, 125}
                \cup (99 .. 104) \cup (108 .. 110) \cup (113 .. 115)
EscFinals == {55, 56, 61, 62, 68, 69, 72, 77, 90, 99}

\* reset; restore_cursor may come before any save_cursor, when s_g0_charset and
\* its like were never written.  g0_is_current is not either, but it is not read
\* before it is.
Init ==
  /\ esc = "normal" /\ need = 0 /\ char = 0 /\ part = << >>
  /\ npar = 0 /\ param = [i \in Params |-> 0] /\ qMode = FALSE /\ paletteMode = FALSE
  /\ utf8 = TRUE /\ displayCtrl = FALSE /\ toggleMeta = FALSE
  /\ charset = "text" /\ g0 = "text" /\ g1 = "text" /\ g0Active = TRUE
  /\ g0Current = TRUE
  /\ saved \in Unwritten
  /\ seen = << >> /\ out = << >>

\* do_normal_char: text holds 16 bits of a character.
Shown(c, bytes) ==
  [kind |-> "char", code |-> IF c > 65535 THEN Replacement ELSE c, bytes |-> bytes]
Act(state, c) == [kind |-> state, code |-> c]

-----------------------------------------------------------------------------
(* Control codes, which are obeyed within escape sequences as well.        *)

Select(active) ==
  /\ charset' = IF active THEN g0 ELSE g1
  /\ g0Active' = active
  /\ displayCtrl' = ~ active
  /\ UNCHANGED <<g0, g1, g0Current, saved, utf8, toggleMeta>>

\* do_control_char for a code of control_sequences; pre is what the byte has
\* led to before.  Entering ESsquare by CSI does not clear the parameters.
ControlCode(c, pre) ==
  /\ esc' = CASE c \in Cancel -> "normal"
              [] c = Esc -> "esc"
              [] c = Csi -> "square"
              [] OTHER -> esc
  /\ IF c = 14 THEN Select(FALSE)
     ELSE IF c = 15 THEN Select(TRUE)
     ELSE UNCHANGED <<modes, sets>>
  /\ out' = IF c \in 7 .. 15 THEN Append(pre, Act("control", c)) ELSE pre
  /\ UNCHANGED args

ControlCodes == (7 .. 15) \cup Cancel \cup {Esc, 127, Csi}

-----------------------------------------------------------------------------
(* Escape sequences: do_control_char with the table of the state.          *)

Go(state) == esc' = state

\* Nothing changes but the state and the sequence.
Quiet(state) ==
  /\ Go(state)
  /\ out' = << >>
  /\ UNCHANGED <<npar, args, modes, sets>>

\* Slip: the parameters are counted from 0 again, but keep their values.
ClearParamCount(state, c) ==
  /\ Go(state)
  /\ npar' = 0 /\ qMode' = FALSE /\ paletteMode' = FALSE
  /\ out' = << >>
  /\ UNCHANGED <<param, modes, sets>>

ClearParam(state, c) ==
  /\ Go(state)
  /\ npar' = 0 /\ qMode' = FALSE /\ paletteMode' = FALSE
  /\ param' = [i \in Params |-> 0]
  /\ out' = << >>
  /\ UNCHANGED <<modes, sets>>

\* VTerm::reset, as far as the parser goes: not the saved character sets.
Reset ==
  /\ Go("normal")
  /\ utf8' = TRUE /\ displayCtrl' = FALSE /\ toggleMeta' = FALSE
  /\ g0Active' = TRUE /\ g0' = "text" /\ g1' = "text" /\ charset' = "text"
  /\ out' = <<Act("esc", 99)>>
  /\ UNCHANGED <<npar, args, g0Current, saved>>

SaveCursor ==
  /\ saved' = [g0 |-> g0, g1 |-> g1, g0Active |-> g0Active]
  /\ UNCHANGED <<charset, g0, g1, g0Active, g0Current>>

RestoreCursor ==
  /\ g0' = saved.g0 /\ g1' = saved.g1 /\ g0Active' = saved.g0Active
  /\ charset' = IF saved.g0Active THEN saved.g0 ELSE saved.g1
  /\ UNCHANGED <<g0Current, saved>>

EscCode(c) ==
  CASE c = 91 -> ClearParam("square", c)                                \* [
    [] c = 93 -> ClearParam("nonstd", c)                                \* ]
    [] c = 37 -> Quiet("percent")
    [] c = 35 -> Quiet("hash")
    [] c \in {40, 41} ->                                                \* ( )
         /\ Go("charset") /\ g0Current' = (c = 40) /\ out' = << >>
         /\ UNCHANGED <<npar, args, modes, charset, g0, g1, g0Active, saved>>
    [] c = 99 -> Reset
    [] c \in EscFinals \ {99} ->
         /\ Go("normal") /\ out' = <<Act("esc", c)>>
         /\ CASE c = 55 -> SaveCursor [] c = 56 -> RestoreCursor [] OTHER -> UNCHANGED sets
         /\ UNCHANGED <<npar, args, modes>>
    [] OTHER -> Quiet("normal")

\* Of set_display_attr the attributes that concern the parser; the last counts.
DisplayAttr ==
  LET ns == {n \in 0 .. npar : param[n] \in {10, 11, 12}}
      last == CHOOSE n \in ns : \A i \in ns : i <= n
  IN  IF ns = {} THEN UNCHANGED <<charset, displayCtrl, toggleMeta>>
      ELSE /\ charset' = IF param[last] = 10 THEN (IF g0Active THEN g0 ELSE g1) ELSE "glyphs"
           /\ displayCtrl' = (param[last] # 10)
           /\ toggleMeta' = (param[last] = 12)

\* The action of a byte that ends ESC [ ...
SquareFinal(c) ==
  /\ Go("normal") /\ out' = <<Act("square", c)>>
  /\ CASE c = 109 -> DisplayAttr /\ UNCHANGED <<g0, g1, g0Active, g0Current, saved>>   \* m
       [] c \in {104, 108} /\ param[0] = 3 /\ ~ qMode ->                               \* h l
            displayCtrl' = (c = 104) /\ UNCHANGED <<toggleMeta, sets>>
       [] c = 115 -> SaveCursor /\ UNCHANGED <<displayCtrl, toggleMeta>>
       [] c = 117 -> RestoreCursor /\ UNCHANGED <<displayCtrl, toggleMeta>>
       [] OTHER -> UNCHANGED <<displayCtrl, toggleMeta, sets>>
  /\ UNCHANGED <<npar, args, utf8>>

\* next_param: the last parameter takes what is left.
NextParam == IF npar < NPar - 1 THEN npar + 1 ELSE npar

SquareCode(c) ==
  CASE c \in Digits ->
         /\ param' = [param EXCEPT ![npar] = (@ * 10 + c - 48) % U16]
         /\ out' = << >>
         /\ UNCHANGED <<esc, npar, qMode, paletteMode, modes, sets>>
    [] c = 59 ->                                                        \* ;
         /\ npar' = NextParam
         /\ out' = << >>
         /\ UNCHANGED <<esc, args, modes, sets>>
    [] c = 63 ->                                                        \* ?
         /\ qMode' = TRUE /\ out' = << >>
         /\ UNCHANGED <<esc, npar, param, paletteMode, modes, sets>>
    [] c = 91 -> Quiet("funckey")
    [] c \in SquareFinals -> SquareFinal(c)
    [] OTHER -> Quiet("normal")

Hex(c) == IF c >= 97 THEN c - 87 ELSE IF c >= 65 THEN c - 55 ELSE c - 48

\* set_palette: digits count after P only; the last one sets the colour.
SetPalette(c) ==
  IF ~ paletteMode THEN Quiet("normal")
  ELSE /\ param' = [param EXCEPT ![npar] = Hex(c)]
       /\ npar' = npar + 1
       /\ IF npar' = PaletteLen
          THEN Go("normal") /\ out' = <<Act("palette", c)>>
          ELSE UNCHANGED esc /\ out' = << >>
       /\ UNCHANGED <<qMode, paletteMode, modes, sets>>

NonstdCode(c) ==
  CASE c \in Digits \cup (65 .. 70) \cup (97 .. 102) -> SetPalette(c)
    [] c = 80 /\ (paletteMode \/ npar # 0) -> Quiet("normal")           \* P
    [] c = 80 /\ ~ (paletteMode \/ npar # 0) ->
         /\ paletteMode' = TRUE /\ out' = << >>
         /\ UNCHANGED <<esc, npar, param, qMode, modes, sets>>
    [] c = 82 ->                                                        \* R
         /\ Go("normal") /\ out' = <<Act("nonstd", c)>>
         /\ UNCHANGED <<npar, args, modes, sets>>
    [] OTHER -> Quiet("normal")

PercentCode(c) ==
  /\ Go("normal") /\ out' = << >>
  /\ utf8' = IF c = 64 THEN FALSE ELSE IF c \in {71, 56} THEN TRUE ELSE utf8
  /\ UNCHANGED <<npar, args, displayCtrl, toggleMeta, sets>>

\* set_charset names a map of G0 or G1; the map in use stays.
CharsetCode(c) ==
  LET map == IF c \in {48, 66} THEN "text" ELSE "glyphs" IN
  /\ Go("normal") /\ out' = << >>
  /\ IF c \in {48, 66, 85, 75}
     THEN IF g0Current THEN g0' = map /\ UNCHANGED g1 ELSE g1' = map /\ UNCHANGED g0
     ELSE UNCHANGED <<g0, g1>>
  /\ UNCHANGED <<npar, args, modes, charset, g0Active, g0Current, saved>>

HashCode(c) ==
  /\ Go("normal")
  /\ out' = IF c = 56 THEN <<Act("hash", c)>> ELSE << >>
  /\ UNCHANGED <<npar, args, modes, sets>>

\* A byte within an escape sequence; it is not translated.
InSequence(c) ==
  /\ esc # "normal"
  /\ CASE c \in ControlCodes -> ControlCode(c, << >>) /\ UNCHANGED npar
       [] c = 0 -> Quiet(esc)
       [] c \notin ControlCodes \cup {0} ->
            CASE esc = "esc" -> EscCode(c)
              [] esc = "square" -> SquareCode(c)
              [] esc = "nonstd" -> NonstdCode(c)
              [] esc = "percent" -> PercentCode(c)
              [] esc = "charset" -> CharsetCode(c)
              [] esc = "hash" -> HashCode(c)
              [] esc = "funckey" -> Quiet("normal")
  /\ UNCHANGED decoder

-----------------------------------------------------------------------------
(* Characters.                                                             *)

\* CTRL_ACTION and CTRL_ALWAYS.
CtrlAction == {0, 24, 26, 27} \cup (7 .. 15)
CtrlAlways == {0, 8, 10, 12, 13, 14, 15, 27}

\* Slip: what is always a control code leaves out ESC.
OkUnlessAction(c, tc) ==
  /\ tc # 0
  /\ c >= 32 \/ c \notin (IF displayCtrl THEN CtrlAlways \ {Esc} ELSE IF utf8 THEN 0 .. 31 ELSE CtrlAction)
  /\ c # 127 \/ displayCtrl
  /\ c # Csi

\* ok: code c, translated to tc, is a character to be shown.
Ok(c, tc) ==
  /\ tc # 0
  /\ c >= 32 \/ c \notin (IF displayCtrl THEN CtrlAlways ELSE IF utf8 THEN 0 .. 31 ELSE CtrlAction)
  /\ c # 127 \/ displayCtrl
  /\ c # Csi

\* Code c in ESnormal: shown, or obeyed if its translation is a control code.
Take(c, tc, bytes, pre) ==
  IF Ok(c, tc)
  THEN out' = Append(pre, Shown(tc, bytes)) /\ UNCHANGED <<esc, args, modes, sets>>
  ELSE IF tc \in ControlCodes THEN ControlCode(tc, pre)
  ELSE out' = pre /\ UNCHANGED <<esc, args, modes, sets>>

\* translate_char: a map with glyphs for control codes gives those.
Translated(b) ==
  LET m == IF toggleMeta THEN 128 + (b % 128) ELSE b
  IN  IF charset = "text" \/ m = 0 THEN m ELSE 256 + m

\* A byte that is not decoded.
Untranslated(b) ==
  /\ esc = "normal" /\ ~ (utf8 /\ (~ displayCtrl \/ b < 32))
  /\ Take(b, Translated(b), <<b>>, << >>)
  /\ UNCHANGED <<decoder, npar>>

\* Continuation bytes a first byte asks for, and its share of the character.
Lead(b) ==
  CASE b \in 192 .. 223 -> 1 [] b \in 224 .. 239 -> 2 [] b \in 240 .. 247 -> 3
    [] b \in 248 .. 251 -> 4 [] b \in 252 .. 253 -> 5 [] OTHER -> 0
Payload(b) == b % 2 ^ (6 - Lead(b))

\* npar counts continuation bytes as well: there must be room for them.
ASSUME LeadAssumption == \A b \in Bytes : Lead(b) < NPar

\* The halves of UTF-16, which are no characters.
Surrogates == 55296 .. 57343

\* utf8_length_changes: overlong sequences, surrogates and U+FFFE, U+FFFF do
\* not stand for themselves.
Checked(v, n) ==
  LET bound == <<127, 2047, 65535, 2097151, 67108863, 2147483647>> IN
  IF v <= bound[n] \/ v > bound[n + 1] \/ v \in Surrogates \cup {65534, 65535} THEN Replacement ELSE v

Complete == need' = 0 /\ char' = 0 /\ part' = << >>

\* A first byte, an ASCII one or one that cannot stand here.
Begin(b, pre) ==
  IF Lead(b) > 0
  THEN /\ need' = Lead(b) /\ char' = Payload(b) /\ part' = <<b>> /\ npar' = 0
       /\ out' = pre
       /\ UNCHANGED <<esc, args, modes, sets>>
  ELSE LET c == IF b < 128 THEN b ELSE Replacement IN
       /\ Complete /\ npar' = IF b \in {254, 255} THEN 0 ELSE npar
       /\ Take(c, c, <<b>>, pre)

IsContinuation(b) == b \in 128 .. 191

\* npar counts the continuation bytes.
Continue(b) ==
  LET v == char * 64 + (b % 64)
      c == Checked(v, npar + 1)
  IN  /\ npar' = npar + 1
      /\ IF need > 1
         THEN /\ need' = need - 1 /\ char' = v /\ part' = Append(part, b)
              /\ out' = << >>
              /\ UNCHANGED <<esc, args, modes, sets>>
         ELSE Complete /\ Take(c, c, Append(part, b), << >>)

\* Slip: the byte that breaks a character off is not scanned again.
DecodedOnce(b) ==
  /\ esc = "normal" /\ utf8 /\ (~ displayCtrl \/ b < 32)
  /\ IF need > 0 /\ IsContinuation(b) THEN Continue(b)
     ELSE IF need = 0 THEN Begin(b, << >>)
     ELSE /\ Complete /\ out' = <<Shown(Replacement, part)>>
          /\ UNCHANGED <<esc, npar, args, modes, sets>>

\* A byte decoded as UTF-8; it is scanned again after a broken character.
Decoded(b) ==
  /\ esc = "normal" /\ utf8 /\ (~ displayCtrl \/ b < 32)
  /\ IF need > 0 /\ IsContinuation(b) THEN Continue(b)
     ELSE Begin(b, IF need > 0 THEN <<Shown(Replacement, part)>> ELSE << >>)

\* The sequence so far: what began it, its digits and semicolons.
Sequence(b) ==
  IF esc' \notin {"square", "nonstd"} THEN << >>
  ELSE IF esc' # esc \/ b = Csi THEN <<b>>
  ELSE IF b \in ControlCodes \cup {0, 63} THEN seen ELSE Append(seen, b)

\* The next byte of VTerm::input.
Feed(b) ==
  /\ InSequence(b) \/ Untranslated(b) \/ Decoded(b)
  /\ seen' = Sequence(b)

\* The bounds on what programs write: after CSI no parameters but those left.
Bounded(b) ==
  esc = "square" /\ b \in Digits \cup {59} =>
    /\ Head(seen) = 91 /\ Len(seen) <= MaxSeen
    /\ b = 59 \/ param[npar] < MaxParam

Next == \E b \in Bytes : Bounded(b) /\ Feed(b)

Spec == Init /\ [][Next]_vars

-----------------------------------------------------------------------------
(* Properties.                                                             *)

\* Every variable has its type; npar stays an index of param.
TypeOK ==
  /\ esc \in {"normal", "esc", "square", "nonstd", "percent", "charset", "hash", "funckey"}
  /\ need \in 0 .. 5 /\ char \in Nat /\ part \in Seq(Bytes)
  /\ npar \in Params /\ param \in [Params -> 0 .. U16 - 1]
  /\ {qMode, paletteMode, utf8, displayCtrl, toggleMeta, g0Active, g0Current} \subseteq BOOLEAN
  /\ {charset, g0, g1} \subseteq {"text", "glyphs"}

\* UTF-8 as it is defined, for codes of up to 31 bits.
Tail6(c, n) == [i \in 1 .. n |-> 128 + ((c \div (64 ^ (n - i))) % 64)]
Encoded(c) ==
  CASE c < 128 -> <<c>>
    [] 128 <= c /\ c < 2048 -> <<192 + (c \div 64)>> \o Tail6(c, 1)
    [] 2048 <= c /\ c < 65536 -> <<224 + (c \div 4096)>> \o Tail6(c, 2)
    [] 65536 <= c /\ c < 2097152 -> <<240 + (c \div 262144)>> \o Tail6(c, 3)
    [] 2097152 <= c -> << >>

\* The code point the bytes would stand for.
Denoted(bytes) ==
  FoldLeft(LAMBDA v, b : v * 64 + (b % 64), Payload(bytes[1]), Tail(bytes))

\* A character shown is the one written: its bytes are its encoding, and what is
\* replaced by U+FFFD is no encoding of a character of 16 bits.
Right(o) ==
  LET v == Denoted(o.bytes)
  IN  IF o.code # Replacement THEN o.bytes = Encoded(o.code)
      ELSE Encoded(v) # o.bytes \/ v \in Surrogates \/ v >= Replacement

\* The bytes of the characters shown, in order, and of the one that is incomplete.
Accounted ==
  LET bytes(i) == IF i \in DOMAIN out' /\ out'[i].kind = "char" THEN out'[i].bytes ELSE << >>
  IN  bytes(1) \o bytes(2) \o part'

\* Bytes in, bytes out: a byte joins those of a character, shown or incomplete, or
\* is a code that shows nothing, as U+009B is; ESC and the codes of cursor motion
\* and the like are obeyed.
NothingLost(b) ==
  /\ Len(out') <= 2
  /\ \/ Accounted = Append(part, b)
     \/ Accounted = part /\ b \in (0 .. 31) \cup {127}
     \/ Accounted = << >> /\ Append(part, b) = Encoded(Csi) /\ esc' = "square"
  /\ b = Esc => esc' = "esc"
  /\ b \in 7 .. 15 => out'[Len(out')] = Act("control", b)

\* With UTF-8 on and display_ctrl off, what is shown is what was written: every
\* character is right, and no byte is lost or shown twice.  A character broken off
\* ends where the next byte begins, which is read again, as a character, the first
\* byte of one or a control code.
ShownAsWritten ==
  [][esc = "normal" /\ utf8 /\ ~ displayCtrl => \A b \in Bytes : Feed(b) =>
       /\ \A i \in DOMAIN out' : out'[i].kind = "char" => Right(out'[i])
       /\ NothingLost(b)]_vars

\* The bytes of field k of parameter bytes q; the last takes all that is left.
Fields(q, k) ==
  LET before(i) == Cardinality({j \in 1 .. i : q[j] = 59})
      at == {i \in DOMAIN q : q[i] # 59 /\ (IF before(i) < NPar THEN before(i) ELSE NPar - 1) = k}
  IN  [n \in 1 .. Cardinality(at) |-> q[CHOOSE i \in at : Cardinality({j \in at : j <= i}) = n]]

Number(q) == FoldLeft(LAMBDA v, d : v * 10 + d - 48, 0, q) % U16

\* The parameters of an action are those written after ESC [, and the digits of a
\* colour those after ESC ] P, whatever control codes came in between.  After CSI
\* (155) they are not: clear_param belongs to ESC [ only, and what the sequence
\* before or a character left in param and npar is taken for parameters.
ArgumentsAsWritten ==
  [][\A i \in DOMAIN out' :
       /\ out'[i].kind = "square" /\ Head(seen) = 91 =>
            /\ \A k \in Params : param[k] = Number(Fields(Tail(seen), k))
            /\ npar = LET n == Cardinality({j \in DOMAIN seen : seen[j] = 59})
                      IN  IF n < NPar THEN n ELSE NPar - 1
       /\ out'[i].kind = "palette" =>
            /\ seen[2] = 80 /\ Len(seen) = PaletteLen + 1
            /\ \A k \in 1 .. PaletteLen :
                 param'[k - 1] = Hex(Append(seen, out'[i].code)[k + 2])]_vars

\* ESC begins a sequence wherever it stands, in a broken character, a sequence or
\* with display_ctrl on.  With UTF-8 off it does not if the map has a glyph for it
\* or toggle_meta turns it into CSI.
EscapeHeard ==
  [][Feed(Esc) /\ (utf8 \/ esc # "normal" \/ (charset = "text" /\ ~ toggleMeta))
     => esc' = "esc"]_vars
=============================================================================
