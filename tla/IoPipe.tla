------------------------------- MODULE IoPipe --------------------------------
(***************************************************************************)
(* The bytes between a window and its program (lib/io.cpp): IoPipe reads   *)
(* them in pieces, converts them between the codec of the program and      *)
(* UTF-8, and writes what the user types, or what the terminal answers,    *)
(* into a pseudo terminal that keeps only so much.  All of it happens in   *)
(* the one thread of FbTerm, so that while writeIo waits nothing is read.  *)
(*                                                                         *)
(* The codec has two-byte characters, as the EUC ones: a double width      *)
(* character is "h" "h" to the program and "u" "v" in UTF-8.  "q" is a     *)
(* request of the program, which the terminal answers with "r".            *)
(***************************************************************************)
EXTENDS Naturals, PipeState

CONSTANTS
  BufSize,      \* BUF_SIZE, of what is read and of what is converted
  Room,         \* bound: what the kernel keeps in each direction
  Retries,      \* num of writeIo
  Chunks,       \* what the user types at once, in UTF-8
  Output        \* the bytes the program writes

ASSUME BufSizeAssumption == BufSize \in Nat /\ BufSize > 1
ASSUME RoomAssumption == Room \in Nat \ {0} /\ Retries \in Nat
ASSUME OutputAssumption == Output \subseteq {"a", "h", "q"}
ASSUME ChunksAssumption == Chunks \subseteq Seq({"a", "h", "q", "r", "u", "v", "?"})

vars == <<outq, inq, codec, left, rest, text, out, num, due>>

Least(a, b) == IF a < b THEN a ELSE b
From(s, n) == SubSeq(s, n + 1, Len(s))

\* A character of two bytes before and after a conversion.
Lead(way) == IF way = "read" THEN "h" ELSE "u"
Trail(way) == IF way = "read" THEN "h" ELSE "v"
Converted(way) == IF way = "read" THEN <<"u", "v">> ELSE <<"h", "h">>
Single == {"a", "q", "r"}

------------------------------------------------------------------------------
(* iconv: how many bytes it takes, what it makes of them, why it stops.    *)

Byte(way, c, b) ==
  IF c.errno # "none" THEN c
  ELSE CASE c.lead /\ b = Trail(way) /\ Len(c.made) + 2 > BufSize
              -> [c EXCEPT !.errno = "E2BIG"]
         [] c.lead /\ b = Trail(way) /\ Len(c.made) + 2 <= BufSize
              -> [c EXCEPT !.made = @ \o Converted(way), !.took = @ + 2, !.lead = FALSE]
         [] ~ c.lead /\ b = Lead(way) -> [c EXCEPT !.lead = TRUE]
         [] ~ c.lead /\ b \in Single /\ Len(c.made) < BufSize
              -> [c EXCEPT !.made = Append(@, b), !.took = @ + 1]
         [] ~ c.lead /\ b \in Single /\ Len(c.made) >= BufSize
              -> [c EXCEPT !.errno = "E2BIG"]
         [] OTHER -> [c EXCEPT !.errno = "EILSEQ"]

NoByte == [made |-> <<>>, took |-> 0, lead |-> FALSE, errno |-> "none"]
Scanned(way, bytes) == FoldLeft(LAMBDA c, b : Byte(way, c, b), NoByte, bytes)

Iconv(way, bytes) ==
  LET c == Scanned(way, bytes)
  IN  IF c.errno = "none" /\ c.lead THEN [c EXCEPT !.errno = "EINVAL"] ELSE c

------------------------------------------------------------------------------
(* What a whole stream means, byte by byte, however it is cut, to a codec   *)
(* that converts and to none: a history that the code does not keep, and    *)
(* the properties compare it with.                                          *)

Meaning(cd, way, d, b) ==
  LET broken == IF d.lead THEN Append(d.made, "?") ELSE d.made
  IN  CASE cd = "none"
             -> [lead |-> FALSE,
                 made |-> Append(IF d.lead THEN Append(d.made, Lead(way)) ELSE d.made, b)]
        [] cd # "none" /\ d.lead /\ b = Trail(way)
             -> [lead |-> FALSE, made |-> d.made \o Converted(way)]
        [] cd # "none" /\ b = Lead(way) /\ ~ (d.lead /\ b = Trail(way))
             -> [lead |-> TRUE, made |-> broken]
        [] OTHER -> [lead |-> FALSE, made |-> Append(broken, IF b \in Single THEN b ELSE "?")]

\* The same of some bytes after those that mean d.
Meant(cd, way, d, bytes) ==
  FoldLeft(LAMBDA e, b : Meaning(cd, way, e, b), d, bytes)

Means(way, bytes) == due' = [due EXCEPT ![way] = Meant(codec, way, @, bytes)]

\* What is given up is owed no more: all but what is on the way and what
\* translate still holds; an unfinished character.
GivenUp ==
  due' = [due EXCEPT !["write"] =
                       Meant(codec, "write", [lead |-> FALSE, made |-> inq], rest["write"])]

Arrives(way) ==
  due' = [due EXCEPT ![way].made = IF @ = <<>> THEN @ ELSE Tail(@)]

------------------------------------------------------------------------------
Idle == ~ Writing /\ ~ Reading

\* write(buf, len); what is in mBufWrite is not looked at.
Write(bytes) ==
  /\ rest' = [rest EXCEPT !["write"] = bytes]
  /\ Means("write", bytes)

Init ==
  /\ outq = <<>> /\ inq = <<>>
  /\ codec \in Codec
  /\ left = [way \in Way |-> <<>>]
  /\ rest = [way \in Way |-> <<>>]
  /\ text = <<>> /\ out = <<>> /\ num = 0
  /\ due = [way \in Way |-> [lead |-> FALSE, made |-> <<>>]]

\* Slip: the bytes left of the last time are written over.
ReadyAnew ==
  /\ Idle /\ outq # <<>>
  /\ LET n == Least(Len(outq), BufSize)
         read == SubSeq(outq, 1, n)
     IN  /\ outq' = From(outq, n)
         /\ rest' = [rest EXCEPT !["read"] = read]
         /\ left' = [left EXCEPT !["read"] = <<>>]
         /\ Means("read", read)
  /\ UNCHANGED <<inq, codec, text, out, num>>

\* ready(true): what is left of the last time comes first.
Ready ==
  /\ Idle /\ outq # <<>>
  /\ LET n == Least(Len(outq), BufSize - Len(left["read"]))
         read == SubSeq(outq, 1, n)
     IN  /\ outq' = From(outq, n)
         /\ rest' = [rest EXCEPT !["read"] = left["read"] \o read]
         /\ left' = [left EXCEPT !["read"] = <<>>]
         /\ Means("read", read)
  /\ UNCHANGED <<inq, codec, text, out, num>>

\* readyRead or writeIo is called with bytes.
Give(way, bytes) ==
  IF way = "read" THEN text' = bytes /\ UNCHANGED <<out, num>>
            ELSE out' = bytes /\ num' = Retries /\ UNCHANGED text

\* One round of translate: what can be converted, or the error behind it.
Translate(way) ==
  /\ rest[way] # <<>>
  /\ out = <<>>
  /\ way = "read" => text = <<>> /\ ~ Writing
  /\ LET c == Iconv(way, rest[way])
     IN  \/ /\ codec = "none"
            /\ Give(way, rest[way])
            /\ rest' = [rest EXCEPT ![way] = <<>>]
            /\ UNCHANGED <<left, due>>
         \/ /\ codec # "none" /\ c.took > 0
            /\ Give(way, c.made)
            /\ rest' = [rest EXCEPT ![way] = From(@, c.took)]
            /\ UNCHANGED <<left, due>>
         \/ /\ codec # "none" /\ c.took = 0 /\ c.errno = "EILSEQ"
            /\ Give(way, <<"?">>)
            /\ rest' = [rest EXCEPT ![way] = Tail(@)]
            /\ UNCHANGED <<left, due>>
         \/ /\ codec # "none" /\ c.took = 0 /\ c.errno = "EINVAL"
            /\ left' = [left EXCEPT ![way] = rest[way]]
            /\ rest' = [rest EXCEPT ![way] = <<>>]
            /\ due' = IF way = "read" THEN due ELSE [due EXCEPT !["write"].lead = FALSE]
            /\ UNCHANGED <<text, out, num>>
  /\ UNCHANGED <<outq, inq, codec>>

\* sendBack in the course of readyRead.
Answer ==
  /\ rest' = [rest EXCEPT !["write"] = <<"r">>]
  /\ due' = [due EXCEPT !["read"].made = Tail(@),
                         !["write"] = Meaning(codec, "write", @, "r")]

\* VTerm::input handles a byte; a request is answered at once (sendBack).
Input ==
  /\ text # <<>> /\ ~ Writing
  /\ text' = Tail(text)
  /\ IF Head(text) = "q" THEN Answer ELSE Arrives("read") /\ UNCHANGED rest
  /\ UNCHANGED <<outq, inq, codec, left, out, num>>

\* Slip: the retries are not counted.
WriteIoPatient ==
  /\ out # <<>>
  /\ LET n == Least(Len(out), Room - Len(inq))
     IN  /\ inq' = inq \o SubSeq(out, 1, n)
         /\ out' = From(out, n)
  /\ UNCHANGED <<outq, codec, left, rest, text, num, due>>

\* Slip: buf is not moved past what was written.
WriteIoAgain ==
  /\ out # <<>>
  /\ LET n == Least(Len(out), Room - Len(inq))
     IN  \/ /\ n > 0
            /\ inq' = inq \o SubSeq(out, 1, n)
            /\ out' = SubSeq(out, 1, Len(out) - n)
            /\ UNCHANGED <<num, due>>
         \/ /\ n = 0 /\ num > 0
            /\ num' = num - 1
            /\ UNCHANGED <<inq, out, due>>
         \/ /\ n = 0 /\ num = 0
            /\ out' = <<>>
            /\ GivenUp
            /\ UNCHANGED <<inq, num>>
  /\ UNCHANGED <<outq, codec, left, rest, text>>

\* One round of writeIo: part of it is written, or it sleeps, or gives up.
WriteIo ==
  /\ out # <<>>
  /\ LET n == Least(Len(out), Room - Len(inq))
     IN  \/ /\ n > 0
            /\ inq' = inq \o SubSeq(out, 1, n)
            /\ out' = From(out, n)
            /\ UNCHANGED <<num, due>>
         \/ /\ n = 0 /\ num > 0
            /\ num' = num - 1
            /\ UNCHANGED <<inq, out, due>>
         \/ /\ n = 0 /\ num = 0
            /\ out' = <<>>
            /\ GivenUp
            /\ UNCHANGED <<inq, num>>
  /\ UNCHANGED <<outq, codec, left, rest, text>>

------------------------------------------------------------------------------
(* What is not the pipe: the user and the program.                          *)

\* keyInput, or text of the input method.
Type(chunk) ==
  /\ Idle
  /\ Write(chunk)
  /\ UNCHANGED <<outq, inq, codec, left, text, out, num>>

\* setCodec closes both codecs, and opens others unless both sides use UTF-8;
\* what they have left stays.
SetCodec(cd) == codec' = cd

\* The user chooses an encoding (FbShell::switchCodec).
SwitchCodec ==
  /\ Idle
  /\ \E cd \in Codec : SetCodec(cd)
  /\ UNCHANGED <<outq, inq, left, rest, text, out, num, due>>

ProgramWrites(b) ==
  /\ Len(outq) < Room
  /\ outq' = Append(outq, b)
  /\ UNCHANGED <<inq, codec, left, rest, text, out, num, due>>

ProgramReads ==
  /\ inq # <<>>
  /\ inq' = Tail(inq)
  /\ Arrives("write")
  /\ UNCHANGED <<outq, codec, left, rest, text, out, num>>

FbTerm == Ready \/ (\E way \in Way : Translate(way)) \/ Input \/ WriteIo

Next ==
  \/ FbTerm
  \/ \E chunk \in Chunks : Type(chunk)
  \/ SwitchCodec
  \/ \E b \in Output : ProgramWrites(b)
  \/ ProgramReads

\* FbTerm goes on, and epoll tells it of every program that has written; the
\* program may stop to read, and to write, for ever.
Spec == Init /\ [][Next]_vars /\ WF_vars(FbTerm) /\ SF_vars(Ready)

------------------------------------------------------------------------------
TypeOK ==
  /\ Len(outq) <= Room /\ Len(inq) <= Room
  /\ codec \in Codec
  /\ num \in 0 .. Retries
  /\ \A way \in Way : Len(left[way]) <= 1

\* A program that waits to write is read from, even when it reads nothing
\* itself while FbTerm has much to write to it: the two wait for each other
\* only until writeIo has used up its retries.
OutputIsRead == Len(outq) = Room ~> Len(outq) < Room
==============================================================================
