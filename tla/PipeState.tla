----------------------------- MODULE PipeState -------------------------------
(***************************************************************************)
(* What an IoPipe holds of the bytes between a window and its program, and *)
(* what it promises of them.  IoPipe says how they move.                   *)
(***************************************************************************)
EXTENDS SequencesExt

VARIABLES
  outq, inq,    \* what the kernel keeps: for FbTerm, for the program
  codec,        \* mCodecRead and mCodecWrite: none, or those of iconv
  left,         \* mBufRead (left["read"]) and mBufWrite (left["write"])
  rest,         \* what translate has yet to convert
  text,         \* what VTerm::input has yet to handle
  out, num,     \* writeIo: what it has yet to write, the retries it has left
  due           \* history: what the bytes read (due["read"]) and the bytes given
                \* to write (due["write"]) mean, and has not arrived yet

\* isread, and what setCodec may choose.
Way == {"read", "write"}
Codec == {"none", "iconv"}

Writing == out # <<>> \/ rest["write"] # <<>>
Reading == text # <<>> \/ rest["read"] # <<>>

------------------------------------------------------------------------------
(* Properties.                                                              *)

\* However the output of a program is cut into reads, and wherever the codec
\* changes, the terminal gets the characters of the whole stream, in order, a
\* "?" for what is none, and only an unfinished character is kept back
\* (ready, translate, mBufRead).
ReadsAsSent ==
  /\ IsPrefix(text, due["read"].made)
  /\ ~ Reading => due["read"].made = <<>> /\ (due["read"].lead <=> left["read"] # <<>>)

\* The program reads exactly what was typed and answered, in order, through
\* partial writes and retries; what is lost is a piece that writeIo gave up,
\* and a character that was given to write in two pieces, and nothing else
\* (write, translate, writeIo).
KeysReachProgram ==
  /\ IsPrefix(inq \o out, due["write"].made)
  /\ ~ Writing => inq = due["write"].made
==============================================================================
