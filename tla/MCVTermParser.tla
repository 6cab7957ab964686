--------------------------- MODULE MCVTermParser ---------------------------
(* Small instances of VTermParser for TLC. *)
EXTENDS VTermParser

\* LF, SO, SI, CAN, ESC and CSI.
Controls == {10, 14, 15, 24, 27, 155}
\* Bytes that matter in sequences, characters like others elsewhere: % ( 1 8 ; @ P U [ ] c m
InSequences == {37, 40, 49, 56, 59, 64, 80, 85, 91, 93, 99, 109}
\* First bytes of characters of two and three bytes, of overlong ones and of
\* surrogates; a continuation byte (CSI is one as well).
Characters == {194, 224, 237, 160}

\* The maps of reset, and others.
SameUnwritten == {[g0 |-> "text", g1 |-> "text", g0Active |-> TRUE]}
OneUnwritten == {[g0 |-> "glyphs", g1 |-> "text", g0Active |-> FALSE]}

AllBytes == Controls \cup InSequences \cup Characters
=============================================================================
