------------------------------ MODULE MCIoPipe -------------------------------
(* A small instance of IoPipe for TLC. *)
EXTENDS IoPipe

\* Characters of one and of two bytes, whole, cut, and a stray second byte.
MCChunks == {<<"a">>, <<"u", "v">>, <<"a", "u">>, <<"v", "u", "v">>}
==============================================================================
