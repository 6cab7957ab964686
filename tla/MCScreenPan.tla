---------------------------- MODULE MCScreenPan -----------------------------
(* A small instance of ScreenPan for TLC. *)
EXTENDS ScreenPan
=============================================================================
