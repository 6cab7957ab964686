------------------------------ MODULE MCScroll ------------------------------
(* Small instances of Scroll for TLC. *)
EXTENDS Scroll
=============================================================================
