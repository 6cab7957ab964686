----------------------------- MODULE MCKeyInput -----------------------------
(* A small instance of KeyInput for TLC. *)
EXTENDS KeyInput, TLC

\* Window addresses are interchangeable.
WinSymmetry == Permutations(Win)
=============================================================================
