------------------------------ MODULE MCShells ------------------------------
(* Small instances of Shells for TLC. *)
EXTENDS Shells, TLC

\* Window addresses are interchangeable.
ShellSymmetry == Permutations(Shell)

\* One mode of the console, which VTerm::reset sets, and two reasons for a
\* cursor not to be shown: the program's and FbTerm's own.
OneMode == {"AutoRepeatKey"}
TwoReasons == {"CursorVisible", "history"}

NoModes == {}
TwoColors == {1, 2}
=============================================================================
