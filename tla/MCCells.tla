------------------------------ MODULE MCCells -------------------------------
(* A small instance of Cells for TLC. *)
EXTENDS Cells
=============================================================================
