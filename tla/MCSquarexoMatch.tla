-------------------------- MODULE MCSquarexoMatch --------------------------
(* Small instances of SquarexoMatch for TLC.                               *)
EXTENDS SquarexoMatch

CONSTANTS r1, r2, w1, w2

=============================================================================
