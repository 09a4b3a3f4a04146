---------------------------- MODULE MCLocalGame ----------------------------
(***************************************************************************)
(* LocalGame for TLC: a board of two squares, whose middle line may close  *)
(* both, and two games, so that timers of one game reach another and the   *)
(* entries of both are on their way at once.                               *)
(***************************************************************************)
EXTENDS LocalGame
=============================================================================
