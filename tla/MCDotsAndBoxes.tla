--------------------------- MODULE MCDotsAndBoxes ---------------------------
(* Small boards of DotsAndBoxes for TLC.                                   *)
EXTENDS DotsAndBoxes
=============================================================================
