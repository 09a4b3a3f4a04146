--------------------------- MODULE MCMatchHistory --------------------------
(***************************************************************************)
(* MatchHistory for TLC: a date that comes back from its vi-VN text as it  *)
(* was (the third of March), and one that new Date does not read (a day 13)*)
(***************************************************************************)
EXTENDS MatchHistory, TLC

CONSTANTS s1, s2, d3, d13

MCRead == [d \in Dates \union {NoDate} |-> IF d = d13 THEN NoDate ELSE d]
MCSaves == {s1, s2}
MCSymmetry == Permutations(MCSaves)
=============================================================================
