------------------------------ MODULE MCServer ------------------------------
(* Small instances of GameServer for TLC.                                  *)
EXTENDS ServerProperties, TLC

CONSTANTS a, b, s1, s2, s3, r1, r2, m1, m2, m3, e1, e2

OneSocketEach == (s1 :> a) @@ (s2 :> b)
AComesBack == (s1 :> a) @@ (s2 :> b) @@ (s3 :> a)
NoActions == << >>
EdgeOfTwo == (m1 :> e1) @@ (m2 :> e2)
RaceForOne == EdgeOfTwo @@ (m3 :> e1)
=============================================================================
