--------------------------- MODULE MCOnlineClient --------------------------
(***************************************************************************)
(* OnlineClient for TLC: a board of two edges and one square, one rematch. *)
(***************************************************************************)
EXTENDS OnlineClient
=============================================================================
