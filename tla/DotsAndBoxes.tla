---------------------------- MODULE DotsAndBoxes ----------------------------
(***************************************************************************)
(* A game played with the rules of GameCore.  Any player tries any pair of *)
(* neighbouring points, in either direction; the players in ai move where  *)
(* chooseAIMove says.                                                      *)
(***************************************************************************)
EXTENDS GameCore

CONSTANT AIModes        \* whom chooseAIMove may play for, one set per mode

ASSUME AIModesAssumption == AIModes \subseteq SUBSET Players

VARIABLES game, ai

vars == <<game, ai>>

TypeOK == game \in Game /\ ai \in AIModes

Init == game = NewGame /\ ai \in AIModes

Move(a, b) ==
    /\ game.currentPlayer \notin ai
    /\ CanMove(game, EdgeKey(a, b))
    /\ game' = ApplyMove(game, EdgeKey(a, b))
    /\ UNCHANGED ai

AIMove ==
    /\ game.currentPlayer \in ai
    /\ \E e \in AIChoices(game) : game' = ApplyMove(game, e)
    /\ UNCHANGED ai

Next == (\E a, b \in Points : Move(a, b)) \/ AIMove

Spec == Init /\ [][Next]_vars

-----------------------------------------------------------------------------
(***************************************************************************)
(* A game is a game by the rules the server plays by: with the squares and *)
(* owners forgotten, every move is a move of BoardGame.  In particular the *)
(* last edge always closes a square, and no square is closed twice.        *)
(***************************************************************************)
Abstract == INSTANCE BoardGame WITH
    BoardEdges <- Edges,
    NumSquares <- Rows * Cols,
    board <- [taken |-> TakenEdges(game), turn |-> game.currentPlayer,
              score |-> game.score]

ImplementsBoardGame == Abstract!Spec

BoxesOf(g, p) == {b \in g.boxes : b.owner = p}
Total(g) == g.score["X"] + g.score["O"]

(***************************************************************************)
(* The score, which applyMove counts as a difference of completed squares, *)
(* agrees with the boxes, which it collects as the squares not claimed yet;*)
(* the claimed squares are exactly the closed ones, one owner each, and the*)
(* owner drew one of the edges (a move may close two squares at once).     *)
(***************************************************************************)
ScoreMatchesBoxes ==
    /\ \A p \in Players : game.score[p] = Cardinality(BoxesOf(game, p))
    /\ {b.square : b \in game.boxes} = Completed(TakenEdges(game))
    /\ \A b, d \in game.boxes : b.square = d.square => b = d
    /\ \A b \in game.boxes :
          \E e \in SquareEdges(b.square) : game.edges[e] = b.owner

(* What applyMove itself says of a move, the reference for the AI's guess. *)
Scores(g, e) == Total(ApplyMove(g, e)) > Total(g)
OpensABox(g, e) ==
    LET h == ApplyMove(g, e) IN
    h.currentPlayer # g.currentPlayer /\ \E f \in Available(h) : Scores(h, f)

(***************************************************************************)
(* chooseAIMove, which looks only at the neighbours of an edge, plays what *)
(* the rules of applyMove call good: it closes a square whenever some move *)
(* does, and otherwise leaves the opponent nothing to close unless every   *)
(* move would.                                                             *)
(***************************************************************************)
AIPlaysWell ==
    [][game.currentPlayer \in ai =>
          \/ Total(game') > Total(game)
          \/ /\ \A e \in Available(game) : ~Scores(game, e)
             /\ \/ \A f \in Available(game') : ~Scores(game', f)
                \/ \A e \in Available(game) : OpensABox(game, e)]_game
=============================================================================
