----------------------------- MODULE BoardRules ----------------------------
(***************************************************************************)
(* What the server relies on when it plays: a game takes the free edges one*)
(* after the other, an edge closes at most two squares, and closing one    *)
(* scores and keeps the turn.  Which edges close a square is left open;    *)
(* DotsAndBoxes, with the geometry of the board, implements this module.   *)
(***************************************************************************)
EXTENDS Integers, FiniteSets

CONSTANTS
    BoardEdges,     \* the edges of the board
    NumSquares      \* how many squares they enclose

ASSUME BoardAssumption ==
    /\ IsFiniteSet(BoardEdges) /\ BoardEdges # {}
    /\ NumSquares \in 1..2 * Cardinality(BoardEdges)

Slots == {"X", "O"}
Opponent(p) == IF p = "X" THEN "O" ELSE "X"

Board == [taken: SUBSET BoardEdges, turn: Slots, score: [Slots -> Nat]]

NewBoard == [taken |-> {}, turn |-> "X", score |-> [p \in Slots |-> 0]]

Closed(b) == b.score["X"] + b.score["O"]
Full(b) == b.taken = BoardEdges

(* Every square is closed when the board is full and not before.           *)
Playable(b) ==
    /\ Closed(b) = NumSquares <=> Full(b)
    /\ NumSquares - Closed(b) \in 0..2 * Cardinality(BoardEdges \ b.taken)

(* The boards that the move of the player in turn on edge e may lead to.   *)
After(b, e) ==
    {c \in {[taken |-> b.taken \union {e},
             turn |-> IF n > 0 THEN b.turn ELSE Opponent(b.turn),
             score |-> [b.score EXCEPT ![b.turn] = @ + n]] : n \in 0..2} :
        Playable(c)}

(* Those that a real board allows: a square has four sides, so that the    *)
(* first line closes none.  Where this does not matter After is used, which*)
(* gives a board of two edges more outcomes.                               *)
AfterLine(b, e) == {c \in After(b, e) : b.taken = {} => Closed(c) = Closed(b)}

Winner(score) ==
    IF score["X"] > score["O"] THEN "X"
    ELSE IF score["O"] > score["X"] THEN "O" ELSE "DRAW"
=============================================================================
