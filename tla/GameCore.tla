------------------------------ MODULE GameCore ------------------------------
(***************************************************************************)
(* The rules of the game as pure functions, after                          *)
(* src/packages/game-core/src/engine: a board of Rows x Cols squares, whose*)
(* edges are taken in turn; closing a square scores and keeps the turn.    *)
(***************************************************************************)
EXTENDS Integers, FiniteSets

CONSTANTS Rows, Cols    \* the board size asserted by createGame

ASSUME BoardSize == Rows \in Nat \ {0} /\ Cols \in Nat \ {0}

Players == {"X", "O"}
Free == "free"      \* an edge whose takenBy is undefined

Points == (0..Rows) \X (0..Cols)
Squares == (0..Rows - 1) \X (0..Cols - 1)

(* toOrderedPair and edgeKey: an edge means the same in both directions.   *)
InOrder(a, b) == a[1] < b[1] \/ (a[1] = b[1] /\ a[2] <= b[2])
EdgeKey(a, b) == IF InOrder(a, b) THEN <<a, b>> ELSE <<b, a>>

Horizontals == {<< <<r, c>>, <<r, c + 1>> >> : r \in 0..Rows, c \in 0..Cols - 1}
Verticals == {<< <<r, c>>, <<r + 1, c>> >> : r \in 0..Rows - 1, c \in 0..Cols}
Edges == Horizontals \union Verticals

SquareEdges(s) ==
    LET r == s[1]
        c == s[2]
    IN  { << <<r, c>>, <<r, c + 1>> >>, << <<r, c + 1>>, <<r + 1, c + 1>> >>,
          << <<r + 1, c>>, <<r + 1, c + 1>> >>, << <<r, c>>, <<r + 1, c>> >> }

Game == [edges: [Edges -> Players \union {Free}],
         boxes: SUBSET [square: Squares, owner: Players],
         currentPlayer: Players,
         score: [Players -> Nat]]

NewGame == [edges |-> [e \in Edges |-> Free], boxes |-> {},
            currentPlayer |-> "X", score |-> [p \in Players |-> 0]]

TakenEdges(g) == {e \in Edges : g.edges[e] # Free}
Available(g) == Edges \ TakenEdges(g)
Finished(g) == Available(g) = {}

NextPlayer(p) == IF p = "X" THEN "O" ELSE "X"

(* getCompletedSquarePositions                                             *)
Completed(taken) == {s \in Squares : SquareEdges(s) \subseteq taken}

(* applyMove throws for an edge off the board and for one that is taken.   *)
CanMove(g, key) == key \in Edges /\ g.edges[key] = Free

(* Mutant of applyMove: a double capture counted once.                     *)
ApplyMoveOnePoint(g, key) ==
    LET player == g.currentPlayer
        before == Completed(TakenEdges(g))
        after == Completed(TakenEdges(g) \union {key})
        claimed == {b.square : b \in g.boxes}
        scored == after # before
    IN  [edges |-> [g.edges EXCEPT ![key] = player],
         boxes |-> g.boxes \union
                     {[square |-> s, owner |-> player] : s \in after \ claimed},
         currentPlayer |-> IF scored THEN player ELSE NextPlayer(player),
         score |-> [g.score EXCEPT ![player] = @ + (IF scored THEN 1 ELSE 0)]]

ApplyMove(g, key) ==
    LET player == g.currentPlayer
        before == Completed(TakenEdges(g))
        after == Completed(TakenEdges(g) \union {key})
        claimed == {b.square : b \in g.boxes}
        newlyCompleted == Cardinality(after) - Cardinality(before)
    IN  [edges |-> [g.edges EXCEPT ![key] = player],
         boxes |-> g.boxes \union
                     {[square |-> s, owner |-> player] : s \in after \ claimed},
         currentPlayer |-> IF newlyCompleted > 0 THEN player ELSE NextPlayer(player),
         score |-> [g.score EXCEPT ![player] = @ + newlyCompleted]]

-----------------------------------------------------------------------------
(* chooseAIMove                                                            *)
AdjacentSquares(e) ==
    LET r == e[1][1]
        c == e[1][2]
    IN  IF e[1][1] = e[2][1]
        THEN {<<q, c>> : q \in {r - 1, r}} \intersect Squares
        ELSE {<<r, q>> : q \in {c - 1, c}} \intersect Squares

BoxEdgesTaken(g, s) == Cardinality(SquareEdges(s) \intersect TakenEdges(g))

LineCompletesBox(g, e) == \E s \in AdjacentSquares(e) : BoxEdgesTaken(g, s) = 3

(* Mutant: a line is risky only when it is too late                        *)
LineGivesOneTooLate(g, e) == \E s \in AdjacentSquares(e) : BoxEdgesTaken(g, s) = 3

LineGivesOpponentBox(g, e) == \E s \in AdjacentSquares(e) : BoxEdgesTaken(g, s) = 2

(* The order of the edges array that createGame builds: the horizontals,   *)
(* then the verticals, each row by row.                                    *)
Before(e, f) ==
    IF (e \in Horizontals) = (f \in Horizontals)
    THEN InOrder(e[1], f[1])
    ELSE e \in Horizontals

First(S) == CHOOSE e \in S : \A f \in S : Before(e, f)

(* The edges the function may return: one, or any when every move gives.   *)
AIChoices(g) ==
    LET completing == {e \in Available(g) : LineCompletesBox(g, e)}
        safe == {e \in Available(g) : ~LineGivesOpponentBox(g, e)}
    IN  IF Available(g) = {} THEN {}
        ELSE IF completing # {} THEN {First(completing)}
        ELSE IF safe # {} THEN {First(safe)}
        ELSE Available(g)
=============================================================================
