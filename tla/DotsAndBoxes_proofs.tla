------------------------ MODULE DotsAndBoxes_proofs ------------------------
(***************************************************************************)
(* A game with the rules of game-core, on a board of any size, with the AI *)
(* in any seats: the inductive invariant is that the game is typed and     *)
(* counted (Counted of GameCore_proofs), and that the scores add up to the *)
(* squares that are closed.                                                *)
(***************************************************************************)
EXTENDS DotsAndBoxes, GameCore_proofs

AddsUp(g) == Total(g) = Cardinality(ClosedIn(g))

Inv == TypeOK /\ Counted(game) /\ AddsUp(game)

(* Whoever moves, and however the move was chosen, it is applyMove.        *)
LEMMA StepIsMove ==
    ASSUME TypeOK, Next
    PROVE  ai' = ai /\ \E key \in Edges : CanMove(game, key) /\ game' = ApplyMove(game, key)
<1>1. ASSUME NEW a \in Points, NEW b \in Points, Move(a, b)
      PROVE  ai' = ai /\ \E key \in Edges : CanMove(game, key) /\ game' = ApplyMove(game, key)
    BY <1>1 DEF Move, CanMove
<1>2. CASE AIMove
    BY <1>2, AIPlaysFree DEF AIMove, TypeOK, CanMove
<1>3. QED
    BY <1>1, <1>2 DEF Next

(* What a move adds to the total it adds to the closed squares.            *)
LEMMA MoveAddsUp ==
    ASSUME NEW g \in Game, AddsUp(g), NEW key, CanMove(g, key)
    PROVE  AddsUp(ApplyMove(g, key))
<1> DEFINE h == ApplyMove(g, key)
<1>1. /\ h.score = [g.score EXCEPT ![g.currentPlayer] = @ + Gain(g, key)]
      /\ Gain(g, key) \in 0..2
    BY MoveEffect
<1>2. g.score \in [Players -> Nat] /\ g.currentPlayer \in Players
    BY DEF Game
<1>3. Total(h) = Total(g) + Gain(g, key)
    BY <1>1, <1>2 DEF Total, Players
<1>4. Cardinality(ClosedIn(h)) \in Nat /\ Cardinality(ClosedIn(g)) \in Nat
    BY CompletedGrows DEF ClosedIn
<1>5. QED
    BY <1>3, <1>4 DEF Gain, AddsUp

(* The invariant holds when createGame returns.                            *)
LEMMA InitInv == Init => Inv
<1>1. Total(NewGame) = 0
    BY DEF Total, NewGame, Players
<1>2. QED
    BY <1>1, NewGameIsGame, NewGameCounted DEF Init, Inv, TypeOK, AddsUp

(* Every move, a player's or chooseAIMove's, keeps the invariant.          *)
LEMMA NextInv == Inv /\ [Next]_vars => Inv'
<1> SUFFICES ASSUME Inv, [Next]_vars PROVE Inv'
    OBVIOUS
<1>1. CASE Next
  <2>1. PICK key \in Edges : CanMove(game, key) /\ game' = ApplyMove(game, key)
    BY <1>1, StepIsMove DEF Inv
  <2>2. /\ ApplyMove(game, key) \in Game
        /\ Counted(ApplyMove(game, key)) /\ AddsUp(ApplyMove(game, key))
    BY <2>1, MoveEffect, MoveCounted, MoveAddsUp DEF Inv, TypeOK
  <2>3. QED
    BY <1>1, <2>1, <2>2, StepIsMove DEF Inv, TypeOK
<1>2. CASE UNCHANGED vars
    BY <1>2 DEF vars, Inv, TypeOK
<1>3. QED
    BY <1>1, <1>2

(***************************************************************************)
(* createGame and applyMove keep the state a game (engine/createGame.ts,   *)
(* engine/applyMove.ts); what a move adds to a score is a natural number.  *)
(***************************************************************************)
THEOREM TypeCorrect == Spec => []TypeOK
<1>1. Inv => TypeOK
    BY DEF Inv
<1>2. QED
    BY <1>1, InitInv, NextInv, PTL DEF Spec

(***************************************************************************)
(* On every board, scores, boxes and lines agree after every move          *)
(* (applyMove.ts: newlyCompleted against the boxes it pushes).             *)
(***************************************************************************)
THEOREM ScoresMatch == Spec => []ScoreMatchesBoxes
<1>1. Inv => ScoreMatchesBoxes
    BY DEF Inv, Counted, ScoreMatchesBoxes, OwnedBy, BoxesOf
<1>2. QED
    BY <1>1, InitInv, NextInv, PTL DEF Spec

-----------------------------------------------------------------------------
(* The refinement                                                          *)

BoardOf(g) == [taken |-> TakenEdges(g), turn |-> g.currentPlayer, score |-> g.score]

(* A square has more than one side, so that one line closes none.          *)
LEMMA FirstLineCloses ==
    ASSUME NEW e
    PROVE  Completed({e}) = {} /\ Completed({}) = {}
<1>1. ASSUME NEW s \in Squares
      PROVE  ~(SquareEdges(s) \subseteq {e})
  <2>1. PICK r \in Nat, c \in Nat : s = <<r, c>>
    BY BoardSize DEF Squares
  <2>2. << <<r, c>>, <<r, c + 1>> >> # << <<r, c>>, <<r + 1, c>> >>
    BY <2>1
  <2>3. { << <<r, c>>, <<r, c + 1>> >>, << <<r, c>>, <<r + 1, c>> >> } \subseteq SquareEdges(s)
    BY <2>1 DEF SquareEdges
  <2>4. QED
    BY <2>2, <2>3
<1>2. QED
    BY <1>1 DEF Completed

(* The board is as BoardRules assumes it.                                  *)
LEMMA BoardFits ==
    /\ IsFiniteSet(Edges) /\ Edges # {}
    /\ Rows * Cols \in 1..2 * Cardinality(Edges)
<1>1. <<0, 0>> \in Squares
    BY BoardSize DEF Squares
<1>2. PICK e : e \in SquareEdges(<<0, 0>>)
    BY DEF SquareEdges
<1>3. e \in Edges
    BY <1>1, <1>2, EdgesOfSquare
<1>4. Cardinality(Completed({})) = 0
    BY NewGameIsGame DEF ClosedIn
<1>5. Rows * Cols \in Nat /\ Rows * Cols # 0
  <2>1. IsFiniteSet(Squares) /\ Cardinality(Squares) = Rows * Cols
    BY SquaresFinite
  <2>2. QED
    BY <1>1, <2>1, FS_CardinalityType, FS_EmptySet
<1>6. /\ Cardinality(Edges \ {}) \in Nat
      /\ Rows * Cols - Cardinality(Completed({})) <= 2 * Cardinality(Edges \ {})
    BY OpenSquares
<1>7. Edges \ {} = Edges
    OBVIOUS
<1>8. Rows * Cols <= 2 * Cardinality(Edges) /\ Cardinality(Edges) \in Nat
    BY <1>4, <1>5, <1>6, <1>7
<1>9. QED
    BY <1>3, <1>5, <1>8, EdgesFinite

(* Every square is closed by the last line, not before.                    *)
LEMMA GameIsPlayable ==
    ASSUME NEW g \in Game, AddsUp(g)
    PROVE  Abstract!Playable(BoardOf(g))
<1>1. TakenEdges(g) \in SUBSET Edges
    BY DEF TakenEdges
<1>2. Abstract!Closed(BoardOf(g)) = Cardinality(Completed(TakenEdges(g)))
    BY DEF Abstract!Closed, BoardOf, AddsUp, Total, ClosedIn
<1>3. Abstract!Full(BoardOf(g)) <=> TakenEdges(g) = Edges
    BY DEF Abstract!Full, BoardOf
<1>4. Abstract!Closed(BoardOf(g)) = Rows * Cols <=> Abstract!Full(BoardOf(g))
    BY <1>1, <1>2, <1>3, LastLineCloses
<1>5. Rows * Cols - Abstract!Closed(BoardOf(g)) \in 0..2 * Cardinality(Edges \ TakenEdges(g))
  <2> DEFINE open == Rows * Cols - Cardinality(Completed(TakenEdges(g)))
             free == Cardinality(Edges \ TakenEdges(g))
  <2>1. open \in Nat /\ free \in Nat /\ open <= 2 * free
    BY <1>1, OpenSquares
  <2>2. Rows * Cols - Abstract!Closed(BoardOf(g)) = open
    BY <1>2
  <2> HIDE DEF open, free
  <2>3. open \in 0..2 * free
    BY <2>1
  <2>4. QED
    BY <2>2, <2>3 DEF free
<1>6. BoardOf(g).taken = TakenEdges(g)
    BY DEF BoardOf
<1>7. Abstract!Cardinality(Edges \ TakenEdges(g)) = Cardinality(Edges \ TakenEdges(g))
    BY DEF Cardinality, Abstract!Cardinality
<1>8. QED
    BY <1>4, <1>5, <1>6, <1>7 DEF Abstract!Playable

(* A new game is a new board, and applyMove is a move of the rules.        *)
LEMMA NewGameIsNewBoard == BoardOf(NewGame) = Abstract!NewBoard
    BY NewGameIsGame DEF BoardOf, NewGame, Abstract!NewBoard, Abstract!Slots, Players

(* A move of either player is applyMove at a free edge.                    *)
LEMMA MoveIsAfter ==
    ASSUME NEW g \in Game, AddsUp(g), NEW key, CanMove(g, key)
    PROVE  /\ key \in Edges \ TakenEdges(g)
           /\ BoardOf(ApplyMove(g, key)) \in Abstract!AfterLine(BoardOf(g), key)
<1> DEFINE h == ApplyMove(g, key)
           b == BoardOf(g)
           n == Gain(g, key)
<1>1. key \in Edges \ TakenEdges(g)
    BY DEF CanMove, TakenEdges
<1>2. /\ h \in Game /\ n \in 0..2
      /\ TakenEdges(h) = TakenEdges(g) \union {key}
      /\ h.score = [g.score EXCEPT ![g.currentPlayer] = @ + n]
      /\ h.currentPlayer = IF n > 0 THEN g.currentPlayer ELSE NextPlayer(g.currentPlayer)
    BY MoveEffect
<1>3. Abstract!Playable(BoardOf(h))
    BY <1>2, MoveAddsUp, GameIsPlayable
<1>4. NextPlayer(g.currentPlayer) = Abstract!Opponent(g.currentPlayer)
    BY DEF NextPlayer, Abstract!Opponent
<1>5. BoardOf(h) = [taken |-> b.taken \union {key},
                    turn |-> IF n > 0 THEN b.turn ELSE Abstract!Opponent(b.turn),
                    score |-> [b.score EXCEPT ![b.turn] = @ + n]]
    BY <1>2, <1>4 DEF BoardOf
<1> HIDE DEF h, b, n
<1>6. b.taken = {} => Abstract!Closed(BoardOf(h)) = Abstract!Closed(b)
  <2>1. \A f \in Game : AddsUp(f) =>
            Abstract!Closed(BoardOf(f)) = Cardinality(Completed(TakenEdges(f)))
    BY DEF Abstract!Closed, BoardOf, AddsUp, Total, ClosedIn
  <2>2. ASSUME b.taken = {}
        PROVE  Completed(TakenEdges(h)) = {} /\ Completed(TakenEdges(g)) = {}
    BY <1>2, <2>2, FirstLineCloses DEF b, BoardOf
  <2>3. AddsUp(h)
    BY MoveAddsUp DEF h
  <2>4. QED
    BY <1>2, <2>1, <2>2, <2>3 DEF b
<1>7. BoardOf(h) \in Abstract!AfterLine(b, key)
    BY <1>2, <1>3, <1>5, <1>6 DEF Abstract!AfterLine, Abstract!After
<1>8. QED
    BY <1>1, <1>7 DEF h, b

(***************************************************************************)
(* game-core implements the rules the server plays by: on every board, an  *)
(* edge closes at most two squares, the last edge closes the last square,  *)
(* and closing one scores and keeps the turn.                              *)
(***************************************************************************)
THEOREM BoardGameImplemented == Spec => ImplementsBoardGame
<1>1. Init => Abstract!Init
    BY NewGameIsNewBoard DEF Init, Abstract!Init, BoardOf
<1>2. Inv /\ [Next]_vars => [Abstract!Next]_(BoardOf(game))
  <2> SUFFICES ASSUME Inv, [Next]_vars
               PROVE  [Abstract!Next]_(BoardOf(game))
    OBVIOUS
  <2>1. CASE Next
    <3>1. PICK key \in Edges : CanMove(game, key) /\ game' = ApplyMove(game, key)
      BY <2>1, StepIsMove DEF Inv
    <3>2. /\ key \in Edges \ TakenEdges(game)
          /\ BoardOf(game)' \in Abstract!AfterLine(BoardOf(game), key)
      BY <3>1, MoveIsAfter DEF Inv, TypeOK, BoardOf, TakenEdges
    <3>3. QED
      BY <3>2 DEF Abstract!Next, BoardOf
  <2>2. CASE UNCHANGED vars
    BY <2>2 DEF vars, BoardOf, TakenEdges
  <2>3. QED
    BY <2>1, <2>2
<1>3. QED
    BY <1>1, <1>2, InitInv, NextInv, PTL DEF Spec, ImplementsBoardGame, Abstract!Spec, BoardOf

-----------------------------------------------------------------------------
(* chooseAIMove                                                            *)

(* What a square lacks.                                                    *)
Lacks(g, s) == SquareEdges(s) \ TakenEdges(g)

(* The neighbours that chooseAIMove looks at are the squares of the edge.  *)
LEMMA NeighboursAreSquares ==
    ASSUME NEW e \in Edges
    PROVE  AdjacentSquares(e) = {s \in Squares : e \in SquareEdges(s)}
<1>1. AdjacentSquares(e) = {SquareAfter(e), SquareBefore(e)} \intersect Squares
  <2>1. CASE e \in Horizontals
    <3>1. PICK r \in 0..Rows, c \in 0..Cols - 1 : e = << <<r, c>>, <<r, c + 1>> >>
      BY <2>1 DEF Horizontals
    <3>2. QED
      BY <3>1 DEF AdjacentSquares, SquareAfter, SquareBefore
  <2>2. CASE e \in Verticals
    <3>1. PICK r \in 0..Rows - 1, c \in 0..Cols : e = << <<r, c>>, <<r + 1, c>> >>
      BY <2>2 DEF Verticals
    <3>2. e[1][1] # e[2][1]
      BY <3>1
    <3>3. QED
      BY <3>1, <3>2 DEF AdjacentSquares, SquareAfter, SquareBefore
  <2>3. QED
    BY <2>1, <2>2 DEF Edges
<1>2. ASSUME NEW s \in Squares, s \in {SquareAfter(e), SquareBefore(e)}
      PROVE  e \in SquareEdges(s)
  <2>1. PICK i \in 0..Rows - 1, j \in 0..Cols - 1 : s = <<i, j>>
    BY DEF Squares
  <2>2. CASE e \in Horizontals
    <3>1. PICK r \in 0..Rows, c \in 0..Cols - 1 : e = << <<r, c>>, <<r, c + 1>> >>
      BY <2>2 DEF Horizontals
    <3>2. c = j /\ (r = i \/ r = i + 1)
      BY <1>2, <2>1, <3>1, BoardSize DEF SquareAfter, SquareBefore
    <3>3. QED
      BY <2>1, <3>1, <3>2 DEF SquareEdges
  <2>3. CASE e \in Verticals
    <3>1. PICK r \in 0..Rows - 1, c \in 0..Cols : e = << <<r, c>>, <<r + 1, c>> >>
      BY <2>3 DEF Verticals
    <3>2. r = i /\ (c = j \/ c = j + 1)
      BY <1>2, <2>1, <3>1, BoardSize DEF SquareAfter, SquareBefore
    <3>3. QED
      BY <2>1, <3>1, <3>2 DEF SquareEdges
  <2>4. QED
    BY <2>2, <2>3 DEF Edges
<1>3. QED
    BY <1>1, <1>2, EdgesOfSquare

(* A square has four different edges, whatever its place on the board.     *)
LEMMA FourEdges ==
    ASSUME NEW s \in Squares
    PROVE  IsFiniteSet(SquareEdges(s)) /\ Cardinality(SquareEdges(s)) = 4
<1>1. PICK r \in 0..Rows - 1, c \in 0..Cols - 1 : s = <<r, c>>
    BY DEF Squares
<1> DEFINE top == << <<r, c>>, <<r, c + 1>> >>
           right == << <<r, c + 1>>, <<r + 1, c + 1>> >>
           bottom == << <<r + 1, c>>, <<r + 1, c + 1>> >>
           left == << <<r, c>>, <<r + 1, c>> >>
<1>2. SquareEdges(s) = ({top, right} \union {bottom}) \union {left}
    BY <1>1 DEF SquareEdges
<1>3. /\ top # right /\ bottom \notin {top, right}
      /\ left \notin {top, right} \union {bottom}
    BY BoardSize
<1> HIDE DEF top, right, bottom, left
<1>4. IsFiniteSet({top, right}) /\ Cardinality({top, right}) = 2
    BY <1>3, PairSize
<1>5. /\ IsFiniteSet({top, right} \union {bottom})
      /\ Cardinality({top, right} \union {bottom}) = 2 + 1
    BY <1>3, <1>4, FS_AddElement
<1>6. QED
    BY <1>2, <1>3, <1>5, FS_AddElement

(* The counts that chooseAIMove compares with 3 and with 2.                *)
LEMMA CountsLacks ==
    ASSUME NEW g \in Game, NEW s \in Squares, NEW e \in Lacks(g, s)
    PROVE  /\ BoxEdgesTaken(g, s) = 3 <=> Lacks(g, s) = {e}
           /\ BoxEdgesTaken(g, s) = 2 <=> \E f : f # e /\ Lacks(g, s) = {e, f}
<1>1. /\ IsFiniteSet(SquareEdges(s)) /\ Cardinality(SquareEdges(s)) = 4
      /\ IsFiniteSet(SquareEdges(s) \intersect TakenEdges(g))
      /\ BoxEdgesTaken(g, s) \in Nat
    BY FourEdges, FS_Intersection, FS_CardinalityType DEF BoxEdgesTaken
<1>2. IsFiniteSet(Lacks(g, s)) /\ Cardinality(Lacks(g, s)) = 4 - BoxEdgesTaken(g, s)
    BY <1>1, FS_Difference DEF Lacks, BoxEdgesTaken
<1>3. /\ IsFiniteSet(Lacks(g, s) \ {e})
      /\ Cardinality(Lacks(g, s) \ {e}) = 3 - BoxEdgesTaken(g, s)
    BY <1>1, <1>2, FS_RemoveElement
<1>4. Cardinality(Lacks(g, s) \ {e}) = 0 <=> Lacks(g, s) \ {e} = {}
    BY <1>3, FS_EmptySet
<1>5. Cardinality(Lacks(g, s) \ {e}) = 1 <=> \E f : Lacks(g, s) \ {e} = {f}
    BY <1>3, FS_Singleton
<1>6. Lacks(g, s) \ {e} = {} <=> Lacks(g, s) = {e}
    OBVIOUS
<1>7. (\E f : Lacks(g, s) \ {e} = {f}) <=> \E f : f # e /\ Lacks(g, s) = {e, f}
    OBVIOUS
<1>8. /\ BoxEdgesTaken(g, s) = 3 <=> Cardinality(Lacks(g, s) \ {e}) = 0
      /\ BoxEdgesTaken(g, s) = 2 <=> Cardinality(Lacks(g, s) \ {e}) = 1
    BY <1>1, <1>3
<1>9. BoxEdgesTaken(g, s) = 3 <=> Lacks(g, s) = {e}
    BY <1>4, <1>6, <1>8
<1>10. BoxEdgesTaken(g, s) = 2 <=> \E f : f # e /\ Lacks(g, s) = {e, f}
    BY <1>5, <1>7, <1>8, Zenon
<1>11. QED
    BY <1>9, <1>10

(* A free edge scores when some square lacks it alone.                     *)
LEMMA ScoresWhenLast ==
    ASSUME NEW g \in Game, NEW e \in Available(g)
    PROVE  /\ CanMove(g, e)
           /\ Scores(g, e) <=> \E s \in Squares : Lacks(g, s) = {e}
           /\ Scores(g, e) <=> LineCompletesBox(g, e)
           /\ ~Scores(g, e) => ApplyMove(g, e).currentPlayer # g.currentPlayer
<1> DEFINE h == ApplyMove(g, e)
           D == ClosedIn(h) \ ClosedIn(g)
<1>1. e \in Edges /\ e \notin TakenEdges(g) /\ CanMove(g, e)
    BY DEF Available, TakenEdges, CanMove
<1>2. /\ TakenEdges(h) = TakenEdges(g) \union {e}
      /\ Gain(g, e) \in 0..2 /\ Gain(g, e) = Cardinality(D)
      /\ h.score = [g.score EXCEPT ![g.currentPlayer] = @ + Gain(g, e)]
      /\ h.currentPlayer = IF Gain(g, e) > 0 THEN g.currentPlayer
                           ELSE NextPlayer(g.currentPlayer)
    BY <1>1, MoveEffect
<1>3. g.score \in [Players -> Nat] /\ g.currentPlayer \in Players
    BY DEF Game
<1>4. Total(h) = Total(g) + Gain(g, e)
    BY <1>2, <1>3 DEF Total, Players
<1>5. Scores(g, e) <=> Gain(g, e) # 0
  <2>1. Total(g) \in Nat
    BY <1>3 DEF Total, Players
  <2>2. QED
    BY <1>2, <1>4, <2>1 DEF Scores
<1>6. D = {s \in Squares : Lacks(g, s) = {e}}
    BY <1>1, <1>2 DEF ClosedIn, Completed, Lacks
<1>7. IsFiniteSet(D)
    BY SquaresFinite, <1>6, FS_Subset
<1>8. Gain(g, e) = 0 <=> D = {}
    BY <1>2, <1>7, FS_EmptySet
<1>9. (\E s \in Squares : Lacks(g, s) = {e}) <=> LineCompletesBox(g, e)
  <2>1. \A s \in Squares : e \in SquareEdges(s) =>
            (BoxEdgesTaken(g, s) = 3 <=> Lacks(g, s) = {e})
    BY <1>1, CountsLacks DEF Lacks
  <2>2. \A s \in Squares : Lacks(g, s) = {e} => e \in SquareEdges(s)
    BY DEF Lacks
  <2>3. QED
    BY <1>1, <2>1, <2>2, NeighboursAreSquares DEF LineCompletesBox
<1>10. Gain(g, e) = 0 => h.currentPlayer # g.currentPlayer
    BY <1>2, <1>3 DEF NextPlayer, Players
<1>11. QED
    BY <1>1, <1>5, <1>6, <1>8, <1>9, <1>10

(* When no edge scores, the ones that give the opponent a square are those *)
(* that LineGivesOpponentBox finds.                                        *)
LEMMA GivesWhenNextToLast ==
    ASSUME NEW g \in Game, NEW e \in Available(g),
           \A x \in Available(g) : ~Scores(g, x)
    PROVE  LineGivesOpponentBox(g, e) <=>
               \E f \in Available(ApplyMove(g, e)) : Scores(ApplyMove(g, e), f)
<1> DEFINE h == ApplyMove(g, e)
<1>1. e \in Edges /\ e \notin TakenEdges(g) /\ CanMove(g, e)
    BY DEF Available, TakenEdges, CanMove
<1>2. h \in Game /\ TakenEdges(h) = TakenEdges(g) \union {e}
    BY <1>1, MoveEffect
<1> HIDE DEF h
<1>3. \A s \in Squares : Lacks(h, s) = Lacks(g, s) \ {e}
    BY <1>2 DEF Lacks
<1>4. \A s \in Squares, x \in Available(g) : Lacks(g, s) # {x}
    BY ScoresWhenLast
<1>5. \A s \in Squares : e \in SquareEdges(s) =>
          (BoxEdgesTaken(g, s) = 2 <=> \E f : f # e /\ Lacks(g, s) = {e, f})
    BY <1>1, CountsLacks DEF Lacks
<1>6. ASSUME NEW s \in Squares, NEW f
      PROVE  f \in Lacks(h, s) => f \in Available(h) /\ f \in Available(g)
    BY <1>2, EdgesOfSquare DEF Available, Lacks
<1>7. ASSUME NEW s \in AdjacentSquares(e), BoxEdgesTaken(g, s) = 2
      PROVE  \E f \in Available(h) : Scores(h, f)
  <2>1. s \in Squares /\ e \in SquareEdges(s)
    BY <1>1, NeighboursAreSquares
  <2>2. PICK f : f # e /\ Lacks(g, s) = {e, f}
    BY <1>5, <1>7, <2>1
  <2>3. Lacks(h, s) = {f}
    BY <1>3, <2>1, <2>2
  <2>4. f \in Available(h)
    BY <1>6, <2>1, <2>3
  <2>5. QED
    BY <1>2, <2>1, <2>3, <2>4, ScoresWhenLast
<1>8. ASSUME NEW f \in Available(h), Scores(h, f)
      PROVE  \E s \in AdjacentSquares(e) : BoxEdgesTaken(g, s) = 2
  <2>1. PICK s \in Squares : Lacks(h, s) = {f}
    BY <1>2, <1>8, ScoresWhenLast
  <2>2. f \in Available(g) /\ f # e
    BY <1>2, <1>6, <2>1 DEF Lacks
  <2>3. e \in Lacks(g, s)
    BY <1>3, <1>4, <2>1, <2>2
  <2>4. Lacks(g, s) = {e, f} /\ e \in SquareEdges(s)
    BY <1>3, <2>1, <2>3 DEF Lacks
  <2>5. QED
    BY <1>1, <1>5, <2>2, <2>4, NeighboursAreSquares
<1>9. QED
    BY <1>7, <1>8 DEF LineGivesOpponentBox, h

(***************************************************************************)
(* chooseAIMove (engine/chooseAIMove.ts) plays well by applyMove's         *)
(* own account of a move, on every board and whatever was played before.   *)
(***************************************************************************)
THEOREM AIMovesWell == Spec => AIPlaysWell
<1> DEFINE Well == \/ Total(game') > Total(game)
                   \/ /\ \A e \in Available(game) : ~Scores(game, e)
                      /\ \/ \A f \in Available(game') : ~Scores(game', f)
                         \/ \A e \in Available(game) : OpensABox(game, e)
<1>1. TypeOK /\ [Next]_vars => [game.currentPlayer \in ai => Well]_game
  <2> SUFFICES ASSUME TypeOK, Next, game.currentPlayer \in ai PROVE Well
    BY DEF vars
  <2> DEFINE completing == {x \in Available(game) : LineCompletesBox(game, x)}
             safe == {x \in Available(game) : ~LineGivesOpponentBox(game, x)}
  <2>1. game \in Game /\ Available(game) \subseteq Edges
    BY DEF TypeOK, Available
  <2>2. PICK e \in AIChoices(game) : game' = ApplyMove(game, e)
    BY DEF Next, Move, AIMove
  <2>3. CASE completing # {}
    <3>1. e = First(completing)
      BY <2>2, <2>3 DEF AIChoices
    <3>2. e \in completing
      BY <2>1, <2>3, <3>1, FirstExists
    <3>3. QED
      BY <2>1, <2>2, <3>2, ScoresWhenLast DEF Scores
  <2>4. CASE completing = {}
    <3>1. \A x \in Available(game) : ~Scores(game, x)
      BY <2>1, <2>4, ScoresWhenLast
    <3>2. CASE safe # {}
      <4>1. e = First(safe)
        BY <2>2, <2>4, <3>2 DEF AIChoices
      <4>2. e \in safe
        BY <2>1, <3>2, <4>1, FirstExists
      <4>3. QED
        BY <2>1, <2>2, <3>1, <4>2, GivesWhenNextToLast
    <3>3. CASE safe = {}
      <4>1. \A x \in Available(game) : OpensABox(game, x)
        BY <2>1, <3>1, <3>3, ScoresWhenLast, GivesWhenNextToLast DEF OpensABox
      <4>2. QED
        BY <3>1, <4>1
    <3>4. QED
      BY <3>2, <3>3
  <2>5. QED
    BY <2>3, <2>4
<1>2. QED
    BY <1>1, TypeCorrect, PTL DEF Spec, AIPlaysWell
=============================================================================
