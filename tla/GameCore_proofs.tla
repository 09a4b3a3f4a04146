-------------------------- MODULE GameCore_proofs --------------------------
(***************************************************************************)
(* What applyMove does on a board of any size: the geometry first (which   *)
(* edges a square has, and which squares an edge), then how many squares a *)
(* line closes, and that the whole board is closed by its last line and    *)
(* not before.                                                             *)
(***************************************************************************)
EXTENDS GameCore, FiniteSetTheorems, FunctionTheorems, TLAPS

-----------------------------------------------------------------------------
(* Geometry                                                                *)

(* The two squares an edge may belong to: the one that begins where it     *)
(* does, and the one before, above a horizontal edge or left of a vertical.*)
SquareAfter(e) == e[1]
SquareBefore(e) ==
    IF e[1][1] = e[2][1] THEN <<e[1][1] - 1, e[1][2]>> ELSE <<e[1][1], e[1][2] - 1>>

(* A square has edges of the board only, and is one of the two of each.    *)
LEMMA EdgesOfSquare ==
    ASSUME NEW s \in Squares, NEW e \in SquareEdges(s)
    PROVE  e \in Edges /\ (s = SquareAfter(e) \/ s = SquareBefore(e))
<1> USE BoardSize
<1>1. PICK r \in 0..Rows - 1, c \in 0..Cols - 1 : s = <<r, c>>
    BY DEF Squares
<1>2. e \in { << <<r, c>>, <<r, c + 1>> >>, << <<r, c + 1>>, <<r + 1, c + 1>> >>,
              << <<r + 1, c>>, <<r + 1, c + 1>> >>, << <<r, c>>, <<r + 1, c>> >> }
    BY <1>1 DEF SquareEdges
<1>3. CASE e = << <<r, c>>, <<r, c + 1>> >>
  <2>1. e \in Horizontals
    BY <1>3 DEF Horizontals
  <2>2. QED
    BY <1>1, <1>3, <2>1 DEF Edges, SquareAfter
<1>4. CASE e = << <<r, c + 1>>, <<r + 1, c + 1>> >>
  <2>1. e \in Verticals
    BY <1>4 DEF Verticals
  <2>2. QED
    BY <1>1, <1>4, <2>1 DEF Edges, SquareBefore
<1>5. CASE e = << <<r + 1, c>>, <<r + 1, c + 1>> >>
  <2>1. e \in Horizontals
    BY <1>5 DEF Horizontals
  <2>2. QED
    BY <1>1, <1>5, <2>1 DEF Edges, SquareBefore
<1>6. CASE e = << <<r, c>>, <<r + 1, c>> >>
  <2>1. e \in Verticals
    BY <1>6 DEF Verticals
  <2>2. QED
    BY <1>1, <1>6, <2>1 DEF Edges, SquareAfter
<1>7. QED
    BY <1>2, <1>3, <1>4, <1>5, <1>6

(* No edge lies outside all squares.                                       *)
LEMMA SquareOfEdge ==
    ASSUME NEW e \in Edges
    PROVE  \E s \in Squares : e \in SquareEdges(s)
<1> USE BoardSize
<1>1. CASE e \in Horizontals
  <2>1. PICK r \in 0..Rows, c \in 0..Cols - 1 : e = << <<r, c>>, <<r, c + 1>> >>
    BY <1>1 DEF Horizontals
  <2>2. CASE r < Rows
    <3>1. <<r, c>> \in Squares /\ e \in SquareEdges(<<r, c>>)
      BY <2>1, <2>2 DEF Squares, SquareEdges
    <3>2. QED
      BY <3>1
  <2>3. CASE r = Rows
    <3>1. <<r - 1, c>> \in Squares /\ e \in SquareEdges(<<r - 1, c>>)
      BY <2>1, <2>3 DEF Squares, SquareEdges
    <3>2. QED
      BY <3>1
  <2>4. QED
    BY <2>2, <2>3
<1>2. CASE e \in Verticals
  <2>1. PICK r \in 0..Rows - 1, c \in 0..Cols : e = << <<r, c>>, <<r + 1, c>> >>
    BY <1>2 DEF Verticals
  <2>2. CASE c < Cols
    <3>1. <<r, c>> \in Squares /\ e \in SquareEdges(<<r, c>>)
      BY <2>1, <2>2 DEF Squares, SquareEdges
    <3>2. QED
      BY <3>1
  <2>3. CASE c = Cols
    <3>1. <<r, c - 1>> \in Squares /\ e \in SquareEdges(<<r, c - 1>>)
      BY <2>1, <2>3 DEF Squares, SquareEdges
    <3>2. QED
      BY <3>1
  <2>4. QED
    BY <2>2, <2>3
<1>3. QED
    BY <1>1, <1>2 DEF Edges

(* The board is finite, and as large as it says.                           *)
LEMMA SquaresFinite == IsFiniteSet(Squares) /\ Cardinality(Squares) = Rows * Cols
<1> DEFINE R == 0..Rows - 1
           C == 0..Cols - 1
<1>1. /\ IsFiniteSet(R) /\ Cardinality(R) = Rows
      /\ IsFiniteSet(C) /\ Cardinality(C) = Cols
    BY BoardSize, FS_Interval
<1>2. Squares = R \X C
    BY DEF Squares
<1> HIDE DEF R, C
<1>3. IsFiniteSet(R \X C) /\ Cardinality(R \X C) = Cardinality(R) * Cardinality(C)
    BY <1>1, FS_Product
<1>4. QED
    BY <1>1, <1>2, <1>3

(* There are finitely many edges, so the drawn ones can be counted.        *)
LEMMA EdgesFinite == IsFiniteSet(Edges)
<1>1. IsFiniteSet(0..Rows) /\ IsFiniteSet(0..Cols)
    BY BoardSize, FS_Interval
<1>2. IsFiniteSet(Points)
    BY <1>1, FS_Product DEF Points
<1>3. IsFiniteSet(Points \X Points)
    BY <1>2, FS_Product
<1>4. Edges \subseteq Points \X Points
    BY BoardSize DEF Edges, Horizontals, Verticals, Points
<1>5. QED
    BY <1>3, <1>4, FS_Subset

-----------------------------------------------------------------------------
(* Closed squares                                                          *)

(* Lines never open a square that is closed.                               *)
LEMMA CompletedGrows ==
    ASSUME NEW T, NEW U, T \subseteq U
    PROVE  /\ Completed(T) \subseteq Completed(U) /\ Completed(U) \subseteq Squares
           /\ IsFiniteSet(Completed(T)) /\ IsFiniteSet(Completed(U))
           /\ Cardinality(Completed(T)) \in Nat /\ Cardinality(Completed(U)) \in Nat
           /\ Cardinality(Completed(T)) <= Cardinality(Completed(U))
<1>1. Completed(T) \subseteq Completed(U) /\ Completed(U) \subseteq Squares
    BY DEF Completed
<1>2. IsFiniteSet(Completed(T)) /\ IsFiniteSet(Completed(U))
    BY <1>1, SquaresFinite, FS_Subset
<1>3. QED
    BY <1>1, <1>2, FS_Subset, FS_CardinalityType

(* {x, y} has two elements, or one when x = y: the squares beside a line.  *)
LEMMA PairSize ==
    ASSUME NEW x, NEW y
    PROVE  IsFiniteSet({x, y}) /\ Cardinality({x, y}) = (IF x = y THEN 1 ELSE 2)
<1>1. IsFiniteSet({x}) /\ Cardinality({x}) = 1
    BY FS_Singleton
<1>2. {x, y} = {x} \union {y}
    OBVIOUS
<1>3. QED
    BY <1>1, <1>2, FS_AddElement

(* A line closes at most two squares.                                      *)
LEMMA LineClosesTwo ==
    ASSUME NEW T, NEW e
    PROVE  /\ Cardinality(Completed(T \union {e})) - Cardinality(Completed(T))
                  = Cardinality(Completed(T \union {e}) \ Completed(T))
           /\ Cardinality(Completed(T \union {e}) \ Completed(T)) \in 0..2
<1> DEFINE before == Completed(T)
           after == Completed(T \union {e})
           D == after \ before
<1>1. /\ before \subseteq after /\ IsFiniteSet(before) /\ IsFiniteSet(after)
      /\ Cardinality(before) \in Nat /\ Cardinality(after) \in Nat
    BY CompletedGrows
<1>2. IsFiniteSet(D) /\ Cardinality(D) = Cardinality(after) - Cardinality(before)
  <2>1. after \intersect before = before
    BY <1>1
  <2>2. QED
    BY <1>1, <2>1, FS_Difference
<1>3. D \subseteq {SquareAfter(e), SquareBefore(e)}
  <2>1. SUFFICES ASSUME NEW s \in D PROVE s \in {SquareAfter(e), SquareBefore(e)}
    OBVIOUS
  <2>2. s \in Squares /\ e \in SquareEdges(s)
    BY <2>1 DEF Completed
  <2>3. QED
    BY <2>2, EdgesOfSquare
<1>4. /\ IsFiniteSet({SquareAfter(e), SquareBefore(e)})
      /\ Cardinality({SquareAfter(e), SquareBefore(e)}) \in {1, 2}
    BY PairSize
<1>5. Cardinality(D) <= Cardinality({SquareAfter(e), SquareBefore(e)})
    BY <1>3, <1>4, FS_Subset
<1>6. Cardinality(D) \in Nat /\ Cardinality({SquareAfter(e), SquareBefore(e)}) \in Nat
    BY <1>2, <1>4, FS_CardinalityType
<1>7. QED
    BY <1>2, <1>4, <1>5, <1>6

(* All squares are closed when all edges are taken, and not before.        *)
LEMMA LastLineCloses ==
    ASSUME NEW T \in SUBSET Edges
    PROVE  Cardinality(Completed(T)) = Rows * Cols <=> T = Edges
<1>1. Completed(T) \subseteq Squares
    BY DEF Completed
<1>2. Cardinality(Completed(T)) = Rows * Cols <=> Completed(T) = Squares
    BY <1>1, SquaresFinite, FS_Subset
<1>3. T = Edges => Completed(T) = Squares
    BY EdgesOfSquare DEF Completed
<1>4. ASSUME Completed(T) = Squares
      PROVE  T = Edges
  <2>1. SUFFICES ASSUME NEW e \in Edges PROVE e \in T
    OBVIOUS
  <2>2. PICK s \in Squares : e \in SquareEdges(s)
    BY SquareOfEdge
  <2>3. s \in Completed(T)
    BY <1>4
  <2>4. QED
    BY <2>2, <2>3 DEF Completed
<1>5. QED
    BY <1>2, <1>3, <1>4

(* Every open square lacks a line, which it shares with one other at most: *)
(* there are no more than twice as many open squares as free edges.        *)
LEMMA OpenSquares ==
    ASSUME NEW T \in SUBSET Edges
    PROVE  /\ Rows * Cols - Cardinality(Completed(T)) \in Nat
           /\ Cardinality(Edges \ T) \in Nat
           /\ Rows * Cols - Cardinality(Completed(T)) <= 2 * Cardinality(Edges \ T)
<1> DEFINE open == Squares \ Completed(T)
           missing(s) == CHOOSE e \in SquareEdges(s) : e \notin T
           side(s) == IF s = SquareAfter(missing(s)) THEN 1 ELSE 2
           f == [s \in open |-> <<missing(s), side(s)>>]
           target == (Edges \ T) \X ({1, 2})
<1>1. \A s \in open : missing(s) \in SquareEdges(s) /\ missing(s) \notin T
    BY DEF Completed
<1>2. \A s \in open : missing(s) \in Edges \ T
    BY <1>1, EdgesOfSquare
<1>3. \A s \in open :
          s = IF side(s) = 1 THEN SquareAfter(missing(s)) ELSE SquareBefore(missing(s))
    BY <1>1, EdgesOfSquare
<1> HIDE DEF missing, side
<1>4. f \in [open -> target]
  <2>1. \A s \in open : side(s) \in {1, 2}
    BY DEF side
  <2>2. QED
    BY <1>2, <2>1
<1>5. \A s, q \in open : f[s] = f[q] => s = q
    BY <1>3
<1>6. f \in Injection(open, target)
    BY <1>4, <1>5, Fun_IsInj
<1>7. /\ IsFiniteSet(Edges \ T) /\ IsFiniteSet({1, 2}) /\ Cardinality({1, 2}) = 2
  <2>1. IsFiniteSet(Edges \ T)
    BY EdgesFinite, FS_Difference
  <2>2. IsFiniteSet({1, 2}) /\ Cardinality({1, 2}) = 2
    BY PairSize
  <2>3. QED
    BY <2>1, <2>2
<1>8. IsFiniteSet(target) /\ Cardinality(target) = Cardinality(Edges \ T) * 2
    BY <1>7, FS_Product
<1>9. IsFiniteSet(open) /\ Cardinality(open) <= Cardinality(target)
    BY <1>6, <1>8, FS_Injection
<1>10. Cardinality(open) = Rows * Cols - Cardinality(Completed(T))
  <2>1. Completed(T) = Squares \intersect Completed(T)
    BY DEF Completed
  <2>2. QED
    BY <2>1, SquaresFinite, FS_Difference
<1>11. Cardinality(open) \in Nat /\ Cardinality(Edges \ T) \in Nat
    BY <1>7, <1>9, FS_CardinalityType
<1>12. QED
    BY <1>8, <1>9, <1>10, <1>11

-----------------------------------------------------------------------------
(* applyMove                                                               *)

ClosedIn(g) == Completed(TakenEdges(g))
Gain(g, key) == Cardinality(ClosedIn(ApplyMove(g, key))) - Cardinality(ClosedIn(g))

(* The new game is one.                                                    *)
LEMMA NewGameIsGame ==
    /\ NewGame \in Game /\ TakenEdges(NewGame) = {} /\ ClosedIn(NewGame) = {}
    /\ Cardinality(ClosedIn(NewGame)) = 0
<1>1. NewGame \in Game /\ TakenEdges(NewGame) = {}
    BY DEF NewGame, Game, Players, Free, TakenEdges
<1>2. ClosedIn(NewGame) = {}
  <2>1. \A s \in Squares : SquareEdges(s) # {}
    BY DEF SquareEdges
  <2>2. QED
    BY <1>1, <2>1 DEF ClosedIn, Completed
<1>3. QED
    BY <1>1, <1>2, FS_EmptySet

(* A move takes its edge, closes at most two squares, scores one each, and *)
(* passes the turn unless it scores.                                       *)
LEMMA MoveEffect ==
    ASSUME NEW g \in Game, NEW key, CanMove(g, key)
    PROVE  LET h == ApplyMove(g, key) IN
           /\ h \in Game
           /\ h.edges = [g.edges EXCEPT ![key] = g.currentPlayer]
           /\ TakenEdges(h) = TakenEdges(g) \union {key}
           /\ Gain(g, key) \in 0..2
           /\ Gain(g, key) = Cardinality(ClosedIn(h) \ ClosedIn(g))
           /\ h.score = [g.score EXCEPT ![g.currentPlayer] = @ + Gain(g, key)]
           /\ h.currentPlayer = IF Gain(g, key) > 0 THEN g.currentPlayer
                                ELSE NextPlayer(g.currentPlayer)
           /\ h.boxes = g.boxes \union
                 {[square |-> s, owner |-> g.currentPlayer] :
                    s \in ClosedIn(h) \ {b.square : b \in g.boxes}}
<1> DEFINE player == g.currentPlayer
           h == ApplyMove(g, key)
           claimed == {b.square : b \in g.boxes}
           before == Completed(TakenEdges(g))
           after == Completed(TakenEdges(g) \union {key})
           n == Cardinality(after) - Cardinality(before)
           boxes == g.boxes \union
                      {[square |-> s, owner |-> player] : s \in after \ claimed}
<1>1. h = [edges |-> [g.edges EXCEPT ![key] = player],
           boxes |-> boxes,
           currentPlayer |-> IF n > 0 THEN player ELSE NextPlayer(player),
           score |-> [g.score EXCEPT ![player] = @ + n]]
    BY DEF ApplyMove
<1>2. /\ key \in Edges /\ g.edges[key] = Free /\ player \in Players
      /\ g.edges \in [Edges -> Players \union {Free}] /\ g.score \in [Players -> Nat]
      /\ g.boxes \in SUBSET [square: Squares, owner: Players]
    BY DEF CanMove, Game
<1>3. n \in 0..2 /\ n = Cardinality(after \ before)
    BY LineClosesTwo
<1>4. TakenEdges(h) = TakenEdges(g) \union {key}
    BY <1>1, <1>2 DEF TakenEdges, Players, Free
<1>5. ClosedIn(h) = after /\ ClosedIn(g) = before /\ Gain(g, key) = n
    BY <1>4 DEF ClosedIn, Gain
<1>6. boxes \in SUBSET [square: Squares, owner: Players]
    BY <1>2 DEF Completed
<1>7. [g.score EXCEPT ![player] = @ + n] \in [Players -> Nat]
    BY <1>2, <1>3
<1> HIDE DEF n, boxes, after, before
<1>8. h \in Game
    BY <1>1, <1>2, <1>6, <1>7 DEF Game, NextPlayer, Players
<1>9. /\ h.edges = [g.edges EXCEPT ![key] = player] /\ h.boxes = boxes
      /\ h.currentPlayer = IF n > 0 THEN player ELSE NextPlayer(player)
      /\ h.score = [g.score EXCEPT ![player] = @ + n]
    BY <1>1
<1>10. h.boxes = g.boxes \union
                   {[square |-> s, owner |-> player] : s \in ClosedIn(h) \ claimed}
    BY <1>5, <1>9 DEF boxes
<1> HIDE DEF h
<1>11. TakenEdges(h) = TakenEdges(g) \union {key} /\ Gain(g, key) \in 0..2
       /\ Gain(g, key) = Cardinality(ClosedIn(h) \ ClosedIn(g))
    BY <1>3, <1>4, <1>5
<1>12. QED
    BY <1>5, <1>8, <1>9, <1>10, <1>11 DEF h

(* The squares claimed are the closed ones, each has one owner, who drew   *)
(* one of its edges, and a player's score counts its squares.              *)
OwnedBy(g, p) == {b \in g.boxes : b.owner = p}

Counted(g) ==
    /\ \A p \in Players : g.score[p] = Cardinality(OwnedBy(g, p))
    /\ {b.square : b \in g.boxes} = Completed(TakenEdges(g))
    /\ \A b, d \in g.boxes : b.square = d.square => b = d
    /\ \A b \in g.boxes : \E e \in SquareEdges(b.square) : g.edges[e] = b.owner

(* createGame starts with no box and no score, so the scores count the     *)
(* boxes.                                                                  *)
LEMMA NewGameCounted == Counted(NewGame)
<1>1. NewGame.boxes = {} /\ \A p \in Players : NewGame.score[p] = 0
    BY DEF NewGame
<1>2. \A p \in Players : OwnedBy(NewGame, p) = {}
    BY <1>1 DEF OwnedBy
<1>3. QED
    BY <1>1, <1>2, NewGameIsGame, FS_EmptySet DEF Counted, ClosedIn

(* A player owns finitely many boxes.                                      *)
LEMMA OwnedFinite ==
    ASSUME NEW g \in Game, NEW p \in Players
    PROVE  IsFiniteSet(OwnedBy(g, p)) /\ Cardinality(OwnedBy(g, p)) \in Nat
<1> DEFINE f == [b \in OwnedBy(g, p) |-> b.square]
<1>1. OwnedBy(g, p) \subseteq [square: Squares, owner: {p}]
    BY DEF OwnedBy, Game
<1>2. f \in [OwnedBy(g, p) -> Squares] /\ \A b, d \in OwnedBy(g, p) : f[b] = f[d] => b = d
    BY <1>1
<1> HIDE DEF f
<1>3. f \in Injection(OwnedBy(g, p), Squares)
    BY <1>2, Fun_IsInj
<1>4. QED
    BY <1>3, SquaresFinite, FS_Injection, FS_CardinalityType

(* As many new boxes as squares.                                           *)
LEMMA BoxPerSquare ==
    ASSUME NEW D, IsFiniteSet(D), NEW p
    PROVE  LET B == {[square |-> s, owner |-> p] : s \in D}
           IN  IsFiniteSet(B) /\ Cardinality(B) = Cardinality(D)
<1> DEFINE B == {[square |-> s, owner |-> p] : s \in D}
           f == [s \in D |-> [square |-> s, owner |-> p]]
<1>1. f \in [D -> B] /\ (\A a, b \in D : f[a] = f[b] => a = b) /\ \A t \in B : \E s \in D : f[s] = t
  <2>1. \A a, b \in D : f[a].square = a /\ f[b].square = b
    OBVIOUS
  <2>2. QED
    BY <2>1
<1> HIDE DEF f, B
<1>2. f \in Bijection(D, B)
    BY <1>1, Fun_IsBij
<1>3. ExistsBijection(D, B)
    BY <1>2 DEF ExistsBijection
<1>4. IsFiniteSet(B) /\ Cardinality(B) = Cardinality(D)
    BY <1>3, FS_Bijection
<1>5. QED
    BY <1>4 DEF B

(* applyMove counts a difference of closed squares and collects the closed *)
(* squares nobody has claimed; the two agree.                              *)
LEMMA MoveCounted ==
    ASSUME NEW g \in Game, Counted(g), NEW key, CanMove(g, key)
    PROVE  Counted(ApplyMove(g, key))
<1> DEFINE player == g.currentPlayer
           h == ApplyMove(g, key)
           D == ClosedIn(h) \ ClosedIn(g)
           new == {[square |-> s, owner |-> player] : s \in D}
<1>1. /\ h \in Game /\ key \in Edges /\ g.edges[key] = Free /\ player \in Players
      /\ h.edges = [g.edges EXCEPT ![key] = player]
      /\ g.edges \in [Edges -> Players \union {Free}]
      /\ TakenEdges(h) = TakenEdges(g) \union {key}
      /\ Gain(g, key) = Cardinality(D) /\ Gain(g, key) \in 0..2
      /\ h.score = [g.score EXCEPT ![player] = @ + Gain(g, key)]
      /\ g.score \in [Players -> Nat]
  <2>1. key \in Edges /\ g.edges[key] = Free /\ player \in Players
        /\ g.edges \in [Edges -> Players \union {Free}] /\ g.score \in [Players -> Nat]
    BY DEF CanMove, Game
  <2>2. /\ h \in Game
        /\ h.edges = [g.edges EXCEPT ![key] = player]
        /\ TakenEdges(h) = TakenEdges(g) \union {key}
        /\ Gain(g, key) = Cardinality(D) /\ Gain(g, key) \in 0..2
        /\ h.score = [g.score EXCEPT ![player] = @ + Gain(g, key)]
    BY MoveEffect
  <2>3. QED
    BY <2>1, <2>2
<1>2. {b.square : b \in g.boxes} = ClosedIn(g)
    BY DEF Counted, ClosedIn
<1>3. h.boxes = g.boxes \union new
    BY <1>2, MoveEffect
<1>4. ClosedIn(g) \subseteq ClosedIn(h) /\ IsFiniteSet(D)
    BY <1>1, CompletedGrows, FS_Difference DEF ClosedIn
<1>5. IsFiniteSet(new) /\ Cardinality(new) = Cardinality(D)
    BY <1>4, BoxPerSquare
<1> HIDE DEF h
<1>6. \A p \in Players : h.score[p] = Cardinality(OwnedBy(h, p))
  <2>1. OwnedBy(h, player) = OwnedBy(g, player) \union new
    BY <1>3 DEF OwnedBy
  <2>2. OwnedBy(g, player) \intersect new = {}
    BY <1>2 DEF OwnedBy
  <2>3. \A p \in Players \ {player} : OwnedBy(h, p) = OwnedBy(g, p)
    BY <1>3 DEF OwnedBy
  <2>4. IsFiniteSet(OwnedBy(g, player)) /\ Cardinality(OwnedBy(g, player)) \in Nat
    BY <1>1, OwnedFinite
  <2>5. Cardinality(OwnedBy(h, player)) = Cardinality(OwnedBy(g, player)) + Cardinality(D)
    <3>1. Cardinality({}) = 0
      BY FS_EmptySet
    <3>2. /\ Cardinality(OwnedBy(g, player) \union new)
               = Cardinality(OwnedBy(g, player)) + Cardinality(new)
                 - Cardinality(OwnedBy(g, player) \intersect new)
      BY <1>5, <2>4, FS_Union
    <3>3. Cardinality(OwnedBy(h, player)) = Cardinality(OwnedBy(g, player)) + Cardinality(new) - 0
      BY <2>1, <2>2, <3>1, <3>2
    <3>4. QED
      BY <1>1, <1>5, <2>4, <3>3
  <2>6. \A p \in Players : g.score[p] = Cardinality(OwnedBy(g, p))
    BY DEF Counted
  <2>7. QED
    BY <1>1, <2>3, <2>5, <2>6
<1>7. {b.square : b \in h.boxes} = Completed(TakenEdges(h))
  <2>1. {b.square : b \in new} = D
    <3>1. \A s \in D : [square |-> s, owner |-> player].square = s
      OBVIOUS
    <3>2. QED
      BY <3>1
  <2>2. {b.square : b \in h.boxes} = {b.square : b \in g.boxes} \union {b.square : b \in new}
    BY <1>3
  <2>3. QED
    BY <1>2, <1>4, <2>1, <2>2 DEF ClosedIn
<1>8. \A b, d \in h.boxes : b.square = d.square => b = d
  <2>1. \A b \in g.boxes : b.square \in ClosedIn(g)
    BY <1>2
  <2>2. \A b \in new : b.square \notin ClosedIn(g) /\ b = [square |-> b.square, owner |-> player]
    OBVIOUS
  <2>3. QED
    BY <1>3, <2>1, <2>2 DEF Counted
<1>9. ASSUME NEW b \in h.boxes
      PROVE  \E e \in SquareEdges(b.square) : h.edges[e] = b.owner
  <2>1. CASE b \in g.boxes
    <3>1. PICK e \in SquareEdges(b.square) : g.edges[e] = b.owner
      BY <2>1 DEF Counted
    <3>2. b.owner \in Players /\ b.square \in Squares
      BY <2>1 DEF Game
    <3>3. e \in Edges /\ e # key
      BY <1>1, <3>1, <3>2, EdgesOfSquare DEF Players, Free
    <3>4. QED
      BY <1>1, <3>1, <3>3
  <2>2. CASE b \in new
    <3>1. b.square \in ClosedIn(h) \ ClosedIn(g) /\ b.owner = player
      BY <2>2
    <3>2. key \in SquareEdges(b.square)
      BY <1>1, <3>1 DEF ClosedIn, Completed
    <3>3. QED
      BY <1>1, <3>1, <3>2
  <2>3. QED
    BY <1>3, <2>1, <2>2
<1>10. Counted(h)
    BY <1>6, <1>7, <1>8, <1>9 DEF Counted
<1>11. QED
    BY <1>10 DEF h

-----------------------------------------------------------------------------
(* chooseAIMove                                                            *)

(* A nonempty set of numbers has a least one: the first edge of a list.    *)
LEMMA LeastNumber ==
    ASSUME NEW N \in SUBSET Nat, N # {}
    PROVE  \E m \in N : \A k \in N : m <= k
<1> DEFINE R == {ss \in Nat \X Nat : ss[1] < ss[2]}
<1>1. IsWellFoundedOn(R, Nat)
    BY NatLessThanWellFounded DEF OpToRel
<1>2. \A k, m \in Nat : ~(<<k, m>> \in R) => m <= k
    OBVIOUS
<1> HIDE DEF R
<1>3. N \subseteq Nat
    OBVIOUS
<1>4. \E m \in N : \A k \in N : ~(<<k, m>> \in R)
    BY <1>1, <1>3, WFMin, Zenon
<1>5. QED
    BY <1>2, <1>3, <1>4, Zenon

(* An edge begins at a point of the board.                                 *)
LEMMA EdgeStarts ==
    ASSUME NEW e \in Edges
    PROVE  e[1][1] \in Nat /\ e[1][2] \in Nat
<1>1. CASE e \in Horizontals
    BY <1>1, BoardSize DEF Horizontals
<1>2. CASE e \in Verticals
    BY <1>2, BoardSize DEF Verticals
<1>3. QED
    BY <1>1, <1>2 DEF Edges

(* Among some edges there is a first one in the order of createGame, so    *)
(* that chooseAIMove, which looks for it, finds one of them.               *)
LEMMA FirstExists ==
    ASSUME NEW S \in SUBSET Edges, S # {}
    PROVE  First(S) \in S
<1> DEFINE S1 == IF S \intersect Horizontals # {} THEN S \intersect Horizontals ELSE S
           N == {e[1][1] : e \in S1}
<1>1. S1 # {} /\ S1 \subseteq S
    OBVIOUS
<1>2. N \in SUBSET Nat /\ N # {}
    BY <1>1, EdgeStarts
<1>3. PICK r \in N : \A k \in N : r <= k
    BY <1>2, LeastNumber
<1> DEFINE M == {e[1][2] : e \in {x \in S1 : x[1][1] = r}}
<1>4. M \in SUBSET Nat /\ M # {}
    BY <1>1, <1>3, EdgeStarts
<1>5. PICK c \in M : \A k \in M : c <= k
    BY <1>4, LeastNumber
<1>6. PICK e \in S1 : e[1][1] = r /\ e[1][2] = c
    BY <1>5
<1>7. ASSUME NEW f \in S
      PROVE  Before(e, f)
  <2>1. CASE f \in S1
    <3>1. f[1][1] \in N /\ (f[1][1] = r => f[1][2] \in M)
      BY <2>1
    <3>2. r <= f[1][1] /\ (f[1][1] = r => c <= f[1][2])
      BY <1>3, <1>5, <3>1
    <3>3. r \in Nat /\ c \in Nat /\ f[1][1] \in Nat /\ f[1][2] \in Nat
      BY <1>2, <1>3, <1>4, <1>5, EdgeStarts
    <3>4. InOrder(e[1], f[1])
      BY <1>6, <3>2, <3>3 DEF InOrder
    <3>5. (e \in Horizontals) = (f \in Horizontals)
      BY <1>6, <2>1
    <3>6. QED
      BY <3>4, <3>5 DEF Before
  <2>2. CASE f \notin S1
    <3>1. e \in Horizontals /\ f \notin Horizontals
      BY <1>6, <2>2
    <3>2. QED
      BY <3>1 DEF Before
  <2>3. QED
    BY <2>1, <2>2
<1>8. \E x \in S : \A f \in S : Before(x, f)
    BY <1>1, <1>6, <1>7
<1>9. QED
    BY <1>8 DEF First

(* chooseAIMove plays a free edge.                                         *)
LEMMA AIPlaysFree ==
    ASSUME NEW g \in Game, NEW e \in AIChoices(g)
    PROVE  CanMove(g, e)
<1>1. Available(g) \subseteq Edges /\ \A x \in Available(g) : CanMove(g, x)
    BY DEF Available, TakenEdges, CanMove
<1> DEFINE completing == {x \in Available(g) : LineCompletesBox(g, x)}
           safe == {x \in Available(g) : ~LineGivesOpponentBox(g, x)}
<1>2. completing # {} => First(completing) \in Available(g)
    BY <1>1, FirstExists
<1>3. safe # {} => First(safe) \in Available(g)
    BY <1>1, FirstExists
<1>4. e \in Available(g)
    BY <1>2, <1>3 DEF AIChoices
<1>5. QED
    BY <1>1, <1>4
=============================================================================
