-------------------------- MODULE LocalGame_proofs --------------------------
(***************************************************************************)
(* The browser's local games, on a board of any size and with any number   *)
(* of games and timers: its own board agrees with game-core's rules, and   *)
(* what it writes into the history is right.                               *)
(*                                                                         *)
(* Three inductive invariants, one on top of the other: BoardInv ties what *)
(* checkBoxes collects to the closed squares, so that the sum which ends a *)
(* game is reached by the last line and not before; TypeOK needs it for    *)
(* the score and for endGame's timers; and HistoryInv follows an entry from*)
(* endGame to the history.                                                 *)
(***************************************************************************)
EXTENDS LocalGame, GameCore_proofs, SequenceTheorems

Of(p) == {s \in Squares : boxes[s] = p}

BoardInv ==
    /\ Claimed = Completed(taken)
    /\ \A p \in Players : scores[p] = Cardinality(Of(p))

TimerInv ==
    /\ ends > 0 => GameOver(scores)
    /\ active \/ ends > 0 => games > 0

Inv == TypeOK /\ BoardInv /\ TimerInv

-----------------------------------------------------------------------------
(* isGameOver adds up two scores; that is the number of closed squares, and*)
(* it is full when all lines are drawn.                                    *)
LEMMA OverWhenAllDrawn ==
    ASSUME TypeOK, BoardInv
    PROVE  /\ GameOver(scores) <=> taken = Edges
           /\ scores["X"] + scores["O"] = Cardinality(Completed(taken))
<1>1. /\ IsFiniteSet(Of("X")) /\ IsFiniteSet(Of("O"))
      /\ Cardinality(Of("X")) \in Nat /\ Cardinality(Of("O")) \in Nat
    BY SquaresFinite, FS_Subset, FS_CardinalityType DEF Of
<1>2. Of("X") \union Of("O") = Claimed /\ Of("X") \intersect Of("O") = {}
    BY DEF Of, Claimed, TypeOK, Players, Free
<1>3. Cardinality(Claimed) = Cardinality(Of("X")) + Cardinality(Of("O"))
    BY <1>1, <1>2, FS_Union, FS_EmptySet
<1>4. scores["X"] + scores["O"] = Cardinality(Completed(taken))
    BY <1>3 DEF BoardInv, Players
<1>5. Cardinality(Completed(taken)) = Cardinality(Squares) <=> taken = Edges
    BY SquaresFinite, LastLineCloses DEF TypeOK
<1>6. QED
    BY <1>4, <1>5 DEF GameOver

(* What applyMove of App.tsx does to the board.                            *)
LEMMA DrawEffect ==
    ASSUME TypeOK, BoardInv, NEW e \in Edges \ taken, Draws(e)
    PROVE  /\ NewBoxes(e) = Completed(taken \union {e}) \ Completed(taken)
           /\ IsFiniteSet(NewBoxes(e)) /\ Cardinality(NewBoxes(e)) \in 0..2
           /\ taken' \subseteq Edges /\ taken' = taken \union {e}
           /\ boxes' \in [Squares -> Players \union {Free}]
           /\ scores' = [scores EXCEPT ![player] = @ + Cardinality(NewBoxes(e))]
           /\ scores' \in [Players -> 0..Cardinality(Squares)]
           /\ player' \in Players
           /\ BoardInv'
<1> DEFINE won == NewBoxes(e)
<1>1. won = Completed(taken \union {e}) \ Completed(taken) /\ won \subseteq Squares
    BY DEF NewBoxes, BoardInv, Completed
<1>2. IsFiniteSet(won) /\ Cardinality(won) \in 0..2
    BY <1>1, SquaresFinite, FS_Subset, LineClosesTwo
<1>3. /\ taken \subseteq Edges /\ player \in Players
      /\ boxes \in [Squares -> Players \union {Free}]
      /\ scores \in [Players -> 0..Cardinality(Squares)]
    BY DEF TypeOK
<1>4. /\ taken' = taken \union {e}
      /\ boxes' = [s \in Squares |-> IF s \in won THEN player ELSE boxes[s]]
      /\ scores' = [scores EXCEPT ![player] = @ + Cardinality(won)]
      /\ player' \in {player, NextPlayer(player)}
    BY DEF Draws
<1>5. won \intersect Claimed = {}
    BY <1>1 DEF BoardInv
<1> HIDE DEF won
<1>6. boxes' \in [Squares -> Players \union {Free}]
    BY <1>3, <1>4
<1>7. Claimed' = Claimed \union won
    BY <1>1, <1>3, <1>4 DEF Claimed, Players, Free
<1>8. Claimed' = Completed(taken')
    BY <1>1, <1>4, <1>7, CompletedGrows DEF BoardInv
<1>9. ASSUME NEW p \in Players
      PROVE  scores'[p] = Cardinality(Of(p)') /\ scores'[p] \in 0..Cardinality(Squares)
  <2>1. IsFiniteSet(Of(p)) /\ Cardinality(Of(p)) \in Nat /\ scores[p] = Cardinality(Of(p))
    BY SquaresFinite, FS_Subset, FS_CardinalityType DEF Of, BoardInv
  <2>2. Of(p)' = Of(p) \union (IF p = player THEN won ELSE {})
    BY <1>1, <1>3, <1>4, <1>5 DEF Of, Claimed, Players, Free
  <2>3. Of(p) \intersect won = {}
    BY <1>5 DEF Of, Claimed, Players, Free
  <2>4. Cardinality(Of(p)') = scores[p] + (IF p = player THEN Cardinality(won) ELSE 0)
    <3>1. CASE p = player
      <4>1. Cardinality(Of(p) \union won)
                = Cardinality(Of(p)) + Cardinality(won) - Cardinality({})
        BY <1>2, <2>1, <2>3, FS_Union
      <4>2. QED
        BY <1>2, <2>1, <2>2, <3>1, <4>1, FS_EmptySet
    <3>2. CASE p # player
      BY <2>1, <2>2, <3>2
    <3>3. QED
      BY <3>1, <3>2
  <2>5. scores'[p] = Cardinality(Of(p)')
    BY <1>2, <1>3, <1>4, <2>1, <2>4
  <2>6. Cardinality(Of(p)') \in 0..Cardinality(Squares)
    BY SquaresFinite, FS_Subset, FS_CardinalityType, <1>6 DEF Of
  <2>7. QED
    BY <2>5, <2>6
<1>10. scores' \in [Players -> 0..Cardinality(Squares)]
    BY <1>3, <1>4, <1>9
<1>11. player' \in Players
    BY <1>3, <1>4 DEF NextPlayer, Players
<1>12. BoardInv'
    BY <1>8, <1>9 DEF BoardInv
<1>13. QED
    BY <1>1, <1>2, <1>3, <1>4, <1>6, <1>10, <1>11, <1>12 DEF won

(* A line that is drawn ends no game that is over already.                 *)
LEMMA DrawKeepsInv ==
    ASSUME Inv, NEW e \in Edges \ taken, Draws(e)
    PROVE  /\ BoardInv'
           /\ ends = 0 /\ ends' \in 0..1
           /\ ends' > 0 <=> GameOver(scores)'
<1>1. ~GameOver(scores)
    BY OverWhenAllDrawn DEF Inv
<1>2. ends = 0
    BY <1>1 DEF Inv, TypeOK, TimerInv
<1>3. BoardInv' /\ scores' = [scores EXCEPT ![player] = @ + Cardinality(NewBoxes(e))]
    BY DrawEffect DEF Inv
<1>4. ends' = ends + IF GameOver(scores') THEN 1 ELSE 0
    BY <1>3 DEF Draws
<1>5. QED
    BY <1>2, <1>3, <1>4 DEF GameOver

(* chooseAIMove is asked about the browser's lines and picks a free one.   *)
LEMMA AIDrawsFree ==
    ASSUME TypeOK, NEW e \in AIChoices(CoreState)
    PROVE  e \in Edges \ taken
<1>1. /\ CoreState \in Game
      /\ CoreState.edges = [x \in Edges |-> IF x \in taken THEN "X" ELSE Free]
  <2>1. scores \in [Players -> Nat]
    BY SquaresFinite, FS_CardinalityType DEF TypeOK
  <2>2. QED
    BY <2>1 DEF TypeOK, CoreState, Game, Players
<1>2. CanMove(CoreState, e)
    BY <1>1, AIPlaysFree
<1>3. QED
    BY <1>1, <1>2 DEF CanMove, Free

(* Whether or not another timer is set, the ref and the strays are typed.  *)
LEMMA TimerTyped ==
    ASSUME NEW pending \in BOOLEAN, NEW stray \in Nat, SetAITimer(pending, stray)
    PROVE  aiTimer' \in BOOLEAN /\ strays' \in Nat
<1>1. (aiTimer' = TRUE \/ aiTimer' = pending)
      /\ (strays' = stray \/ strays' = stray + IF pending THEN 1 ELSE 0)
    BY Zenon DEF SetAITimer
<1>2. aiTimer' \in BOOLEAN
    BY <1>1, Zenon
<1>3. strays' \in Nat
  <2>1. (IF pending THEN 1 ELSE 0) \in Nat
    OBVIOUS
  <2>2. QED
    BY <1>1, <2>1
<1>4. QED
    BY <1>2, <1>3

(* Whatever a timer of the AI does to the board, it is one free line.      *)
LEMMA AIMoveDraws ==
    ASSUME Inv, NEW pending \in BOOLEAN, NEW stray \in Nat, AIMove(pending, stray)
    PROVE  /\ \/ UNCHANGED <<board, ends>>
              \/ active /\ \E e \in Edges \ taken : Draws(e)
           /\ aiTimer' \in BOOLEAN /\ strays' \in Nat
           /\ UNCHANGED <<active, mode, chain, lost, modal, history, games>>
<1>1. CASE active /\ player = "O" /\ AIChoices(CoreState) # {}
  <2>1. PICK e \in AIChoices(CoreState) : Draws(e) /\ SetAITimer(pending, stray)
    BY <1>1 DEF AIMove
  <2>2. e \in Edges \ taken
    BY AIDrawsFree DEF Inv
  <2>3. aiTimer' \in BOOLEAN /\ strays' \in Nat
    BY <2>1, TimerTyped
  <2>4. UNCHANGED <<active, mode, chain, lost, modal, history, games>>
    BY DEF AIMove
  <2>5. QED
    BY <1>1, <2>1, <2>2, <2>3, <2>4
<1>2. CASE ~(active /\ player = "O" /\ AIChoices(CoreState) # {})
    BY <1>2 DEF AIMove
<1>3. QED
    BY <1>1, <1>2

(* Nothing but Draws and startGame changes the board.                      *)
LEMMA SameBoard ==
    ASSUME BoardInv, UNCHANGED board
    PROVE  BoardInv'
    BY DEF BoardInv, board, Claimed, Of

(* A line, by a click or by the AI, keeps the types and the timers.        *)
LEMMA DrawStep ==
    ASSUME Inv, active, NEW e \in Edges \ taken, Draws(e),
           aiTimer' \in BOOLEAN, strays' \in Nat,
           UNCHANGED <<active, mode, chain, lost, modal, history, games>>
    PROVE  Inv'
<1>1. TypeOK'
  <2>1. final' \in [1..MaxGames -> [Players -> Nat]]
    <3>1. scores' \in [Players -> Nat]
      <4>1. scores' \in [Players -> 0..Cardinality(Squares)]
        BY DrawEffect DEF Inv
      <4>2. Cardinality(Squares) \in Nat
        BY SquaresFinite, FS_CardinalityType
      <4>3. QED
        BY <4>1, <4>2
    <3>2. final' = final \/ final' = [final EXCEPT ![games] = scores']
      BY DrawEffect DEF Draws, Inv
    <3>3. final \in [1..MaxGames -> [Players -> Nat]]
      BY DEF Inv, TypeOK
    <3>4. QED
      BY <3>1, <3>2, <3>3
  <2>2. QED
    BY <2>1, DrawEffect, DrawKeepsInv DEF Inv, TypeOK
<1>2. TimerInv'
    BY DrawKeepsInv DEF Inv, TimerInv
<1>3. QED
    BY <1>1, <1>2, DrawKeepsInv DEF Inv

(* The board is empty when a game starts.                                  *)
LEMMA EmptyBoard ==
    /\ Completed({}) = {}
    /\ Cardinality(Squares) \in Nat /\ IsFiniteSet(Squares)
<1>1. Completed({}) = {}
    BY NewGameIsGame DEF ClosedIn
<1>2. QED
    BY <1>1, SquaresFinite, FS_CardinalityType

(* The invariant holds when the page is loaded.                            *)
LEMMA InitInv == Init => Inv
<1> SUFFICES ASSUME Init PROVE Inv
    OBVIOUS
<1>1. TypeOK
  <2>1. <<>> \in Seq([game: 1..MaxGames, winner: Players \union {Draw},
                     scores: [Players -> Nat], during: 0..MaxGames])
    BY EmptySeq
  <2>2. scores \in [Players -> 0..Cardinality(Squares)]
    BY EmptyBoard DEF Init
  <2>3. player \in Players /\ mode \in Modes /\ games \in 0..MaxGames
    BY LocalAssumption DEF Init, Players, Modes
  <2>4. /\ taken \subseteq Edges /\ boxes \in [Squares -> Players \union {Free}]
        /\ strays \in Nat /\ ends \in 0..1 /\ chain \subseteq Entry /\ lost \subseteq Entry
    BY DEF Init
  <2>5. active \in BOOLEAN /\ aiTimer \in BOOLEAN /\ modal \in BOOLEAN
    BY DEF Init
  <2>6. history = <<>>
    BY DEF Init
  <2>7. final \in [1..MaxGames -> [Players -> Nat]]
    BY DEF Init
  <2>8. QED
    BY <2>1, <2>2, <2>3, <2>4, <2>5, <2>6, <2>7 DEF TypeOK
<1>2. \A p \in Players : Of(p) = {}
    BY DEF Init, Of, Players, Free
<1>3. BoardInv
    BY <1>2, EmptyBoard, FS_EmptySet DEF Init, BoardInv, Claimed
<1>4. QED
    BY <1>1, <1>3 DEF Inv, Init, TimerInv

(* startGame's new board is typed and counted.                             *)
LEMMA StartKeepsInv ==
    ASSUME Inv, StartGame
    PROVE  Inv'
<1>1. TypeOK'
  <2>1. scores' \in [Players -> 0..Cardinality(Squares)] /\ player' \in Players
    BY EmptyBoard DEF StartGame, Players
  <2>2. games' \in 0..MaxGames
    BY LocalAssumption DEF StartGame, Inv, TypeOK
  <2>3. aiTimer' \in BOOLEAN /\ strays' \in Nat
    <3>1. aiTimer \in BOOLEAN /\ strays \in Nat
      BY DEF Inv, TypeOK
    <3>2. (aiTimer' = TRUE \/ aiTimer' = aiTimer)
          /\ (strays' = strays \/ strays' = strays + IF aiTimer THEN 1 ELSE 0)
      BY Zenon DEF StartGame
    <3>3. aiTimer' \in BOOLEAN
      BY <3>1, <3>2, Zenon
    <3>4. (IF aiTimer THEN 1 ELSE 0) \in Nat
      OBVIOUS
    <3>5. strays' \in Nat
      BY <3>1, <3>2, <3>4
    <3>6. QED
      BY <3>3, <3>5
  <2>4. taken' \subseteq Edges /\ boxes' \in [Squares -> Players \union {Free}]
    BY DEF StartGame
  <2>5. QED
    BY <2>1, <2>2, <2>3, <2>4 DEF Inv, TypeOK, StartGame
<1>2. \A p \in Players : Of(p)' = {}
    BY DEF StartGame, Of, Players, Free
<1>3. BoardInv'
    BY <1>2, EmptyBoard, FS_EmptySet DEF StartGame, BoardInv, Claimed
<1>4. TimerInv'
    BY DEF Inv, TypeOK, StartGame, TimerInv
<1>5. QED
    BY <1>1, <1>3, <1>4 DEF Inv

(* Every click, timer and button keeps the invariant.                      *)
LEMMA NextInv == Inv /\ [Next]_vars => Inv'
<1> SUFFICES ASSUME Inv, [Next]_vars PROVE Inv'
    OBVIOUS
<1>1. ASSUME NEW e \in Edges, Click(e)
      PROVE  Inv'
  <2>1. aiTimer' \in BOOLEAN /\ strays' \in Nat
    BY <1>1, TimerTyped DEF Click, Inv, TypeOK
  <2>2. /\ e \in Edges \ taken /\ active /\ Draws(e)
        /\ UNCHANGED <<active, mode, chain, lost, modal, history, games>>
    BY <1>1 DEF Click
  <2>3. QED
    BY <2>1, <2>2, DrawStep
<1>2. ASSUME NEW pending \in BOOLEAN, NEW stray \in Nat, AIMove(pending, stray)
      PROVE  Inv'
  <2>1. CASE UNCHANGED <<board, ends>>
    <3>1. BoardInv'
      BY <2>1, SameBoard DEF Inv, board
    <3>2. QED
      BY <1>2, <2>1, <3>1, AIMoveDraws DEF Inv, TypeOK, TimerInv, board, GameOver
  <2>2. CASE active /\ \E e \in Edges \ taken : Draws(e)
    BY <1>2, <2>2, AIMoveDraws, DrawStep
  <2>3. QED
    BY <1>2, <2>1, <2>2, AIMoveDraws
<1>3. CASE AITimer
    BY <1>2, <1>3 DEF AITimer, Inv, TypeOK
<1>4. CASE StrayAITimer
  <2>1. strays - 1 \in Nat /\ aiTimer \in BOOLEAN /\ AIMove(aiTimer, strays - 1)
    BY <1>4 DEF StrayAITimer, Inv, TypeOK
  <2>2. QED
    BY <1>2, <2>1
<1>5. CASE EndGame
  <2>1. [game |-> games, winner |-> Leader(scores)] \in Entry
    BY <1>5 DEF EndGame, Inv, TypeOK, TimerInv, Entry, Leader, Players, Draw
  <2>2. BoardInv'
    BY <1>5, SameBoard DEF EndGame, Inv
  <2>3. chain' \subseteq Entry /\ lost' \subseteq Entry
    BY <1>5, <2>1 DEF EndGame, Inv, TypeOK, Pending
  <2>4. ends' \in 0..1 /\ TimerInv'
    BY <1>5 DEF EndGame, Inv, TypeOK, TimerInv
  <2>5. TypeOK'
    BY <1>5, <2>3, <2>4 DEF EndGame, Inv, TypeOK, board
  <2>6. QED
    BY <2>2, <2>4, <2>5 DEF Inv
<1>6. ASSUME NEW x \in Pending, SaveHistory(x)
      PROVE  Inv'
  <2> DEFINE Line == [game: 1..MaxGames, winner: Players \union {Draw},
                      scores: [Players -> Nat], during: 0..MaxGames]
             line == [game |-> x.game, winner |-> x.winner, scores |-> scores,
                      during |-> games]
  <2>1. scores \in [Players -> Nat]
    BY EmptyBoard DEF Inv, TypeOK
  <2>2. line \in Line /\ history \in Seq(Line)
    BY <1>6, <2>1 DEF Inv, TypeOK, Pending, Entry
  <2>3. <<line>> \o history \in Seq(Line)
    <3> HIDE DEF line, Line
    <3>1. <<line>> \in Seq(Line)
      BY <2>2
    <3>2. QED
      BY <2>2, <3>1, ConcatProperties
  <2>4. BoardInv'
    BY <1>6, SameBoard DEF SaveHistory, Inv
  <2>5. QED
    BY <1>6, <2>3, <2>4 DEF SaveHistory, Inv, TypeOK, TimerInv, board, GameOver
<1>7. CASE StartGame
    BY <1>7, StartKeepsInv
<1>8. CASE GoHome
    BY <1>8, SameBoard DEF GoHome, Inv, TypeOK, TimerInv, board, GameOver
<1>9. CASE ShowHistory
    BY <1>9, SameBoard DEF ShowHistory, Inv, TypeOK, TimerInv, board, timers, GameOver
<1>10. ASSUME NEW m \in Modes, SetGameMode(m)
       PROVE  Inv'
    BY <1>10, SameBoard DEF SetGameMode, Inv, TypeOK, TimerInv, board, timers, GameOver
<1>11. CASE UNCHANGED vars
    BY <1>11, SameBoard DEF vars, Inv, TypeOK, TimerInv, board, GameOver
<1>12. QED
    BY <1>1, <1>3, <1>4, <1>5, <1>6, <1>7, <1>8, <1>9, <1>10, <1>11 DEF Next, Timers

(***************************************************************************)
(* The browser's refs keep their types: at most one endGame timer pends    *)
(* (App.tsx: applyMove sets it when the scores add up), and a score never  *)
(* exceeds the number of squares.                                          *)
(***************************************************************************)
THEOREM TypeCorrect == Spec => []TypeOK
<1>1. Inv => TypeOK
    BY DEF Inv
<1>2. QED
    BY <1>1, InitInv, NextInv, PTL DEF Spec

-----------------------------------------------------------------------------
(* The browser's own program and game-core's applyMove                     *)

(* What applyMove of game-core makes of the browser's board is what        *)
(* applyMove of App.tsx makes of it; in particular the turn never passes   *)
(* differently because the game is over, as its last line closes a square. *)
LEMMA DrawFollowsRules ==
    ASSUME Inv, NEW e \in Edges \ taken, Draws(e)
    PROVE  LET g == ApplyMove(CoreGame, e) IN
           /\ taken' = TakenEdges(g)
           /\ scores' = g.score
           /\ player' = g.currentPlayer
           /\ g.boxes = {[square |-> s, owner |-> boxes'[s]] :
                           s \in {q \in Squares : boxes'[q] # Free}}
<1> DEFINE c == CoreGame
           g == ApplyMove(c, e)
           won == NewBoxes(e)
<1>1. /\ taken \subseteq Edges /\ player \in Players /\ scores \in [Players -> Nat]
      /\ boxes \in [Squares -> Players \union {Free}]
    BY EmptyBoard DEF Inv, TypeOK
<1> DEFINE lines == [x \in Edges |-> IF x \in taken THEN "X" ELSE Free]
           marks == {[square |-> s, owner |-> boxes[s]] : s \in Claimed}
<1>2. c = [edges |-> lines, boxes |-> marks, currentPlayer |-> player, score |-> scores]
  <2>1. c = [CoreState EXCEPT !.boxes = marks]
    BY DEF CoreGame
  <2>2. CoreState = [edges |-> lines, boxes |-> {}, currentPlayer |-> player,
                     score |-> scores]
    BY DEF CoreState
  <2> HIDE DEF lines, marks, c
  <2>3. QED
    BY <2>1, <2>2
<1>3. c \in Game
  <2>1. marks \in SUBSET [square: Squares, owner: Players]
    BY <1>1 DEF Claimed
  <2>2. lines \in [Edges -> Players \union {Free}]
    BY DEF Players
  <2> HIDE DEF lines, marks, c
  <2>3. QED
    BY <1>1, <1>2, <2>1, <2>2 DEF Game
<1>4. TakenEdges(c) = taken /\ CanMove(c, e)
    BY <1>1, <1>2 DEF TakenEdges, CanMove, Free
<1>5. {b.square : b \in c.boxes} = Claimed
  <2>1. c.boxes = marks
    BY <1>2
  <2>2. \A b \in marks : b.square \in Claimed
    OBVIOUS
  <2>3. ASSUME NEW s \in Claimed
        PROVE  \E b \in marks : b.square = s
    <3>1. [square |-> s, owner |-> boxes[s]] \in marks
      OBVIOUS
    <3>2. QED
      BY <3>1
  <2> HIDE DEF marks, c
  <2>4. QED
    BY <2>1, <2>2, <2>3
<1>6. /\ NewBoxes(e) = Completed(taken \union {e}) \ Completed(taken)
      /\ IsFiniteSet(won) /\ Cardinality(won) \in 0..2
      /\ taken' = taken \union {e}
      /\ scores' = [scores EXCEPT ![player] = @ + Cardinality(won)]
    BY DrawEffect DEF Inv
<1>7. /\ TakenEdges(g) = taken \union {e}
      /\ Gain(c, e) = Cardinality(won)
      /\ g.score = [scores EXCEPT ![player] = @ + Gain(c, e)]
      /\ g.currentPlayer = IF Gain(c, e) > 0 THEN player ELSE NextPlayer(player)
  <2>1. /\ TakenEdges(g) = TakenEdges(c) \union {e}
        /\ Gain(c, e) = Cardinality(ClosedIn(g) \ ClosedIn(c))
        /\ g.score = [c.score EXCEPT ![c.currentPlayer] = @ + Gain(c, e)]
        /\ g.currentPlayer = IF Gain(c, e) > 0 THEN c.currentPlayer
                             ELSE NextPlayer(c.currentPlayer)
    BY <1>3, <1>4, MoveEffect
  <2>2. ClosedIn(g) \ ClosedIn(c) = won
    BY <1>4, <1>6, <2>1 DEF ClosedIn
  <2>3. QED
    BY <1>2, <1>4, <2>1, <2>2
<1>8. player' = g.currentPlayer
  <2>1. player' = IF won = {} /\ ~GameOver(scores') THEN NextPlayer(player) ELSE player
    BY <1>6 DEF Draws
  <2>2. won = {} => ~GameOver(scores')
    <3>1. ~GameOver(scores)
      BY OverWhenAllDrawn DEF Inv
    <3>2. won = {} => scores' = scores
      <4>1. won = {} => Cardinality(won) = 0
        BY FS_EmptySet
      <4> HIDE DEF won
      <4>2. Cardinality(won) = 0 => scores' = scores
        BY <1>1, <1>6
      <4>3. QED
        BY <4>1, <4>2
    <3>3. QED
      BY <3>1, <3>2 DEF GameOver
  <2>3. Cardinality(won) > 0 <=> won # {}
    BY <1>6, FS_EmptySet
  <2>4. QED
    BY <1>7, <2>1, <2>2, <2>3
<1>9. g.boxes = c.boxes \union {[square |-> s, owner |-> player] : s \in won}
  <2>1. g.boxes = c.boxes \union {[square |-> s, owner |-> player] :
                      s \in Completed(TakenEdges(c) \union {e}) \ {b.square : b \in c.boxes}}
    BY <1>2 DEF ApplyMove
  <2>2. won = Completed(TakenEdges(c) \union {e}) \ {b.square : b \in c.boxes}
    BY <1>4, <1>5 DEF NewBoxes
  <2>3. QED
    BY <2>1, <2>2, Zenon
<1>10. g.boxes = {[square |-> s, owner |-> boxes'[s]] :
                    s \in {q \in Squares : boxes'[q] # Free}}
  <2>1. boxes' = [s \in Squares |-> IF s \in won THEN player ELSE boxes[s]]
    BY DEF Draws
  <2>2. won \subseteq Squares /\ won \intersect Claimed = {} /\ player # Free
    BY <1>1 DEF NewBoxes, Completed, Players, Free
  <2> HIDE DEF won, g, c
  <2>3. {q \in Squares : boxes'[q] # Free} = Claimed \union won
    BY <2>1, <2>2 DEF Claimed
  <2>4. \A s \in won : boxes'[s] = player
    BY <2>1, <2>2
  <2>5. \A s \in Claimed : boxes'[s] = boxes[s]
    BY <2>1, <2>2 DEF Claimed
  <2>6. c.boxes = marks
    BY <1>2
  <2>7. QED
    BY <1>9, <2>3, <2>4, <2>5, <2>6
<1>11. QED
    BY <1>6, <1>7, <1>8, <1>10

(***************************************************************************)
(* Every line the browser draws in a running game, by a click or by a timer*)
(* of the AI that may be late or replaced, has the score, the boxes and the*)
(* turn that game-core's applyMove gives it (App.tsx: applyMove and        *)
(* checkBoxes), on a board of any size.                                    *)
(***************************************************************************)
THEOREM MovesByTheRules == Spec => MovesFollowTheRules
<1> DEFINE Ruled == \E e \in Edges \ taken :
                        LET g == ApplyMove(CoreGame, e) IN
                        /\ taken' = TakenEdges(g)
                        /\ scores' = g.score
                        /\ player' = g.currentPlayer
                        /\ g.boxes = {[square |-> s, owner |-> boxes'[s]] :
                                        s \in {q \in Squares : boxes'[q] # Free}}
<1>1. ASSUME Inv, Next, games' = games, taken' # taken
      PROVE  \E e \in Edges \ taken : Draws(e)
  <2>1. CASE \E e \in Edges : Click(e)
    BY <2>1 DEF Click
  <2>2. ASSUME NEW pending \in BOOLEAN, NEW stray \in Nat, AIMove(pending, stray)
        PROVE  \E e \in Edges \ taken : Draws(e)
    BY <1>1, <2>2, AIMoveDraws DEF board
  <2>3. CASE AITimer
    BY <1>1, <2>2, <2>3 DEF AITimer, Inv, TypeOK
  <2>4. CASE StrayAITimer
    <3>1. strays - 1 \in Nat /\ aiTimer \in BOOLEAN /\ AIMove(aiTimer, strays - 1)
      BY <1>1, <2>4 DEF StrayAITimer, Inv, TypeOK
    <3>2. QED
      BY <2>2, <3>1
  <2>5. ~StartGame
    BY <1>1 DEF StartGame, Inv, TypeOK
  <2>6. QED
    BY <1>1, <2>1, <2>3, <2>4, <2>5
       DEF Next, Timers, EndGame, SaveHistory, GoHome, ShowHistory, SetGameMode, board
<1>2. Inv /\ [Next]_vars => [games' = games /\ taken' # taken => Ruled]_vars
    BY <1>1, DrawFollowsRules, Zenon
<1>3. QED
    BY <1>2, InitInv, NextInv, PTL DEF Spec, MovesFollowTheRules

-----------------------------------------------------------------------------
(* The history                                                             *)

(* Game g has its entry, in the history or on its way there.               *)
Accounted(g) ==
    \/ \E x \in Pending : x.game = g
    \/ \E i \in DOMAIN history : history[i].game = g

(* An entry on its way bears the winner by the final score of its game, and*)
(* is the only one of it.  A game on the board that has its entry already  *)
(* is over, so that no line can be drawn and endGame will not run again.   *)
HistoryInv ==
    /\ ends > 0 => final[games] = scores
    /\ Accounted(games) => taken = Edges /\ ends = 0 /\ final[games] = scores
    /\ \A x \in Pending :
        /\ x.game <= games
        /\ GameOver(final[x.game]) /\ x.winner = Leader(final[x.game])
        /\ \A i \in DOMAIN history : history[i].game # x.game
    /\ \A i \in DOMAIN history : history[i].game <= games
    /\ EntriesAreRight

Lines == [game: 1..MaxGames, winner: Players \union {Draw}, scores: [Players -> Nat],
          during: 0..MaxGames]

(* What is in the history, and on its way there, has a game.               *)
LEMMA EntriesTyped ==
    ASSUME TypeOK
    PROVE  /\ \A i \in DOMAIN history : history[i] \in Lines
           /\ \A x \in Pending : x \in Entry
<1>1. history \in Seq(Lines)
    BY DEF TypeOK, Lines
<1>2. QED
    BY <1>1, LenProperties DEF TypeOK, Pending

(* An entry in front of the others: what the history has then.             *)
LEMMA FrontOfHistory ==
    ASSUME NEW line \in Lines, NEW h \in Seq(Lines)
    PROVE  LET longer == <<line>> \o h IN
           \A i \in DOMAIN longer :
               \/ i = 1 /\ longer[i] = line
               \/ i > 1 /\ i - 1 \in DOMAIN h /\ longer[i] = h[i - 1]
<1>1. <<line>> \in Seq(Lines) /\ Len(<<line>>) = 1 /\ <<line>>[1] = line
    OBVIOUS
<1>2. /\ <<line>> \o h \in Seq(Lines) /\ Len(<<line>> \o h) = 1 + Len(h)
      /\ \A i \in 1..1 + Len(h) :
            (<<line>> \o h)[i] = IF i <= 1 THEN <<line>>[i] ELSE h[i - 1]
    BY <1>1, ConcatProperties
<1>3. /\ DOMAIN (<<line>> \o h) = 1..1 + Len(h)
      /\ DOMAIN h = 1..Len(h) /\ Len(h) \in Nat
    BY <1>2, LenProperties
<1>4. QED
    BY <1>1, <1>2, <1>3

(* winner === 'X' | 'O' | 'draw', by the scores                            *)
LEMMA LeaderLeads ==
    ASSUME NEW score \in [Players -> Nat], NEW p \in Players
    PROVE  Leader(score) = p <=> score[p] > score[NextPlayer(p)]
    BY DEF Leader, Players, NextPlayer, Draw

(* What keeps the history, the board and the entries keeps the invariant.  *)
LEMMA SameHistory ==
    ASSUME HistoryInv, Pending' \subseteq Pending, ends' = ends,
           UNCHANGED <<taken, scores, games, history, final>>
    PROVE  HistoryInv'
<1>1. EntriesAreRight'
    BY DEF HistoryInv, EntriesAreRight, EntryIsRight, GameOver
<1>2. Accounted(games)' => Accounted(games)
    BY DEF Accounted
<1>3. QED
    BY <1>1, <1>2 DEF HistoryInv, Leader, GameOver

(* A line is drawn in a game that has no entry yet, and only the last one  *)
(* writes a final score, that of this game.                                *)
LEMMA DrawKeepsHistory ==
    ASSUME Inv, HistoryInv, active, NEW e \in Edges \ taken, Draws(e),
           UNCHANGED <<chain, lost, history, games>>
    PROVE  HistoryInv'
<1>1. /\ games \in 1..MaxGames /\ Pending' = Pending /\ ends = 0
      /\ final \in [1..MaxGames -> [Players -> Nat]] /\ scores' \in [Players -> Nat]
  <2>1. ends = 0
    BY DrawKeepsInv
  <2>2. scores' \in [Players -> Nat]
    <3>1. scores' \in [Players -> 0..Cardinality(Squares)]
      BY DrawEffect DEF Inv
    <3>2. QED
      BY <3>1, EmptyBoard
  <2>3. QED
    BY <2>1, <2>2 DEF Inv, TypeOK, TimerInv, Pending
<1>2. ~Accounted(games) /\ ~Accounted(games)'
    BY <1>1 DEF HistoryInv, Accounted
<1>3. final' = IF GameOver(scores') THEN [final EXCEPT ![games] = scores'] ELSE final
    BY DrawEffect DEF Draws, Inv
<1>4. \A g \in 1..MaxGames : g # games => final'[g] = final[g]
    BY <1>1, <1>3
<1>5. ends' > 0 => final'[games] = scores'
    <2>1. ends' > 0 => GameOver(scores')
      BY DrawKeepsInv DEF GameOver
    <2>2. QED
      BY <1>1, <1>3, <2>1
<1>6. ASSUME NEW i \in DOMAIN history'
      PROVE  EntryIsRight(history[i])'
  <2>1. history'[i] = history[i] /\ i \in DOMAIN history /\ EntryIsRight(history[i])
    BY DEF HistoryInv, EntriesAreRight
  <2>2. history[i].game \in 1..MaxGames /\ history[i].game # games
    BY <1>2, <2>1, EntriesTyped DEF Inv, Lines, Accounted
  <2>3. final'[history[i].game] = final[history[i].game]
    BY <1>4, <2>2
  <2>4. QED
    BY <2>1, <2>3 DEF EntryIsRight, GameOver
<1>7. EntriesAreRight'
    BY <1>6 DEF HistoryInv, EntriesAreRight
<1>8. ASSUME NEW x \in Pending
      PROVE  final'[x.game] = final[x.game]
    BY <1>2, <1>4, EntriesTyped DEF Inv, Entry, Accounted
<1>9. QED
    BY <1>1, <1>2, <1>5, <1>7, <1>8 DEF HistoryInv, Leader, GameOver

(* The history is empty when the page is loaded.                           *)
LEMMA HistoryInit == Init => HistoryInv
    BY DEF Init, HistoryInv, EntriesAreRight, Accounted, Pending

(* An entry that its timer writes is right, and no other is of its game.   *)
LEMMA SaveKeepsHistory ==
    ASSUME Inv, HistoryInv, NEW x \in Pending, SaveHistory(x)
    PROVE  HistoryInv'
<1> DEFINE line == [game |-> x.game, winner |-> x.winner, scores |-> scores,
                    during |-> games]
<1>1. /\ history' = <<line>> \o history
      /\ chain' = chain \ {x} /\ lost' = lost \ {x}
      /\ UNCHANGED <<taken, scores, ends, games, final>>
    BY DEF SaveHistory, board
<1>2. /\ x \in Entry /\ scores \in [Players -> Nat] /\ games \in 0..MaxGames
      /\ history \in Seq(Lines) /\ final \in [1..MaxGames -> [Players -> Nat]]
    BY EmptyBoard, EntriesTyped, LocalAssumption DEF Inv, TypeOK, Lines
<1>3. line \in Lines
    BY <1>2 DEF Entry, Lines
<1>4. /\ x.game <= games /\ GameOver(final[x.game]) /\ x.winner = Leader(final[x.game])
      /\ \A i \in DOMAIN history : history[i].game # x.game
    BY DEF HistoryInv
<1>5. x.game = games => final[games] = scores
    BY DEF HistoryInv, Accounted
<1>6. EntryIsRight(line)
  <2>1. \A p \in Players :
            line.winner = p <=> final[line.game][p] > final[line.game][NextPlayer(p)]
    BY <1>2, <1>4, LeaderLeads DEF Entry
  <2>2. line.during = line.game => line.scores = final[line.game]
    BY <1>5
  <2>3. QED
    BY <1>4, <2>1, <2>2 DEF EntryIsRight
<1>7. \A i \in DOMAIN history' :
          \/ i = 1 /\ history'[i] = line
          \/ i > 1 /\ i - 1 \in DOMAIN history /\ history'[i] = history[i - 1]
    BY <1>1, <1>2, <1>3, FrontOfHistory
<1>8. DOMAIN history' \subseteq Nat
  <2>1. <<line>> \o history \in Seq(Lines)
    <3>1. <<line>> \in Seq(Lines)
      BY <1>3
    <3>2. QED
      BY <1>2, <3>1, ConcatProperties
  <2>2. QED
    BY <1>1, <2>1, LenProperties
<1>9. line.game = x.game /\ line.game <= games
    BY <1>4
<1>10. \A y \in Pending' : y \in Pending /\ y.game # x.game
  <2>1. \A y \in Pending' : y \in Pending /\ y # x
    BY <1>1 DEF Pending
  <2>2. \A y \in Pending : y.game = x.game => y = x
    BY <1>4, EntriesTyped DEF Inv, HistoryInv, Entry
  <2>3. QED
    BY <2>1, <2>2
<1> HIDE DEF line
<1>11. \A i \in DOMAIN history' : history'[i].game <= games'
    BY <1>1, <1>7, <1>9 DEF HistoryInv
<1>12. \A i \in DOMAIN history' : EntryIsRight(history[i])'
  <2> SUFFICES ASSUME NEW i \in DOMAIN history' PROVE EntryIsRight(history[i])'
    OBVIOUS
  <2>1. EntryIsRight(history'[i])
    BY <1>6, <1>7 DEF HistoryInv, EntriesAreRight
  <2>2. QED
    BY <1>1, <2>1 DEF EntryIsRight, GameOver
<1>13. ASSUME NEW i \in DOMAIN history', NEW j \in DOMAIN history',
              history'[i].game = history'[j].game
       PROVE  i = j
  <2>1. CASE i = 1 \/ j = 1
    BY <1>4, <1>7, <1>9, <1>13, <2>1
  <2>2. CASE i > 1 /\ j > 1
    <3>1. i - 1 = j - 1
      BY <1>7, <1>13, <2>2 DEF HistoryInv, EntriesAreRight
    <3>2. QED
      BY <1>8, <3>1
  <2>3. QED
    BY <1>7, <2>1, <2>2
<1>14. EntriesAreRight'
    BY <1>12, <1>13 DEF EntriesAreRight
<1>15. Accounted(games)' => Accounted(games)
    BY <1>1, <1>7, <1>9, <1>10 DEF Accounted
<1>16. ASSUME NEW y \in Pending'
       PROVE  \A i \in DOMAIN history' : history'[i].game # y.game
    BY <1>7, <1>9, <1>10 DEF HistoryInv
<1>17. QED
    BY <1>1, <1>10, <1>11, <1>14, <1>15, <1>16 DEF HistoryInv, Leader, GameOver

(* endGame sets the first timer for this game's entry.                     *)
LEMMA EndKeepsHistory ==
    ASSUME Inv, HistoryInv, EndGame
    PROVE  HistoryInv'
<1> DEFINE entry == [game |-> games, winner |-> Leader(scores)]
<1>1. /\ ends > 0 /\ ends' = ends - 1 /\ ends \in 0..1
      /\ UNCHANGED <<taken, scores, history, games, final>>
      /\ chain' = {entry} /\ lost' = Pending
    BY DEF EndGame, board, Inv, TypeOK
<1>2. /\ taken = Edges /\ GameOver(scores) /\ final[games] = scores /\ ~Accounted(games)
      /\ games \in Nat
    BY <1>1, OverWhenAllDrawn, LocalAssumption DEF Inv, TypeOK, TimerInv, HistoryInv
<1>3. Pending' = Pending \union {entry} /\ entry.game = games
      /\ entry.winner = Leader(scores)
    BY <1>1 DEF Pending
<1> HIDE DEF entry
<1>4. EntriesAreRight'
    BY <1>1 DEF HistoryInv, EntriesAreRight, EntryIsRight, GameOver
<1>5. ASSUME NEW x \in Pending'
      PROVE  /\ x.game <= games'
             /\ GameOver(final'[x.game]) /\ x.winner = Leader(final'[x.game])
             /\ \A i \in DOMAIN history' : history'[i].game # x.game
  <2>1. CASE x \in Pending
    BY <1>1, <2>1 DEF HistoryInv, GameOver, Leader
  <2>2. CASE x = entry
    BY <1>1, <1>2, <1>3, <2>2 DEF GameOver, Leader, Accounted
  <2>3. QED
    BY <1>3, <2>1, <2>2
<1>6. QED
    BY <1>1, <1>2, <1>4, <1>5 DEF HistoryInv, GameOver, Leader

(* The next game may start while entries are on their way: it has none yet.*)
LEMMA StartKeepsHistory ==
    ASSUME Inv, HistoryInv, StartGame
    PROVE  HistoryInv'
<1>1. /\ Pending' = Pending /\ ends' = 0 /\ games' = games + 1
      /\ history' = history /\ final' = final /\ games \in Nat
    BY LocalAssumption DEF StartGame, Pending, Inv, TypeOK
<1>2. /\ \A i \in DOMAIN history : history[i].game \in Nat /\ history[i].game <= games
      /\ \A x \in Pending : x.game \in Nat /\ x.game <= games
    BY EntriesTyped, LocalAssumption DEF Inv, Lines, Entry, HistoryInv
<1>3. ~Accounted(games)'
    BY <1>1, <1>2 DEF Accounted
<1>4. EntriesAreRight'
    BY <1>1 DEF HistoryInv, EntriesAreRight, EntryIsRight, GameOver
<1>5. QED
    BY <1>1, <1>2, <1>3, <1>4 DEF HistoryInv, Leader, GameOver

(* No click, timer or button breaks the history.                           *)
LEMMA HistoryNext ==
    ASSUME Inv, HistoryInv, [Next]_vars
    PROVE  HistoryInv'
<1>1. ASSUME NEW e \in Edges, Click(e)
      PROVE  HistoryInv'
    BY <1>1, DrawKeepsHistory DEF Click
<1>2. ASSUME NEW pending \in BOOLEAN, NEW stray \in Nat, AIMove(pending, stray)
      PROVE  HistoryInv'
  <2>1. UNCHANGED <<chain, lost, history, games>>
    BY <1>2, AIMoveDraws
  <2>2. CASE UNCHANGED <<board, ends>>
    BY <2>1, <2>2, SameHistory DEF board, Pending
  <2>3. CASE active /\ \E e \in Edges \ taken : Draws(e)
    BY <2>1, <2>3, DrawKeepsHistory
  <2>4. QED
    BY <1>2, <2>2, <2>3, AIMoveDraws
<1>3. CASE AITimer
    BY <1>2, <1>3 DEF AITimer, Inv, TypeOK
<1>4. CASE StrayAITimer
  <2>1. strays - 1 \in Nat /\ aiTimer \in BOOLEAN /\ AIMove(aiTimer, strays - 1)
    BY <1>4 DEF StrayAITimer, Inv, TypeOK
  <2>2. QED
    BY <1>2, <2>1
<1>5. CASE EndGame
    BY <1>5, EndKeepsHistory
<1>6. ASSUME NEW x \in Pending, SaveHistory(x)
      PROVE  HistoryInv'
    BY <1>6, SaveKeepsHistory
<1>7. CASE StartGame
    BY <1>7, StartKeepsHistory
<1>8. CASE GoHome
    BY <1>8, SameHistory DEF GoHome, board, Pending
<1>9. CASE ShowHistory
    BY <1>9, SameHistory DEF ShowHistory, board, timers, Pending
<1>10. ASSUME NEW m \in Modes, SetGameMode(m)
       PROVE  HistoryInv'
    BY <1>10, SameHistory DEF SetGameMode, board, timers, Pending
<1>11. CASE UNCHANGED vars
    BY <1>11, SameHistory DEF vars, Pending
<1>12. QED
    BY <1>1, <1>3, <1>4, <1>5, <1>6, <1>7, <1>8, <1>9, <1>10, <1>11 DEF Next, Timers

(***************************************************************************)
(* A game has at most one entry, whose winner led by that game's final     *)
(* score, and whose score is that one unless the next game was started     *)
(* before it was written (App.tsx: endGame's timers), on a board of any    *)
(* size and whatever timers are lost, late or overtaken.                   *)
(***************************************************************************)
THEOREM HistoryRight == Spec => []EntriesAreRight
<1>1. HistoryInv => EntriesAreRight
    BY DEF HistoryInv
<1>2. Inv /\ HistoryInv /\ [Next]_vars => HistoryInv'
    BY HistoryNext
<1>3. QED
    BY <1>1, <1>2, InitInv, NextInv, HistoryInit, PTL DEF Spec
=============================================================================
