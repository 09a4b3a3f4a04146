----------------------------- MODULE LocalGame -----------------------------
(***************************************************************************)
(* Local games in the browser, after src/packages/frontend/src/App.tsx: a  *)
(* human against a human or against chooseAIMove, on a board the component *)
(* keeps and scores by itself, with its timers (the AI's move, the end of a*)
(* game, its entry in the history) and the buttons that start another game *)
(* or leave.                                                               *)
(*                                                                         *)
(* Timers fire in any order, their delays being random and a player being  *)
(* as quick as it likes; but endGame's 250 ms are over before a player has *)
(* confirmed to leave and starts another game.  The board size stays, and  *)
(* the limit of 50 entries in the history is not reached.                  *)
(***************************************************************************)
EXTENDS GameCore, Sequences

CONSTANTS
    MaxGames,       \* bound: games that are started
    MaxStrays,      \* bound: AI timers that aiTimeoutRef has lost sight of
    SwitchesMode    \* the mode is switched while a game is running

ASSUME LocalAssumption ==
    /\ MaxGames \in Nat /\ MaxStrays \in Nat /\ SwitchesMode \in BOOLEAN

Draw == "draw"
Modes == {"pvp", "ai"}

VARIABLES
    taken,      \* hLinesRef and vLinesRef (whose line it is only shows)
    boxes,      \* boxesRef
    scores,     \* scoresRef
    player,     \* currentPlayerRef
    active,     \* gameActiveRef
    mode,       \* gameModeRef
    aiTimer,    \* the timer in aiTimeoutRef is pending
    strays,     \* AI timers pending that the ref has lost sight of
    ends,       \* endGame timers pending
    chain,      \* the entry whose timer is in chainTimeoutRef, while it is pending
    lost,       \* entries whose timers the ref has lost sight of
    modal,      \* modalState.open
    history,    \* gameHistory, the latest entry first
    games,      \* history: how many games were started
    final       \* history: the score each game had after its last line

board == <<taken, boxes, scores, player, final>>
timers == <<aiTimer, strays, ends, chain, lost>>
vars == <<taken, boxes, scores, player, active, mode, aiTimer, strays, ends,
          chain, lost, modal, history, games, final>>

Claimed == {s \in Squares : boxes[s] # Free}

(* isGameOver                                                              *)
GameOver(score) == score["X"] + score["O"] = Cardinality(Squares)

(* Entries on their way to the history                                     *)
Pending == lost \union chain

-----------------------------------------------------------------------------
(* Mutant: checkBoxes that looks at claimed squares again.                 *)
NewBoxesAgain(e) == {s \in Completed(taken \union {e}) : e \in SquareEdges(s) \/ boxes[s] = player}

(* checkBoxes: the squares closed and not claimed yet are the player's.    *)
NewBoxes(e) == Completed(taken \union {e}) \ Claimed

(* applyMove, up to its timer for the AI                                   *)
Draws(e) ==
    LET won == NewBoxes(e)
        score == [scores EXCEPT ![player] = @ + Cardinality(won)]
    IN  /\ taken' = taken \union {e}
        /\ boxes' = [s \in Squares |-> IF s \in won THEN player ELSE boxes[s]]
        /\ scores' = score
        /\ player' = IF won = {} /\ ~GameOver(score) THEN NextPlayer(player) ELSE player
        /\ ends' = ends + IF GameOver(score) THEN 1 ELSE 0
        /\ final' = IF GameOver(score) THEN [final EXCEPT ![games] = score] ELSE final

(* Mutant: the AI's timer is set only when the turn passes to it.          *)
AIIsNextAfterX == player = "X" /\ player' = "O" /\ mode = "ai"

AIIsNext == ~GameOver(scores') /\ mode = "ai" /\ player' = "O"

(* ... and that timer: pending tells whether the one in the ref is pending,*)
(* stray how many others are.                                              *)
SetAITimer(pending, stray) ==
    IF AIIsNext
    THEN aiTimer' = TRUE /\ strays' = stray + IF pending THEN 1 ELSE 0
    ELSE aiTimer' = pending /\ strays' = stray

(* onCanvasClick in a local game                                           *)
Click(e) ==
    /\ active /\ ~modal
    /\ ~(mode = "ai" /\ player = "O")
    /\ e \in Edges \ taken
    /\ Draws(e)
    /\ SetAITimer(aiTimer, strays)
    /\ UNCHANGED <<active, mode, chain, lost, modal, history, games>>

(* toCoreGameState                                                         *)
CoreState ==
    [edges |-> [e \in Edges |-> IF e \in taken THEN "X" ELSE Free],
     boxes |-> {}, currentPlayer |-> player, score |-> scores]

(* aiMove, by the timer in the ref or by a stray one                       *)
AIMove(pending, stray) ==
    /\ IF active /\ player = "O" /\ AIChoices(CoreState) # {}
       THEN \E e \in AIChoices(CoreState) : Draws(e) /\ SetAITimer(pending, stray)
       ELSE /\ aiTimer' = pending /\ strays' = stray
            /\ UNCHANGED <<board, ends>>
    /\ UNCHANGED <<active, mode, chain, lost, modal, history, games>>

AITimer == aiTimer /\ AIMove(FALSE, strays)
StrayAITimer == strays > 0 /\ AIMove(aiTimer, strays - 1)

-----------------------------------------------------------------------------
(* Mutant: who moves last wins.                                            *)
LastMoverWins(score) == player

Leader(score) ==
    IF score["X"] > score["O"] THEN "X"
    ELSE IF score["O"] > score["X"] THEN "O" ELSE Draw

EndGame ==
    /\ ends > 0
    /\ ends' = ends - 1
    /\ active' = FALSE /\ modal' = TRUE
    /\ chain' = {[game |-> games, winner |-> Leader(scores)]}
    /\ lost' = Pending
    /\ UNCHANGED <<board, mode, aiTimer, strays, history, games>>

(* The timer of endGame: the scores are read only now, of whatever game is *)
(* on the board by then (during, a history variable, is its number).       *)
SaveHistory(entry) ==
    /\ entry \in Pending
    /\ history' = <<[game |-> entry.game, winner |-> entry.winner,
                     scores |-> scores, during |-> games]>> \o history
    /\ chain' = chain \ {entry}
    /\ lost' = lost \ {entry}
    /\ UNCHANGED <<board, active, mode, aiTimer, strays, ends, modal, games>>

(* Mutant: the scores of the last game stay.                               *)
StartGameScored ==
    /\ ~active /\ ends = 0
    /\ games < MaxGames /\ strays < MaxStrays
    /\ taken' = {} /\ boxes' = [s \in Squares |-> Free] /\ player' = "X"
    /\ active' = TRUE /\ modal' = FALSE /\ games' = games + 1
    /\ UNCHANGED <<scores, final, mode, timers, history>>

(* START MATCH and Play Again: no timer is cleared.                        *)
StartGame ==
    /\ ~active /\ ends = 0
    /\ games < MaxGames /\ strays < MaxStrays
    /\ taken' = {} /\ boxes' = [s \in Squares |-> Free]
    /\ scores' = [p \in Players |-> 0] /\ player' = "X"
    /\ active' = TRUE /\ modal' = FALSE
    /\ IF mode = "ai" THEN aiTimer' = TRUE /\ strays' = strays + IF aiTimer THEN 1 ELSE 0
       ELSE UNCHANGED <<aiTimer, strays>>
    /\ games' = games + 1
    /\ UNCHANGED <<final, mode, ends, chain, lost, history>>

(* goHome, confirmed if a game is running: clearTimers reaches the timers  *)
(* in the refs.                                                            *)
GoHome ==
    /\ ~modal
    /\ active' = FALSE
    /\ aiTimer' = FALSE /\ chain' = {}
    /\ UNCHANGED <<board, mode, strays, ends, lost, modal, history, games>>

(* showHistory closes the modal.                                           *)
ShowHistory ==
    /\ modal /\ modal' = FALSE
    /\ UNCHANGED <<board, active, mode, timers, history, games>>

SetGameMode(m) ==
    /\ ~modal /\ m # mode
    /\ active => SwitchesMode
    /\ mode' = m
    /\ UNCHANGED <<board, active, timers, modal, history, games>>

-----------------------------------------------------------------------------
Init ==
    /\ taken = {} /\ boxes = [s \in Squares |-> Free]
    /\ scores = [p \in Players |-> 0] /\ player = "X"
    /\ active = FALSE /\ mode = "pvp"
    /\ aiTimer = FALSE /\ strays = 0 /\ ends = 0
    /\ chain = {} /\ lost = {}
    /\ modal = FALSE /\ history = <<>> /\ games = 0
    /\ final = [g \in 1..MaxGames |-> [p \in Players |-> 0]]

Timers == AITimer \/ StrayAITimer \/ EndGame \/ \E x \in Pending : SaveHistory(x)

Next ==
    \/ \E e \in Edges : Click(e)
    \/ Timers
    \/ StartGame \/ GoHome \/ ShowHistory
    \/ \E m \in Modes : SetGameMode(m)

Spec == Init /\ [][Next]_vars

(* Timers fire.                                                            *)
FairSpec == /\ Spec
            /\ WF_vars(AITimer) /\ WF_vars(StrayAITimer) /\ WF_vars(EndGame)
            /\ WF_vars(\E x \in Pending : SaveHistory(x))

-----------------------------------------------------------------------------
Entry == [game: 1..MaxGames, winner: Players \union {Draw}]

TypeOK ==
    /\ taken \subseteq Edges
    /\ boxes \in [Squares -> Players \union {Free}]
    /\ scores \in [Players -> 0..Cardinality(Squares)]
    /\ player \in Players /\ active \in BOOLEAN /\ mode \in Modes
    /\ aiTimer \in BOOLEAN /\ strays \in Nat /\ ends \in 0..1
    /\ chain \subseteq Entry /\ lost \subseteq Entry
    /\ modal \in BOOLEAN
    /\ history \in Seq([game: 1..MaxGames, winner: Players \union {Draw},
                        scores: [Players -> Nat], during: 0..MaxGames])
    /\ games \in 0..MaxGames
    /\ final \in [1..MaxGames -> [Players -> Nat]]

(***************************************************************************)
(* The browser's own scoring and game-core's applyMove are two programs for*)
(* one rule book: every line drawn, by a click or by the AI, has the score,*)
(* the boxes and the turn that applyMove gives it.                         *)
(***************************************************************************)
CoreGame ==
    [CoreState EXCEPT !.boxes =
        {[square |-> s, owner |-> boxes[s]] : s \in Claimed}]

MovesFollowTheRules ==
    [][games' = games /\ taken' # taken =>
        \E e \in Edges \ taken :
            LET g == ApplyMove(CoreGame, e) IN
            /\ taken' = TakenEdges(g)
            /\ scores' = g.score
            /\ player' = g.currentPlayer
            /\ g.boxes = {[square |-> s, owner |-> boxes'[s]] :
                            s \in {q \in Squares : boxes'[q] # Free}}]_vars

(***************************************************************************)
(* "After your move, the AI automatically responds"                        *)
(* (docs/DEMO_SCRIPT.md:396): whenever it is the AI's turn in a running    *)
(* game, some timer of its is pending and it draws until the turn passes or*)
(* the game ends; each timer may be overtaken, replaced or come too late.  *)
(***************************************************************************)
AITurn == /\ active /\ mode = "ai" /\ player = "O"
          /\ ~GameOver(scores)

AIAnswers == AITurn ~> ~AITurn

(***************************************************************************)
(* A game that ends has at most one entry in the history, whose winner is  *)
(* the one who led by that game's final score, although entries wait for   *)
(* timers that are lost sight of, overtake each other and outlive games;   *)
(* and its score is that final score, if no other game was started before  *)
(* the timer fired.  Otherwise it is that of the later game, as far as it  *)
(* is played (App.tsx:1231 reads the scores when the timer fires).         *)
(***************************************************************************)
EntryIsRight(entry) ==
    LET score == final[entry.game] IN
    /\ GameOver(score)
    /\ \A p \in Players : entry.winner = p <=> score[p] > score[NextPlayer(p)]
    /\ entry.during = entry.game => entry.scores = score

EntriesAreRight ==
    /\ \A i \in DOMAIN history : EntryIsRight(history[i])
    /\ \A i, j \in DOMAIN history : history[i].game = history[j].game => i = j

=============================================================================
