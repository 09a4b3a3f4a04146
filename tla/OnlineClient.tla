---------------------------- MODULE OnlineClient ---------------------------
(***************************************************************************)
(* Two browsers that play online in one room: the online part of           *)
(* src/packages/frontend/src/App.tsx with its socket, its timers and its   *)
(* dialogs, and of src/packages/backend/src/socket/handler.ts what it      *)
(* sends to whom.  GameServer has the handlers' effects on rooms, seats and*)
(* results; here they are atomic, and what counts is the order in which    *)
(* messages reach the two browsers.                                        *)
(*                                                                         *)
(* The room's code passes from the creator to the joiner by other means.   *)
(* Each stakes once: the escrow takes neither a second joinMatch nor one by*)
(* the creator, and a new room has a new code, so that a browser that has  *)
(* left does not come back.  Both play on boards of one size.              *)
(***************************************************************************)
EXTENDS BoardRules, Sequences, SequencesExt

CONSTANTS
    Creator, Joiner,    \* the two browsers
    None,               \* null
    MaxRounds,          \* bound: boards the room has, rematches included
    MaxUnsent,          \* bound: messages of a browser the server has not handled
    MaxGone             \* bound: browsers that leave or lose the connection

ASSUME OnlineAssumption ==
    /\ Creator # Joiner /\ None \notin {Creator, Joiner} \union Slots
    /\ MaxRounds \in Nat \ {0, 1} /\ MaxUnsent \in Nat \ {0} /\ MaxGone \in 0..2

Clients == {Creator, Joiner}
Other(c) == IF c = Creator THEN Joiner ELSE Creator

VARIABLES
    client,     \* the state of each browser
    up,         \* messages of each browser the server has not handled
    down,       \* messages to each browser it has not handled
    server,     \* the room
    escrow,     \* the match on chain: "none", "waiting" or "active"
    gone,       \* history: browsers that left, lost their connection or got none
    shown,      \* history: the rounds whose result each browser showed
    agreed      \* history: the rounds each browser asked or agreed to play again

vars == <<client, up, down, server, escrow, gone, shown, agreed>>
history == <<gone, shown, agreed>>

Snapshots == [board : Board, round : 0..MaxRounds]
Blank == [board |-> NewBoard, round |-> 0]

-----------------------------------------------------------------------------
(* A browser: the screen; the socket (none, dialing, refused, joined once  *)
(* join_room is sent, lost while it tries to reconnect, idle when it has); *)
(* isOnlineMatch, onlineConnected, onlineAssignedPlayer, roomPlayersRef,   *)
(* countdownRef, gameActiveRef, the board, endModalShownRef, the timer of  *)
(* 200 ms before endGame (due once a dialog has outlasted it), the modal   *)
(* of endGame, rematchPending, and whether window.confirm asks for a       *)
(* rematch.                                                                *)
NewClient ==
    [screen |-> "menu", socket |-> "none", online |-> FALSE, connected |-> FALSE,
     assigned |-> None, players |-> 0, countdown |-> FALSE, active |-> FALSE,
     view |-> Blank, endShown |-> FALSE, endTimer |-> "off", modal |-> "none",
     pending |-> FALSE, asked |-> FALSE]

ClientType ==
    [screen : {"menu", "waiting", "game"},
     socket : {"none", "dialing", "refused", "joined", "lost", "idle"},
     online : BOOLEAN, connected : BOOLEAN, assigned : Slots \union {None},
     players : 0..2, countdown : BOOLEAN, active : BOOLEAN, view : Snapshots,
     endShown : BOOLEAN, endTimer : {"off", "set", "due"},
     modal : {"none", "online", "local"}, pending : BOOLEAN, asked : BOOLEAN]

NewRoom ==
    [open |-> FALSE, seats |-> [p \in Slots |-> None], sockets |-> {},
     view |-> Blank, rematch |-> None]

Init ==
    /\ client = [c \in Clients |-> NewClient]
    /\ up = [c \in Clients |-> <<>>]
    /\ down = [c \in Clients |-> <<>>]
    /\ server = NewRoom
    /\ escrow = "none"
    /\ gone = {}
    /\ shown = [c \in Clients |-> {}]
    /\ agreed = [c \in Clients |-> {}]

-----------------------------------------------------------------------------
(*                            What the server does                         *)

SlotOf(room, c) ==
    IF c \notin room.sockets THEN None
    ELSE IF room.seats["X"] = c THEN "X"
    ELSE IF room.seats["O"] = c THEN "O" ELSE None

Seated(room) == Cardinality({p \in Slots : room.seats[p] # None})

RoomInfo(room, assigned) ==
    [kind |-> "room_info", assigned |-> assigned, players |-> Seated(room)]
PlayerJoined(room) == [kind |-> "player_joined", players |-> Seated(room)]
GameState(room) == [kind |-> "game_state", view |-> room.view]
RematchPrompt(targeted) == [kind |-> "rematch_prompt", targeted |-> targeted]
RematchStarted == [kind |-> "rematch_started"]
RematchDeclined == [kind |-> "rematch_declined"]

(* io.to, socket.emit: append a message for every socket of a set          *)
Send(queues, to, m) ==
    [c \in Clients |-> IF c \in to THEN Append(queues[c], m) ELSE queues[c]]

(* The room after JOIN_ROOM of a browser that was not in it before         *)
Entered(c) ==
    LET room == IF server.open THEN server
                ELSE [NewRoom EXCEPT !.open = TRUE,
                                     !.view.round = server.view.round + 1]
        free == {p \in Slots : room.seats[p] = None}
        seat == IF "X" \in free THEN "X" ELSE "O"
    IN  [room EXCEPT
            !.sockets = @ \union {c},
            !.seats = IF free = {} THEN @ ELSE [@ EXCEPT ![seat] = c],
            !.rematch = IF Cardinality(free) < 2 THEN None ELSE @]

Join(c) ==
    LET room == Entered(c) IN
    /\ server' = room
    /\ down' = Send(Send(Send(down, {c}, RoomInfo(room, SlotOf(room, c))),
                    room.sockets, GameState(room)),
                    room.sockets \ {c}, PlayerJoined(room))

(* Mutant: a move is shown to the one who made it.                         *)
MakeMoveForOne(c, e) ==
    IF SlotOf(server, c) = server.view.board.turn /\ e \notin server.view.board.taken
    THEN \E b \in AfterLine(server.view.board, e) :
            LET room == [server EXCEPT !.view.board = b] IN
            /\ server' = room
            /\ down' = Send(down, {c}, GameState(room))
    ELSE UNCHANGED <<server, down>>

(* MAKE_MOVE.  An error only shows a message: here, nothing.               *)
MakeMove(c, e) ==
    IF SlotOf(server, c) = server.view.board.turn /\ e \notin server.view.board.taken
    THEN \E b \in AfterLine(server.view.board, e) :
            LET room == [server EXCEPT !.view.board = b] IN
            /\ server' = room
            /\ down' = Send(down, room.sockets, GameState(room))
    ELSE UNCHANGED <<server, down>>

(* Mutant: the question goes to the one who asked.                         *)
RematchRequestToSelf(c) ==
    IF SlotOf(server, c) # None /\ Seated(server) = 2
    THEN /\ server' = [server EXCEPT !.rematch = SlotOf(server, c)]
         /\ down' = Send(Send(down, server.sockets, RematchPrompt(FALSE)),
                         {c}, RematchPrompt(TRUE))
    ELSE UNCHANGED <<server, down>>

(* REMATCH_REQUEST: the whole room hears of it, the opponent is asked.     *)
RematchRequest(c) ==
    IF SlotOf(server, c) # None /\ Seated(server) = 2
    THEN /\ server' = [server EXCEPT !.rematch = SlotOf(server, c)]
         /\ down' = Send(Send(down, server.sockets, RematchPrompt(FALSE)),
                         server.sockets \ {c}, RematchPrompt(TRUE))
    ELSE UNCHANGED <<server, down>>

(* resetRoomForRematch                                                     *)
ResetForRematch ==
    [server EXCEPT !.view = [board |-> NewBoard, round |-> @.round + 1],
                   !.rematch = None]

(* closeRoomAfterRematchDecline: every socket leaves the room, its seat is *)
(* not kept; ROOM_CLEANED is then sent to a room without sockets.          *)
RoomAfterDecline ==
    LET seats == [p \in Slots |-> IF server.seats[p] \in server.sockets THEN None
                                  ELSE server.seats[p]]
    IN  [server EXCEPT !.seats = seats, !.sockets = {}, !.rematch = None,
                       !.open = \E p \in Slots : seats[p] # None]

(* Mutant: an answer is taken whether or not a question is open.           *)
RematchResponseUnasked(c, accept) ==
    IF SlotOf(server, c) # None /\ server.rematch # SlotOf(server, c)
    THEN IF accept
         THEN /\ server' = ResetForRematch
              /\ down' = Send(Send(down, server.sockets, RematchStarted),
                              server.sockets, GameState(ResetForRematch))
         ELSE /\ server' = RoomAfterDecline
              /\ down' = Send(down, server.sockets, RematchDeclined)
    ELSE UNCHANGED <<server, down>>

(* REMATCH_RESPONSE                                                        *)
RematchResponse(c, accept) ==
    IF SlotOf(server, c) # None /\ server.rematch \notin {None, SlotOf(server, c)}
    THEN IF accept
         THEN /\ server' = ResetForRematch
              /\ down' = Send(Send(down, server.sockets, RematchStarted),
                              server.sockets, GameState(ResetForRematch))
         ELSE /\ server' = RoomAfterDecline
              /\ down' = Send(down, server.sockets, RematchDeclined)
    ELSE UNCHANGED <<server, down>>

(* Mutant: the others are told the leaver's slot as theirs.                *)
DisconnectNamingSlot(c) ==
    LET room == [server EXCEPT !.sockets = @ \ {c}]
        left == IF c \in server.sockets THEN room.sockets ELSE {}
    IN  /\ server' = room
        /\ down' = Send(down, left, RoomInfo(room, SlotOf(server, c)))

(* disconnect: the seat is kept for a while, and whoever is left gets a    *)
(* room_info without a slot of its own.  A socket that is in no room any   *)
(* more leaves nothing behind.                                             *)
Disconnect(c) ==
    LET room == [server EXCEPT !.sockets = @ \ {c}]
        left == IF c \in server.sockets THEN room.sockets ELSE {}
    IN  /\ server' = room
        /\ down' = Send(down, left, RoomInfo(room, None))

(* The server takes the next message of c.                                 *)
Takes(c) ==
    /\ up[c] # <<>>
    /\ up' = [up EXCEPT ![c] = Tail(@)]
    /\ UNCHANGED <<client, escrow, gone, shown, agreed>>

HandleMove(c) ==
    Takes(c) /\ Head(up[c]).kind = "make_move" /\ MakeMove(c, Head(up[c]).edge)

(* checkRateLimit: a third MAKE_MOVE of one socket within a second of the  *)
(* first is refused, a legal move or not.                                  *)
RefuseMove(c) ==
    Takes(c) /\ Head(up[c]).kind = "make_move" /\ UNCHANGED <<server, down>>

HandleOther(c) ==
    /\ Takes(c)
    /\ LET m == Head(up[c]) IN
       \/ m.kind = "join_room" /\ Join(c)
       \/ m.kind = "rematch_request" /\ RematchRequest(c)
       \/ m.kind = "rematch_response" /\ RematchResponse(c, m.accept)
       \/ m.kind = "disconnect" /\ Disconnect(c)

ServerHandles(c) == HandleMove(c) \/ RefuseMove(c) \/ HandleOther(c)

(* sweepExpired: the seat of a browser that is gone is free again.         *)
Expire(p) ==
    LET seats == [server.seats EXCEPT ![p] = None] IN
    /\ server.seats[p] \notin server.sockets \union {None}
    /\ server' = [server EXCEPT
            !.seats = seats,
            !.open = @ /\ (server.sockets # {} \/ \E q \in Slots : seats[q] # None)]
    /\ UNCHANGED <<client, up, down, escrow, gone, shown, agreed>>

-----------------------------------------------------------------------------
(*                          What a browser receives                        *)

OnRoomInfo(b, m) ==
    [b EXCEPT !.assigned = m.assigned, !.players = m.players, !.online = TRUE,
              !.countdown = m.players = 2, !.screen = "waiting"]

(* Mutant: counts arrivals.                                                *)
OnPlayerJoinedCounting(b, m) ==
    [b EXCEPT !.players = @ + m.players, !.online = TRUE,
              !.countdown = @ \/ m.players = 2]

OnPlayerJoined(b, m) ==
    [b EXCEPT !.players = m.players, !.online = TRUE,
              !.countdown = @ \/ m.players = 2]

(* Mutant: the game counts as over one square early.                       *)
HydrateEarly(b, view) ==
    LET ends == Closed(view.board) >= NumSquares - 1 /\ ~b.endShown IN
    [b EXCEPT !.view = view, !.active = TRUE,
              !.endShown = @ \/ ends,
              !.endTimer = IF ends THEN "set" ELSE @]

(* hydrateFromServerState                                                  *)
Hydrate(b, view) ==
    LET ends == Closed(view.board) >= NumSquares /\ ~b.endShown IN
    [b EXCEPT !.view = view, !.active = TRUE,
              !.endShown = @ \/ ends,
              !.endTimer = IF ends THEN "set" ELSE @]

OnGameState(b, m) ==
    LET hydrated == Hydrate(b, m.view) IN
    [hydrated EXCEPT !.online = TRUE,
                     !.screen = IF b.players = 2 /\ ~b.countdown THEN "game" ELSE @]

OnRematchPrompt(b, m) ==
    IF m.targeted THEN [b EXCEPT !.asked = TRUE] ELSE [b EXCEPT !.pending = TRUE]

(* Mutant: the flag of the last game stays up.                             *)
OnRematchStartedKeepingFlag(b) == [b EXCEPT !.pending = FALSE, !.modal = "none"]

OnRematchStarted(b) ==
    [b EXCEPT !.pending = FALSE, !.modal = "none", !.endShown = FALSE]

OnRematchDeclined(b) == [b EXCEPT !.pending = FALSE, !.modal = "none"]

(* The next message reaches the page, unless a dialog holds it up or a     *)
(* timer is overdue.                                                       *)
Receive(c) ==
    /\ client[c].socket = "joined" /\ ~client[c].asked /\ client[c].endTimer # "due"
    /\ down[c] # <<>>
    /\ down' = [down EXCEPT ![c] = Tail(@)]
    /\ LET m == Head(down[c]) IN
       \E b \in {client[c]} :
          client' = [client EXCEPT ![c] =
            CASE m.kind = "room_info" -> OnRoomInfo(b, m)
              [] m.kind = "player_joined" -> OnPlayerJoined(b, m)
              [] m.kind = "game_state" -> OnGameState(b, m)
              [] m.kind = "rematch_prompt" -> OnRematchPrompt(b, m)
              [] m.kind = "rematch_started" -> OnRematchStarted(b)
              [] m.kind = "rematch_declined" -> OnRematchDeclined(b)]
    /\ UNCHANGED <<up, server, escrow, gone, shown, agreed>>

-----------------------------------------------------------------------------
(*                       The browser's own steps                           *)

Emit(c, m) ==
    up' = IF client[c].socket = "joined" THEN [up EXCEPT ![c] = Append(@, m)] ELSE up

(* lockStakeOnChain: createMatch or joinMatch                              *)
LockStake(c) ==
    /\ escrow = IF c = Creator THEN "none" ELSE "waiting"
    /\ escrow' = IF c = Creator THEN "waiting" ELSE "active"

(* createRoom, joinRoom: the stake is locked, and the first half of        *)
(* joinOnlineRoom runs, up to its await for the connection.                *)
Enter(c) ==
    /\ client[c].socket = "none" /\ c \notin gone
    /\ LockStake(c)
    /\ client' = [client EXCEPT ![c].socket = "dialing", ![c].online = TRUE,
                                ![c].players = 1, ![c].pending = FALSE,
                                ![c].screen = "waiting"]
    /\ UNCHANGED <<up, down, server, history>>

(* The rest of joinOnlineRoom, as soon as the socket is connected          *)
Connect(c) ==
    /\ client[c].socket = "dialing"
    /\ client' = [client EXCEPT ![c].socket = "joined", ![c].connected = TRUE,
                                ![c].endShown = FALSE, ![c].assigned = None,
                                ![c].players = 1, ![c].countdown = FALSE,
                                ![c].screen = "waiting"]
    /\ up' = [up EXCEPT ![c] = Append(@, [kind |-> "join_room"])]
    /\ UNCHANGED <<down, server, escrow, history>>

Goes(c) == gone' = gone \union {c} /\ Cardinality(gone') <= MaxGone

(* createSocketAuthMiddleware refuses the token (it may have expired): the *)
(* stake is locked, nobody joins, and socket.io does not try again.        *)
TokenRefused(c) ==
    /\ client[c].socket = "dialing"
    /\ Goes(c)
    /\ client' = [client EXCEPT ![c].socket = "refused"]
    /\ UNCHANGED <<up, down, server, escrow, shown, agreed>>

(* The connection fails or takes more than 6 s: again nobody joins, and if *)
(* it comes about later, that changes nothing.                             *)
DialFails(c) ==
    /\ client[c].socket = "dialing"
    /\ Goes(c)
    /\ client' = [client EXCEPT ![c].socket = "lost"]
    /\ UNCHANGED <<up, down, server, escrow, shown, agreed>>

(* The connection breaks: what is on its way to the browser is lost, and a *)
(* part of what it sent; the server notices by and by.                     *)
Drop(c) ==
    /\ client[c].socket = "joined"
    /\ Goes(c)
    /\ client' = [client EXCEPT ![c].socket = "lost", ![c].connected = FALSE,
                                ![c].assigned = None]
    /\ \E n \in 0..Len(up[c]) :
          up' = [up EXCEPT ![c] = Append(SubSeq(@, 1, n), [kind |-> "disconnect"])]
    /\ down' = [down EXCEPT ![c] = <<>>]
    /\ UNCHANGED <<server, escrow, shown, agreed>>

(* socket.io connects again: 'connect' does not join the room again.       *)
Reconnect(c) ==
    /\ client[c].socket = "lost" /\ ~client[c].asked
    /\ client' = [client EXCEPT ![c].socket = "idle", ![c].connected = TRUE]
    /\ UNCHANGED <<up, down, server, escrow, history>>

(* The second of startMatchCountdown's interval that is the last           *)
CountdownEnds(c) ==
    /\ client[c].countdown /\ ~client[c].asked
    /\ client' = [client EXCEPT ![c].countdown = FALSE, ![c].screen = "game"]
    /\ UNCHANGED <<up, down, server, escrow, history>>

(* The timer of hydrateFromServerState: endGame.  After goHome it is a     *)
(* local game's end, that LocalGame goes on with.                          *)
EndGame(c) ==
    LET b == client[c] IN
    /\ b.endTimer # "off" /\ ~b.asked
    /\ client' = [client EXCEPT ![c].endTimer = "off", ![c].active = FALSE,
                                ![c].modal = IF b.online THEN "online" ELSE "local"]
    /\ shown' = [shown EXCEPT ![c] = IF b.online THEN @ \union {b.view.round} ELSE @]
    /\ UNCHANGED <<up, down, server, escrow, gone, agreed>>

(* onCanvasClick.  The modal, while it is open, covers the page.           *)
Click(c, e) ==
    LET b == client[c] IN
    /\ b.screen = "game" /\ b.modal = "none" /\ ~b.asked
    /\ b.active /\ e \notin b.view.board.taken
    /\ b.online /\ b.connected /\ b.assigned = b.view.board.turn
    /\ Len(up[c]) < MaxUnsent
    /\ Emit(c, [kind |-> "make_move", edge |-> e])
    /\ UNCHANGED <<client, down, server, escrow, history>>

(* playAgain                                                               *)
PlayAgain(c) ==
    LET b == client[c] IN
    /\ b.modal # "none" /\ ~b.pending /\ ~b.asked
    /\ IF b.online
       THEN /\ b.view.round < MaxRounds /\ Len(up[c]) < MaxUnsent
            /\ client' = [client EXCEPT ![c].pending = TRUE]
            /\ Emit(c, [kind |-> "rematch_request"])
            /\ agreed' = [agreed EXCEPT ![c] = @ \union {b.view.round}]
       ELSE /\ client' = [client EXCEPT
                    ![c].modal = "none", ![c].active = TRUE, ![c].endShown = FALSE,
                    ![c].view = Blank, ![c].screen = "game"]
            /\ UNCHANGED <<up, agreed>>
    /\ UNCHANGED <<down, server, escrow, gone, shown>>

(* The answer to window.confirm, which has held up everything else         *)
Answer(c, accept) ==
    LET b == client[c] IN
    /\ b.asked
    /\ client' = [client EXCEPT ![c].asked = FALSE,
                    ![c].endTimer = IF @ = "set" THEN "due" ELSE @]
    /\ Emit(c, [kind |-> "rematch_response", accept |-> accept])
    /\ agreed' = [agreed EXCEPT ![c] = IF accept THEN @ \union {b.view.round} ELSE @]
    /\ UNCHANGED <<down, server, escrow, gone, shown>>

(* showHistory closes the modal; the settings lead back to the game.       *)
ShowHistory(c) ==
    /\ client[c].modal # "none" /\ ~client[c].asked
    /\ client' = [client EXCEPT ![c].modal = "none", ![c].screen = "menu"]
    /\ UNCHANGED <<up, down, server, escrow, history>>

ShowGame(c) ==
    /\ client[c].screen = "menu" /\ client[c].online /\ ~client[c].asked
    /\ client' = [client EXCEPT ![c].screen = "game"]
    /\ UNCHANGED <<up, down, server, escrow, history>>

(* goHome, confirmed if a game is active.  What the refs keep of the board *)
(* is forgotten: the browser does not come back to it.                     *)
GoHome(c) ==
    LET b == client[c] IN
    /\ b.online /\ b.modal = "none" /\ ~b.asked
    /\ Goes(c)
    /\ client' = [client EXCEPT ![c] =
            [NewClient EXCEPT
                !.endTimer = IF b.endTimer = "set" /\ b.active THEN "due" ELSE b.endTimer]]
    /\ Emit(c, [kind |-> "disconnect"])
    /\ down' = [down EXCEPT ![c] = <<>>]
    /\ UNCHANGED <<server, escrow, shown, agreed>>

Next ==
    \/ \E c \in Clients :
          \/ ServerHandles(c) \/ Receive(c)
          \/ Enter(c) \/ Connect(c) \/ TokenRefused(c) \/ DialFails(c)
          \/ Drop(c) \/ Reconnect(c)
          \/ CountdownEnds(c) \/ EndGame(c) \/ PlayAgain(c)
          \/ \E accept \in BOOLEAN : Answer(c, accept)
          \/ \E e \in BoardEdges : Click(c, e)
          \/ ShowHistory(c) \/ ShowGame(c) \/ GoHome(c)
    \/ \E p \in Slots : Expire(p)

Spec == Init /\ [][Next]_vars

(* Messages arrive, timers fire, dialogs are answered, and a player whose  *)
(* turn it is plays sooner or later, again if the move was refused; of the *)
(* moves made in a second two are not refused.  Nobody has to stake, leave *)
(* or ask for a rematch.                                                   *)
FairSpec ==
    /\ Spec
    /\ WF_vars(\E c \in Clients : ServerHandles(c))
    /\ SF_vars(\E c \in Clients : HandleMove(c))
    /\ WF_vars(\E c \in Clients :
                  Receive(c) \/ Connect(c) \/ CountdownEnds(c) \/ EndGame(c)
                  \/ \E accept \in BOOLEAN : Answer(c, accept))
    /\ WF_vars(\E c \in Clients, e \in BoardEdges : Click(c, e))

-----------------------------------------------------------------------------
(* Every variable keeps its type.                                          *)
TypeOK ==
    /\ client \in [Clients -> ClientType]
    /\ server.seats \in [Slots -> Clients \union {None}]
    /\ server.sockets \subseteq Clients /\ server.view \in Snapshots
    /\ server.rematch \in Slots \union {None} /\ server.open \in BOOLEAN
    /\ escrow \in {"none", "waiting", "active"} /\ gone \subseteq Clients

Together == gone = {} /\ \A c \in Clients : SlotOf(server, c) # None

(* A browser in the room that has handled all its messages shows the board *)
(* the room has (handler.ts: emitSnapshot to the whole room); and if nobody*)
(* has left, it knows its own slot and whether the other is there.         *)
InStep ==
    \A c \in server.sockets :
        LET b == client[c] IN
        b.socket = "joined" /\ down[c] = <<>> =>
            /\ b.view = server.view
            /\ gone = {} => b.assigned = SlotOf(server, c) /\ b.players = Seated(server)

(* A browser never takes a slot for its own that the server has given to   *)
(* the other, or to nobody, whatever order they come, leave and drop in.   *)
SideIsSeat ==
    \A c \in server.sockets :
        client[c].assigned # None => server.seats[client[c].assigned] = c

(* A result is shown only for a board that is full, and once for each game,*)
(* although full boards are sent more than once and endGame waits 200 ms.  *)
OneResultPerGame ==
    [][\A c \in Clients :
          client'[c].modal = "online" /\ client[c].modal # "online" =>
              /\ Full(client[c].view.board)
              /\ client[c].view.round \notin shown[c]]_vars

(* The room starts over only after a finished game, and only when both     *)
(* players have asked for or agreed to a rematch of just that game, even if*)
(* their requests cross or their answers come late.                        *)
RematchIsAgreed ==
    [][server.open /\ server'.view.round # server.view.round =>
          /\ Full(server.view.board)
          /\ \A c \in Clients : server.view.round \in agreed[c]]_vars

(* Two players who stay get every game to its end, and both get to see its *)
(* result.                                                                 *)
GamesAreFinished ==
    Together ~> \/ \A c \in Clients : server.view.round \in shown[c]
                \/ gone # {}

(* A rematch does not stay pending in a browser once the other has         *)
(* answered, unless one of them is gone.                                   *)
RematchIsSettled ==
    (\E c \in Clients : client[c].pending)
        ~> (gone # {} \/ \A c \in Clients : ~client[c].pending)
=============================================================================
