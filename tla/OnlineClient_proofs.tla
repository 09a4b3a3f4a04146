------------------------ MODULE OnlineClient_proofs ------------------------
(***************************************************************************)
(* What two browsers in an online room may rely on, for boards of any size *)
(* and any number of rounds, moves on their way and browsers that leave:   *)
(* what a browser believes is what the server knows, once the messages that*)
(* are on their way are counted in.                                        *)
(*                                                                         *)
(* TypeInv is TypeOK without its bound on rounds.  KnowInv is the heart of *)
(* the first part: a browser's slot, players and board, with the messages  *)
(* on their way to it applied in order (Catches), are those of the server. *)
(* OpenInv, JoinInv, FreshInv and StayInv are about who is in the room, so *)
(* that a browser the server does not send to is one that knows nothing yet*)
(* or has left.                                                            *)
(*                                                                         *)
(* The second part is about the ends of games.  RoundInv says which of a   *)
(* browser's messages, timers and dialogs, and of the requests it has sent,*)
(* belong to which round: that no board shows a round twice as over, and   *)
(* no answer left over from one game is taken for an answer in the next.   *)
(***************************************************************************)
EXTENDS OnlineClient, FiniteSetTheorems, SequenceTheorems, TLAPS

-----------------------------------------------------------------------------
(* Types                                                                   *)

View == [board: Board, round: Nat]

Browser ==
    [screen : {"menu", "waiting", "game"},
     socket : {"none", "dialing", "refused", "joined", "lost", "idle"},
     online : BOOLEAN, connected : BOOLEAN, assigned : Slots \union {None},
     players : 0..2, countdown : BOOLEAN, active : BOOLEAN, view : View,
     endShown : BOOLEAN, endTimer : {"off", "set", "due"},
     modal : {"none", "online", "local"}, pending : BOOLEAN, asked : BOOLEAN]

Room ==
    [open: BOOLEAN, seats: [Slots -> Clients \union {None}], sockets: SUBSET Clients,
     view: View, rematch: Slots \union {None}]

Request ==
    [kind: {"join_room", "rematch_request", "disconnect"}]
    \union [kind: {"make_move"}, edge: BoardEdges]
    \union [kind: {"rematch_response"}, accept: BOOLEAN]

Message ==
    [kind: {"room_info"}, assigned: Slots \union {None}, players: 0..2]
    \union [kind: {"player_joined"}, players: 0..2]
    \union [kind: {"game_state"}, view: View]
    \union [kind: {"rematch_prompt"}, targeted: BOOLEAN]
    \union [kind: {"rematch_started", "rematch_declined"}]

TypeInv ==
    /\ client \in [Clients -> Browser]
    /\ up \in [Clients -> Seq(Request)]
    /\ down \in [Clients -> Seq(Message)]
    /\ server \in Room
    /\ escrow \in {"none", "waiting", "active"} /\ gone \subseteq Clients

(* Two slots, so never more than two players.                              *)
LEMMA SeatedBounds ==
    ASSUME NEW room
    PROVE  Seated(room) \in 0..2
<1>1. IsFiniteSet(Slots) /\ Cardinality(Slots) = 2
  <2>1. IsFiniteSet({"X"}) /\ Cardinality({"X"}) = 1
    BY FS_Singleton
  <2>2. IsFiniteSet({"X"} \union {"O"}) /\ Cardinality({"X"} \union {"O"}) = 1 + 1
    BY <2>1, FS_AddElement
  <2>3. Slots = {"X"} \union {"O"}
    BY DEF Slots
  <2>4. QED
    BY <2>2, <2>3
<1>2. {p \in Slots : room.seats[p] # None} \in SUBSET Slots
    OBVIOUS
<1>3. QED
    BY <1>1, <1>2, FS_Subset, FS_CardinalityType DEF Seated

(* A move of the player in turn leads from board to board.                 *)
LEMMA AfterIsBoard ==
    ASSUME NEW b \in Board, NEW e \in BoardEdges, NEW c \in AfterLine(b, e)
    PROVE  c \in Board
<1>1. PICK n \in 0..2 :
          c = [taken |-> b.taken \union {e},
               turn |-> IF n > 0 THEN b.turn ELSE Opponent(b.turn),
               score |-> [b.score EXCEPT ![b.turn] = @ + n]]
    BY DEF AfterLine, After
<1>2. [b.score EXCEPT ![b.turn] = @ + n] \in [Slots -> Nat]
    BY DEF Board
<1>3. Opponent(b.turn) \in Slots /\ b.turn \in Slots /\ b.taken \union {e} \subseteq BoardEdges
    BY DEF Board, Opponent, Slots
<1>4. QED
    BY <1>1, <1>2, <1>3 DEF Board

(* What browser and server start from is typed.                            *)
LEMMA FirstViews ==
    /\ NewBoard \in Board /\ Blank \in View
    /\ NewClient \in Browser /\ NewRoom \in Room
<1>1. NewBoard \in Board
    BY DEF NewBoard, Board, Slots
<1>2. Blank \in View
    BY <1>1 DEF Blank, View
<1>3. NewClient \in Browser
    BY <1>2 DEF NewClient, Browser
<1>4. NewRoom \in Room
    BY <1>2 DEF NewRoom, Room
<1>5. QED
    BY <1>1, <1>2, <1>3, <1>4

(* What the server sends is typed.                                         *)
LEMMA MessagesTyped ==
    ASSUME NEW room \in Room, NEW slot \in Slots \union {None}, NEW t \in BOOLEAN
    PROVE  /\ RoomInfo(room, slot) \in Message
           /\ PlayerJoined(room) \in Message
           /\ GameState(room) \in Message
           /\ RematchPrompt(t) \in Message
           /\ RematchStarted \in Message /\ RematchDeclined \in Message
<1>1. Seated(room) \in 0..2
    BY SeatedBounds
<1>2. room.view \in View
    BY DEF Room
<1>3. RoomInfo(room, slot) \in [kind: {"room_info"}, assigned: Slots \union {None}, players: 0..2]
    BY <1>1 DEF RoomInfo
<1>4. PlayerJoined(room) \in [kind: {"player_joined"}, players: 0..2]
    BY <1>1 DEF PlayerJoined
<1>5. GameState(room) \in [kind: {"game_state"}, view: View]
    BY <1>2 DEF GameState
<1>6. RematchPrompt(t) \in [kind: {"rematch_prompt"}, targeted: BOOLEAN]
    BY DEF RematchPrompt
<1>7. {RematchStarted, RematchDeclined} \subseteq [kind: {"rematch_started", "rematch_declined"}]
    BY DEF RematchStarted, RematchDeclined
<1>8. QED
    BY <1>3, <1>4, <1>5, <1>6, <1>7 DEF Message

(* A message of some kind has the fields of that kind.                     *)
LEMMA MessageForms ==
    ASSUME NEW m \in Message
    PROVE  /\ m.kind \in {"room_info", "player_joined", "game_state", "rematch_prompt",
                          "rematch_started", "rematch_declined"}
           /\ m.kind = "room_info" => m.assigned \in Slots \union {None} /\ m.players \in 0..2
           /\ m.kind = "player_joined" => m.players \in 0..2
           /\ m.kind = "game_state" => m.view \in View
           /\ m.kind = "rematch_prompt" => m.targeted \in BOOLEAN
    BY DEF Message

(* Send appends one message to the queues of some browsers.                *)
LEMMA SendAppends ==
    ASSUME NEW queues \in [Clients -> Seq(Message)], NEW to, NEW m \in Message
    PROVE  /\ Send(queues, to, m) \in [Clients -> Seq(Message)]
           /\ \A c \in Clients :
                 Send(queues, to, m)[c] = IF c \in to THEN Append(queues[c], m) ELSE queues[c]
<1>1. \A c \in Clients : Append(queues[c], m) \in Seq(Message)
    BY AppendProperties
<1>2. QED
    BY <1>1 DEF Send

(* And keeps the queues typed, however often it is used.                   *)
LEMMA SendTyped ==
    ASSUME NEW queues \in [Clients -> Seq(Message)], NEW to, NEW m \in Message
    PROVE  Send(queues, to, m) \in [Clients -> Seq(Message)]
    BY SendAppends

(* The handlers of the server keep the room and the messages typed.        *)
LEMMA EnteredTyped ==
    ASSUME TypeInv, NEW c \in Clients
    PROVE  Entered(c) \in Room
<1> DEFINE room == IF server.open THEN server
                   ELSE [NewRoom EXCEPT !.open = TRUE,
                                        !.view.round = server.view.round + 1]
           free == {p \in Slots : room.seats[p] = None}
           seat == IF "X" \in free THEN "X" ELSE "O"
<1>1. room \in Room
  <2>1. server.view.round + 1 \in Nat
    BY DEF TypeInv, Room, View
  <2>2. [NewRoom.view EXCEPT !.round = server.view.round + 1] \in View
    BY <2>1, FirstViews DEF Room, View
  <2>3. [NewRoom EXCEPT !.open = TRUE, !.view.round = server.view.round + 1] \in Room
    BY <2>2, FirstViews DEF Room
  <2>4. QED
    BY <2>3 DEF TypeInv
<1>2. seat \in Slots
    BY DEF Slots
<1>3. Entered(c) = [room EXCEPT
            !.sockets = @ \union {c},
            !.seats = IF free = {} THEN @ ELSE [@ EXCEPT ![seat] = c],
            !.rematch = IF Cardinality(free) < 2 THEN None ELSE @]
    BY DEF Entered
<1> HIDE DEF room, free, seat
<1> DEFINE seats == IF free = {} THEN room.seats ELSE [room.seats EXCEPT ![seat] = c]
           rematch == IF Cardinality(free) < 2 THEN None ELSE room.rematch
<1>4. seats \in [Slots -> Clients \union {None}]
    BY <1>1, <1>2 DEF Room
<1>5. rematch \in Slots \union {None}
    BY <1>1 DEF Room
<1>6. Entered(c) = [room EXCEPT !.sockets = @ \union {c}, !.seats = seats, !.rematch = rematch]
    BY <1>3
<1> HIDE DEF seats, rematch
<1>7. /\ room.open \in BOOLEAN /\ room.view \in View
      /\ room.sockets \union {c} \in SUBSET Clients
      /\ room = [open |-> room.open, seats |-> room.seats, sockets |-> room.sockets,
                 view |-> room.view, rematch |-> room.rematch]
    BY <1>1 DEF Room
<1>8. Entered(c) = [open |-> room.open, seats |-> seats,
                    sockets |-> room.sockets \union {c}, view |-> room.view,
                    rematch |-> rematch]
    BY <1>6, <1>7
<1>9. QED
    BY <1>4, <1>5, <1>7, <1>8 DEF Room

(* Every handler of the server keeps the room and the messages typed.      *)
LEMMA HandlersTyped ==
    ASSUME TypeInv, NEW c \in Clients, ServerHandles(c)
    PROVE  server' \in Room /\ down' \in [Clients -> Seq(Message)]
<1>1. server \in Room /\ down \in [Clients -> Seq(Message)] /\ up[c] \in Seq(Request)
    BY DEF TypeInv
<1>2. \A room : SlotOf(room, c) \in Slots \union {None}
    BY DEF SlotOf, Slots
<1>3. CASE HandleMove(c)
  <2>1. Head(up[c]) \in Request /\ Head(up[c]).kind = "make_move"
    BY <1>1, <1>3, HeadTailProperties DEF HandleMove, Takes
  <2>2. Head(up[c]).edge \in BoardEdges
    BY <2>1 DEF Request
  <2>3. CASE UNCHANGED <<server, down>>
    BY <1>1, <2>3
  <2>4. ASSUME NEW b \in AfterLine(server.view.board, Head(up[c]).edge),
               server' = [server EXCEPT !.view.board = b],
               down' = Send(down, server'.sockets, GameState(server'))
        PROVE  server' \in Room /\ down' \in [Clients -> Seq(Message)]
    <3>1. b \in Board
      BY <1>1, <2>2, AfterIsBoard DEF Room, View
    <3>2. server' \in Room
      BY <1>1, <2>4, <3>1 DEF Room, View
    <3>3. GameState(server') \in Message
      BY <3>2, MessagesTyped
    <3>4. QED
      BY <1>1, <2>4, <3>2, <3>3, SendTyped, Zenon
  <2>5. QED
    BY <1>3, <2>3, <2>4 DEF HandleMove, MakeMove
<1>4. CASE RefuseMove(c)
    BY <1>1, <1>4 DEF RefuseMove
<1>5. CASE Join(c)
  <2>1. server' = Entered(c) /\ server' \in Room
    BY <1>5, EnteredTyped DEF Join
  <2>2. /\ RoomInfo(server', SlotOf(server', c)) \in Message
        /\ GameState(server') \in Message /\ PlayerJoined(server') \in Message
    BY <1>2, <2>1, MessagesTyped
  <2>3. down' = Send(Send(Send(down, {c}, RoomInfo(server', SlotOf(server', c))),
                     server'.sockets, GameState(server')),
                     server'.sockets \ {c}, PlayerJoined(server'))
    BY <1>5 DEF Join
  <2>4. QED
    BY <1>1, <2>1, <2>2, <2>3, SendTyped, Zenon
<1>6. CASE RematchRequest(c)
  <2>1. CASE UNCHANGED <<server, down>>
    BY <1>1, <2>1
  <2>2. CASE /\ server' = [server EXCEPT !.rematch = SlotOf(server, c)]
             /\ down' = Send(Send(down, server.sockets, RematchPrompt(FALSE)),
                             server.sockets \ {c}, RematchPrompt(TRUE))
    <3>1. server' \in Room
      BY <1>1, <1>2, <2>2 DEF Room
    <3>2. RematchPrompt(FALSE) \in Message /\ RematchPrompt(TRUE) \in Message
      BY <3>1, MessagesTyped
    <3>3. QED
      BY <1>1, <2>2, <3>1, <3>2, SendTyped, Zenon
  <2>3. QED
    BY <1>6, <2>1, <2>2 DEF RematchRequest
<1>7. ASSUME NEW accept \in BOOLEAN, RematchResponse(c, accept)
      PROVE  server' \in Room /\ down' \in [Clients -> Seq(Message)]
  <2>1. CASE UNCHANGED <<server, down>>
    BY <1>1, <2>1
  <2>2. CASE /\ server' = ResetForRematch
             /\ down' = Send(Send(down, server.sockets, RematchStarted),
                             server.sockets, GameState(ResetForRematch))
    <3>1. server' \in Room
      <4>1. [board |-> NewBoard, round |-> server.view.round + 1] \in View
        BY <1>1, FirstViews DEF Room, View
      <4>2. QED
        BY <1>1, <2>2, <4>1 DEF Room, ResetForRematch
    <3>2. RematchStarted \in Message /\ GameState(ResetForRematch) \in Message
      BY <2>2, <3>1, MessagesTyped
    <3>3. QED
      BY <1>1, <2>2, <3>1, <3>2, SendTyped, Zenon
  <2>3. CASE /\ server' = RoomAfterDecline
             /\ down' = Send(down, server.sockets, RematchDeclined)
    <3>1. server' \in Room
      BY <1>1, <2>3 DEF Room, RoomAfterDecline
    <3>2. RematchDeclined \in Message
      BY <3>1, MessagesTyped
    <3>3. QED
      BY <1>1, <2>3, <3>1, <3>2, SendTyped, Zenon
  <2>4. QED
    BY <1>7, <2>1, <2>2, <2>3 DEF RematchResponse
<1>8. CASE Disconnect(c)
  <2>1. server' \in Room
    BY <1>1, <1>8 DEF Room, Disconnect
  <2>2. RoomInfo(server', None) \in Message
    BY <2>1, MessagesTyped
  <2>3. QED
    BY <1>1, <1>8, <2>1, <2>2, SendTyped, Zenon DEF Disconnect
<1>9. ASSUME HandleOther(c), Head(up[c]).kind = "rematch_response",
             RematchResponse(c, Head(up[c]).accept)
      PROVE  server' \in Room /\ down' \in [Clients -> Seq(Message)]
  <2>1. Head(up[c]) \in Request
    BY <1>1, <1>9, HeadTailProperties DEF HandleOther, Takes
  <2>2. Head(up[c]).accept \in BOOLEAN
    BY <1>9, <2>1 DEF Request
  <2>3. QED
    BY <1>7, <1>9, <2>2
<1>10. QED
    BY <1>3, <1>4, <1>5, <1>6, <1>8, <1>9 DEF ServerHandles, HandleOther

(* What the page makes of a message                                        *)
Received(b, m) ==
    CASE m.kind = "room_info" -> OnRoomInfo(b, m)
      [] m.kind = "player_joined" -> OnPlayerJoined(b, m)
      [] m.kind = "game_state" -> OnGameState(b, m)
      [] m.kind = "rematch_prompt" -> OnRematchPrompt(b, m)
      [] m.kind = "rematch_started" -> OnRematchStarted(b)
      [] m.kind = "rematch_declined" -> OnRematchDeclined(b)

(* Case by case, what changes in a browser that receives a message.        *)
LEMMA ReceivedForms ==
    ASSUME NEW b \in Browser, NEW m \in Message
    PROVE  /\ m.kind = "room_info" => Received(b, m) = OnRoomInfo(b, m)
           /\ m.kind = "player_joined" => Received(b, m) = OnPlayerJoined(b, m)
           /\ m.kind = "game_state" => Received(b, m) = OnGameState(b, m)
           /\ m.kind = "rematch_prompt" => Received(b, m) = OnRematchPrompt(b, m)
           /\ m.kind = "rematch_started" => Received(b, m) = OnRematchStarted(b)
           /\ m.kind = "rematch_declined" => Received(b, m) = OnRematchDeclined(b)
    BY DEF Received

(* Handling a message keeps a browser typed.                               *)
LEMMA ReceivedTyped ==
    ASSUME NEW b \in Browser, NEW m \in Message
    PROVE  Received(b, m) \in Browser
<1>1. CASE m.kind = "room_info"
  <2>1. m.assigned \in Slots \union {None} /\ m.players \in 0..2
    BY <1>1, MessageForms
  <2>2. OnRoomInfo(b, m) \in Browser
    BY <2>1 DEF OnRoomInfo, Browser
  <2>3. QED
    BY <1>1, <2>2, ReceivedForms
<1>2. CASE m.kind = "player_joined"
  <2>1. m.players \in 0..2
    BY <1>2, MessageForms
  <2>2. OnPlayerJoined(b, m) \in Browser
    BY <2>1 DEF OnPlayerJoined, Browser
  <2>3. QED
    BY <1>2, <2>2, ReceivedForms
<1>3. CASE m.kind = "game_state"
  <2>1. m.view \in View
    BY <1>3, MessageForms
  <2>2. Hydrate(b, m.view) \in Browser
    BY <2>1 DEF Hydrate, Browser
  <2>3. OnGameState(b, m) \in Browser
    BY <2>2 DEF OnGameState, Browser
  <2>4. QED
    BY <1>3, <2>3, ReceivedForms
<1>4. CASE m.kind \in {"rematch_prompt", "rematch_started", "rematch_declined"}
  <2>1. /\ OnRematchPrompt(b, m) \in Browser /\ OnRematchStarted(b) \in Browser
        /\ OnRematchDeclined(b) \in Browser
    BY DEF OnRematchPrompt, OnRematchStarted, OnRematchDeclined, Browser
  <2>2. QED
    BY <1>4, <2>1, ReceivedForms
<1>5. QED
    BY <1>1, <1>2, <1>3, <1>4, MessageForms

(* Receive takes the head of the queue and changes one browser.            *)
LEMMA ReceiveEffect ==
    ASSUME TypeInv, NEW c \in Clients, Receive(c)
    PROVE  /\ down[c] # <<>> /\ Head(down[c]) \in Message
           /\ client[c].socket = "joined"
           /\ client' = [client EXCEPT ![c] = Received(client[c], Head(down[c]))]
           /\ client' \in [Clients -> Browser]
           /\ down' = [down EXCEPT ![c] = Tail(@)]
           /\ down' \in [Clients -> Seq(Message)]
           /\ UNCHANGED <<up, server, escrow, gone, shown, agreed>>
<1>1. /\ down[c] \in Seq(Message) /\ down[c] # <<>> /\ client[c] \in Browser
      /\ client \in [Clients -> Browser] /\ down \in [Clients -> Seq(Message)]
    BY DEF TypeInv, Receive
<1>2. Head(down[c]) \in Message /\ Tail(down[c]) \in Seq(Message)
    BY <1>1, HeadTailProperties
<1>3. client' = [client EXCEPT ![c] = Received(client[c], Head(down[c]))]
    BY DEF Receive, Received
<1>4. Received(client[c], Head(down[c])) \in Browser
    BY <1>1, <1>2, ReceivedTyped
<1>5. /\ client[c].socket = "joined" /\ down' = [down EXCEPT ![c] = Tail(@)]
      /\ UNCHANGED <<up, server, escrow, gone, shown, agreed>>
    BY DEF Receive
<1> HIDE DEF Received
<1>6. QED
    BY <1>1, <1>2, <1>3, <1>4, <1>5

(* Emit sends a request, if there is a connection.                         *)
LEMMA EmitTyped ==
    ASSUME TypeInv, NEW c \in Clients, NEW m \in Request, Emit(c, m)
    PROVE  up' \in [Clients -> Seq(Request)]
<1>1. Append(up[c], m) \in Seq(Request)
    BY AppendProperties DEF TypeInv
<1>2. QED
    BY <1>1 DEF Emit, TypeInv

(* A browser stays one when some of its fields change.                     *)
LEMMA FieldsTyped ==
    ASSUME NEW b \in Browser, NEW f \in BOOLEAN
    PROVE  /\ [b EXCEPT !.screen = "menu"] \in Browser
           /\ [b EXCEPT !.screen = "waiting"] \in Browser
           /\ [b EXCEPT !.screen = "game"] \in Browser
           /\ \A s \in {"none", "dialing", "refused", "joined", "lost", "idle"} :
                 [b EXCEPT !.socket = s] \in Browser
           /\ [b EXCEPT !.online = f] \in Browser
           /\ [b EXCEPT !.connected = f] \in Browser
           /\ [b EXCEPT !.assigned = None] \in Browser
           /\ [b EXCEPT !.players = 1] \in Browser
           /\ [b EXCEPT !.countdown = f] \in Browser
           /\ [b EXCEPT !.active = f] \in Browser
           /\ [b EXCEPT !.view = Blank] \in Browser
           /\ [b EXCEPT !.endShown = f] \in Browser
           /\ \A t \in {"off", "set", "due"} : [b EXCEPT !.endTimer = t] \in Browser
           /\ \A m \in {"none", "online", "local"} : [b EXCEPT !.modal = m] \in Browser
           /\ [b EXCEPT !.pending = f] \in Browser
           /\ [b EXCEPT !.asked = f] \in Browser
<1>1. Blank \in View
    BY FirstViews
<1>2. [b EXCEPT !.screen = "menu"] \in Browser
    BY DEF Browser
<1>3. [b EXCEPT !.screen = "waiting"] \in Browser
    BY DEF Browser
<1>4. [b EXCEPT !.screen = "game"] \in Browser
    BY DEF Browser
<1>5. \A s \in {"none", "dialing", "refused", "joined", "lost", "idle"} :
           [b EXCEPT !.socket = s] \in Browser
    BY DEF Browser
<1>6. [b EXCEPT !.online = f] \in Browser
    BY DEF Browser
<1>7. [b EXCEPT !.connected = f] \in Browser
    BY DEF Browser
<1>8. [b EXCEPT !.assigned = None] \in Browser
    BY DEF Browser
<1>9. [b EXCEPT !.players = 1] \in Browser
    BY DEF Browser
<1>10. [b EXCEPT !.countdown = f] \in Browser
    BY DEF Browser
<1>11. [b EXCEPT !.active = f] \in Browser
    BY DEF Browser
<1>12. [b EXCEPT !.view = Blank] \in Browser
    BY <1>1 DEF Browser
<1>13. [b EXCEPT !.endShown = f] \in Browser
    BY DEF Browser
<1>14. \A t \in {"off", "set", "due"} : [b EXCEPT !.endTimer = t] \in Browser
    BY DEF Browser
<1>15. \A m \in {"none", "online", "local"} : [b EXCEPT !.modal = m] \in Browser
    BY DEF Browser
<1>16. [b EXCEPT !.pending = f] \in Browser
    BY DEF Browser
<1>17. [b EXCEPT !.asked = f] \in Browser
    BY DEF Browser
<1>18. QED
    BY <1>2, <1>3, <1>4, <1>5, <1>6, <1>7, <1>8, <1>9, <1>10, <1>11, <1>12, <1>13,
       <1>14, <1>15, <1>16, <1>17, Zenon

(* The types hold initially.                                               *)
LEMMA TypeInit == Init => TypeInv
<1> SUFFICES ASSUME Init PROVE TypeInv
    OBVIOUS
<1>1. <<>> \in Seq(Request) /\ <<>> \in Seq(Message)
    BY EmptySeq
<1>2. QED
    BY <1>1, FirstViews DEF Init, TypeInv

(* Every step keeps them.                                                  *)
LEMMA TypeNext == TypeInv /\ [Next]_vars => TypeInv'
<1> SUFFICES ASSUME TypeInv, [Next]_vars PROVE TypeInv'
    OBVIOUS
<1> USE DEF history
<1>1. /\ client \in [Clients -> Browser] /\ up \in [Clients -> Seq(Request)]
      /\ down \in [Clients -> Seq(Message)] /\ server \in Room
      /\ escrow \in {"none", "waiting", "active"} /\ gone \subseteq Clients
    BY DEF TypeInv
<1>2. ASSUME NEW c \in Clients, ServerHandles(c)
      PROVE  TypeInv'
  <2>1. up' \in [Clients -> Seq(Request)] /\ UNCHANGED <<client, escrow, gone>>
    <3>1. up[c] # <<>> /\ up' = [up EXCEPT ![c] = Tail(@)]
      BY <1>2 DEF ServerHandles, HandleMove, RefuseMove, HandleOther, Takes
    <3>2. Tail(up[c]) \in Seq(Request)
      BY <1>1, <3>1, HeadTailProperties
    <3>3. QED
      BY <1>1, <1>2, <3>1, <3>2 DEF ServerHandles, HandleMove, RefuseMove, HandleOther, Takes
  <2>2. QED
    BY <1>1, <1>2, <2>1, HandlersTyped DEF TypeInv
<1>3. ASSUME NEW c \in Clients, Receive(c)
      PROVE  TypeInv'
    BY <1>1, <1>3, ReceiveEffect DEF TypeInv
<1>4. ASSUME NEW c \in Clients, Enter(c)
      PROVE  TypeInv'
  <2>1. client' \in [Clients -> Browser]
    <3> DEFINE b == [client[c] EXCEPT !.socket = "dialing", !.online = TRUE, !.players = 1,
                                 !.pending = FALSE, !.screen = "waiting"]
    <3>1. client' = [client EXCEPT ![c] = b]
      BY <1>1, <1>4 DEF Enter
    <3>2. b \in Browser
      BY <1>1, FieldsTyped
    <3> HIDE DEF b
    <3>3. QED
      BY <1>1, <3>1, <3>2
  <2>2. QED
    BY <1>1, <1>4, <2>1 DEF Enter, LockStake, TypeInv
<1>5. ASSUME NEW c \in Clients, Connect(c)
      PROVE  TypeInv'
  <2>1. client' \in [Clients -> Browser]
    <3> DEFINE b == [client[c] EXCEPT !.socket = "joined", !.connected = TRUE,
                                 !.endShown = FALSE, !.assigned = None, !.players = 1,
                                 !.countdown = FALSE, !.screen = "waiting"]
    <3>1. client' = [client EXCEPT ![c] = b]
      BY <1>1, <1>5 DEF Connect
    <3>2. b \in Browser
      BY <1>1, FieldsTyped
    <3> HIDE DEF b
    <3>3. QED
      BY <1>1, <3>1, <3>2
  <2>2. [kind |-> "join_room"] \in Request
    BY DEF Request
  <2>3. up' \in [Clients -> Seq(Request)]
    BY <1>1, <1>5, <2>2, AppendProperties DEF Connect
  <2>4. QED
    BY <1>1, <1>5, <2>1, <2>3 DEF Connect, TypeInv
<1>6. ASSUME NEW c \in Clients, TokenRefused(c) \/ DialFails(c)
      PROVE  TypeInv'
  <2>1. client' \in [Clients -> Browser]
    <3>1. CASE TokenRefused(c)
      <4> DEFINE b == [client[c] EXCEPT !.socket = "refused"]
      <4>1. client' = [client EXCEPT ![c] = b]
        BY <1>1, <3>1 DEF TokenRefused
      <4>2. b \in Browser
        BY <1>1, FieldsTyped
      <4> HIDE DEF b
      <4>3. QED
        BY <1>1, <4>1, <4>2
    <3>2. CASE DialFails(c)
      <4> DEFINE b == [client[c] EXCEPT !.socket = "lost"]
      <4>1. client' = [client EXCEPT ![c] = b]
        BY <1>1, <3>2 DEF DialFails
      <4>2. b \in Browser
        BY <1>1, FieldsTyped
      <4> HIDE DEF b
      <4>3. QED
        BY <1>1, <4>1, <4>2
    <3>3. QED
      BY <1>6, <3>1, <3>2
  <2>2. QED
    BY <1>1, <1>6, <2>1 DEF TokenRefused, DialFails, Goes, TypeInv
<1>7. ASSUME NEW c \in Clients, Drop(c)
      PROVE  TypeInv'
  <2>1. client' \in [Clients -> Browser]
    <3> DEFINE b == [client[c] EXCEPT !.socket = "lost", !.connected = FALSE, !.assigned = None]
    <3>1. client' = [client EXCEPT ![c] = b]
      BY <1>1, <1>7 DEF Drop
    <3>2. b \in Browser
      BY <1>1, FieldsTyped
    <3> HIDE DEF b
    <3>3. QED
      BY <1>1, <3>1, <3>2
  <2>2. PICK n \in 0..Len(up[c]) :
            up' = [up EXCEPT ![c] = Append(SubSeq(@, 1, n), [kind |-> "disconnect"])]
    BY <1>7 DEF Drop
  <2>3. SubSeq(up[c], 1, n) \in Seq(Request)
    BY <1>1, <2>2
  <2>4. [kind |-> "disconnect"] \in Request
    BY DEF Request
  <2>5. Append(SubSeq(up[c], 1, n), [kind |-> "disconnect"]) \in Seq(Request)
    BY <2>3, <2>4, AppendProperties
  <2>6. up' \in [Clients -> Seq(Request)]
    BY <1>1, <2>2, <2>5
  <2>7. <<>> \in Seq(Message)
    BY EmptySeq
  <2>8. QED
    BY <1>1, <1>7, <2>1, <2>6, <2>7 DEF Drop, Goes, TypeInv
<1>8. ASSUME NEW c \in Clients, Reconnect(c) \/ CountdownEnds(c)
      PROVE  TypeInv'
  <2>1. client' \in [Clients -> Browser]
    <3>1. CASE Reconnect(c)
      <4> DEFINE b == [client[c] EXCEPT !.socket = "idle", !.connected = TRUE]
      <4>1. client' = [client EXCEPT ![c] = b]
        BY <1>1, <3>1 DEF Reconnect
      <4>2. b \in Browser
        BY <1>1, FieldsTyped
      <4> HIDE DEF b
      <4>3. QED
        BY <1>1, <4>1, <4>2
    <3>2. CASE CountdownEnds(c)
      <4> DEFINE b == [client[c] EXCEPT !.countdown = FALSE, !.screen = "game"]
      <4>1. client' = [client EXCEPT ![c] = b]
        BY <1>1, <3>2 DEF CountdownEnds
      <4>2. b \in Browser
        BY <1>1, FieldsTyped
      <4> HIDE DEF b
      <4>3. QED
        BY <1>1, <4>1, <4>2
    <3>3. QED
      BY <1>8, <3>1, <3>2
  <2>2. QED
    BY <1>1, <1>8, <2>1 DEF Reconnect, CountdownEnds, TypeInv
<1>9. ASSUME NEW c \in Clients, EndGame(c)
      PROVE  TypeInv'
  <2>1. client' \in [Clients -> Browser]
    <3> DEFINE b == [client[c] EXCEPT !.endTimer = "off", !.active = FALSE,
                                 !.modal = IF client[c].online THEN "online" ELSE "local"]
    <3>1. client' = [client EXCEPT ![c] = b]
      BY <1>1, <1>9 DEF EndGame
    <3>2. b \in Browser
      BY <1>1, FieldsTyped
    <3> HIDE DEF b
    <3>3. QED
      BY <1>1, <3>1, <3>2
  <2>2. QED
    BY <1>1, <1>9, <2>1 DEF EndGame, TypeInv
<1>10. ASSUME NEW c \in Clients, PlayAgain(c)
       PROVE  TypeInv'
  <2>1. client' \in [Clients -> Browser]
    <3> DEFINE b == IF client[c].online THEN [client[c] EXCEPT !.pending = TRUE]
                    ELSE [client[c] EXCEPT !.modal = "none", !.active = TRUE,
                                           !.endShown = FALSE, !.view = Blank,
                                           !.screen = "game"]
    <3>1. client' = [client EXCEPT ![c] = b]
      BY <1>1, <1>10 DEF PlayAgain
    <3>2. b \in Browser
      BY <1>1, FieldsTyped
    <3> HIDE DEF b
    <3>3. QED
      BY <1>1, <3>1, <3>2
  <2>2. [kind |-> "rematch_request"] \in Request
    BY DEF Request
  <2>3. up' \in [Clients -> Seq(Request)]
    BY <1>1, <1>10, <2>2, EmitTyped DEF PlayAgain
  <2>4. QED
    BY <1>1, <1>10, <2>1, <2>3 DEF PlayAgain, TypeInv
<1>11. ASSUME NEW c \in Clients, NEW accept \in BOOLEAN, Answer(c, accept)
       PROVE  TypeInv'
  <2>1. client' \in [Clients -> Browser]
    <3> DEFINE t == IF client[c].endTimer = "set" THEN "due" ELSE client[c].endTimer
               b == [client[c] EXCEPT !.asked = FALSE, !.endTimer = t]
    <3>1. t \in {"off", "set", "due"}
      BY <1>1 DEF Browser
    <3>2. client' = [client EXCEPT ![c] = b]
      BY <1>1, <1>11 DEF Answer
    <3> HIDE DEF t
    <3>3. b \in Browser
      BY <1>1, <3>1, FieldsTyped
    <3> HIDE DEF b
    <3>4. QED
      BY <1>1, <3>2, <3>3
  <2>2. [kind |-> "rematch_response", accept |-> accept] \in Request
    BY DEF Request
  <2>3. QED
    BY <1>1, <1>11, <2>1, <2>2, EmitTyped DEF Answer, TypeInv
<1>12. ASSUME NEW c \in Clients, NEW e \in BoardEdges, Click(c, e)
       PROVE  TypeInv'
  <2>1. [kind |-> "make_move", edge |-> e] \in Request
    BY DEF Request
  <2>2. QED
    BY <1>1, <1>12, <2>1, EmitTyped DEF Click, TypeInv
<1>13. ASSUME NEW c \in Clients, ShowHistory(c) \/ ShowGame(c)
       PROVE  TypeInv'
  <2>1. client' \in [Clients -> Browser]
    <3>1. CASE ShowHistory(c)
      <4> DEFINE b == [client[c] EXCEPT !.modal = "none", !.screen = "menu"]
      <4>1. client' = [client EXCEPT ![c] = b]
        BY <1>1, <3>1 DEF ShowHistory
      <4>2. b \in Browser
        BY <1>1, FieldsTyped
      <4> HIDE DEF b
      <4>3. QED
        BY <1>1, <4>1, <4>2
    <3>2. CASE ShowGame(c)
      <4> DEFINE b == [client[c] EXCEPT !.screen = "game"]
      <4>1. client' = [client EXCEPT ![c] = b]
        BY <1>1, <3>2 DEF ShowGame
      <4>2. b \in Browser
        BY <1>1, FieldsTyped
      <4> HIDE DEF b
      <4>3. QED
        BY <1>1, <4>1, <4>2
    <3>3. QED
      BY <1>13, <3>1, <3>2
  <2>2. QED
    BY <1>1, <1>13, <2>1 DEF ShowHistory, ShowGame, TypeInv
<1>14. ASSUME NEW c \in Clients, GoHome(c)
       PROVE  TypeInv'
  <2>1. client' \in [Clients -> Browser]
    BY <1>1, <1>14, FirstViews DEF GoHome, Browser
  <2>2. [kind |-> "disconnect"] \in Request
    BY DEF Request
  <2>3. up' \in [Clients -> Seq(Request)]
    BY <1>14, <2>2, EmitTyped DEF GoHome
  <2>4. <<>> \in Seq(Message)
    BY EmptySeq
  <2>5. QED
    BY <1>1, <1>14, <2>1, <2>3, <2>4 DEF GoHome, Goes, TypeInv
<1>15. ASSUME NEW p \in Slots, Expire(p)
       PROVE  TypeInv'
  <2>1. server' \in Room
    BY <1>1, <1>15 DEF Expire, Room
  <2>2. QED
    BY <1>1, <1>15, <2>1 DEF Expire, TypeInv
<1>16. CASE UNCHANGED vars
    BY <1>16 DEF vars, TypeInv
<1>17. QED
    BY <1>2, <1>3, <1>4, <1>5, <1>6, <1>7, <1>8, <1>9, <1>10, <1>11, <1>12, <1>13,
       <1>14, <1>15, <1>16 DEF Next

-----------------------------------------------------------------------------
(* What a browser will know                                                *)

(* Once a browser whose value is old has handled the messages s, it has the*)
(* value new: the last message of one of the kinds says so, or none does.  *)
Catches(s, kinds, field, old, new) ==
    \/ old = new /\ \A i \in DOMAIN s : s[i].kind \notin kinds
    \/ \E i \in DOMAIN s :
          /\ s[i].kind \in kinds /\ s[i][field] = new
          /\ \A j \in DOMAIN s : j > i => s[j].kind \notin kinds

(* A room_info that tells a browser its slot                               *)
Names(m) == m.kind = "room_info" /\ m.assigned # None

NamesOnly(s, seats, c) ==
    \A i \in DOMAIN s : Names(s[i]) => seats[s[i].assigned] = c

(* The messages and the browser name no slot that is not the browser's.    *)
KnowsSeat(c, s, b, room) ==
    /\ b.assigned # None => room.seats[b.assigned] = c
    /\ NamesOnly(s, room.seats, c)

KnowsBoard(s, b, room) == Catches(s, {"game_state"}, "view", b.view, room.view)

KnowsRoles(c, s, b, room) ==
    /\ Catches(s, {"room_info"}, "assigned", b.assigned, SlotOf(room, c))
    /\ Catches(s, {"room_info", "player_joined"}, "players", b.players, Seated(room))

KnowInv ==
    \A c \in server.sockets :
        /\ KnowsSeat(c, down[c], client[c], server)
        /\ client[c].socket = "joined" => KnowsBoard(down[c], client[c], server)
        /\ gone = {} => KnowsRoles(c, down[c], client[c], server)

(* A room that is closed is empty.                                         *)
OpenInv == ~server.open => server.sockets = {}

(* A browser that has yet to join has no part in the room.                 *)
JoinInv ==
    \A c \in Clients : \A i \in DOMAIN up[c] :
        up[c][i].kind = "join_room" =>
            /\ i = 1 /\ c \notin server.sockets
            /\ down[c] = <<>> /\ client[c].assigned = None

FreshInv ==
    \A c \in Clients :
        /\ client[c].socket = "dialing" => c \notin gone
        /\ client[c].socket # "none" => client[c].online
        /\ client[c].socket \in {"none", "dialing"} /\ c \notin gone =>
              /\ up[c] = <<>> /\ down[c] = <<>>
              /\ c \notin server.sockets /\ client[c].assigned = None

(* While nobody has left, only browsers of the room have a seat.           *)
StayInv ==
    gone = {} =>
        /\ \A c \in Clients : \A i \in DOMAIN up[c] : up[c][i].kind # "disconnect"
        /\ \A p \in Slots : server.seats[p] \in server.sockets \union {None}

Inv == TypeInv /\ OpenInv /\ JoinInv /\ FreshInv /\ StayInv /\ KnowInv

(* Without messages on their way, a browser has caught up.                 *)
LEMMA CatchesEmpty ==
    ASSUME NEW kinds, NEW field, NEW old, NEW new
    PROVE  Catches(<<>>, kinds, field, old, new) <=> old = new
    BY DEF Catches

(* A sequence with one more element at its end                             *)
LEMMA Appended ==
    ASSUME NEW S, NEW s \in Seq(S), NEW m \in S
    PROVE  /\ Append(s, m) \in Seq(S)
           /\ Len(s) \in Nat /\ DOMAIN s = 1..Len(s)
           /\ DOMAIN Append(s, m) = 1..Len(s) + 1
           /\ \A i \in 1..Len(s) : Append(s, m)[i] = s[i]
           /\ Append(s, m)[Len(s) + 1] = m
    BY AppendProperties, LenProperties

(* A sequence without its first element                                    *)
LEMMA Shortened ==
    ASSUME NEW S, NEW s \in Seq(S), s # <<>>
    PROVE  /\ Head(s) = s[1] /\ Head(s) \in S /\ Tail(s) \in Seq(S)
           /\ Len(s) \in Nat \ {0} /\ DOMAIN s = 1..Len(s)
           /\ DOMAIN Tail(s) = 1..Len(s) - 1
           /\ \A i \in 1..Len(s) - 1 : Tail(s)[i] = s[i + 1]
    BY HeadTailProperties, LenProperties, EmptySeq

(* A message of another kind changes nothing.                              *)
LEMMA CatchesOther ==
    ASSUME NEW s \in Seq(Message), NEW m \in Message,
           NEW kinds, NEW field, NEW old, NEW new,
           m.kind \notin kinds, Catches(s, kinds, field, old, new)
    PROVE  Catches(Append(s, m), kinds, field, old, new)
    BY Appended DEF Catches

(* The browser handles a message: what is left still leads to the value.   *)
LEMMA CatchesTail ==
    ASSUME NEW s \in Seq(Message), s # <<>>, NEW kinds, NEW field, NEW old, NEW new,
           Catches(s, kinds, field, old, new)
    PROVE  Catches(Tail(s), kinds, field,
                   IF Head(s).kind \in kinds THEN Head(s)[field] ELSE old, new)
<1> DEFINE t == Tail(s)
           h == Head(s)
           n == Len(s)
<1>1. /\ h = s[1] /\ n \in Nat /\ n > 0 /\ DOMAIN s = 1..n /\ DOMAIN t = 1..n - 1
      /\ \A i \in 1..n - 1 : t[i] = s[i + 1]
    BY Shortened
<1> HIDE DEF t, h, n
<1>2. \A j \in DOMAIN t : j + 1 \in DOMAIN s /\ t[j] = s[j + 1]
    BY <1>1
<1> SUFFICES Catches(t, kinds, field, IF h.kind \in kinds THEN h[field] ELSE old, new)
    BY DEF t, h
<1>3. CASE old = new /\ \A i \in DOMAIN s : s[i].kind \notin kinds
  <2>1. h.kind \notin kinds
    BY <1>1, <1>3
  <2>2. \A j \in DOMAIN t : t[j].kind \notin kinds
    BY <1>2, <1>3
  <2>3. QED
    BY <1>3, <2>1, <2>2 DEF Catches
<1>4. CASE \E i \in DOMAIN s :
               /\ s[i].kind \in kinds /\ s[i][field] = new
               /\ \A j \in DOMAIN s : j > i => s[j].kind \notin kinds
  <2>1. PICK i \in DOMAIN s :
            /\ s[i].kind \in kinds /\ s[i][field] = new
            /\ \A j \in DOMAIN s : j > i => s[j].kind \notin kinds
    BY <1>4
  <2>2. CASE i = 1
    <3>1. \A j \in DOMAIN t : j + 1 > i
      BY <1>1, <2>2
    <3>2. \A j \in DOMAIN t : t[j].kind \notin kinds
      BY <1>2, <2>1, <3>1
    <3>3. h.kind \in kinds /\ h[field] = new
      BY <1>1, <2>1, <2>2
    <3>4. QED
      BY <3>2, <3>3 DEF Catches
  <2>3. CASE i # 1
    <3>1. i - 1 \in DOMAIN t /\ t[i - 1] = s[i]
      BY <1>1, <2>1, <2>3
    <3>2. \A j \in DOMAIN t : j > i - 1 => t[j].kind \notin kinds
      BY <1>1, <1>2, <2>1
    <3>3. QED
      BY <2>1, <3>1, <3>2 DEF Catches
  <2>4. QED
    BY <2>2, <2>3
<1>5. QED
    BY <1>3, <1>4 DEF Catches

(* The same for the slots that messages name.                              *)
LEMMA NamesAppended ==
    ASSUME NEW s \in Seq(Message), NEW m \in Message, NEW seats, NEW c,
           NamesOnly(s, seats, c), Names(m) => seats[m.assigned] = c
    PROVE  NamesOnly(Append(s, m), seats, c)
<1>1. \A i \in DOMAIN Append(s, m) :
          (i \in DOMAIN s /\ Append(s, m)[i] = s[i]) \/ Append(s, m)[i] = m
    BY Appended
<1>2. QED
    BY <1>1 DEF NamesOnly

(* When the browser handles a message, the slot it names is its own.       *)
LEMMA NamesTail ==
    ASSUME NEW s \in Seq(Message), s # <<>>, NEW seats, NEW c, NamesOnly(s, seats, c)
    PROVE  /\ NamesOnly(Tail(s), seats, c)
           /\ Names(Head(s)) => seats[Head(s).assigned] = c
<1>1. /\ \A i \in DOMAIN Tail(s) : i + 1 \in DOMAIN s /\ Tail(s)[i] = s[i + 1]
      /\ 1 \in DOMAIN s /\ Head(s) = s[1]
    BY Shortened
<1>2. QED
    BY <1>1 DEF NamesOnly

(* The kinds of the server's messages                                      *)
LEMMA Kinds ==
    ASSUME NEW room, NEW slot, NEW t
    PROVE  /\ GameState(room).kind = "game_state" /\ GameState(room)["view"] = room.view
           /\ RoomInfo(room, slot).kind = "room_info"
           /\ RoomInfo(room, slot)["assigned"] = slot
           /\ RoomInfo(room, slot)["players"] = Seated(room)
           /\ PlayerJoined(room).kind = "player_joined"
           /\ PlayerJoined(room)["players"] = Seated(room)
           /\ RematchPrompt(t).kind = "rematch_prompt"
           /\ RematchStarted.kind = "rematch_started"
           /\ RematchDeclined.kind = "rematch_declined"
    BY DEF GameState, RoomInfo, PlayerJoined, RematchPrompt, RematchStarted, RematchDeclined

(* A message that is no room_info names no slot.                           *)
LEMMA KnowsSeatKept ==
    ASSUME NEW s \in Seq(Message), NEW m \in Message, NEW c, NEW b, NEW room,
           ~Names(m), KnowsSeat(c, s, b, room)
    PROVE  KnowsSeat(c, Append(s, m), b, room)
    BY NamesAppended DEF KnowsSeat

(* A message about the rematch says nothing about slots or the board.      *)
LEMMA RematchMessage ==
    ASSUME NEW s \in Seq(Message), NEW m \in Message, NEW c, NEW b, NEW room,
           m.kind \in {"rematch_prompt", "rematch_started", "rematch_declined"}
    PROVE  /\ KnowsSeat(c, s, b, room) => KnowsSeat(c, Append(s, m), b, room)
           /\ KnowsBoard(s, b, room) => KnowsBoard(Append(s, m), b, room)
           /\ KnowsRoles(c, s, b, room) => KnowsRoles(c, Append(s, m), b, room)
<1>1. /\ m.kind \notin {"game_state"} /\ m.kind \notin {"room_info"}
      /\ m.kind \notin {"room_info", "player_joined"} /\ ~Names(m)
    BY DEF Names
<1>2. KnowsSeat(c, s, b, room) => KnowsSeat(c, Append(s, m), b, room)
    BY <1>1, KnowsSeatKept
<1>3. KnowsBoard(s, b, room) => KnowsBoard(Append(s, m), b, room)
    BY <1>1, CatchesOther DEF KnowsBoard
<1>4. KnowsRoles(c, s, b, room) => KnowsRoles(c, Append(s, m), b, room)
    BY <1>1, CatchesOther DEF KnowsRoles
<1>5. QED
    BY <1>2, <1>3, <1>4

(* After a game_state the browser knows the board.                         *)
LEMMA SnapshotMessage ==
    ASSUME NEW s \in Seq(Message), NEW c, NEW b, NEW room \in Room
    PROVE  /\ KnowsSeat(c, s, b, room) => KnowsSeat(c, Append(s, GameState(room)), b, room)
           /\ KnowsBoard(Append(s, GameState(room)), b, room)
           /\ KnowsRoles(c, s, b, room) => KnowsRoles(c, Append(s, GameState(room)), b, room)
<1> DEFINE m == GameState(room)
<1>1. m \in Message /\ m.kind = "game_state" /\ m["view"] = room.view
    BY MessagesTyped, Kinds
<1> HIDE DEF m
<1>2. /\ m.kind \in {"game_state"} /\ m.kind \notin {"room_info"}
      /\ m.kind \notin {"room_info", "player_joined"} /\ ~Names(m)
    BY <1>1 DEF Names
<1>3. KnowsSeat(c, s, b, room) => KnowsSeat(c, Append(s, m), b, room)
    BY <1>1, <1>2, KnowsSeatKept
<1>4. KnowsBoard(Append(s, m), b, room)
    BY <1>1, Appended DEF KnowsBoard, Catches
<1>5. KnowsRoles(c, s, b, room) => KnowsRoles(c, Append(s, m), b, room)
    BY <1>1, <1>2, CatchesOther DEF KnowsRoles
<1>6. QED
    BY <1>3, <1>4, <1>5 DEF m

(* After a player_joined it knows how many players there are.              *)
LEMMA PlayerJoinedMessage ==
    ASSUME NEW s \in Seq(Message), NEW c, NEW b, NEW room \in Room
    PROVE  /\ KnowsSeat(c, s, b, room) => KnowsSeat(c, Append(s, PlayerJoined(room)), b, room)
           /\ KnowsBoard(s, b, room) => KnowsBoard(Append(s, PlayerJoined(room)), b, room)
           /\ Catches(s, {"room_info"}, "assigned", b.assigned, SlotOf(room, c)) =>
                  KnowsRoles(c, Append(s, PlayerJoined(room)), b, room)
<1> DEFINE m == PlayerJoined(room)
<1>1. m \in Message /\ m.kind = "player_joined" /\ m["players"] = Seated(room)
    BY MessagesTyped, Kinds
<1> HIDE DEF m
<1>2. /\ m.kind \notin {"game_state"} /\ m.kind \notin {"room_info"}
      /\ m.kind \in {"room_info", "player_joined"} /\ ~Names(m)
    BY <1>1 DEF Names
<1>3. KnowsSeat(c, s, b, room) => KnowsSeat(c, Append(s, m), b, room)
    BY <1>1, <1>2, KnowsSeatKept
<1>4. KnowsBoard(s, b, room) => KnowsBoard(Append(s, m), b, room)
    BY <1>1, <1>2, CatchesOther DEF KnowsBoard
<1>5. Catches(Append(s, m), {"room_info", "player_joined"}, "players", b.players, Seated(room))
    BY <1>1, <1>2, Appended DEF Catches
<1>6. Catches(s, {"room_info"}, "assigned", b.assigned, SlotOf(room, c)) =>
          Catches(Append(s, m), {"room_info"}, "assigned", b.assigned, SlotOf(room, c))
    BY <1>1, <1>2, CatchesOther
<1>7. QED
    BY <1>3, <1>4, <1>5, <1>6 DEF m, KnowsRoles

(* A room_info tells a browser of its slot and of the players.             *)
LEMMA RoomInfoMessage ==
    ASSUME NEW s \in Seq(Message), NEW c, NEW b, NEW room \in Room,
           NEW slot \in Slots \union {None}
    PROVE  /\ KnowsSeat(c, s, b, room) /\ (slot # None => room.seats[slot] = c) =>
                  KnowsSeat(c, Append(s, RoomInfo(room, slot)), b, room)
           /\ KnowsBoard(s, b, room) => KnowsBoard(Append(s, RoomInfo(room, slot)), b, room)
           /\ slot = SlotOf(room, c) => KnowsRoles(c, Append(s, RoomInfo(room, slot)), b, room)
<1> DEFINE m == RoomInfo(room, slot)
<1>1. /\ m \in Message /\ m.kind = "room_info"
      /\ m["assigned"] = slot /\ m["players"] = Seated(room)
  <2>1. TRUE \in BOOLEAN
    OBVIOUS
  <2>2. m \in Message
    BY <2>1, MessagesTyped, Zenon
  <2>3. QED
    BY <2>2, Kinds
<1> HIDE DEF m
<1>2. /\ m.kind \notin {"game_state"} /\ m.kind \in {"room_info"}
      /\ m.kind \in {"room_info", "player_joined"}
    BY <1>1
<1>3. ASSUME KnowsSeat(c, s, b, room), slot # None => room.seats[slot] = c
      PROVE  KnowsSeat(c, Append(s, m), b, room)
  <2>1. Names(m) => room.seats[m.assigned] = c
    BY <1>1, <1>3 DEF Names
  <2>2. QED
    BY <1>1, <1>3, <2>1, NamesAppended DEF KnowsSeat
<1>4. KnowsBoard(s, b, room) => KnowsBoard(Append(s, m), b, room)
    BY <1>1, <1>2, CatchesOther DEF KnowsBoard
<1>5. /\ Catches(Append(s, m), {"room_info"}, "assigned", b.assigned, slot)
      /\ Catches(Append(s, m), {"room_info", "player_joined"}, "players", b.players, Seated(room))
    BY <1>1, <1>2, Appended DEF Catches
<1>6. QED
    BY <1>1, <1>3, <1>4, <1>5 DEF m, KnowsRoles

(* Only seats, sockets and the board count for what a browser knows.       *)
LEMMA SameRoom ==
    ASSUME NEW c, NEW s, NEW b, NEW old, NEW new,
           c \in old.sockets, c \in new.sockets, new.seats = old.seats
    PROVE  /\ KnowsSeat(c, s, b, old) => KnowsSeat(c, s, b, new)
           /\ new.view = old.view /\ KnowsBoard(s, b, old) => KnowsBoard(s, b, new)
           /\ KnowsRoles(c, s, b, old) => KnowsRoles(c, s, b, new)
    BY DEF KnowsSeat, KnowsBoard, KnowsRoles, SlotOf, Seated

(* What the handling of a message of browser c leaves true                 *)
Handled(c) ==
    /\ KnowInv' /\ OpenInv'
    /\ server'.sockets \subseteq server.sockets \union {c}
    /\ \A d \in Clients : d \notin server.sockets \union server'.sockets => down'[d] = down[d]
    /\ gone = {} => \A p \in Slots : server'.seats[p] \in server'.sockets \union {None}

(* A message that changes nothing                                          *)
LEMMA NothingHandled ==
    ASSUME Inv, NEW c \in Clients, UNCHANGED <<client, gone, server, down>>
    PROVE  Handled(c)
    BY DEF Inv, KnowInv, OpenInv, StayInv, Handled

(* MAKE_MOVE: the new board goes to everyone in the room.                  *)
LEMMA MoveHandled ==
    ASSUME Inv, NEW c \in Clients, NEW e \in BoardEdges,
           MakeMove(c, e), UNCHANGED <<client, gone>>
    PROVE  Handled(c)
<1>1. /\ server \in Room /\ down \in [Clients -> Seq(Message)]
      /\ server.sockets \subseteq Clients
    BY DEF Inv, TypeInv, Room
<1>2. CASE UNCHANGED <<server, down>>
    BY <1>2, NothingHandled
<1>3. ASSUME NEW b \in AfterLine(server.view.board, e),
             server' = [server EXCEPT !.view.board = b],
             down' = Send(down, server'.sockets, GameState(server'))
      PROVE  Handled(c)
  <2>1. b \in Board
    BY <1>1, AfterIsBoard DEF Room, View
  <2>2. server' \in Room
    BY <1>1, <1>3, <2>1 DEF Room, View
  <2>3. /\ server'.sockets = server.sockets /\ server'.seats = server.seats
        /\ server'.open = server.open
    BY <1>1, <1>3 DEF Room
  <2>4. GameState(server') \in Message
    BY <2>2, MessagesTyped
  <2>5. \A d \in Clients : down'[d] = IF d \in server.sockets
                                      THEN Append(down[d], GameState(server')) ELSE down[d]
    BY <1>1, <1>3, <2>3, <2>4, SendAppends
  <2>6. ASSUME NEW d \in server.sockets
        PROVE  /\ KnowsSeat(d, down'[d], client[d], server')
               /\ KnowsBoard(down'[d], client[d], server')
               /\ gone = {} => KnowsRoles(d, down'[d], client[d], server')
    <3>1. down[d] \in Seq(Message) /\ down'[d] = Append(down[d], GameState(server'))
      BY <1>1, <2>5, <2>6
    <3>2. /\ KnowsSeat(d, down[d], client[d], server')
          /\ gone = {} => KnowsRoles(d, down[d], client[d], server')
      BY <2>3, SameRoom DEF Inv, KnowInv
    <3>3. QED
      BY <2>2, <3>1, <3>2, SnapshotMessage
  <2>7. KnowInv'
    BY <2>3, <2>6 DEF KnowInv
  <2>8. QED
    BY <2>3, <2>5, <2>7 DEF Inv, OpenInv, StayInv, Handled
<1>4. QED
    BY <1>2, <1>3 DEF MakeMove

(* REMATCH_REQUEST changes no seat and no board.                           *)
LEMMA RequestHandled ==
    ASSUME Inv, NEW c \in Clients, RematchRequest(c), UNCHANGED <<client, gone>>
    PROVE  Handled(c)
<1>1. /\ server \in Room /\ down \in [Clients -> Seq(Message)]
      /\ server.sockets \subseteq Clients
    BY DEF Inv, TypeInv, Room
<1>2. CASE UNCHANGED <<server, down>>
    BY <1>2, NothingHandled
<1>3. CASE /\ server' = [server EXCEPT !.rematch = SlotOf(server, c)]
           /\ down' = Send(Send(down, server.sockets, RematchPrompt(FALSE)),
                           server.sockets \ {c}, RematchPrompt(TRUE))
  <2>1. /\ server'.sockets = server.sockets /\ server'.seats = server.seats
        /\ server'.open = server.open /\ server'.view = server.view
    BY <1>1, <1>3 DEF Room
  <2> DEFINE m == RematchPrompt(FALSE)
             n == RematchPrompt(TRUE)
             mid == Send(down, server.sockets, m)
  <2>2. m \in Message /\ n \in Message /\ m.kind = "rematch_prompt" /\ n.kind = "rematch_prompt"
    BY <1>1, MessagesTyped, Kinds
  <2>3. down' = Send(mid, server.sockets \ {c}, n)
    BY <1>3
  <2> HIDE DEF m, n
  <2>4. /\ mid \in [Clients -> Seq(Message)]
        /\ \A d \in Clients : mid[d] = IF d \in server.sockets THEN Append(down[d], m) ELSE down[d]
    BY <1>1, <2>2, SendAppends
  <2> HIDE DEF mid
  <2>5. \A d \in Clients : down'[d] = IF d \in server.sockets \ {c}
                                      THEN Append(mid[d], n) ELSE mid[d]
    BY <2>2, <2>3, <2>4, SendAppends
  <2>6. ASSUME NEW d \in server.sockets
        PROVE  /\ KnowsSeat(d, down'[d], client[d], server')
               /\ client[d].socket = "joined" => KnowsBoard(down'[d], client[d], server')
               /\ gone = {} => KnowsRoles(d, down'[d], client[d], server')
    <3>1. down[d] \in Seq(Message) /\ mid[d] = Append(down[d], m) /\ mid[d] \in Seq(Message)
      BY <1>1, <2>4, <2>6
    <3>2. /\ KnowsSeat(d, down[d], client[d], server')
          /\ client[d].socket = "joined" => KnowsBoard(down[d], client[d], server')
          /\ gone = {} => KnowsRoles(d, down[d], client[d], server')
      BY <2>1, SameRoom DEF Inv, KnowInv
    <3>3. /\ KnowsSeat(d, mid[d], client[d], server')
          /\ client[d].socket = "joined" => KnowsBoard(mid[d], client[d], server')
          /\ gone = {} => KnowsRoles(d, mid[d], client[d], server')
      BY <2>2, <3>1, <3>2, RematchMessage
    <3>4. down'[d] = mid[d] \/ down'[d] = Append(mid[d], n)
      BY <1>1, <2>5
    <3>5. /\ KnowsSeat(d, Append(mid[d], n), client[d], server')
          /\ client[d].socket = "joined" => KnowsBoard(Append(mid[d], n), client[d], server')
          /\ gone = {} => KnowsRoles(d, Append(mid[d], n), client[d], server')
      <4> DEFINE q == mid[d]
      <4>1. /\ q \in Seq(Message) /\ n \in Message
            /\ n.kind \in {"rematch_prompt", "rematch_started", "rematch_declined"}
        BY <2>2, <3>1
      <4>2. /\ KnowsSeat(d, q, client[d], server')
            /\ client[d].socket = "joined" => KnowsBoard(q, client[d], server')
            /\ gone = {} => KnowsRoles(d, q, client[d], server')
        BY <3>3
      <4> HIDE DEF q
      <4>3. /\ KnowsSeat(d, Append(q, n), client[d], server')
            /\ client[d].socket = "joined" => KnowsBoard(Append(q, n), client[d], server')
            /\ gone = {} => KnowsRoles(d, Append(q, n), client[d], server')
        BY <4>1, <4>2, RematchMessage
      <4>4. QED
        BY <4>3 DEF q
    <3>6. QED
      BY <3>3, <3>4, <3>5
  <2>7. KnowInv'
    BY <2>1, <2>6 DEF KnowInv
  <2>8. \A d \in Clients : d \notin server.sockets => down'[d] = down[d]
    BY <2>4, <2>5
  <2>9. QED
    BY <2>1, <2>7, <2>8 DEF Inv, OpenInv, StayInv, Handled
<1>4. QED
    BY <1>2, <1>3 DEF RematchRequest

(* REMATCH_RESPONSE: an accepted rematch sends a new board, a declined one *)
(* closes the room.                                                        *)
LEMMA ResponseHandled ==
    ASSUME Inv, NEW c \in Clients, NEW accept \in BOOLEAN,
           RematchResponse(c, accept), UNCHANGED <<client, gone>>
    PROVE  Handled(c)
<1>1. /\ server \in Room /\ down \in [Clients -> Seq(Message)]
      /\ server.sockets \subseteq Clients
    BY DEF Inv, TypeInv, Room
<1>2. CASE UNCHANGED <<server, down>>
    BY <1>2, NothingHandled
<1>3. CASE /\ server' = ResetForRematch
           /\ down' = Send(Send(down, server.sockets, RematchStarted),
                           server.sockets, GameState(ResetForRematch))
  <2>1. /\ server'.sockets = server.sockets /\ server'.seats = server.seats
        /\ server'.open = server.open /\ server' \in Room
    <3>1. [board |-> NewBoard, round |-> server.view.round + 1] \in View
      BY <1>1, FirstViews DEF Room, View
    <3>2. QED
      BY <1>1, <1>3, <3>1 DEF Room, ResetForRematch
  <2> DEFINE mid == Send(down, server.sockets, RematchStarted)
             m == RematchStarted
             n == GameState(server')
  <2>2. m \in Message /\ n \in Message /\ m.kind = "rematch_started"
    BY <2>1, MessagesTyped, Kinds
  <2>3. down' = Send(mid, server.sockets, n)
    BY <1>3
  <2>4. /\ mid \in [Clients -> Seq(Message)]
        /\ \A d \in Clients : mid[d] = IF d \in server.sockets THEN Append(down[d], m) ELSE down[d]
    BY <1>1, <2>2, SendAppends
  <2> HIDE DEF mid, m
  <2>5. \A d \in Clients : down'[d] = IF d \in server.sockets THEN Append(mid[d], n) ELSE mid[d]
    BY <2>2, <2>3, <2>4, SendAppends
  <2>6. ASSUME NEW d \in server.sockets
        PROVE  /\ KnowsSeat(d, down'[d], client[d], server')
               /\ KnowsBoard(down'[d], client[d], server')
               /\ gone = {} => KnowsRoles(d, down'[d], client[d], server')
    <3>1. down[d] \in Seq(Message) /\ mid[d] = Append(down[d], m) /\ mid[d] \in Seq(Message)
      BY <1>1, <2>4, <2>6
    <3>2. /\ KnowsSeat(d, down[d], client[d], server')
          /\ gone = {} => KnowsRoles(d, down[d], client[d], server')
      BY <2>1, SameRoom DEF Inv, KnowInv
    <3>3. /\ KnowsSeat(d, mid[d], client[d], server')
          /\ gone = {} => KnowsRoles(d, mid[d], client[d], server')
      BY <2>2, <3>1, <3>2, RematchMessage
    <3>4. down'[d] = Append(mid[d], GameState(server'))
      BY <1>1, <2>5
    <3>5. QED
      BY <2>1, <3>1, <3>3, <3>4, SnapshotMessage
  <2>7. KnowInv'
    BY <2>1, <2>6 DEF KnowInv
  <2>8. \A d \in Clients : d \notin server.sockets => down'[d] = down[d]
    BY <2>4, <2>5
  <2>9. QED
    BY <2>1, <2>7, <2>8 DEF Inv, OpenInv, StayInv, Handled
<1>4. CASE /\ server' = RoomAfterDecline
           /\ down' = Send(down, server.sockets, RematchDeclined)
  <2>1. /\ server'.sockets = {}
        /\ server'.seats = [p \in Slots |-> IF server.seats[p] \in server.sockets THEN None
                                            ELSE server.seats[p]]
    BY <1>1, <1>4 DEF Room, RoomAfterDecline
  <2>2. RematchDeclined \in Message
    BY <1>1, MessagesTyped
  <2>3. \A d \in Clients : d \notin server.sockets => down'[d] = down[d]
    BY <1>1, <1>4, <2>2, SendAppends
  <2>4. gone = {} => \A p \in Slots : server'.seats[p] \in server'.sockets \union {None}
    BY <2>1 DEF Inv, StayInv
  <2>5. QED
    BY <2>1, <2>3, <2>4 DEF KnowInv, OpenInv, Handled
<1>5. QED
    BY <1>2, <1>3, <1>4 DEF RematchResponse

(* The server learns that a browser is gone: the others are told.          *)
LEMMA DisconnectHandled ==
    ASSUME Inv, NEW c \in Clients, gone # {}, Disconnect(c), UNCHANGED <<client, gone>>
    PROVE  Handled(c)
<1>1. /\ server \in Room /\ down \in [Clients -> Seq(Message)]
      /\ server.sockets \subseteq Clients
    BY DEF Inv, TypeInv, Room
<1> DEFINE left == IF c \in server.sockets THEN server'.sockets ELSE {}
           m == RoomInfo(server', None)
<1>2. /\ server' = [server EXCEPT !.sockets = @ \ {c}]
      /\ down' = Send(down, left, m)
    BY DEF Disconnect
<1>3. /\ server'.sockets = server.sockets \ {c} /\ server'.seats = server.seats
      /\ server'.open = server.open /\ server'.view = server.view /\ server' \in Room
    BY <1>1, <1>2 DEF Room
<1>4. m \in Message
    BY <1>3, MessagesTyped
<1> HIDE DEF m
<1>5. \A d \in Clients : down'[d] = IF d \in left THEN Append(down[d], m) ELSE down[d]
    BY <1>1, <1>2, <1>4, SendAppends
<1>6. ASSUME NEW d \in server'.sockets
      PROVE  /\ KnowsSeat(d, down'[d], client[d], server')
             /\ client[d].socket = "joined" => KnowsBoard(down'[d], client[d], server')
  <2>1. d \in Clients /\ d \in server.sockets /\ down[d] \in Seq(Message)
    BY <1>1, <1>3, <1>6
  <2>2. /\ KnowsSeat(d, down[d], client[d], server')
        /\ client[d].socket = "joined" => KnowsBoard(down[d], client[d], server')
    BY <1>3, <2>1, SameRoom DEF Inv, KnowInv
  <2>3. /\ KnowsSeat(d, Append(down[d], m), client[d], server')
        /\ client[d].socket = "joined" => KnowsBoard(Append(down[d], m), client[d], server')
    BY <1>3, <2>1, <2>2, RoomInfoMessage DEF m
  <2>4. QED
    BY <1>5, <2>1, <2>2, <2>3
<1>7. KnowInv'
    BY <1>6 DEF KnowInv
<1>8. \A d \in Clients : d \notin server.sockets => down'[d] = down[d]
    BY <1>3, <1>5
<1>9. QED
    BY <1>3, <1>7, <1>8 DEF Inv, OpenInv, Handled

(* A browser that enters takes a free seat, if there is one.               *)
LEMMA EnteredRoom ==
    ASSUME Inv, NEW c \in Clients
    PROVE  /\ Entered(c).sockets = server.sockets \union {c}
           /\ Entered(c).open
           /\ \A p \in Slots : \/ Entered(c).seats[p] \in {c, None}
                               \/ Entered(c).seats[p] = server.seats[p]
           /\ \A d \in server.sockets \ {c}, p \in Slots :
                 Entered(c).seats[p] = d <=> server.seats[p] = d
<1>1. server \in Room /\ server.sockets \subseteq Clients /\ None \notin Clients
    BY OnlineAssumption DEF Inv, TypeInv, Room, Clients
<1> DEFINE room == IF server.open THEN server
                   ELSE [NewRoom EXCEPT !.open = TRUE,
                                        !.view.round = server.view.round + 1]
           free == {p \in Slots : room.seats[p] = None}
           seat == IF "X" \in free THEN "X" ELSE "O"
           seats == IF free = {} THEN room.seats ELSE [room.seats EXCEPT ![seat] = c]
<1>2. /\ room.sockets = server.sockets /\ room.open
      /\ room.seats \in [Slots -> Clients \union {None}]
      /\ \A p \in Slots : room.seats[p] = None \/ room.seats[p] = server.seats[p]
      /\ server.sockets # {} => room.seats = server.seats
  <2>1. CASE server.open
    BY <1>1, <2>1 DEF Room
  <2>2. CASE ~server.open
    <3>1. server.sockets = {}
      BY <2>2 DEF Inv, OpenInv
    <3>2. room.sockets = {} /\ room.open /\ room.seats = [p \in Slots |-> None]
      BY <2>2 DEF NewRoom
    <3>3. QED
      BY <3>1, <3>2
  <2>3. QED
    BY <2>1, <2>2
<1>3. /\ Entered(c).sockets = room.sockets \union {c} /\ Entered(c).open = room.open
      /\ Entered(c).seats = seats
  <2>1. Entered(c) = [room EXCEPT
            !.sockets = @ \union {c},
            !.seats = IF free = {} THEN @ ELSE [@ EXCEPT ![seat] = c],
            !.rematch = IF Cardinality(free) < 2 THEN None ELSE @]
    BY DEF Entered
  <2>2. room \in Room
    <3>1. server.view.round + 1 \in Nat
      BY <1>1 DEF Room, View
    <3>2. [NewRoom.view EXCEPT !.round = server.view.round + 1] \in View
      BY <3>1, FirstViews DEF Room, View
    <3>3. [NewRoom EXCEPT !.open = TRUE, !.view.round = server.view.round + 1] \in Room
      BY <3>2, FirstViews DEF Room
    <3>4. QED
      BY <1>1, <3>3
  <2> HIDE DEF room, free, seat
  <2>3. QED
    BY <2>1, <2>2 DEF Room
<1>4. free # {} => seat \in Slots /\ room.seats[seat] = None
    BY DEF Slots
<1> HIDE DEF room, seat
<1>5. \A p \in Slots : seats[p] = c \/ seats[p] = room.seats[p]
    BY <1>2, <1>4
<1>6. \A d \in server.sockets \ {c}, p \in Slots : seats[p] = d <=> room.seats[p] = d
    BY <1>1, <1>2, <1>4
<1> HIDE DEF seats
<1>7. QED
    BY <1>2, <1>3, <1>5, <1>6

(* JOIN_ROOM: the newcomer is told its slot and the board, and the others  *)
(* that it came.                                                           *)
LEMMA JoinHandled ==
    ASSUME Inv, NEW c \in Clients, c \notin server.sockets, down[c] = <<>>,
           client[c].assigned = None, Join(c), UNCHANGED <<client, gone>>
    PROVE  Handled(c)
<1>1. /\ server \in Room /\ down \in [Clients -> Seq(Message)]
      /\ client \in [Clients -> Browser]
      /\ server.sockets \subseteq Clients /\ None \notin Clients
    BY OnlineAssumption DEF Inv, TypeInv, Room, Clients
<1>2. server' = Entered(c) /\ server' \in Room
    BY EnteredTyped DEF Join, Inv
<1>3. /\ server'.sockets = server.sockets \union {c} /\ server'.open
      /\ \A p \in Slots : server'.seats[p] \in {c, None} \/ server'.seats[p] = server.seats[p]
      /\ \A d \in server.sockets, p \in Slots : server'.seats[p] = d <=> server.seats[p] = d
    BY <1>2, EnteredRoom
<1> DEFINE info == RoomInfo(server', SlotOf(server', c))
           state == GameState(server')
           joined == PlayerJoined(server')
           first == Send(down, {c}, info)
           second == Send(first, server'.sockets, state)
<1>4. SlotOf(server', c) \in Slots \union {None}
    BY DEF SlotOf, Slots
<1>5. info \in Message /\ state \in Message /\ joined \in Message
    BY <1>2, <1>4, MessagesTyped
<1>6. down' = Send(second, server'.sockets \ {c}, joined)
    BY DEF Join
<1> HIDE DEF info, state, joined
<1>7. /\ first \in [Clients -> Seq(Message)]
      /\ \A d \in Clients : first[d] = IF d \in {c} THEN Append(down[d], info) ELSE down[d]
    BY <1>1, <1>5, SendAppends
<1> HIDE DEF first
<1>8. /\ second \in [Clients -> Seq(Message)]
      /\ \A d \in Clients : second[d] = IF d \in server'.sockets
                                        THEN Append(first[d], state) ELSE first[d]
    BY <1>5, <1>7, SendAppends
<1> HIDE DEF second
<1>9. \A d \in Clients : down'[d] = IF d \in server'.sockets \ {c}
                                    THEN Append(second[d], joined) ELSE second[d]
    BY <1>5, <1>6, <1>8, SendAppends
<1>10. ASSUME NEW d \in server.sockets
       PROVE  /\ KnowsSeat(d, down'[d], client[d], server')
              /\ KnowsBoard(down'[d], client[d], server')
              /\ gone = {} => KnowsRoles(d, down'[d], client[d], server')
  <2>1. d \in Clients /\ d # c /\ d # None /\ d \in server'.sockets
    BY <1>1, <1>3
  <2>2. /\ down[d] \in Seq(Message) /\ first[d] = down[d]
        /\ second[d] = Append(down[d], state) /\ second[d] \in Seq(Message)
        /\ down'[d] = Append(second[d], joined)
    BY <1>1, <1>7, <1>8, <1>9, <2>1
  <2>3. KnowsSeat(d, down[d], client[d], server')
    <3>1. KnowsSeat(d, down[d], client[d], server)
      BY DEF Inv, KnowInv
    <3>2. client[d].assigned \in Slots \union {None}
      BY <1>1, <2>1 DEF Browser
    <3>3. \A i \in DOMAIN down[d] : Names(down[d][i]) => down[d][i].assigned \in Slots
      <4>1. \A i \in DOMAIN down[d] : down[d][i] \in Message
        BY <2>2
      <4>2. QED
        BY <4>1, MessageForms DEF Names
    <3>4. QED
      BY <1>3, <3>1, <3>2, <3>3 DEF KnowsSeat, NamesOnly
  <2>4. SlotOf(server', d) = SlotOf(server, d)
    BY <1>3, <2>1 DEF SlotOf, Slots
  <2>5. gone = {} => Catches(down[d], {"room_info"}, "assigned", client[d].assigned,
                             SlotOf(server', d))
    BY <2>4 DEF Inv, KnowInv, KnowsRoles
  <2>6. /\ KnowsSeat(d, second[d], client[d], server')
        /\ KnowsBoard(second[d], client[d], server')
    BY <1>2, <2>2, <2>3, SnapshotMessage DEF state
  <2>7. gone = {} => Catches(second[d], {"room_info"}, "assigned", client[d].assigned,
                             SlotOf(server', d))
    <3>1. state.kind \notin {"room_info"}
      BY Kinds DEF state
    <3>2. QED
      BY <1>5, <2>2, <2>5, <3>1, CatchesOther
  <2> DEFINE q == second[d]
  <2>8. q \in Seq(Message) /\ down'[d] = Append(q, PlayerJoined(server'))
    BY <2>2 DEF joined
  <2> HIDE DEF q
  <2>9. /\ KnowsSeat(d, Append(q, PlayerJoined(server')), client[d], server')
        /\ KnowsBoard(Append(q, PlayerJoined(server')), client[d], server')
        /\ gone = {} => KnowsRoles(d, Append(q, PlayerJoined(server')), client[d], server')
    BY <1>2, <2>6, <2>7, <2>8, PlayerJoinedMessage DEF q
  <2>10. QED
    BY <2>8, <2>9
<1>11. /\ KnowsSeat(c, down'[c], client[c], server')
       /\ KnowsBoard(down'[c], client[c], server')
       /\ KnowsRoles(c, down'[c], client[c], server')
  <2>1. /\ down[c] \in Seq(Message) /\ first[c] = Append(down[c], info)
        /\ first[c] \in Seq(Message) /\ down'[c] = Append(first[c], state)
    BY <1>1, <1>3, <1>7, <1>8, <1>9
  <2>2. KnowsSeat(c, down[c], client[c], server')
    BY DEF KnowsSeat, NamesOnly
  <2>3. SlotOf(server', c) # None => server'.seats[SlotOf(server', c)] = c
    BY DEF SlotOf
  <2>4. /\ KnowsSeat(c, first[c], client[c], server')
        /\ KnowsRoles(c, first[c], client[c], server')
    <3> DEFINE slot == SlotOf(server', c)
               m == RoomInfo(server', slot)
    <3>1. first[c] = Append(down[c], m)
      BY <2>1 DEF info
    <3>2. slot \in Slots \union {None} /\ (slot # None => server'.seats[slot] = c)
      BY <1>4, <2>3
    <3>3. slot = SlotOf(server', c)
      OBVIOUS
    <3> HIDE DEF slot
    <3>4. /\ KnowsSeat(c, Append(down[c], m), client[c], server')
          /\ KnowsRoles(c, Append(down[c], m), client[c], server')
      BY <1>2, <2>1, <2>2, <3>2, <3>3, RoomInfoMessage
    <3>5. QED
      BY <3>1, <3>4
  <2> DEFINE q == first[c]
  <2>5. /\ q \in Seq(Message) /\ down'[c] = Append(q, GameState(server'))
        /\ KnowsSeat(c, q, client[c], server') /\ KnowsRoles(c, q, client[c], server')
    BY <2>1, <2>4 DEF state
  <2> HIDE DEF q
  <2>6. QED
    BY <1>2, <2>5, SnapshotMessage
<1>12. KnowInv'
  <2>1. \A d \in server'.sockets :
            /\ KnowsSeat(d, down'[d], client[d], server')
            /\ KnowsBoard(down'[d], client[d], server')
            /\ gone = {} => KnowsRoles(d, down'[d], client[d], server')
    BY <1>3, <1>10, <1>11
  <2>2. QED
    BY <2>1 DEF KnowInv
<1>13. \A d \in Clients : d \notin server.sockets \union server'.sockets => down'[d] = down[d]
    BY <1>3, <1>7, <1>8, <1>9
<1>14. gone = {} => \A p \in Slots : server'.seats[p] \in server'.sockets \union {None}
    BY <1>3 DEF Inv, StayInv
<1>15. QED
    BY <1>3, <1>12, <1>13, <1>14 DEF OpenInv, Handled

(* Every message the server handles leaves its room and what it has told   *)
(* the browsers in step.                                                   *)
LEMMA ServerHandled ==
    ASSUME Inv, NEW c \in Clients, ServerHandles(c)
    PROVE  /\ Handled(c)
           /\ up[c] # <<>> /\ up' = [up EXCEPT ![c] = Tail(@)]
           /\ UNCHANGED <<client, gone>>
<1>1. /\ up[c] # <<>> /\ up' = [up EXCEPT ![c] = Tail(@)] /\ UNCHANGED <<client, gone>>
    BY DEF ServerHandles, HandleMove, RefuseMove, HandleOther, Takes
<1> DEFINE m == Head(up[c])
<1>2. up[c] \in Seq(Request) /\ m \in Request
    BY <1>1, Shortened DEF Inv, TypeInv
<1>3. 1 \in DOMAIN up[c] /\ up[c][1] = m
    BY <1>1, <1>2, Shortened
<1>4. CASE HandleMove(c)
  <2>1. m.kind = "make_move" /\ MakeMove(c, m.edge)
    BY <1>4 DEF HandleMove
  <2>2. m.edge \in BoardEdges
    BY <1>2, <2>1 DEF Request
  <2>3. QED
    BY <1>1, <2>1, <2>2, MoveHandled
<1>5. CASE RefuseMove(c)
    BY <1>1, <1>5, NothingHandled DEF RefuseMove
<1>6. CASE HandleOther(c) /\ m.kind = "join_room" /\ Join(c)
  <2>1. c \notin server.sockets /\ down[c] = <<>> /\ client[c].assigned = None
    BY <1>3, <1>6 DEF Inv, JoinInv
  <2>2. QED
    BY <1>1, <1>6, <2>1, JoinHandled
<1>7. CASE HandleOther(c) /\ RematchRequest(c)
    BY <1>1, <1>7, RequestHandled
<1>8. CASE HandleOther(c) /\ m.kind = "rematch_response" /\ RematchResponse(c, m.accept)
  <2>1. m.accept \in BOOLEAN
    BY <1>2, <1>8 DEF Request
  <2>2. QED
    BY <1>1, <1>8, <2>1, ResponseHandled
<1>9. CASE HandleOther(c) /\ m.kind = "disconnect" /\ Disconnect(c)
  <2>1. gone # {}
    BY <1>3, <1>9 DEF Inv, StayInv
  <2>2. QED
    BY <1>1, <1>9, <2>1, DisconnectHandled
<1>10. QED
    BY <1>4, <1>5, <1>6, <1>7, <1>8, <1>9, <1>1 DEF ServerHandles, HandleOther

(* A step of the server keeps the invariant.                               *)
LEMMA ServerStep ==
    ASSUME Inv, TypeInv', NEW c \in Clients, ServerHandles(c)
    PROVE  Inv'
<1>1. /\ Handled(c) /\ up[c] # <<>> /\ up' = [up EXCEPT ![c] = Tail(@)]
      /\ UNCHANGED <<client, gone>>
    BY ServerHandled
<1>2. /\ up \in [Clients -> Seq(Request)] /\ up[c] \in Seq(Request)
      /\ client \in [Clients -> Browser]
    BY DEF Inv, TypeInv
<1>3. /\ \A d \in Clients \ {c} : up'[d] = up[d]
      /\ up'[c] = Tail(up[c])
    BY <1>1, <1>2
<1>4. \A i \in DOMAIN up'[c] : i + 1 \in DOMAIN up[c] /\ up'[c][i] = up[c][i + 1] /\ i + 1 # 1
    BY <1>1, <1>2, <1>3, Shortened
<1>5. JoinInv'
  <2>1. ASSUME NEW d \in Clients, NEW i \in DOMAIN up'[d], up'[d][i].kind = "join_room"
        PROVE  /\ i = 1 /\ d \notin server'.sockets
               /\ down'[d] = <<>> /\ client'[d].assigned = None
    <3>1. d # c
      BY <1>4, <2>1 DEF Inv, JoinInv
    <3>2. /\ i = 1 /\ d \notin server.sockets
          /\ down[d] = <<>> /\ client[d].assigned = None
      BY <1>3, <2>1, <3>1 DEF Inv, JoinInv
    <3>3. QED
      BY <1>1, <3>1, <3>2 DEF Handled
  <2>2. QED
    BY <2>1 DEF JoinInv
<1>6. FreshInv'
  <2>1. ASSUME NEW d \in Clients, client[d].socket \in {"none", "dialing"}, d \notin gone
        PROVE  /\ up'[d] = <<>> /\ down'[d] = <<>>
               /\ d \notin server'.sockets /\ client[d].assigned = None
    <3>1. /\ up[d] = <<>> /\ down[d] = <<>>
          /\ d \notin server.sockets /\ client[d].assigned = None
      BY <2>1 DEF Inv, FreshInv
    <3>2. d # c
      BY <1>1, <3>1
    <3>3. QED
      BY <1>1, <1>3, <3>1, <3>2 DEF Handled
  <2>2. QED
    BY <1>1, <2>1 DEF Inv, FreshInv
<1>7. StayInv'
  <2>1. ASSUME gone = {}, NEW d \in Clients, NEW i \in DOMAIN up'[d]
        PROVE  up'[d][i].kind # "disconnect"
    BY <1>3, <1>4, <2>1 DEF Inv, StayInv
  <2>2. QED
    BY <1>1, <2>1 DEF StayInv, Handled
<1>8. QED
    BY <1>1, <1>5, <1>6, <1>7 DEF Inv, Handled

(* What a browser takes from a message                                     *)
LEMMA ReceivedFields ==
    ASSUME NEW b \in Browser, NEW m \in Message
    PROVE  /\ Received(b, m).view = IF m.kind \in {"game_state"} THEN m["view"] ELSE b.view
           /\ Received(b, m).assigned =
                  IF m.kind \in {"room_info"} THEN m["assigned"] ELSE b.assigned
           /\ Received(b, m).players =
                  IF m.kind \in {"room_info", "player_joined"} THEN m["players"] ELSE b.players
           /\ Received(b, m).socket = b.socket
           /\ b.online => Received(b, m).online
<1>1. CASE m.kind = "room_info"
  <2>1. Received(b, m) = OnRoomInfo(b, m)
    BY <1>1, ReceivedForms
  <2>2. QED
    BY <1>1, <2>1 DEF OnRoomInfo, Browser
<1>2. CASE m.kind = "player_joined"
  <2>1. Received(b, m) = OnPlayerJoined(b, m)
    BY <1>2, ReceivedForms
  <2>2. QED
    BY <1>2, <2>1 DEF OnPlayerJoined, Browser
<1>3. CASE m.kind = "game_state"
  <2>1. Received(b, m) = OnGameState(b, m)
    BY <1>3, ReceivedForms
  <2>2. QED
    BY <1>3, <2>1 DEF OnGameState, Hydrate, Browser
<1>4. CASE m.kind \in {"rematch_prompt", "rematch_started", "rematch_declined"}
  <2>1. Received(b, m) \in {OnRematchPrompt(b, m), OnRematchStarted(b), OnRematchDeclined(b)}
    BY <1>4, ReceivedForms
  <2>2. QED
    BY <1>4, <2>1 DEF OnRematchPrompt, OnRematchStarted, OnRematchDeclined, Browser
<1>5. QED
    BY <1>1, <1>2, <1>3, <1>4, MessageForms

(* So does a browser that handles the message at the head of its queue.    *)
LEMMA ReceiveStep ==
    ASSUME Inv, TypeInv', NEW c \in Clients, Receive(c)
    PROVE  Inv'
<1> DEFINE m == Head(down[c])
           b == client[c]
           r == Received(b, m)
<1>1. /\ down[c] # <<>> /\ m \in Message /\ b.socket = "joined"
      /\ client' = [client EXCEPT ![c] = r]
      /\ down' = [down EXCEPT ![c] = Tail(@)]
      /\ UNCHANGED <<up, server, gone>>
    BY ReceiveEffect DEF Inv
<1>2. /\ client \in [Clients -> Browser] /\ down \in [Clients -> Seq(Message)]
      /\ b \in Browser /\ down[c] \in Seq(Message) /\ server \in Room
    BY DEF Inv, TypeInv
<1>3. /\ client'[c] = r /\ down'[c] = Tail(down[c])
      /\ \A d \in Clients \ {c} : client'[d] = client[d] /\ down'[d] = down[d]
    BY <1>1, <1>2
<1>4. /\ r.view = IF m.kind \in {"game_state"} THEN m["view"] ELSE b.view
      /\ r.assigned = IF m.kind \in {"room_info"} THEN m["assigned"] ELSE b.assigned
      /\ r.players = IF m.kind \in {"room_info", "player_joined"} THEN m["players"] ELSE b.players
      /\ r.socket = b.socket /\ (b.online => r.online)
    BY <1>1, <1>2, ReceivedFields
<1> HIDE DEF r
<1>5. ASSUME c \in server.sockets
      PROVE  /\ KnowsSeat(c, Tail(down[c]), r, server)
             /\ KnowsBoard(Tail(down[c]), r, server)
             /\ gone = {} => KnowsRoles(c, Tail(down[c]), r, server)
  <2>1. /\ KnowsSeat(c, down[c], b, server) /\ KnowsBoard(down[c], b, server)
        /\ gone = {} => KnowsRoles(c, down[c], b, server)
    BY <1>1, <1>5 DEF Inv, KnowInv
  <2>2. /\ NamesOnly(Tail(down[c]), server.seats, c)
        /\ Names(m) => server.seats[m.assigned] = c
    BY <1>1, <1>2, <2>1, NamesTail DEF KnowsSeat
  <2>3. KnowsSeat(c, Tail(down[c]), r, server)
    BY <1>4, <2>1, <2>2 DEF KnowsSeat, Names
  <2>4. KnowsBoard(Tail(down[c]), r, server)
    BY <1>1, <1>2, <1>4, <2>1, CatchesTail DEF KnowsBoard
  <2>5. ASSUME gone = {}
        PROVE  KnowsRoles(c, Tail(down[c]), r, server)
    BY <1>1, <1>2, <1>4, <2>1, <2>5, CatchesTail DEF KnowsRoles
  <2>6. QED
    BY <2>3, <2>4, <2>5
<1>6. KnowInv'
  <2>1. ASSUME NEW d \in server.sockets
        PROVE  /\ KnowsSeat(d, down'[d], client'[d], server)
               /\ client'[d].socket = "joined" => KnowsBoard(down'[d], client'[d], server)
               /\ gone = {} => KnowsRoles(d, down'[d], client'[d], server)
    <3>1. d \in Clients
      BY <1>2 DEF Room
    <3>2. CASE d = c
      BY <1>3, <1>5, <2>1, <3>2
    <3>3. CASE d # c
      BY <1>3, <3>1, <3>3 DEF Inv, KnowInv
    <3>4. QED
      BY <3>2, <3>3
  <2>2. QED
    BY <1>1, <2>1 DEF KnowInv
<1>7. JoinInv'
  <2>1. ASSUME NEW d \in Clients, NEW i \in DOMAIN up[d], up[d][i].kind = "join_room"
        PROVE  /\ i = 1 /\ d \notin server.sockets
               /\ down'[d] = <<>> /\ client'[d].assigned = None
    <3>1. /\ i = 1 /\ d \notin server.sockets
          /\ down[d] = <<>> /\ client[d].assigned = None
      BY <2>1 DEF Inv, JoinInv
    <3>2. QED
      BY <1>1, <1>3, <3>1
  <2>2. QED
    BY <1>1, <2>1 DEF JoinInv
<1>8. FreshInv'
  <2>1. ASSUME NEW d \in Clients
        PROVE  /\ client'[d].socket = client[d].socket
               /\ client[d].online => client'[d].online
               /\ client[d].socket \in {"none", "dialing"} => d # c
    BY <1>1, <1>3, <1>4
  <2>2. QED
    BY <1>1, <1>3, <2>1 DEF Inv, FreshInv
<1>9. QED
    BY <1>1, <1>6, <1>7, <1>8 DEF Inv, OpenInv, StayInv

(* A step of one browser that does not wait for the server: what it must   *)
(* respect for the invariant to hold.                                      *)
LEMMA BrowserStep ==
    ASSUME Inv, TypeInv', NEW c \in Clients, server' = server,
           \A d \in Clients \ {c} :
               client'[d] = client[d] /\ up'[d] = up[d] /\ down'[d] = down[d],
           gone \subseteq gone', gone' \subseteq gone \union {c},
           c \in server.sockets =>
               /\ client'[c].assigned \in {None, client[c].assigned}
               /\ down'[c] \in {<<>>, down[c]}
               /\ client'[c].socket = "joined" =>
                      /\ client[c].socket = "joined" /\ down'[c] = down[c]
                      /\ client'[c].view = client[c].view
               /\ gone' = {} =>
                      /\ down'[c] = down[c]
                      /\ client'[c].assigned = client[c].assigned
                      /\ client'[c].players = client[c].players,
           \A i \in DOMAIN up'[c] :
               /\ up'[c][i].kind = "join_room" =>
                      /\ i = 1 /\ c \notin server.sockets
                      /\ down'[c] = <<>> /\ client'[c].assigned = None
               /\ gone' = {} => up'[c][i].kind # "disconnect",
           client'[c].socket = "dialing" => c \notin gone',
           client'[c].socket # "none" => client'[c].online,
           client'[c].socket \in {"none", "dialing"} /\ c \notin gone' =>
               /\ up'[c] = <<>> /\ down'[c] = <<>>
               /\ c \notin server.sockets /\ client'[c].assigned = None
    PROVE  Inv'
<1>1. server.sockets \subseteq Clients
    BY DEF Inv, TypeInv, Room
<1>2. KnowInv'
  <2>1. ASSUME NEW d \in server.sockets
        PROVE  /\ KnowsSeat(d, down'[d], client'[d], server)
               /\ client'[d].socket = "joined" => KnowsBoard(down'[d], client'[d], server)
               /\ gone' = {} => KnowsRoles(d, down'[d], client'[d], server)
    <3>1. /\ KnowsSeat(d, down[d], client[d], server)
          /\ client[d].socket = "joined" => KnowsBoard(down[d], client[d], server)
          /\ gone = {} => KnowsRoles(d, down[d], client[d], server)
      BY DEF Inv, KnowInv
    <3>2. CASE d = c
      <4>1. KnowsSeat(c, down'[c], client'[c], server)
        BY <2>1, <3>1, <3>2 DEF KnowsSeat, NamesOnly
      <4>2. client'[c].socket = "joined" => KnowsBoard(down'[c], client'[c], server)
        BY <2>1, <3>1, <3>2 DEF KnowsBoard
      <4>3. gone' = {} => KnowsRoles(c, down'[c], client'[c], server)
        BY <2>1, <3>1, <3>2 DEF KnowsRoles
      <4>4. QED
        BY <3>2, <4>1, <4>2, <4>3
    <3>3. CASE d # c
      BY <1>1, <3>1, <3>3
    <3>4. QED
      BY <3>2, <3>3
  <2>2. QED
    BY <2>1 DEF KnowInv
<1>3. JoinInv'
  <2>1. ASSUME NEW d \in Clients, NEW i \in DOMAIN up'[d], up'[d][i].kind = "join_room"
        PROVE  /\ i = 1 /\ d \notin server.sockets
               /\ down'[d] = <<>> /\ client'[d].assigned = None
    BY <2>1 DEF Inv, JoinInv
  <2>2. QED
    BY <2>1 DEF JoinInv
<1>4. FreshInv'
  <2>1. ASSUME NEW d \in Clients
        PROVE  /\ client'[d].socket = "dialing" => d \notin gone'
               /\ client'[d].socket # "none" => client'[d].online
               /\ client'[d].socket \in {"none", "dialing"} /\ d \notin gone' =>
                     /\ up'[d] = <<>> /\ down'[d] = <<>>
                     /\ d \notin server.sockets /\ client'[d].assigned = None
    <3>1. CASE d = c
      BY <3>1
    <3>2. CASE d # c
      BY <3>2 DEF Inv, FreshInv
    <3>3. QED
      BY <3>1, <3>2
  <2>2. QED
    BY <2>1 DEF FreshInv
<1>5. StayInv'
  <2>1. ASSUME gone' = {}, NEW d \in Clients, NEW i \in DOMAIN up'[d]
        PROVE  up'[d][i].kind # "disconnect"
    BY <2>1 DEF Inv, StayInv
  <2>2. gone' = {} => \A p \in Slots : server.seats[p] \in server.sockets \union {None}
    BY DEF Inv, StayInv
  <2>3. QED
    BY <2>1, <2>2 DEF StayInv
<1>6. QED
    BY <1>2, <1>3, <1>4, <1>5 DEF Inv, OpenInv

(* Emit adds its message to what is on its way, or nothing does.           *)
LEMMA EmitEffect ==
    ASSUME TypeInv, NEW c \in Clients, NEW m \in Request, Emit(c, m)
    PROVE  /\ \A d \in Clients \ {c} : up'[d] = up[d]
           /\ client[c].socket # "joined" => up'[c] = up[c]
           /\ \A i \in DOMAIN up'[c] :
                 (i \in DOMAIN up[c] /\ up'[c][i] = up[c][i]) \/ up'[c][i] = m
<1>1. up \in [Clients -> Seq(Request)] /\ up[c] \in Seq(Request)
    BY DEF TypeInv
<1>2. \A i \in DOMAIN Append(up[c], m) :
          (i \in DOMAIN up[c] /\ Append(up[c], m)[i] = up[c][i]) \/ Append(up[c], m)[i] = m
    BY <1>1, Appended
<1>3. CASE client[c].socket = "joined"
  <2>1. up' = [up EXCEPT ![c] = Append(@, m)]
    BY <1>3 DEF Emit
  <2>2. up'[c] = Append(up[c], m) /\ \A d \in Clients \ {c} : up'[d] = up[d]
    BY <1>1, <2>1
  <2>3. QED
    BY <1>2, <1>3, <2>2
<1>4. CASE client[c].socket # "joined"
    BY <1>1, <1>4 DEF Emit
<1>5. QED
    BY <1>3, <1>4

(* A step that is only about the page: it says nothing of slots or boards, *)
(* and what it sends is neither a join nor a farewell.                     *)
LEMMA PageStep ==
    ASSUME Inv, TypeInv', NEW c \in Clients, UNCHANGED <<server, down, gone>>,
           \A d \in Clients \ {c} : client'[d] = client[d],
           client'[c].assigned = client[c].assigned,
           client'[c].players = client[c].players,
           client'[c].online = client[c].online,
           client'[c].view = client[c].view \/ client[c].socket # "joined",
           \/ client'[c].socket = client[c].socket
           \/ client'[c].socket = "idle" /\ client[c].socket = "lost",
           up' = up \/ \E m \in Request :
                           m.kind \notin {"join_room", "disconnect"} /\ Emit(c, m)
    PROVE  Inv'
<1>1. /\ \A d \in Clients \ {c} : up'[d] = up[d]
      /\ client[c].socket # "joined" => up'[c] = up[c]
      /\ \A i \in DOMAIN up'[c] :
            \/ i \in DOMAIN up[c] /\ up'[c][i] = up[c][i]
            \/ up'[c][i].kind \notin {"join_room", "disconnect"}
  <2>1. CASE up' = up
    BY <2>1
  <2>2. ASSUME NEW m \in Request, m.kind \notin {"join_room", "disconnect"}, Emit(c, m)
        PROVE  <1>1!1 /\ <1>1!2 /\ <1>1!3
    BY <2>2, EmitEffect DEF Inv
  <2>3. QED
    BY <2>1, <2>2
<1>2. \A i \in DOMAIN up'[c] :
          /\ up'[c][i].kind = "join_room" =>
                 /\ i = 1 /\ c \notin server.sockets
                 /\ down'[c] = <<>> /\ client'[c].assigned = None
          /\ gone' = {} => up'[c][i].kind # "disconnect"
    BY <1>1 DEF Inv, JoinInv, StayInv
<1>3. /\ client'[c].socket = "dialing" => c \notin gone'
      /\ client'[c].socket # "none" => client'[c].online
      /\ client'[c].socket \in {"none", "dialing"} /\ c \notin gone' =>
            /\ up'[c] = <<>> /\ down'[c] = <<>>
            /\ c \notin server.sockets /\ client'[c].assigned = None
    BY <1>1 DEF Inv, FreshInv
<1>4. QED
    BY <1>1, <1>2, <1>3, BrowserStep

(* The steps on the way to the room: the browser has no part in it yet.    *)
LEMMA ArrivalStep ==
    ASSUME Inv, TypeInv', NEW c \in Clients,
           Enter(c) \/ Connect(c) \/ TokenRefused(c) \/ DialFails(c)
    PROVE  Inv'
<1>1. /\ client \in [Clients -> Browser] /\ up \in [Clients -> Seq(Request)]
      /\ down \in [Clients -> Seq(Message)] /\ client[c] \in Browser
    BY DEF Inv, TypeInv
<1>2. /\ client[c].socket \in {"none", "dialing"} /\ c \notin gone
      /\ UNCHANGED <<server, down>>
    BY DEF Enter, Connect, TokenRefused, DialFails, Inv, FreshInv
<1>3. /\ up[c] = <<>> /\ down[c] = <<>>
      /\ c \notin server.sockets /\ client[c].assigned = None
    BY <1>2 DEF Inv, FreshInv
<1>4. \A d \in Clients \ {c} : client'[d] = client[d]
    BY <1>1 DEF Enter, Connect, TokenRefused, DialFails
<1>5. CASE Enter(c)
  <2>1. /\ client'[c].socket = "dialing" /\ client'[c].online
        /\ client'[c].assigned = None /\ UNCHANGED <<up, gone>>
    BY <1>1, <1>3, <1>5 DEF Enter, Browser, history
  <2>2. QED
    BY <1>2, <1>3, <1>4, <2>1, BrowserStep
<1>6. CASE Connect(c)
  <2>1. /\ client'[c].socket = "joined" /\ client'[c].online
        /\ client'[c].assigned = None /\ UNCHANGED gone
    BY <1>1, <1>6 DEF Connect, Browser, history, Inv, FreshInv
  <2>2. [kind |-> "join_room"] \in Request
    BY DEF Request
  <2>3. up'[c] = <<[kind |-> "join_room"]>> /\ \A d \in Clients \ {c} : up'[d] = up[d]
    BY <1>1, <1>3, <1>6, <2>2 DEF Connect
  <2>4. \A i \in DOMAIN up'[c] : i = 1 /\ up'[c][i].kind = "join_room"
    BY <2>3
  <2>5. QED
    BY <1>2, <1>3, <1>4, <2>1, <2>3, <2>4, BrowserStep
<1>7. CASE TokenRefused(c) \/ DialFails(c)
  <2>1. client[c].socket = "dialing" /\ up' = up /\ gone' = gone \union {c}
    BY <1>7 DEF TokenRefused, DialFails, Goes
  <2>2. client[c].online
    BY <2>1 DEF Inv, FreshInv
  <2>3. /\ client'[c].socket \in {"refused", "lost"} /\ client'[c].online
        /\ client'[c].assigned = None
    <3>1. \E k \in {"refused", "lost"} : client' = [client EXCEPT ![c].socket = k]
      BY <1>7 DEF TokenRefused, DialFails
    <3>2. QED
      BY <1>1, <1>3, <2>2, <3>1 DEF Browser
  <2>4. QED
    BY <1>2, <1>3, <1>4, <2>1, <2>3, BrowserStep
<1>8. QED
    BY <1>5, <1>6, <1>7

(* The connection breaks, or the player goes home.                         *)
LEMMA FarewellStep ==
    ASSUME Inv, TypeInv', NEW c \in Clients, Drop(c) \/ GoHome(c)
    PROVE  Inv'
<1>1. /\ client \in [Clients -> Browser] /\ up \in [Clients -> Seq(Request)]
      /\ down \in [Clients -> Seq(Message)] /\ client[c] \in Browser
      /\ up[c] \in Seq(Request) /\ [kind |-> "disconnect"] \in Request
    BY DEF Inv, TypeInv, Request
<1>2. /\ gone' = gone \union {c} /\ server' = server
      /\ down'[c] = <<>>
      /\ \A d \in Clients \ {c} : client'[d] = client[d] /\ down'[d] = down[d]
    BY <1>1 DEF Drop, GoHome, Goes
<1>3. /\ client'[c].assigned = None /\ client'[c].socket \in {"lost", "none"}
      /\ client'[c].socket # "none" => client'[c].online
  <2>1. CASE Drop(c)
    <3>1. client[c].online
      BY <2>1 DEF Drop, Inv, FreshInv
    <3>2. QED
      BY <1>1, <2>1, <3>1 DEF Drop, Browser
  <2>2. CASE GoHome(c)
    BY <1>1, <2>2 DEF GoHome, NewClient
  <2>3. QED
    BY <2>1, <2>2
<1>4. /\ \A d \in Clients \ {c} : up'[d] = up[d]
      /\ \A i \in DOMAIN up'[c] :
            \/ i \in DOMAIN up[c] /\ up'[c][i] = up[c][i]
            \/ up'[c][i].kind = "disconnect"
  <2>1. CASE Drop(c)
    <3>1. PICK n \in 0..Len(up[c]) :
              up' = [up EXCEPT ![c] = Append(SubSeq(@, 1, n), [kind |-> "disconnect"])]
      BY <2>1 DEF Drop
    <3> DEFINE s == SubSeq(up[c], 1, n)
    <3>2. /\ s \in Seq(Request)
          /\ \A i \in DOMAIN s : i \in DOMAIN up[c] /\ s[i] = up[c][i]
      BY <1>1, <3>1, LenProperties
    <3>3. up'[c] = Append(s, [kind |-> "disconnect"])
          /\ \A d \in Clients \ {c} : up'[d] = up[d]
      BY <1>1, <3>1
    <3> HIDE DEF s
    <3>4. \A i \in DOMAIN up'[c] : \/ i \in DOMAIN s /\ up'[c][i] = s[i]
                                   \/ up'[c][i] = [kind |-> "disconnect"]
      BY <1>1, <3>2, <3>3, Appended
    <3>5. QED
      BY <3>2, <3>3, <3>4
  <2>2. CASE GoHome(c)
    <3>1. Emit(c, [kind |-> "disconnect"])
      BY <2>2 DEF GoHome
    <3>2. QED
      BY <1>1, <3>1, EmitEffect DEF Inv
  <2>3. QED
    BY <2>1, <2>2
<1>5. \A i \in DOMAIN up'[c] :
          up'[c][i].kind = "join_room" =>
              /\ i = 1 /\ c \notin server.sockets
              /\ down'[c] = <<>> /\ client'[c].assigned = None
    BY <1>2, <1>3, <1>4 DEF Inv, JoinInv
<1>6. QED
    BY <1>2, <1>3, <1>4, <1>5, BrowserStep

(* A free seat changes nothing for those who are in the room.              *)
LEMMA ExpireStep ==
    ASSUME Inv, TypeInv', NEW p \in Slots, Expire(p)
    PROVE  Inv'
<1>1. /\ server \in Room /\ server.seats[p] \notin server.sockets \union {None}
      /\ UNCHANGED <<client, up, down, gone>> /\ None \notin Clients
      /\ server.sockets \subseteq Clients
    BY OnlineAssumption DEF Expire, Inv, TypeInv, Room, Clients
<1>2. /\ server'.sockets = server.sockets /\ server'.view = server.view
      /\ server'.seats = [server.seats EXCEPT ![p] = None]
      /\ server'.open = (server.open /\ (server.sockets # {}
                           \/ \E q \in Slots : server'.seats[q] # None))
    BY <1>1 DEF Expire, Room
<1>3. \A c \in server.sockets, q \in Slots : server'.seats[q] = c <=> server.seats[q] = c
    BY <1>1, <1>2 DEF Room
<1>4. gone # {}
    BY <1>1 DEF Inv, StayInv
<1>5. ASSUME NEW c \in server.sockets
      PROVE  /\ KnowsSeat(c, down[c], client[c], server')
             /\ client[c].socket = "joined" => KnowsBoard(down[c], client[c], server')
  <2>1. /\ KnowsSeat(c, down[c], client[c], server)
        /\ client[c].socket = "joined" => KnowsBoard(down[c], client[c], server)
    BY DEF Inv, KnowInv
  <2>2. down[c] \in Seq(Message) /\ client[c] \in Browser
    BY <1>1 DEF Inv, TypeInv
  <2>3. client[c].assigned \in Slots \union {None}
    BY <2>2 DEF Browser
  <2>4. \A i \in DOMAIN down[c] : Names(down[c][i]) => down[c][i].assigned \in Slots
    <3>1. \A i \in DOMAIN down[c] : down[c][i] \in Message
      BY <2>2
    <3>2. QED
      BY <3>1, MessageForms DEF Names
  <2>5. KnowsSeat(c, down[c], client[c], server')
    BY <1>3, <2>1, <2>3, <2>4 DEF KnowsSeat, NamesOnly
  <2>6. QED
    BY <1>2, <2>1, <2>5 DEF KnowsBoard
<1>6. KnowInv'
    BY <1>1, <1>2, <1>4, <1>5 DEF KnowInv
<1>7. OpenInv'
    BY <1>2 DEF Inv, OpenInv
<1>8. JoinInv' /\ FreshInv' /\ StayInv'
    BY <1>1, <1>2, <1>4 DEF Inv, JoinInv, FreshInv, StayInv
<1>9. QED
    BY <1>6, <1>7, <1>8 DEF Inv

(* The invariant holds initially.                                          *)
LEMMA InvInit == Init => Inv
<1> SUFFICES ASSUME Init PROVE Inv
    OBVIOUS
<1>1. TypeInv
    BY TypeInit
<1>2. /\ server = NewRoom /\ gone = {}
      /\ \A c \in Clients : client[c] = NewClient /\ up[c] = <<>> /\ down[c] = <<>>
    BY DEF Init
<1>3. /\ server.sockets = {} /\ \A p \in Slots : server.seats[p] = None
      /\ NewClient.socket = "none" /\ NewClient.assigned = None
    BY <1>2 DEF NewRoom, NewClient
<1>4. OpenInv /\ KnowInv
    BY <1>3 DEF OpenInv, KnowInv
<1>5. JoinInv /\ FreshInv /\ StayInv
    BY <1>2, <1>3 DEF JoinInv, FreshInv, StayInv
<1>6. QED
    BY <1>1, <1>4, <1>5 DEF Inv

(* Every step keeps it.                                                    *)
LEMMA InvNext == Inv /\ [Next]_vars => Inv'
<1> SUFFICES ASSUME Inv, [Next]_vars PROVE Inv'
    OBVIOUS
<1>1. TypeInv /\ TypeInv'
    BY TypeNext DEF Inv
<1>2. client \in [Clients -> Browser]
    BY <1>1 DEF TypeInv
<1>3. ASSUME NEW c \in Clients,
             CountdownEnds(c) \/ EndGame(c) \/ Reconnect(c) \/ ShowHistory(c) \/ ShowGame(c)
      PROVE  Inv'
  <2>1. UNCHANGED <<server, down, gone, up>>
    BY <1>3 DEF CountdownEnds, EndGame, Reconnect, ShowHistory, ShowGame, history
  <2>2. \A d \in Clients \ {c} : client'[d] = client[d]
    BY <1>2, <1>3 DEF CountdownEnds, EndGame, Reconnect, ShowHistory, ShowGame
  <2>3. /\ client'[c].assigned = client[c].assigned /\ client'[c].players = client[c].players
        /\ client'[c].online = client[c].online /\ client'[c].view = client[c].view
        /\ \/ client'[c].socket = client[c].socket
           \/ client'[c].socket = "idle" /\ client[c].socket = "lost"
    BY <1>2, <1>3 DEF CountdownEnds, EndGame, Reconnect, ShowHistory, ShowGame, Browser
  <2>4. QED
    BY <1>1, <2>1, <2>2, <2>3, PageStep
<1>4. ASSUME NEW c \in Clients, PlayAgain(c)
      PROVE  Inv'
  <2>1. UNCHANGED <<server, down, gone>>
    BY <1>4 DEF PlayAgain
  <2>2. \A d \in Clients \ {c} : client'[d] = client[d]
    BY <1>2, <1>4 DEF PlayAgain
  <2>3. /\ client'[c].assigned = client[c].assigned /\ client'[c].players = client[c].players
        /\ client'[c].online = client[c].online /\ client'[c].socket = client[c].socket
        /\ client'[c].view = client[c].view \/ ~client[c].online
    BY <1>2, <1>4 DEF PlayAgain, Browser
  <2>4. client'[c].view = client[c].view \/ client[c].socket # "joined"
    BY <2>3 DEF Inv, FreshInv
  <2>5. up' = up \/ Emit(c, [kind |-> "rematch_request"])
    BY <1>4 DEF PlayAgain
  <2>6. [kind |-> "rematch_request"] \in Request
    BY DEF Request
  <2>7. QED
    BY <1>1, <2>1, <2>2, <2>3, <2>4, <2>5, <2>6, PageStep
<1>5. ASSUME NEW c \in Clients, NEW accept \in BOOLEAN, Answer(c, accept)
      PROVE  Inv'
  <2>1. UNCHANGED <<server, down, gone>>
    BY <1>5 DEF Answer
  <2>2. \A d \in Clients \ {c} : client'[d] = client[d]
    BY <1>2, <1>5 DEF Answer
  <2>3. /\ client'[c].assigned = client[c].assigned /\ client'[c].players = client[c].players
        /\ client'[c].online = client[c].online /\ client'[c].socket = client[c].socket
        /\ client'[c].view = client[c].view
    BY <1>2, <1>5 DEF Answer, Browser
  <2> DEFINE m == [kind |-> "rematch_response", accept |-> accept]
  <2>4. Emit(c, m) /\ m \in Request /\ m.kind \notin {"join_room", "disconnect"}
    BY <1>5 DEF Answer, Request
  <2>5. QED
    BY <1>1, <2>1, <2>2, <2>3, <2>4, PageStep
<1>6. ASSUME NEW c \in Clients, NEW e \in BoardEdges, Click(c, e)
      PROVE  Inv'
  <2>1. UNCHANGED <<server, down, gone, client>>
    BY <1>6 DEF Click, history
  <2> DEFINE m == [kind |-> "make_move", edge |-> e]
  <2>2. Emit(c, m) /\ m \in Request /\ m.kind \notin {"join_room", "disconnect"}
    BY <1>6 DEF Click, Request
  <2>3. QED
    BY <1>1, <2>1, <2>2, PageStep
<1>7. CASE UNCHANGED vars
    BY <1>7 DEF vars, Inv, TypeInv, KnowInv, OpenInv, JoinInv, FreshInv, StayInv
<1>8. QED
    BY <1>1, <1>3, <1>4, <1>5, <1>6, <1>7, ServerStep, ReceiveStep, ArrivalStep,
       FarewellStep, ExpireStep DEF Next

(* So it holds throughout: what a browser will know, once it has handled   *)
(* what is on its way, is what the server knows.                           *)
LEMMA Invariance == Spec => []Inv
<1>1. QED
    BY InvInit, InvNext, PTL DEF Spec

(* A browser never takes a slot for its own that is another's or nobody's, *)
(* whatever order the two come, leave and drop in.                         *)
THEOREM SidesAreSeats == Spec => []SideIsSeat
<1>1. Inv => SideIsSeat
    BY DEF Inv, KnowInv, KnowsSeat, SideIsSeat
<1>2. QED
    BY <1>1, Invariance, PTL

(* A browser of the room that has handled its messages shows the board of  *)
(* the room, and knows its slot and the players if nobody has left.        *)
THEOREM BrowsersAreInStep == Spec => []InStep
<1>1. Inv => InStep
    BY CatchesEmpty DEF Inv, KnowInv, KnowsBoard, KnowsRoles, InStep
<1>2. QED
    BY <1>1, Invariance, PTL
-----------------------------------------------------------------------------
(***************************************************************************)
(* Rematches and results                                                   *)
(***************************************************************************)
Has(s, k) == \E i \in DOMAIN s : s[i].kind = k

(* In s every message of kind k comes before every one of kind l.          *)
Before(s, k, l) ==
    \A i, j \in DOMAIN s : s[i].kind = k /\ s[j].kind = l => i < j

Once(s, k) == \A i, j \in DOMAIN s : s[i].kind = k /\ s[j].kind = k => i = j

(* A rematch is agreed to in what a browser has sent.                      *)
Accepts(u) == \E i \in DOMAIN u : u[i].kind = "rematch_response" /\ u[i].accept

(* The boards on their way to a browser are those of this round, and the   *)
(* one that is full is the last of them.                                   *)
Boards(w, view) ==
    \A i \in DOMAIN w : w[i].kind = "game_state" =>
        /\ w[i].view.round = view.round
        /\ Full(w[i].view.board) =>
              /\ w[i].view = view
              /\ \A j \in DOMAIN w : w[j].kind = "game_state" => j <= i

(* A browser hears that a rematch is asked for before it is asked.         *)
Warned(w, pending) ==
    \A i \in DOMAIN w : w[i].kind = "rematch_prompt" /\ w[i].targeted =>
        \/ pending
        \/ \E j \in DOMAIN w : j < i /\ w[j].kind = "rematch_prompt" /\ ~w[j].targeted

(* The player in slot p has not moved on board b, nor has the other gone   *)
(* on after a first line.                                                  *)
Fresh(b, p) ==
    \/ b = NewBoard
    \/ p = "O" /\ b.turn = "O" /\ \E e \in BoardEdges : b \in AfterLine(NewBoard, e)

(* Whoever has yet to arrive                                               *)
Away(c) ==
    \/ client[c].socket = "none" /\ c \notin gone
    \/ client[c].socket = "dialing"
    \/ Has(up[c], "join_room")

(* A browser that has taken part in nothing                                *)
Untouched(c) ==
    LET b == client[c] IN
    /\ b.view = Blank /\ b.endTimer = "off" /\ b.modal = "none"
    /\ ~b.pending /\ ~b.asked /\ shown[c] = {}

(* Who is in the room, and who is not there yet.                           *)
SeatsOK ==
    /\ server.seats["X"] # None => server.seats["X"] # server.seats["O"]
    /\ \A c \in server.sockets : SlotOf(server, c) # None

AwayOK ==
    /\ \A c \in Clients : Away(c) =>
          /\ Untouched(c) /\ c \notin server.sockets
          /\ server.seats["X"] # c /\ server.seats["O"] = None
          /\ Fresh(server.view.board, "O")
          /\ server.view.round <= IF Away(Other(c)) THEN 0 ELSE 1
    /\ \A c \in Clients :
          /\ Has(up[c], "join_room") =>
                \A i \in DOMAIN up[c] : up[c][i].kind \in {"join_room", "disconnect"}
          /\ Has(up[c], "disconnect") => client[c].socket # "joined"

(* A question for a rematch that is open is about a game that is over, and *)
(* the one who asked wanted one.                                           *)
QuestionOK ==
    server.rematch # None =>
        /\ Full(server.view.board) /\ server.view.round < MaxRounds
        /\ \A c \in server.sockets :
              SlotOf(server, c) # server.rematch => server.view.round \in agreed[Other(c)]

(* What a browser of the room has sent: requests for a rematch and answers *)
(* belong to the game that is over, or are answers from the game before,   *)
(* sent before the first move in this one.                                 *)
SentOK(c, u, room, agrees) ==
    LET board == room.view.board
        mine == SlotOf(room, c)
    IN  /\ Once(u, "rematch_request")
        /\ Before(u, "make_move", "rematch_request")
        /\ Before(u, "rematch_request", "rematch_response")
        /\ Full(board) => Before(u, "make_move", "rematch_response")
        /\ ~Full(board) => Before(u, "rematch_response", "make_move")
        /\ Has(u, "rematch_request") =>
              Full(board) /\ room.view.round \in agrees /\ room.view.round < MaxRounds
        /\ Has(u, "rematch_response") => Full(board) \/ Fresh(board, mine)
        /\ Accepts(u) /\ Full(board) => room.view.round \in agrees
        /\ room.rematch = mine => ~Has(u, "rematch_request") /\ ~Has(u, "make_move")

(* What is on its way to a browser of the room: the boards of this round,  *)
(* a question once the board is full, a rematch before the boards of this  *)
(* round.                                                                  *)
TellsOK(w, room) ==
    /\ Boards(w, room.view)
    /\ Once(w, "rematch_started")
    /\ Before(w, "rematch_started", "game_state")
    /\ Before(w, "rematch_prompt", "rematch_started")
    /\ Has(w, "rematch_prompt") /\ ~Has(w, "rematch_started") =>
          Full(room.view.board) /\ Before(w, "game_state", "rematch_prompt")
    /\ ~Has(w, "rematch_declined")

(* A browser that has asked for a rematch of this game, or answered        *)
Involved(c, u, room) ==
    \/ Has(u, "rematch_request")
    \/ room.rematch = SlotOf(room, c)
    \/ Has(u, "rematch_response") /\ Full(room.view.board)

(* Such a browser waits for the rematch, with the full board on its page.  *)
Waits(b, room) ==
    b.pending /\ Full(room.view.board) /\ b.view = room.view

(* What a browser of the room believes of the round                        *)
PageOK(c, b, u, w, room) ==
    /\ b.view.round <= room.view.round
    /\ b.view.round = room.view.round /\ Full(b.view.board) =>
          b.view = room.view /\ ~Has(w, "game_state")
    /\ Has(w, "rematch_started") =>
          /\ b.pending /\ Full(b.view.board) /\ b.view.round # room.view.round
          /\ b.endTimer # "set" /\ Fresh(room.view.board, SlotOf(room, c))
          /\ ~Has(u, "rematch_request") /\ ~Has(u, "make_move")
    /\ b.view.round # room.view.round /\ ~Has(w, "rematch_started") =>
          b.endTimer = "off" /\ ~b.asked /\ b.modal = "none"
    /\ b.modal # "none" => Full(b.view.board) /\ b.endTimer = "off"
    /\ b.asked => /\ b.pending
                  /\ Has(w, "rematch_started") \/ (Full(room.view.board) /\ b.view = room.view)
    /\ Warned(w, b.pending)
    /\ Involved(c, u, room) => Waits(b, room) /\ b.endTimer # "set"

(* A result was shown of a board that is full, and one that will be shown  *)
(* was not.                                                                *)
ShownOK(c) ==
    LET b == client[c] IN
    b.online =>
        /\ \A r \in shown[c] : r <= b.view.round
        /\ b.view.round \in shown[c] => Full(b.view.board)
        /\ b.endTimer # "off" => Full(b.view.board) /\ b.view.round \notin shown[c]

(* What concerns one browser of the room                                   *)
PartOK(c, u, w, b, room, agrees) ==
    /\ SentOK(c, u, room, agrees)
    /\ b.socket = "joined" => TellsOK(w, room) /\ PageOK(c, b, u, w, room)

PartsOK ==
    /\ \A c \in server.sockets :
          PartOK(c, up[c], down[c], client[c], server, agreed[c])
    /\ \A c \in Clients \ server.sockets :
          client[c].socket = "joined" =>
              ~Has(down[c], "game_state") /\ ~Has(down[c], "rematch_started")

(* No board is of a round to come, and all have as many squares closed as  *)
(* they may.                                                               *)
ViewsOK ==
    /\ server.view.round <= MaxRounds /\ Playable(server.view.board)
    /\ \A c \in Clients :
          /\ client[c].view.round <= server.view.round
          /\ \A i \in DOMAIN down[c] : down[c][i].kind = "game_state" =>
                down[c][i].view.round <= server.view.round /\ Playable(down[c][i].view.board)

HistoryOK ==
    /\ shown \in [Clients -> SUBSET Nat] /\ agreed \in [Clients -> SUBSET Nat]
    /\ \A c \in Clients : ShownOK(c)

RoundInv == SeatsOK /\ AwayOK /\ QuestionOK /\ PartsOK /\ ViewsOK /\ HistoryOK

(* The first line closes no square, and passes the turn.                   *)
LEMMA FirstLine ==
    ASSUME NEW e \in BoardEdges, NEW b \in AfterLine(NewBoard, e)
    PROVE  b.turn = "O" /\ Closed(b) = 0 /\ Playable(b)
<1>1. PICK n \in 0..2 :
          b = [taken |-> NewBoard.taken \union {e},
               turn |-> IF n > 0 THEN NewBoard.turn ELSE Opponent(NewBoard.turn),
               score |-> [NewBoard.score EXCEPT ![NewBoard.turn] = @ + n]]
    BY DEF AfterLine, After
<1>2. Closed(b) = Closed(NewBoard) /\ Closed(NewBoard) = 0 /\ Playable(b)
    BY DEF AfterLine, After, NewBoard, Closed, Slots
<1>3. Closed(b) = n
    BY <1>1 DEF NewBoard, Closed, Slots
<1>4. n = 0
    BY <1>2, <1>3
<1>5. QED
    BY <1>1, <1>2, <1>4 DEF NewBoard, Opponent

(* A rematch does not arise from an empty board, nor before the second     *)
(* line: no board that is fresh is full.                                   *)
LEMMA FreshNotFull ==
    ASSUME NEW b, NEW p, Fresh(b, p)
    PROVE  ~Full(b)
<1>1. BoardEdges # {} /\ NumSquares \in Nat \ {0}
  <2>1. /\ IsFiniteSet(BoardEdges) /\ BoardEdges # {}
        /\ NumSquares \in 1..2 * Cardinality(BoardEdges)
    BY BoardAssumption
  <2>2. Cardinality(BoardEdges) \in Nat
    BY <2>1, FS_CardinalityType
  <2>3. QED
    BY <2>1, <2>2
<1>2. CASE b = NewBoard
    BY <1>1, <1>2 DEF NewBoard, Full
<1>3. ASSUME NEW e \in BoardEdges, b \in AfterLine(NewBoard, e)
      PROVE  ~Full(b)
  <2>1. Closed(b) = 0 /\ Playable(b)
    BY <1>3, FirstLine
  <2>2. Closed(b) # NumSquares
    BY <1>1, <2>1
  <2>3. QED
    BY <2>1, <2>2 DEF Playable
<1>4. QED
    BY <1>2, <1>3 DEF Fresh

(* What is the case with one more message at the end                       *)
LEMMA AppendFacts ==
    ASSUME NEW S, NEW s \in Seq(S), NEW m \in S
    PROVE  /\ \A k : Has(Append(s, m), k) <=> Has(s, k) \/ m.kind = k
           /\ \A k, l : Before(s, k, l) /\ (m.kind = k => ~Has(s, l) /\ k # l) =>
                            Before(Append(s, m), k, l)
           /\ \A k : Once(s, k) /\ (m.kind = k => ~Has(s, k)) => Once(Append(s, m), k)
           /\ Accepts(Append(s, m)) <=> Accepts(s) \/ (m.kind = "rematch_response" /\ m.accept)
<1> DEFINE t == Append(s, m)
           n == Len(s)
<1>1. /\ n \in Nat /\ DOMAIN s = 1..n /\ DOMAIN t = 1..n + 1
      /\ \A i \in 1..n : t[i] = s[i]
      /\ t[n + 1] = m
    BY Appended
<1> HIDE DEF t, n
<1>2. \A i \in DOMAIN t : (i \in DOMAIN s /\ t[i] = s[i] /\ i # n + 1) \/ (i = n + 1 /\ t[i] = m)
    BY <1>1
<1>3. \A i \in DOMAIN s : i \in DOMAIN t /\ t[i] = s[i] /\ i < n + 1
    BY <1>1
<1>4. n + 1 \in DOMAIN t
    BY <1>1
<1>5. ASSUME NEW k PROVE Has(t, k) <=> Has(s, k) \/ m.kind = k
    BY <1>1, <1>2, <1>3, <1>4 DEF Has
<1>6. ASSUME NEW k, NEW l, Before(s, k, l), m.kind = k => ~Has(s, l) /\ k # l
      PROVE  Before(t, k, l)
    BY <1>1, <1>2, <1>3, <1>6 DEF Before, Has
<1>7. ASSUME NEW k, Once(s, k), m.kind = k => ~Has(s, k)
      PROVE  Once(t, k)
    BY <1>2, <1>7 DEF Once, Has
<1>8. Accepts(t) <=> Accepts(s) \/ (m.kind = "rematch_response" /\ m.accept)
    BY <1>1, <1>2, <1>3, <1>4 DEF Accepts
<1>9. QED
    BY <1>5, <1>6, <1>7, <1>8 DEF t

(* And without the first one                                               *)
LEMMA TailFacts ==
    ASSUME NEW S, NEW s \in Seq(S), s # <<>>
    PROVE  /\ \A k : Has(Tail(s), k) => Has(s, k)
           /\ \A k : Has(s, k) => Has(Tail(s), k) \/ Head(s).kind = k
           /\ Has(s, Head(s).kind)
           /\ \A k, l : Before(s, k, l) => Before(Tail(s), k, l)
           /\ \A k : Once(s, k) => Once(Tail(s), k)
           /\ \A k : Before(s, k, Head(s).kind) => ~Has(s, k)
           /\ \A k : Once(s, k) /\ Head(s).kind = k => ~Has(Tail(s), k)
           /\ Accepts(Tail(s)) => Accepts(s)
           /\ Head(s).kind = "rematch_response" /\ Head(s).accept => Accepts(s)
<1> DEFINE t == Tail(s)
           h == Head(s)
           n == Len(s)
<1>1. /\ h = s[1] /\ n \in Nat \ {0} /\ DOMAIN s = 1..n /\ DOMAIN t = 1..n - 1
      /\ \A i \in 1..n - 1 : t[i] = s[i + 1]
    BY Shortened
<1> HIDE DEF t, h, n
<1>2. \A i \in DOMAIN t : i + 1 \in DOMAIN s /\ t[i] = s[i + 1] /\ i \in Nat \ {0}
    BY <1>1
<1>3. 1 \in DOMAIN s /\ \A i \in DOMAIN s : i \in Nat /\ i >= 1
    BY <1>1
<1>4. \A i \in DOMAIN s : i # 1 => i - 1 \in DOMAIN t /\ t[i - 1] = s[i]
    BY <1>1
<1>5. ASSUME NEW k
      PROVE  /\ Has(t, k) => Has(s, k)
             /\ Has(s, k) => Has(t, k) \/ h.kind = k
    BY <1>1, <1>2, <1>4 DEF Has
<1>6. Has(s, h.kind)
    BY <1>1, <1>3 DEF Has
<1>7. ASSUME NEW k, NEW l, Before(s, k, l) PROVE Before(t, k, l)
  <2>1. ASSUME NEW i \in DOMAIN t, NEW j \in DOMAIN t, t[i].kind = k, t[j].kind = l
        PROVE  i < j
    <3>1. i + 1 < j + 1
      BY <1>2, <1>7, <2>1 DEF Before
    <3>2. QED
      BY <1>2, <3>1
  <2>2. QED
    BY <2>1 DEF Before
<1>8. ASSUME NEW k, Once(s, k) PROVE Once(t, k)
  <2>1. ASSUME NEW i \in DOMAIN t, NEW j \in DOMAIN t, t[i].kind = k, t[j].kind = k
        PROVE  i = j
    <3>1. i + 1 = j + 1
      BY <1>2, <1>8, <2>1 DEF Once
    <3>2. QED
      BY <1>2, <3>1
  <2>2. QED
    BY <2>1 DEF Once
<1>9. ASSUME NEW k, Before(s, k, h.kind) PROVE ~Has(s, k)
  <2>1. ASSUME NEW i \in DOMAIN s, s[i].kind = k PROVE FALSE
    <3>1. i < 1
      BY <1>1, <1>3, <1>9, <2>1 DEF Before
    <3>2. QED
      BY <1>3, <3>1
  <2>2. QED
    BY <2>1 DEF Has
<1>10. ASSUME NEW k, Once(s, k), h.kind = k PROVE ~Has(t, k)
  <2>1. ASSUME NEW i \in DOMAIN t, t[i].kind = k PROVE FALSE
    <3>1. i + 1 = 1
      BY <1>1, <1>2, <1>3, <1>10, <2>1 DEF Once
    <3>2. QED
      BY <1>2, <3>1
  <2>2. QED
    BY <2>1 DEF Has
<1>11. Accepts(t) => Accepts(s)
    BY <1>2 DEF Accepts
<1>12. h.kind = "rematch_response" /\ h.accept => Accepts(s)
    BY <1>1, <1>3 DEF Accepts
<1>13. QED
    BY <1>5, <1>6, <1>7, <1>8, <1>9, <1>10, <1>11, <1>12 DEF t, h

(* Or cut off somewhere                                                    *)
LEMMA CutFacts ==
    ASSUME NEW S, NEW s \in Seq(S), NEW n \in 0..Len(s)
    PROVE  /\ SubSeq(s, 1, n) \in Seq(S)
           /\ \A k : Has(SubSeq(s, 1, n), k) => Has(s, k)
           /\ \A k, l : Before(s, k, l) => Before(SubSeq(s, 1, n), k, l)
           /\ \A k : Once(s, k) => Once(SubSeq(s, 1, n), k)
           /\ Accepts(SubSeq(s, 1, n)) => Accepts(s)
<1> DEFINE t == SubSeq(s, 1, n)
<1>1. t \in Seq(S) /\ \A i \in DOMAIN t : i \in DOMAIN s /\ t[i] = s[i]
    BY LenProperties
<1> HIDE DEF t
<1>2. QED
    BY <1>1 DEF t, Has, Before, Once, Accepts

(* Messages that are not there are in any order.                           *)
LEMMA NoneBefore ==
    ASSUME NEW s, NEW k, NEW l, ~Has(s, k) \/ ~Has(s, l)
    PROVE  Before(s, k, l)
    BY DEF Has, Before

(* and only once.                                                          *)
LEMMA NoneOnce ==
    ASSUME NEW s, NEW k, ~Has(s, k)
    PROVE  Once(s, k)
    BY DEF Has, Once

(* The same for the boards in a queue,                                     *)
LEMMA BoardsFacts ==
    ASSUME NEW s \in Seq(Message), NEW view
    PROVE  /\ \A m \in Message : Boards(s, view) /\ m.kind # "game_state" =>
                  Boards(Append(s, m), view)
           /\ ~Has(s, "game_state") => Boards(s, view)
           /\ \A m \in Message :
                  /\ m.kind = "game_state" /\ m.view = view
                  /\ \A i \in DOMAIN s : s[i].kind = "game_state" =>
                        s[i].view.round = view.round /\ ~Full(s[i].view.board)
                  => Boards(Append(s, m), view)
           /\ s # <<>> /\ Boards(s, view) =>
                 /\ Boards(Tail(s), view)
                 /\ Head(s).kind = "game_state" =>
                       /\ Head(s).view.round = view.round
                       /\ Full(Head(s).view.board) =>
                             Head(s).view = view /\ ~Has(Tail(s), "game_state")
<1>1. ASSUME NEW m \in Message
      PROVE  /\ Boards(s, view) /\ m.kind # "game_state" => Boards(Append(s, m), view)
             /\ /\ m.kind = "game_state" /\ m.view = view
                /\ \A i \in DOMAIN s : s[i].kind = "game_state" =>
                      s[i].view.round = view.round /\ ~Full(s[i].view.board)
                => Boards(Append(s, m), view)
  <2> DEFINE t == Append(s, m)
             n == Len(s)
  <2>1. /\ n \in Nat /\ DOMAIN s = 1..n /\ DOMAIN t = 1..n + 1
        /\ \A i \in 1..n : t[i] = s[i]
        /\ t[n + 1] = m
    BY Appended
  <2> HIDE DEF t, n
  <2>2. \A i \in DOMAIN t : (i \in DOMAIN s /\ t[i] = s[i]) \/ (i = n + 1 /\ t[i] = m)
    BY <2>1
  <2>3. \A i \in DOMAIN t : i <= n + 1
    BY <2>1
  <2>4. Boards(s, view) /\ m.kind # "game_state" => Boards(t, view)
    BY <2>2 DEF Boards
  <2>5. ASSUME m.kind = "game_state", m.view = view,
               \A i \in DOMAIN s : s[i].kind = "game_state" =>
                      s[i].view.round = view.round /\ ~Full(s[i].view.board)
        PROVE  Boards(t, view)
    BY <2>2, <2>3, <2>5 DEF Boards
  <2>6. QED
    BY <2>4, <2>5 DEF t
<1>2. ~Has(s, "game_state") => Boards(s, view)
    BY DEF Has, Boards
<1>3. ASSUME s # <<>>, Boards(s, view)
      PROVE  /\ Boards(Tail(s), view)
             /\ Head(s).kind = "game_state" =>
                   /\ Head(s).view.round = view.round
                   /\ Full(Head(s).view.board) =>
                         Head(s).view = view /\ ~Has(Tail(s), "game_state")
  <2> DEFINE t == Tail(s)
             h == Head(s)
             n == Len(s)
  <2>1. /\ h = s[1] /\ n \in Nat \ {0} /\ DOMAIN s = 1..n /\ DOMAIN t = 1..n - 1
        /\ \A i \in 1..n - 1 : t[i] = s[i + 1]
    BY <1>3, Shortened
  <2> HIDE DEF t, h, n
  <2>2. 1 \in DOMAIN s
        /\ \A i \in DOMAIN t : i + 1 \in DOMAIN s /\ t[i] = s[i + 1] /\ i \in Nat \ {0}
    BY <2>1
  <2>3. Boards(t, view)
    <3>1. ASSUME NEW i \in DOMAIN t, t[i].kind = "game_state"
          PROVE  /\ t[i].view.round = view.round
                 /\ Full(t[i].view.board) => t[i].view = view
      BY <1>3, <2>2, <3>1 DEF Boards
    <3>2. ASSUME NEW i \in DOMAIN t, t[i].kind = "game_state", Full(t[i].view.board),
                 NEW j \in DOMAIN t, t[j].kind = "game_state"
          PROVE  j <= i
      <4>1. j + 1 <= i + 1
        BY <1>3, <2>2, <3>2 DEF Boards
      <4>2. QED
        BY <2>2, <4>1
    <3>3. QED
      BY <3>1, <3>2 DEF Boards
  <2>4. ASSUME h.kind = "game_state"
        PROVE  /\ h.view.round = view.round
               /\ Full(h.view.board) => h.view = view /\ ~Has(t, "game_state")
    <3>1. /\ h.view.round = view.round
          /\ Full(h.view.board) => h.view = view
      BY <1>3, <2>1, <2>2, <2>4 DEF Boards
    <3>2. ASSUME Full(h.view.board), NEW j \in DOMAIN t, t[j].kind = "game_state"
          PROVE  FALSE
      <4>1. j + 1 <= 1
        BY <1>3, <2>1, <2>2, <2>4, <3>2 DEF Boards
      <4>2. QED
        BY <2>2, <4>1
    <3>3. QED
      BY <3>1, <3>2 DEF Has
  <2>5. QED
    BY <2>3, <2>4 DEF t, h
<1>4. QED
    BY <1>1, <1>2, <1>3

(* and for questions.                                                      *)
LEMMA WarnedFacts ==
    ASSUME NEW s \in Seq(Message), NEW pending
    PROVE  /\ pending => Warned(s, pending)
           /\ ~Has(s, "rematch_prompt") => Warned(s, pending)
           /\ \A m \in Message : Warned(s, pending) /\ m.kind # "rematch_prompt" =>
                  Warned(Append(s, m), pending)
           /\ \A m, n \in Message :
                  /\ Warned(s, pending)
                  /\ m.kind = "rematch_prompt" /\ ~m.targeted
                  => Warned(Append(s, m), pending) /\ Warned(Append(Append(s, m), n), pending)
           /\ s # <<>> /\ Warned(s, pending) =>
                 /\ Head(s).kind = "rematch_prompt" /\ Head(s).targeted => pending
                 /\ Head(s).kind # "rematch_prompt" => Warned(Tail(s), pending)
<1>1. pending \/ ~Has(s, "rematch_prompt") => Warned(s, pending)
    BY DEF Warned, Has
<1>2. ASSUME NEW m \in Message
      PROVE  /\ Warned(s, pending) /\ m.kind # "rematch_prompt" => Warned(Append(s, m), pending)
             /\ Warned(s, pending) /\ m.kind = "rematch_prompt" /\ ~m.targeted =>
                    Warned(Append(s, m), pending)
             /\ \A n \in Message : Warned(s, pending) /\ m.kind = "rematch_prompt" /\ ~m.targeted =>
                    Warned(Append(Append(s, m), n), pending)
  <2> DEFINE t == Append(s, m)
             l == Len(s)
  <2>1. /\ l \in Nat /\ DOMAIN s = 1..l /\ DOMAIN t = 1..l + 1 /\ t \in Seq(Message)
        /\ \A i \in 1..l : t[i] = s[i]
        /\ t[l + 1] = m
    BY Appended
  <2> HIDE DEF t, l
  <2>2. \A i \in DOMAIN t : (i \in DOMAIN s /\ t[i] = s[i]) \/ (i = l + 1 /\ t[i] = m)
    BY <2>1
  <2>3. \A i \in DOMAIN s : i \in DOMAIN t /\ t[i] = s[i]
    BY <2>1
  <2>4. /\ Warned(s, pending) /\ m.kind # "rematch_prompt" => Warned(t, pending)
        /\ Warned(s, pending) /\ m.kind = "rematch_prompt" /\ ~m.targeted => Warned(t, pending)
    BY <2>2, <2>3 DEF Warned
  <2>5. ASSUME NEW n \in Message, Warned(s, pending), m.kind = "rematch_prompt", ~m.targeted
        PROVE  Warned(Append(t, n), pending)
    <3> DEFINE v == Append(t, n)
    <3>1. Len(t) = l + 1
      BY <2>1, LenProperties
    <3>2. /\ DOMAIN v = 1..l + 2
          /\ \A i \in 1..l + 1 : v[i] = t[i]
      BY <2>1, <3>1, Appended
    <3> HIDE DEF v
    <3>3. \A i \in DOMAIN v : (i \in DOMAIN t /\ v[i] = t[i]) \/ (i = l + 2 /\ l + 1 < i)
      BY <2>1, <3>2
    <3>4. \A i \in DOMAIN t : i \in DOMAIN v /\ v[i] = t[i]
      BY <2>1, <3>2
    <3>5. l + 1 \in DOMAIN t
      BY <2>1
    <3>6. Warned(t, pending)
      BY <2>4, <2>5
    <3>7. Warned(v, pending)
      BY <2>1, <2>5, <3>3, <3>4, <3>5, <3>6 DEF Warned
    <3>8. QED
      BY <3>7 DEF v
  <2>6. QED
    BY <2>4, <2>5 DEF t
<1>3. ASSUME s # <<>>, Warned(s, pending)
      PROVE  /\ Head(s).kind = "rematch_prompt" /\ Head(s).targeted => pending
             /\ Head(s).kind # "rematch_prompt" => Warned(Tail(s), pending)
  <2> DEFINE t == Tail(s)
             h == Head(s)
             n == Len(s)
  <2>1. /\ h = s[1] /\ n \in Nat \ {0} /\ DOMAIN s = 1..n /\ DOMAIN t = 1..n - 1
        /\ \A i \in 1..n - 1 : t[i] = s[i + 1]
    BY <1>3, Shortened
  <2> HIDE DEF t, h, n
  <2>2. 1 \in DOMAIN s
        /\ \A i \in DOMAIN t : i + 1 \in DOMAIN s /\ t[i] = s[i + 1] /\ i \in Nat \ {0}
    BY <2>1
  <2>3. \A j \in DOMAIN s : ~(j < 1) /\ (j # 1 => j - 1 \in DOMAIN t /\ t[j - 1] = s[j])
    BY <2>1
  <2>4. h.kind = "rematch_prompt" /\ h.targeted => pending
    BY <1>3, <2>1, <2>2, <2>3 DEF Warned
  <2>5. ASSUME h.kind # "rematch_prompt", ~pending,
               NEW i \in DOMAIN t, t[i].kind = "rematch_prompt", t[i].targeted
        PROVE  \E j \in DOMAIN t : j < i /\ t[j].kind = "rematch_prompt" /\ ~t[j].targeted
    <3>1. PICK j \in DOMAIN s :
              j < i + 1 /\ s[j].kind = "rematch_prompt" /\ ~s[j].targeted
      BY <1>3, <2>2, <2>5 DEF Warned
    <3>2. j # 1
      BY <2>1, <2>5, <3>1
    <3>3. j - 1 \in DOMAIN t /\ t[j - 1] = s[j] /\ j - 1 < i
      BY <2>1, <2>2, <2>3, <3>1, <3>2
    <3>4. QED
      BY <3>1, <3>3
  <2>6. QED
    BY <2>4, <2>5 DEF t, h, Warned
<1>4. QED
  <2>1. \A m, n \in Message :
            /\ Warned(s, pending)
            /\ m.kind = "rematch_prompt" /\ ~m.targeted
            => Warned(Append(s, m), pending) /\ Warned(Append(Append(s, m), n), pending)
    BY <1>2
  <2>2. QED
    BY <1>1, <1>2, <1>3, <2>1

(* The server takes a message: what is left is in order.                   *)
LEMMA PartTail ==
    ASSUME NEW c, NEW u \in Seq(Request), NEW w, NEW b, NEW room, NEW agrees,
           PartOK(c, u, w, b, room, agrees), u # <<>>
    PROVE  PartOK(c, Tail(u), w, b, room, agrees)
<1>1. SentOK(c, Tail(u), room, agrees)
    BY TailFacts DEF PartOK, SentOK
<1>2. PageOK(c, b, u, w, room) => PageOK(c, b, Tail(u), w, room)
    BY TailFacts DEF PageOK, Involved
<1>3. QED
    BY <1>1, <1>2 DEF PartOK

(* Of the room only the board, the question and the browser's slot count.  *)
LEMMA PartSame ==
    ASSUME NEW c, NEW u, NEW w, NEW b, NEW room, NEW next, NEW agrees,
           PartOK(c, u, w, b, room, agrees), next.view = room.view,
           next.rematch = room.rematch, SlotOf(next, c) = SlotOf(room, c)
    PROVE  PartOK(c, u, w, b, next, agrees)
BY DEF PartOK, SentOK, TellsOK, PageOK, Involved, Waits

(* Messages about who is there change nothing.                             *)
LEMMA PartOther ==
    ASSUME NEW c, NEW u, NEW w \in Seq(Message), NEW b, NEW room, NEW agrees,
           PartOK(c, u, w, b, room, agrees),
           NEW m \in Message, m.kind \in {"room_info", "player_joined"}
    PROVE  PartOK(c, u, Append(w, m), b, room, agrees)
<1> DEFINE v == Append(w, m)
<1>1. /\ \A k : Has(v, k) <=> Has(w, k) \/ m.kind = k
      /\ \A k, l : Before(w, k, l) /\ (m.kind = k => ~Has(w, l) /\ k # l) => Before(v, k, l)
      /\ \A k : Once(w, k) /\ (m.kind = k => ~Has(w, k)) => Once(v, k)
    BY AppendFacts
<1>2. /\ Boards(w, room.view) => Boards(v, room.view)
      /\ Warned(w, b.pending) => Warned(v, b.pending)
    BY BoardsFacts, WarnedFacts
<1> HIDE DEF v
<1>3. TellsOK(w, room) => TellsOK(v, room)
    BY <1>1, <1>2 DEF TellsOK
<1>4. PageOK(c, b, u, w, room) => PageOK(c, b, u, v, room)
    BY <1>1, <1>2 DEF PageOK, Involved
<1>5. QED
    BY <1>3, <1>4 DEF PartOK, v

(* A new board: one that was not full has got a line, and those who have   *)
(* sent an answer or not heard of the rematch have not moved.              *)
LEMMA PartMove ==
    ASSUME NEW c, NEW u, NEW w \in Seq(Message), NEW b,
           NEW room \in Room, NEW next \in Room, NEW agrees,
           PartOK(c, u, w, b, room, agrees), ~Full(room.view.board),
           room.rematch = None, next.rematch = None,
           SlotOf(room, c) # None, SlotOf(next, c) = SlotOf(room, c),
           next.view.round = room.view.round,
           Fresh(room.view.board, SlotOf(room, c)) =>
               \/ Fresh(next.view.board, SlotOf(room, c))
               \/ ~Has(u, "rematch_response")
                  /\ (b.socket = "joined" => ~Has(w, "rematch_started"))
    PROVE  PartOK(c, u, Append(w, GameState(next)), b, next, agrees)
<1> DEFINE m == GameState(next)
           v == Append(w, m)
           mine == SlotOf(room, c)
<1>1. m \in Message /\ m.kind = "game_state" /\ m.view = next.view
    BY MessagesTyped, Kinds DEF GameState
<1> HIDE DEF m
<1>2. /\ \A k : Has(v, k) <=> Has(w, k) \/ m.kind = k
      /\ \A k, l : Before(w, k, l) /\ (m.kind = k => ~Has(w, l) /\ k # l) => Before(v, k, l)
      /\ \A k : Once(w, k) /\ (m.kind = k => ~Has(w, k)) => Once(v, k)
    BY <1>1, AppendFacts
<1>3. Fresh(next.view.board, mine) => ~Full(next.view.board)
    BY FreshNotFull
<1>4. Boards(w, room.view) => Boards(v, next.view)
  <2>1. ASSUME Boards(w, room.view), NEW i \in DOMAIN w, w[i].kind = "game_state"
        PROVE  w[i].view.round = next.view.round /\ ~Full(w[i].view.board)
    BY <2>1 DEF Boards
  <2>2. QED
    BY <1>1, <2>1, BoardsFacts
<1>5. Warned(w, b.pending) => Warned(v, b.pending)
    BY <1>1, WarnedFacts
<1> HIDE DEF v, mine
<1>6. /\ ~Has(u, "rematch_request")
      /\ Has(u, "rematch_response") => Fresh(room.view.board, mine)
      /\ Before(u, "rematch_response", "make_move")
    BY DEF PartOK, SentOK, mine
<1>7. Has(u, "rematch_response") => Fresh(next.view.board, mine)
    BY <1>6 DEF mine
<1>8. Before(u, "make_move", "rematch_request") /\ Before(u, "rematch_request", "rematch_response")
      /\ Once(u, "rematch_request")
    BY <1>6, NoneBefore, NoneOnce
<1>9. ~Has(u, "rematch_response") => Before(u, "make_move", "rematch_response") /\ ~Accepts(u)
    BY NoneBefore DEF Has, Accepts
<1>10. SentOK(c, u, next, agrees)
    BY <1>3, <1>6, <1>7, <1>8, <1>9 DEF SentOK, mine
<1>11. ASSUME b.socket = "joined" PROVE TellsOK(v, next) /\ PageOK(c, b, u, v, next)
  <2>1. TellsOK(w, room) /\ PageOK(c, b, u, w, room)
    BY <1>11 DEF PartOK
  <2>2. TellsOK(v, next)
    BY <1>1, <1>2, <1>4, <2>1 DEF TellsOK
  <2>3. Has(v, "rematch_started") <=> Has(w, "rematch_started")
    BY <1>1, <1>2
  <2>4. Has(w, "rematch_started") => Fresh(next.view.board, mine)
    BY <1>11, <2>1 DEF PageOK, Involved, mine
  <2>5. b.view.round = room.view.round => ~Full(b.view.board)
    BY <2>1 DEF PageOK, Involved
  <2>6. Has(u, "rematch_response") => ~Full(next.view.board)
    BY <1>3, <1>7
  <2>7. b.asked => b.pending /\ Has(w, "rematch_started")
    BY <2>1 DEF PageOK, Involved
  <2>8. QED
    BY <1>5, <1>6, <2>1, <2>2, <2>3, <2>4, <2>5, <2>6, <2>7 DEF PageOK, Involved, mine
<1>12. QED
    BY <1>10, <1>11 DEF PartOK, v, m

(* Somebody joins: the board is sent again.                                *)
LEMMA PartJoined ==
    ASSUME NEW c, NEW u, NEW w \in Seq(Message), NEW b,
           NEW room \in Room, NEW next \in Room, NEW agrees,
           PartOK(c, u, w, b, room, agrees), ~Full(room.view.board),
           room.rematch = None, next.rematch = None, next.view = room.view,
           SlotOf(room, c) # None, SlotOf(next, c) = SlotOf(room, c)
    PROVE  PartOK(c, u, Append(Append(w, GameState(next)), PlayerJoined(next)), b, next, agrees)
<1> DEFINE v == Append(w, GameState(next))
           m == PlayerJoined(next)
<1>1. PartOK(c, u, v, b, next, agrees)
    BY PartMove
<1>2. GameState(next) \in Message
    BY MessagesTyped
<1>3. v \in Seq(Message)
    BY <1>2, Appended
<1>4. m \in Message /\ m.kind = "player_joined"
    BY MessagesTyped, Kinds
<1> HIDE DEF v, m
<1>5. PartOK(c, u, Append(v, m), b, next, agrees)
    BY <1>1, <1>3, <1>4, PartOther
<1>6. QED
    BY <1>5 DEF v, m

(* A rematch is asked for: all in the room hear of it, the other is asked. *)
LEMMA PartAsk ==
    ASSUME NEW c, NEW u, NEW w \in Seq(Message), NEW b,
           NEW room \in Room, NEW next \in Room, NEW agrees,
           PartOK(c, u, w, b, room, agrees), Full(room.view.board),
           next.view = room.view, SlotOf(next, c) = SlotOf(room, c),
           next.rematch = SlotOf(room, c) =>
               /\ ~Has(u, "rematch_request") /\ ~Has(u, "make_move")
               /\ b.socket = "joined" => Waits(b, room) /\ b.endTimer # "set",
           NEW v, \/ v = Append(w, RematchPrompt(FALSE))
                  \/ v = Append(Append(w, RematchPrompt(FALSE)), RematchPrompt(TRUE))
    PROVE  PartOK(c, u, v, b, next, agrees)
<1> DEFINE m == RematchPrompt(FALSE)
           n == RematchPrompt(TRUE)
           x == Append(w, m)
<1>1. /\ m \in Message /\ m.kind = "rematch_prompt" /\ ~m.targeted
      /\ n \in Message /\ n.kind = "rematch_prompt"
  <2>1. m \in Message /\ n \in Message
    BY MessagesTyped
  <2>2. m.kind = "rematch_prompt" /\ n.kind = "rematch_prompt" /\ ~m.targeted
    BY DEF RematchPrompt
  <2>3. QED
    BY <2>1, <2>2
<1>2. v = x \/ v = Append(x, n)
    OBVIOUS
<1> HIDE DEF m, n
<1>3. /\ x \in Seq(Message)
      /\ \A k : Has(x, k) <=> Has(w, k) \/ m.kind = k
      /\ \A k, l : Before(w, k, l) /\ (m.kind = k => ~Has(w, l) /\ k # l) => Before(x, k, l)
      /\ \A k : Once(w, k) /\ (m.kind = k => ~Has(w, k)) => Once(x, k)
    BY <1>1, AppendFacts, Appended
<1>4. /\ Boards(w, room.view) => Boards(x, room.view)
      /\ Warned(w, b.pending) => Warned(x, b.pending) /\ Warned(Append(x, n), b.pending)
    BY <1>1, BoardsFacts, WarnedFacts
<1> HIDE DEF x
<1>5. /\ \A k : Has(Append(x, n), k) <=> Has(x, k) \/ n.kind = k
      /\ \A k, l : Before(x, k, l) /\ (n.kind = k => ~Has(x, l) /\ k # l) =>
                       Before(Append(x, n), k, l)
      /\ \A k : Once(x, k) /\ (n.kind = k => ~Has(x, k)) => Once(Append(x, n), k)
    BY <1>1, <1>3, AppendFacts
<1>6. Boards(x, room.view) => Boards(Append(x, n), room.view)
    BY <1>1, <1>3, BoardsFacts
<1>7. /\ \A k : Has(v, k) <=> Has(w, k) \/ k = "rematch_prompt"
      /\ \A k, l : Before(w, k, l) /\ (k = "rematch_prompt" => ~Has(w, l) /\ k # l) =>
                       Before(v, k, l)
      /\ \A k : Once(w, k) /\ k # "rematch_prompt" => Once(v, k)
      /\ Boards(w, room.view) => Boards(v, room.view)
      /\ Warned(w, b.pending) => Warned(v, b.pending)
  <2>1. CASE v = x
    BY <1>1, <1>3, <1>4, <2>1
  <2>2. CASE v = Append(x, n)
    <3> DEFINE y == Append(x, n)
    <3>1. \A k : Has(y, k) <=> Has(w, k) \/ k = "rematch_prompt"
      BY <1>1, <1>3, <1>5
    <3>2. ASSUME NEW k, NEW l, Before(w, k, l), k = "rematch_prompt" => ~Has(w, l) /\ k # l
          PROVE  Before(y, k, l)
      <4>1. Before(x, k, l)
        BY <1>1, <1>3, <3>2
      <4>2. k = "rematch_prompt" => ~Has(x, l)
        BY <1>1, <1>3, <3>2
      <4>3. QED
        BY <1>1, <1>5, <3>2, <4>1, <4>2
    <3>3. ASSUME NEW k, Once(w, k), k # "rematch_prompt" PROVE Once(y, k)
      BY <1>1, <1>3, <1>5, <3>3
    <3> HIDE DEF y
    <3>4. v = y
      BY <2>2 DEF y
    <3>5. /\ Boards(w, room.view) => Boards(y, room.view)
          /\ Warned(w, b.pending) => Warned(y, b.pending)
      BY <1>4, <1>6 DEF y
    <3>6. QED
      BY <3>1, <3>2, <3>3, <3>4, <3>5
  <2>3. QED
    BY <1>2, <2>1, <2>2
<1>8. SentOK(c, u, next, agrees)
    BY DEF PartOK, SentOK
<1>9. ASSUME b.socket = "joined" PROVE TellsOK(v, next) /\ PageOK(c, b, u, v, next)
  <2>1. TellsOK(w, room) /\ PageOK(c, b, u, w, room)
    BY <1>9 DEF PartOK
  <2>2. ~Has(w, "rematch_started")
    BY <2>1, FreshNotFull DEF PageOK, Involved
  <2>3. Has(w, "rematch_prompt") \/ ~Has(w, "rematch_prompt")
    OBVIOUS
  <2>4. Before(v, "game_state", "rematch_prompt")
    <3>1. Before(w, "game_state", "rematch_prompt")
      BY <2>1, <2>2, NoneBefore DEF TellsOK
    <3>2. QED
      BY <1>7, <3>1
  <2>5. TellsOK(v, next)
    BY <1>7, <2>1, <2>2, <2>4 DEF TellsOK
  <2>6. PageOK(c, b, u, v, next)
    BY <1>7, <1>9, <2>1, <2>2 DEF PageOK, Involved, Waits
  <2>7. QED
    BY <2>5, <2>6
<1>10. QED
    BY <1>8, <1>9 DEF PartOK

(* The rematch starts: all who are in the room have waited for it, and     *)
(* what they have sent since is an answer that comes too late.             *)
LEMMA PartRestart ==
    ASSUME NEW c, NEW u, NEW w \in Seq(Message), NEW b \in Browser,
           NEW room \in Room, NEW next \in Room, NEW agrees,
           PartOK(c, u, w, b, room, agrees), Full(room.view.board),
           next.view = [board |-> NewBoard, round |-> room.view.round + 1],
           next.rematch = None, SlotOf(next, c) # None,
           ~Has(u, "rematch_request"), ~Has(u, "make_move"),
           b.socket = "joined" => Waits(b, room) /\ b.endTimer # "set"
    PROVE  PartOK(c, u, Append(Append(w, RematchStarted), GameState(next)), b, next, agrees)
<1> DEFINE m == RematchStarted
           n == GameState(next)
           x == Append(w, m)
           v == Append(x, n)
<1>1. /\ m \in Message /\ m.kind = "rematch_started"
      /\ n \in Message /\ n.kind = "game_state" /\ n.view = next.view
  <2>1. m \in Message /\ n \in Message
    BY MessagesTyped
  <2>2. m.kind = "rematch_started" /\ n.kind = "game_state" /\ n.view = next.view
    BY DEF RematchStarted, GameState
  <2>3. QED
    BY <2>1, <2>2
<1> HIDE DEF m, n
<1>2. /\ x \in Seq(Message)
      /\ \A k : Has(x, k) <=> Has(w, k) \/ m.kind = k
      /\ \A k, l : Before(w, k, l) /\ (m.kind = k => ~Has(w, l) /\ k # l) => Before(x, k, l)
      /\ \A k : Once(w, k) /\ (m.kind = k => ~Has(w, k)) => Once(x, k)
    BY <1>1, AppendFacts, Appended
<1>3. Warned(w, b.pending) => Warned(x, b.pending)
    BY <1>1, WarnedFacts
<1> HIDE DEF x
<1>4. /\ \A k : Has(v, k) <=> Has(x, k) \/ n.kind = k
      /\ \A k, l : Before(x, k, l) /\ (n.kind = k => ~Has(x, l) /\ k # l) => Before(v, k, l)
      /\ \A k : Once(x, k) /\ (n.kind = k => ~Has(x, k)) => Once(v, k)
      /\ Warned(x, b.pending) => Warned(v, b.pending)
    BY <1>1, <1>2, AppendFacts, WarnedFacts
<1>5. /\ next.view.round = room.view.round + 1 /\ next.view.board = NewBoard
      /\ room.view.round \in Nat /\ Fresh(NewBoard, SlotOf(next, c)) /\ ~Full(NewBoard)
  <2>1. Fresh(NewBoard, SlotOf(next, c))
    BY DEF Fresh
  <2>2. QED
    BY <2>1, FreshNotFull DEF Room, View
<1>6. SentOK(c, u, next, agrees)
    BY <1>5, NoneBefore, NoneOnce DEF SentOK
<1>7. ASSUME b.socket = "joined" PROVE TellsOK(v, next) /\ PageOK(c, b, u, v, next)
  <2>1. /\ TellsOK(w, room) /\ PageOK(c, b, u, w, room) /\ Waits(b, room)
        /\ b.endTimer # "set"
    BY <1>7 DEF PartOK
  <2>2. ~Has(w, "game_state") /\ ~Has(w, "rematch_started")
    BY <2>1 DEF PageOK, Involved, Waits
  <2>3. ~Has(x, "game_state") /\ Has(v, "rematch_started")
    BY <1>1, <1>2, <1>4, <2>2
  <2>4. Boards(v, next.view)
    <3>1. \A i \in DOMAIN x : x[i].kind # "game_state"
      BY <2>3 DEF Has
    <3>2. QED
      BY <1>1, <1>2, <3>1, BoardsFacts
  <2>5. Once(v, "rematch_started") /\ ~Has(v, "rematch_declined")
    BY <1>1, <1>2, <1>4, <2>1, <2>2 DEF TellsOK
  <2>6. Before(v, "rematch_started", "game_state")
    <3>1. Before(x, "rematch_started", "game_state")
      BY <2>3, NoneBefore
    <3>2. QED
      BY <1>1, <1>4, <3>1
  <2>7. Before(v, "rematch_prompt", "rematch_started")
    <3>1. Before(x, "rematch_prompt", "rematch_started")
      BY <1>1, <1>2, <2>1 DEF TellsOK
    <3>2. QED
      BY <1>1, <1>4, <3>1
  <2>8. TellsOK(v, next)
    BY <2>3, <2>4, <2>5, <2>6, <2>7 DEF TellsOK
  <2>9. b.view.round = room.view.round /\ Full(b.view.board) /\ b.pending
    BY <2>1 DEF Waits
  <2>10. Warned(v, b.pending)
    BY <1>3, <1>4, <2>1 DEF PageOK, Involved
  <2>11. b.modal # "none" => b.endTimer = "off"
    BY <2>1 DEF PageOK, Involved
  <2>12. /\ b.view.round <= next.view.round /\ b.view.round # next.view.round
         /\ ~Full(next.view.board) /\ Fresh(next.view.board, SlotOf(next, c))
         /\ ~Involved(c, u, next)
    BY <1>5, <2>9 DEF Involved
  <2> HIDE DEF v
  <2>13. PageOK(c, b, u, v, next)
    BY <2>1, <2>3, <2>9, <2>10, <2>11, <2>12 DEF PageOK
  <2>14. QED
    BY <2>8, <2>13
<1>8. QED
    BY <1>6, <1>7 DEF PartOK, v, x, m, n

(* Whoever comes into a room has asked nothing and heard nothing.          *)
LEMMA PartNew ==
    ASSUME NEW c, NEW u, NEW b \in Browser,
           NEW next \in Room, NEW agrees, NEW slot \in Slots \union {None},
           \A i \in DOMAIN u : u[i].kind = "disconnect",
           ~Full(next.view.board), next.rematch = None, SlotOf(next, c) # None,
           b.view = Blank, b.endTimer = "off", b.modal = "none", ~b.pending, ~b.asked
    PROVE  PartOK(c, u, Append(Append(<<>>, RoomInfo(next, slot)), GameState(next)), b, next, agrees)
<1> DEFINE m == RoomInfo(next, slot)
           n == GameState(next)
           x == Append(<<>>, m)
           v == Append(x, n)
<1>1. /\ m \in Message /\ m.kind = "room_info"
      /\ n \in Message /\ n.kind = "game_state" /\ n.view = next.view
  <2>1. TRUE \in BOOLEAN
    OBVIOUS
  <2>2. m \in Message /\ n \in Message
    BY <2>1, MessagesTyped, Zenon
  <2>3. m.kind = "room_info" /\ n.kind = "game_state" /\ n.view = next.view
    BY DEF RoomInfo, GameState
  <2>4. QED
    BY <2>2, <2>3
<1> HIDE DEF m, n
<1>2. <<>> \in Seq(Message) /\ \A k : ~Has(<<>>, k)
    BY EmptySeq DEF Has
<1>3. x \in Seq(Message) /\ \A k : Has(x, k) <=> m.kind = k
    BY <1>1, <1>2, AppendFacts, Appended
<1> HIDE DEF x
<1>4. \A k : Has(v, k) <=> Has(x, k) \/ n.kind = k
    BY <1>1, <1>3, AppendFacts
<1>5. \A k : Has(v, k) <=> k \in {"room_info", "game_state"}
    BY <1>1, <1>3, <1>4
<1>6. Boards(v, next.view)
  <2>1. \A i \in DOMAIN x : x[i].kind # "game_state"
    BY <1>1, <1>3 DEF Has
  <2>2. QED
    BY <1>1, <1>3, <2>1, BoardsFacts
<1>7. Warned(v, b.pending)
  <2>1. ~Has(v, "rematch_prompt")
    BY <1>5
  <2>2. v \in Seq(Message)
    BY <1>1, <1>3, Appended
  <2> HIDE DEF v
  <2>3. QED
    BY <2>1, <2>2, WarnedFacts
<1> HIDE DEF v
<1>8. TellsOK(v, next)
    BY <1>5, <1>6, NoneBefore, NoneOnce DEF TellsOK
<1>9. /\ b.view.round = 0 /\ ~Full(b.view.board) /\ next.view.round \in Nat
  <2>1. b.view.round = 0 /\ b.view.board = NewBoard
    BY DEF Blank
  <2>2. ~Full(NewBoard)
    BY FreshNotFull DEF Fresh
  <2>3. QED
    BY <2>1, <2>2 DEF Room, View
<1>10. \A k : Has(u, k) => k = "disconnect"
    BY DEF Has
<1>11. ~Accepts(u)
    BY DEF Accepts
<1>12. SentOK(c, u, next, agrees)
    BY <1>10, <1>11, NoneBefore, NoneOnce DEF SentOK
<1>13. PageOK(c, b, u, v, next)
    BY <1>5, <1>7, <1>9, <1>10 DEF PageOK, Involved
<1>14. QED
    BY <1>8, <1>12, <1>13 DEF PartOK, v, x, m, n

(* What counts of a page: the board, the timer, the modal and the question.*)
LEMMA PartPage ==
    ASSUME NEW c, NEW u, NEW w, NEW b, NEW d, NEW room, NEW agrees,
           PartOK(c, u, w, b, room, agrees),
           d.view = b.view, d.endTimer = b.endTimer, d.pending = b.pending,
           d.asked = b.asked, d.modal \in {b.modal, "none"},
           d.socket = "joined" => b.socket = "joined"
    PROVE  PartOK(c, u, w, d, room, agrees)
<1>1. PageOK(c, b, u, w, room) => PageOK(c, d, u, w, room)
    BY DEF PageOK, Waits
<1>2. QED
    BY <1>1 DEF PartOK

(* Of a browser without a connection only what it has sent counts.         *)
LEMMA PartSilent ==
    ASSUME NEW c, NEW u, NEW w, NEW v, NEW b, NEW d, NEW room, NEW agrees, NEW more,
           PartOK(c, u, w, b, room, agrees), d.socket # "joined", agrees \subseteq more
    PROVE  PartOK(c, u, v, d, room, more)
BY DEF PartOK, SentOK

(* The timer of the end goes off.                                          *)
LEMMA PartEnd ==
    ASSUME NEW c, NEW u, NEW w, NEW b, NEW d, NEW room, NEW agrees,
           PartOK(c, u, w, b, room, agrees), Full(b.view.board), b.endTimer # "off",
           d.view = b.view, d.endTimer = "off", d.pending = b.pending,
           d.asked = b.asked, d.socket = b.socket
    PROVE  PartOK(c, u, w, d, room, agrees)
<1>1. PageOK(c, b, u, w, room) => PageOK(c, d, u, w, room)
    BY DEF PageOK, Waits
<1>2. QED
    BY <1>1 DEF PartOK

(* playAgain: a modal that nobody has asked about yet is that of the game  *)
(* the room has.                                                           *)
LEMMA PartPlayAgain ==
    ASSUME NEW c, NEW u \in Seq(Request), NEW w, NEW b, NEW d, NEW room, NEW agrees,
           PartOK(c, u, w, b, room, agrees), b.socket = "joined",
           b.modal # "none", ~b.pending, ~b.asked, b.view.round < MaxRounds,
           d.view = b.view, d.endTimer = b.endTimer, d.modal = b.modal, d.pending,
           ~d.asked,
           NEW m \in Request, m.kind = "rematch_request"
    PROVE  PartOK(c, Append(u, m), w, d, room, agrees \union {b.view.round})
<1>1. SentOK(c, u, room, agrees) /\ TellsOK(w, room) /\ PageOK(c, b, u, w, room)
    BY DEF PartOK
<1>2. /\ ~Has(w, "rematch_started") /\ b.endTimer = "off" /\ Full(b.view.board)
      /\ b.view.round = room.view.round /\ b.view = room.view /\ ~Has(w, "game_state")
    BY <1>1 DEF PageOK
<1>3. /\ ~Has(u, "rematch_request") /\ ~Has(u, "rematch_response")
      /\ room.rematch # SlotOf(room, c)
    BY <1>1, <1>2 DEF PageOK, Involved, Waits
<1> DEFINE x == Append(u, m)
<1>4. /\ \A k : Has(x, k) <=> Has(u, k) \/ m.kind = k
      /\ \A k, l : Before(u, k, l) /\ (m.kind = k => ~Has(u, l) /\ k # l) => Before(x, k, l)
      /\ \A k : Once(u, k) /\ (m.kind = k => ~Has(u, k)) => Once(x, k)
      /\ Accepts(x) <=> Accepts(u) \/ (m.kind = "rematch_response" /\ m.accept)
    BY AppendFacts
<1> HIDE DEF x
<1>5. SentOK(c, x, room, agrees \union {b.view.round})
    BY <1>1, <1>2, <1>3, <1>4 DEF SentOK
<1>6. Warned(w, d.pending)
    BY DEF Warned
<1>7. PageOK(c, d, x, w, room)
    BY <1>1, <1>2, <1>6 DEF PageOK, Involved, Waits
<1>8. QED
    BY <1>1, <1>5, <1>7 DEF PartOK, x

(* The answer to a question: about the game the room has, or late, after a *)
(* rematch the browser has not heard of.                                   *)
LEMMA PartAnswer ==
    ASSUME NEW c, NEW u \in Seq(Request), NEW w, NEW b, NEW d, NEW room,
           NEW agrees, NEW more,
           PartOK(c, u, w, b, room, agrees), b.socket = "joined", b.asked,
           d.view = b.view, d.modal = b.modal, d.pending = b.pending, ~d.asked,
           d.endTimer = IF b.endTimer = "set" THEN "due" ELSE b.endTimer,
           NEW m \in Request, m.kind = "rematch_response",
           agrees \subseteq more, m.accept => b.view.round \in more
    PROVE  PartOK(c, Append(u, m), w, d, room, more)
<1>1. SentOK(c, u, room, agrees) /\ TellsOK(w, room) /\ PageOK(c, b, u, w, room)
    BY DEF PartOK
<1> DEFINE x == Append(u, m)
<1>2. /\ \A k : Has(x, k) <=> Has(u, k) \/ m.kind = k
      /\ \A k, l : Before(u, k, l) /\ (m.kind = k => ~Has(u, l) /\ k # l) => Before(x, k, l)
      /\ \A k : Once(u, k) /\ (m.kind = k => ~Has(u, k)) => Once(x, k)
      /\ Accepts(x) <=> Accepts(u) \/ (m.kind = "rematch_response" /\ m.accept)
    BY AppendFacts
<1> HIDE DEF x
<1>3. CASE Has(w, "rematch_started")
  <2>1. /\ b.pending /\ Full(b.view.board) /\ b.view.round # room.view.round
        /\ b.endTimer # "set" /\ Fresh(room.view.board, SlotOf(room, c))
        /\ ~Has(u, "rematch_request") /\ ~Has(u, "make_move")
    BY <1>1, <1>3 DEF PageOK
  <2>2. ~Full(room.view.board)
    BY <2>1, FreshNotFull
  <2>3. SentOK(c, x, room, more)
    BY <1>1, <1>2, <2>1, <2>2 DEF SentOK
  <2>4. ~Involved(c, x, room)
    BY <1>1, <1>2, <2>1, <2>2 DEF PageOK, Involved, Waits
  <2>5. PageOK(c, d, x, w, room)
    BY <1>1, <1>2, <1>3, <2>1, <2>4 DEF PageOK
  <2>6. QED
    BY <1>1, <2>3, <2>5 DEF PartOK, x
<1>4. CASE ~Has(w, "rematch_started")
  <2>1. b.pending /\ Full(room.view.board) /\ b.view = room.view
    BY <1>1, <1>4 DEF PageOK
  <2>2. SentOK(c, x, room, more)
    BY <1>1, <1>2, <2>1 DEF SentOK
  <2>3. PageOK(c, d, x, w, room)
    BY <1>1, <1>2, <1>4, <2>1 DEF PageOK, Waits
  <2>4. QED
    BY <1>1, <2>2, <2>3 DEF PartOK, x
<1>5. QED
    BY <1>3, <1>4

(* A click on a board that is not full: no rematch is being asked for.     *)
LEMMA PartClick ==
    ASSUME NEW c, NEW u \in Seq(Request), NEW w, NEW b, NEW room, NEW agrees,
           PartOK(c, u, w, b, room, agrees), b.socket = "joined", ~Full(b.view.board),
           NEW m \in Request, m.kind = "make_move"
    PROVE  PartOK(c, Append(u, m), w, b, room, agrees)
<1>1. SentOK(c, u, room, agrees) /\ TellsOK(w, room) /\ PageOK(c, b, u, w, room)
    BY DEF PartOK
<1>2. ~Involved(c, u, room)
    BY <1>1 DEF PageOK, Waits
<1> DEFINE x == Append(u, m)
<1>3. /\ \A k : Has(x, k) <=> Has(u, k) \/ m.kind = k
      /\ \A k, l : Before(u, k, l) /\ (m.kind = k => ~Has(u, l) /\ k # l) => Before(x, k, l)
      /\ \A k : Once(u, k) /\ (m.kind = k => ~Has(u, k)) => Once(x, k)
      /\ Accepts(x) <=> Accepts(u) \/ (m.kind = "rematch_response" /\ m.accept)
    BY AppendFacts
<1> HIDE DEF x
<1>4. SentOK(c, x, room, agrees)
    BY <1>1, <1>2, <1>3 DEF SentOK, Involved
<1>5. ~Involved(c, x, room)
    BY <1>2, <1>3 DEF Involved
<1>6. PageOK(c, b, x, w, room)
    BY <1>1, <1>3, <1>5 DEF PageOK
<1>7. QED
    BY <1>1, <1>4, <1>6 DEF PartOK, x

(* The connection breaks, or the browser says that it goes.                *)
LEMMA PartFarewell ==
    ASSUME NEW c, NEW u \in Seq(Request), NEW w, NEW v, NEW b, NEW d, NEW room, NEW agrees,
           PartOK(c, u, w, b, room, agrees), d.socket # "joined",
           NEW n \in 0..Len(u), NEW m \in Request, m.kind = "disconnect"
    PROVE  /\ PartOK(c, Append(SubSeq(u, 1, n), m), v, d, room, agrees)
           /\ PartOK(c, Append(u, m), v, d, room, agrees)
<1>1. SentOK(c, u, room, agrees)
    BY DEF PartOK
<1>2. ASSUME NEW s \in Seq(Request), SentOK(c, s, room, agrees)
      PROVE  PartOK(c, Append(s, m), v, d, room, agrees)
  <2> DEFINE x == Append(s, m)
  <2>1. /\ \A k : Has(x, k) <=> Has(s, k) \/ m.kind = k
        /\ \A k, l : Before(s, k, l) /\ (m.kind = k => ~Has(s, l) /\ k # l) => Before(x, k, l)
        /\ \A k : Once(s, k) /\ (m.kind = k => ~Has(s, k)) => Once(x, k)
        /\ Accepts(x) <=> Accepts(s) \/ (m.kind = "rematch_response" /\ m.accept)
    BY AppendFacts
  <2> HIDE DEF x
  <2>2. SentOK(c, x, room, agrees)
    BY <1>2, <2>1 DEF SentOK
  <2>3. QED
    BY <2>2 DEF PartOK, x
<1> DEFINE t == SubSeq(u, 1, n)
<1>3. /\ t \in Seq(Request)
      /\ \A k : Has(t, k) => Has(u, k)
      /\ \A k, l : Before(u, k, l) => Before(t, k, l)
      /\ \A k : Once(u, k) => Once(t, k)
      /\ Accepts(t) => Accepts(u)
    BY CutFacts
<1> HIDE DEF t
<1>4. SentOK(c, t, room, agrees)
    BY <1>1, <1>3 DEF SentOK
<1>5. QED
    BY <1>1, <1>2, <1>3, <1>4 DEF t

(* What the page of a browser in the room takes from a message             *)
LEMMA ReceivedPage ==
    ASSUME NEW b \in Browser, NEW m \in Message
    PROVE  LET d == Received(b, m) IN
           /\ d.socket = b.socket
           /\ d.view = IF m.kind = "game_state" THEN m.view ELSE b.view
           /\ d.endTimer = IF /\ m.kind = "game_state" /\ Closed(m.view.board) >= NumSquares
                              /\ ~b.endShown
                           THEN "set" ELSE b.endTimer
           /\ d.modal = IF m.kind \in {"rematch_started", "rematch_declined"}
                        THEN "none" ELSE b.modal
           /\ d.asked <=> b.asked \/ (m.kind = "rematch_prompt" /\ m.targeted)
           /\ d.pending <=> \/ b.pending /\ m.kind \notin {"rematch_started", "rematch_declined"}
                            \/ m.kind = "rematch_prompt" /\ ~m.targeted
<1>1. CASE m.kind = "room_info"
  <2>1. Received(b, m) = OnRoomInfo(b, m)
    BY <1>1, ReceivedForms
  <2>2. QED
    BY <1>1, <2>1 DEF OnRoomInfo, Browser
<1>2. CASE m.kind = "player_joined"
  <2>1. Received(b, m) = OnPlayerJoined(b, m)
    BY <1>2, ReceivedForms
  <2>2. QED
    BY <1>2, <2>1 DEF OnPlayerJoined, Browser
<1>3. CASE m.kind = "game_state"
  <2>1. Received(b, m) = OnGameState(b, m)
    BY <1>3, ReceivedForms
  <2>2. QED
    BY <1>3, <2>1 DEF OnGameState, Hydrate, Browser
<1>4. CASE m.kind = "rematch_prompt"
  <2>1. Received(b, m) = OnRematchPrompt(b, m)
    BY <1>4, ReceivedForms
  <2>2. QED
    BY <1>4, <2>1 DEF OnRematchPrompt, Browser
<1>5. CASE m.kind = "rematch_started"
  <2>1. Received(b, m) = OnRematchStarted(b)
    BY <1>5, ReceivedForms
  <2>2. QED
    BY <1>5, <2>1 DEF OnRematchStarted, Browser
<1>6. CASE m.kind = "rematch_declined"
  <2>1. Received(b, m) = OnRematchDeclined(b)
    BY <1>6, ReceivedForms
  <2>2. QED
    BY <1>6, <2>1 DEF OnRematchDeclined, Browser
<1>7. QED
    BY <1>1, <1>2, <1>3, <1>4, <1>5, <1>6, MessageForms

(* What is left of what is on its way to a browser is still in order.      *)
LEMMA TellsTail ==
    ASSUME NEW w \in Seq(Message), w # <<>>, NEW room, TellsOK(w, room)
    PROVE  TellsOK(Tail(w), room)
<1> DEFINE v == Tail(w)
           m == Head(w)
<1>1. /\ \A k : Has(v, k) => Has(w, k)
      /\ \A k : Has(w, k) => Has(v, k) \/ m.kind = k
      /\ \A k, l : Before(w, k, l) => Before(v, k, l)
      /\ \A k : Once(w, k) => Once(v, k)
      /\ \A k : Before(w, k, m.kind) => ~Has(w, k)
    BY TailFacts
<1>2. Boards(v, room.view)
    BY BoardsFacts DEF TellsOK
<1> HIDE DEF v, m
<1>3. Has(v, "rematch_prompt") /\ ~Has(v, "rematch_started") => ~Has(w, "rematch_started")
    BY <1>1 DEF TellsOK
<1>4. QED
    BY <1>1, <1>2, <1>3 DEF TellsOK, v

(* A message reaches the page: the board of this round; the question, which*)
(* finds it with the full board on the page and the flag up; the rematch,  *)
(* which finds nothing left of the last game.                              *)
LEMMA PartReceive ==
    ASSUME NEW c, NEW u, NEW w \in Seq(Message), w # <<>>, NEW b \in Browser,
           NEW room \in Room, NEW agrees,
           PartOK(c, u, w, b, room, agrees), b.socket = "joined", ~b.asked,
           b.endTimer # "due", KnowsBoard(w, b, room)
    PROVE  PartOK(c, u, Tail(w), Received(b, Head(w)), room, agrees)
<1> DEFINE v == Tail(w)
           m == Head(w)
           d == Received(b, m)
<1>1. SentOK(c, u, room, agrees) /\ TellsOK(w, room) /\ PageOK(c, b, u, w, room)
    BY DEF PartOK
<1>2. /\ m \in Message
      /\ d.view = IF m.kind = "game_state" THEN m.view ELSE b.view
      /\ d.endTimer = IF /\ m.kind = "game_state" /\ Closed(m.view.board) >= NumSquares
                         /\ ~b.endShown
                      THEN "set" ELSE b.endTimer
      /\ d.modal = IF m.kind \in {"rematch_started", "rematch_declined"} THEN "none" ELSE b.modal
      /\ d.asked <=> b.asked \/ (m.kind = "rematch_prompt" /\ m.targeted)
      /\ d.pending <=> \/ b.pending /\ m.kind \notin {"rematch_started", "rematch_declined"}
                       \/ m.kind = "rematch_prompt" /\ ~m.targeted
    BY Shortened, ReceivedPage
<1>3. /\ \A k : Has(v, k) => Has(w, k)
      /\ \A k : Has(w, k) => Has(v, k) \/ m.kind = k
      /\ Has(w, m.kind)
      /\ \A k : Before(w, k, m.kind) => ~Has(w, k)
      /\ \A k : Once(w, k) /\ m.kind = k => ~Has(v, k)
    BY TailFacts
<1>4. /\ m.kind = "game_state" =>
             /\ m.view.round = room.view.round
             /\ Full(m.view.board) => m.view = room.view /\ ~Has(v, "game_state")
      /\ m.kind = "rematch_prompt" /\ m.targeted => b.pending
      /\ m.kind # "rematch_prompt" => Warned(v, b.pending)
    BY <1>1, BoardsFacts, WarnedFacts DEF TellsOK, PageOK
<1>5. TellsOK(v, room)
    BY <1>1, TellsTail
<1>6. v \in Seq(Message) /\ room.view.round \in Nat /\ b.endTimer \in {"off", "set"}
    BY Shortened DEF Room, View, Browser
<1>7. ~Has(w, "game_state") => b.view = room.view
    BY DEF KnowsBoard, Catches, Has
<1>8. b.pending \in BOOLEAN
    BY DEF Browser
<1> HIDE DEF v, m, d
<1>9. CASE m.kind \in {"room_info", "player_joined"}
  <2>1. /\ d.view = b.view /\ d.endTimer = b.endTimer /\ d.modal = b.modal
        /\ (d.asked <=> b.asked) /\ (d.pending <=> b.pending)
    BY <1>2, <1>9
  <2>2. \A k : k \notin {"room_info", "player_joined"} => (Has(v, k) <=> Has(w, k))
    BY <1>3, <1>9
  <2>3. Warned(v, d.pending)
    BY <1>4, <1>9, <2>1 DEF Warned
  <2>4. PageOK(c, d, u, v, room)
    BY <1>1, <2>1, <2>2, <2>3 DEF PageOK, Waits
  <2>5. QED
    BY <1>1, <1>5, <2>4 DEF PartOK, v, d, m
<1>10. CASE m.kind = "game_state"
  <2>1. Has(w, "game_state") /\ ~Has(w, "rematch_started") /\ ~Has(v, "rematch_started")
    BY <1>1, <1>3, <1>10 DEF TellsOK
  <2>2. b.modal = "none" /\ ~Involved(c, u, room)
    BY <1>1, <2>1 DEF PageOK, Waits
  <2>3. d.view = m.view /\ d.modal = "none" /\ ~d.asked /\ (d.pending <=> b.pending)
    BY <1>2, <1>10, <2>2
  <2>4. Warned(v, d.pending)
    BY <1>4, <1>10, <2>3 DEF Warned
  <2>5. PageOK(c, d, u, v, room)
    BY <1>4, <1>6, <1>10, <2>1, <2>2, <2>3, <2>4 DEF PageOK
  <2>6. QED
    BY <1>1, <1>5, <2>5 DEF PartOK, v, d, m
<1>11. CASE m.kind = "rematch_prompt"
  <2>1. d.view = b.view /\ d.endTimer = b.endTimer /\ d.modal = b.modal /\ d.pending
    BY <1>2, <1>4, <1>11, MessageForms
  <2>2. Warned(v, d.pending)
    BY <2>1 DEF Warned
  <2>3. \A k : k # "rematch_prompt" => (Has(v, k) <=> Has(w, k))
    BY <1>3, <1>11
  <2>4. ASSUME ~Has(w, "rematch_started")
        PROVE  Full(room.view.board) /\ b.view = room.view
    <3>1. Full(room.view.board) /\ Before(w, "game_state", "rematch_prompt")
      BY <1>1, <1>3, <1>11, <2>4 DEF TellsOK
    <3>2. ~Has(w, "game_state")
      BY <1>3, <1>11, <3>1
    <3>3. QED
      BY <1>7, <3>1, <3>2
  <2>5. PageOK(c, d, u, v, room)
    BY <1>1, <2>1, <2>2, <2>3, <2>4 DEF PageOK, Waits
  <2>6. QED
    BY <1>1, <1>5, <2>5 DEF PartOK, v, d, m
<1>12. CASE m.kind = "rematch_started"
  <2>1. /\ Full(b.view.board) /\ b.view.round # room.view.round /\ b.endTimer = "off"
        /\ ~Involved(c, u, room)
    BY <1>1, <1>3, <1>6, <1>12 DEF PageOK, Waits
  <2>2. /\ d.view = b.view /\ d.endTimer = "off" /\ d.modal = "none" /\ ~d.asked
    BY <1>2, <1>12, <2>1
  <2>3. ~Has(v, "rematch_started") /\ ~Has(v, "rematch_prompt")
    BY <1>1, <1>3, <1>12 DEF TellsOK
  <2>4. Warned(v, d.pending)
    BY <1>6, <2>3, WarnedFacts
  <2>5. PageOK(c, d, u, v, room)
    BY <1>1, <2>1, <2>2, <2>3, <2>4 DEF PageOK
  <2>6. QED
    BY <1>1, <1>5, <2>5 DEF PartOK, v, d, m
<1>13. CASE m.kind = "rematch_declined"
    BY <1>1, <1>3, <1>13 DEF TellsOK
<1>14. QED
    BY <1>2, <1>9, <1>10, <1>11, <1>12, <1>13, MessageForms

-----------------------------------------------------------------------------
(* Rematches and results: the steps of a browser                           *)

(* What a step of one browser that does not wait for the server must       *)
(* respect                                                                 *)
LEMMA RoundOfBrowser ==
    ASSUME Inv, RoundInv, NEW c \in Clients, server' = server,
           \A d \in Clients \ {c} :
               /\ client'[d] = client[d] /\ up'[d] = up[d] /\ down'[d] = down[d]
               /\ shown'[d] = shown[d] /\ agreed'[d] = agreed[d],
           gone \subseteq gone', gone' \subseteq gone \union {c},
           shown' \in [Clients -> SUBSET Nat], agreed' \in [Clients -> SUBSET Nat],
           agreed[c] \subseteq agreed'[c],
           Away(c)' => Away(c) /\ Untouched(c)',
           Has(up'[c], "join_room") =>
               \A i \in DOMAIN up'[c] : up'[c][i].kind \in {"join_room", "disconnect"},
           Has(up'[c], "disconnect") => client'[c].socket # "joined",
           c \in server.sockets =>
               PartOK(c, up'[c], down'[c], client'[c], server, agreed'[c]),
           c \notin server.sockets /\ client'[c].socket = "joined" =>
               ~Has(down'[c], "game_state") /\ ~Has(down'[c], "rematch_started"),
           client'[c].view.round <= server.view.round,
           \A i \in DOMAIN down'[c] : down'[c][i].kind = "game_state" =>
               down'[c][i].view.round <= server.view.round /\ Playable(down'[c][i].view.board),
           ShownOK(c)'
    PROVE  RoundInv'
<1>1. server.sockets \subseteq Clients
    BY DEF Inv, TypeInv, Room
<1>2. \A d \in Clients : Other(d) \in Clients
    BY DEF Other, Clients
<1>3. ASSUME NEW d \in Clients
      PROVE  Away(d)' => Away(d)
  <2>1. CASE d # c
    BY <2>1 DEF Away
  <2>2. QED
    BY <2>1
<1>4. SeatsOK'
    BY DEF RoundInv, SeatsOK
<1>5. AwayOK'
  <2>1. ASSUME NEW d \in Clients, Away(d)'
        PROVE  /\ Untouched(d)' /\ d \notin server.sockets
               /\ server.seats["X"] # d /\ server.seats["O"] = None
               /\ Fresh(server.view.board, "O")
               /\ server.view.round <= IF Away(Other(d))' THEN 0 ELSE 1
    <3>1. /\ Untouched(d) /\ d \notin server.sockets
          /\ server.seats["X"] # d /\ server.seats["O"] = None
          /\ Fresh(server.view.board, "O")
          /\ server.view.round <= IF Away(Other(d)) THEN 0 ELSE 1
      BY <1>3, <2>1 DEF RoundInv, AwayOK
    <3>2. Untouched(d)'
      <4>1. CASE d # c
        BY <3>1, <4>1 DEF Untouched
      <4>2. QED
        BY <2>1, <4>1
    <3>3. Away(Other(d))' => Away(Other(d))
      BY <1>2, <1>3
    <3>4. server.view.round \in Nat
      BY DEF Inv, TypeInv, Room, View
    <3>5. QED
      BY <3>1, <3>2, <3>3, <3>4
  <2>2. ASSUME NEW d \in Clients
        PROVE  /\ Has(up'[d], "join_room") =>
                     \A i \in DOMAIN up'[d] : up'[d][i].kind \in {"join_room", "disconnect"}
               /\ Has(up'[d], "disconnect") => client'[d].socket # "joined"
    <3>1. CASE d # c
      BY <3>1 DEF RoundInv, AwayOK
    <3>2. QED
      BY <3>1
  <2>3. QED
    BY <2>1, <2>2 DEF AwayOK
<1>6. QuestionOK'
  <2>1. \A d \in Clients : agreed[d] \subseteq agreed'[d]
    OBVIOUS
  <2>2. QED
    BY <1>1, <1>2, <2>1 DEF RoundInv, QuestionOK
<1>7. PartsOK'
  <2>1. ASSUME NEW d \in server.sockets
        PROVE  PartOK(d, up'[d], down'[d], client'[d], server, agreed'[d])
    <3>1. CASE d # c
      BY <1>1, <3>1 DEF RoundInv, PartsOK
    <3>2. QED
      BY <2>1, <3>1
  <2>2. ASSUME NEW d \in Clients \ server.sockets, client'[d].socket = "joined"
        PROVE  ~Has(down'[d], "game_state") /\ ~Has(down'[d], "rematch_started")
    <3>1. CASE d # c
      BY <2>2, <3>1 DEF RoundInv, PartsOK
    <3>2. QED
      BY <2>2, <3>1
  <2>3. QED
    BY <2>1, <2>2 DEF PartsOK
<1>8. ViewsOK'
    BY DEF RoundInv, ViewsOK
<1>9. HistoryOK'
  <2>1. ASSUME NEW d \in Clients
        PROVE  ShownOK(d)'
    <3>1. CASE d # c
      BY <3>1 DEF RoundInv, HistoryOK, ShownOK
    <3>2. QED
      BY <3>1
  <2>2. QED
    BY <2>1 DEF HistoryOK
<1>10. QED
    BY <1>4, <1>5, <1>6, <1>7, <1>8, <1>9 DEF RoundInv

(* What the invariant says of one browser.                                 *)
LEMMA RoundForms ==
    ASSUME Inv, RoundInv, NEW c \in Clients
    PROVE  /\ client \in [Clients -> Browser] /\ client[c] \in Browser
           /\ up \in [Clients -> Seq(Request)] /\ up[c] \in Seq(Request)
           /\ down \in [Clients -> Seq(Message)] /\ down[c] \in Seq(Message)
           /\ server \in Room /\ server.view.round \in Nat
           /\ shown \in [Clients -> SUBSET Nat] /\ agreed \in [Clients -> SUBSET Nat]
           /\ c \in server.sockets =>
                  PartOK(c, up[c], down[c], client[c], server, agreed[c])
           /\ c \notin server.sockets /\ client[c].socket = "joined" =>
                  ~Has(down[c], "game_state") /\ ~Has(down[c], "rematch_started")
           /\ client[c].view.round \in Nat /\ client[c].view.round <= server.view.round
           /\ \A i \in DOMAIN down[c] : down[c][i].kind = "game_state" =>
                  /\ down[c][i].view.round <= server.view.round
                  /\ Playable(down[c][i].view.board)
           /\ ShownOK(c)
           /\ Away(c) => Untouched(c)
           /\ Has(up[c], "join_room") =>
                  \A i \in DOMAIN up[c] : up[c][i].kind \in {"join_room", "disconnect"}
           /\ Has(up[c], "disconnect") => client[c].socket # "joined"
           /\ client[c].socket = "joined" => client[c].online
<1>1. /\ client \in [Clients -> Browser] /\ client[c] \in Browser
      /\ up \in [Clients -> Seq(Request)] /\ up[c] \in Seq(Request)
      /\ down \in [Clients -> Seq(Message)] /\ down[c] \in Seq(Message)
      /\ server \in Room
    BY DEF Inv, TypeInv
<1>2. server.view.round \in Nat /\ client[c].view.round \in Nat
    BY <1>1 DEF Room, View, Browser
<1>3. /\ shown \in [Clients -> SUBSET Nat] /\ agreed \in [Clients -> SUBSET Nat]
      /\ ShownOK(c)
    BY DEF RoundInv, HistoryOK
<1>4. /\ c \in server.sockets =>
             PartOK(c, up[c], down[c], client[c], server, agreed[c])
      /\ c \notin server.sockets /\ client[c].socket = "joined" =>
             ~Has(down[c], "game_state") /\ ~Has(down[c], "rematch_started")
    BY DEF RoundInv, PartsOK
<1>5. /\ client[c].view.round <= server.view.round
      /\ \A i \in DOMAIN down[c] : down[c][i].kind = "game_state" =>
             /\ down[c][i].view.round <= server.view.round
             /\ Playable(down[c][i].view.board)
    BY DEF RoundInv, ViewsOK
<1>6. /\ Away(c) => Untouched(c)
      /\ Has(up[c], "join_room") =>
             \A i \in DOMAIN up[c] : up[c][i].kind \in {"join_room", "disconnect"}
      /\ Has(up[c], "disconnect") => client[c].socket # "joined"
    BY DEF RoundInv, AwayOK
<1>7. client[c].socket = "joined" => client[c].online
    BY DEF Inv, FreshInv
<1>8. QED
    BY <1>1, <1>2, <1>3, <1>4, <1>5, <1>6, <1>7

(* Steps that are about the page alone                                     *)
LEMMA PageRound ==
    ASSUME Inv, RoundInv, NEW c \in Clients,
           CountdownEnds(c) \/ Reconnect(c) \/ ShowHistory(c) \/ ShowGame(c)
    PROVE  RoundInv'
<1> DEFINE b == client[c]
           d == client'[c]
<1>1. UNCHANGED <<up, down, server, gone, shown, agreed>>
    BY DEF CountdownEnds, Reconnect, ShowHistory, ShowGame, history
<1>2. client \in [Clients -> Browser] /\ b \in Browser
    BY RoundForms
<1>3. /\ d.view = b.view /\ d.endTimer = b.endTimer /\ d.pending = b.pending
      /\ d.asked = b.asked /\ d.modal \in {b.modal, "none"} /\ d.online = b.online
      /\ d.socket = b.socket \/ (d.socket = "idle" /\ b.socket = "lost")
      /\ \A x \in Clients \ {c} : client'[x] = client[x]
    BY <1>2 DEF CountdownEnds, Reconnect, ShowHistory, ShowGame, Browser
<1>4. /\ c \in server.sockets => PartOK(c, up[c], down[c], b, server, agreed[c])
      /\ ShownOK(c) /\ (Away(c) => Untouched(c))
      /\ b.view.round <= server.view.round
      /\ Has(up[c], "disconnect") => b.socket # "joined"
    BY RoundForms
<1>5. c \in server.sockets => PartOK(c, up[c], down[c], d, server, agreed[c])
  <2> HIDE DEF b, d
  <2>1. d.socket = "joined" => b.socket = "joined"
    BY <1>3
  <2>2. QED
    BY <1>3, <1>4, <2>1, PartPage
<1>6. ShownOK(c)'
    BY <1>1, <1>3, <1>4 DEF ShownOK
<1>7. Away(c)' => Away(c) /\ Untouched(c)'
    BY <1>1, <1>3, <1>4 DEF Away, Untouched
<1>8. QED
    BY <1>1, <1>3, <1>4, <1>5, <1>6, <1>7, RoundForms, RoundOfBrowser

(* The timer of the end: it was set for a full board whose result was not  *)
(* shown, and the modal shows it.                                          *)
LEMMA EndRound ==
    ASSUME Inv, RoundInv, NEW c \in Clients, EndGame(c)
    PROVE  RoundInv'
<1> DEFINE b == client[c]
           d == client'[c]
<1>1. /\ UNCHANGED <<up, down, server, gone, agreed>>
      /\ b.endTimer # "off" /\ ~b.asked
    BY DEF EndGame
<1>2. /\ client \in [Clients -> Browser] /\ b \in Browser
      /\ shown \in [Clients -> SUBSET Nat] /\ b.view.round \in Nat
    BY RoundForms
<1>3. /\ d.view = b.view /\ d.endTimer = "off" /\ d.pending = b.pending
      /\ d.asked = b.asked /\ d.online = b.online /\ d.socket = b.socket
      /\ \A x \in Clients \ {c} : client'[x] = client[x]
    BY <1>2 DEF EndGame, Browser
<1>4. /\ shown' = [shown EXCEPT ![c] = IF b.online THEN @ \union {b.view.round} ELSE @]
      /\ shown' \in [Clients -> SUBSET Nat]
    BY <1>2 DEF EndGame
<1>5. /\ c \in server.sockets => PartOK(c, up[c], down[c], b, server, agreed[c])
      /\ ShownOK(c) /\ (Away(c) => Untouched(c))
      /\ b.view.round <= server.view.round
      /\ Has(up[c], "disconnect") => b.socket # "joined"
      /\ b.socket = "joined" => b.online
    BY RoundForms
<1>6. c \in server.sockets => PartOK(c, up[c], down[c], d, server, agreed[c])
  <2> HIDE DEF b, d
  <2>1. CASE b.socket = "joined"
    <3>1. Full(b.view.board)
      BY <1>1, <1>5, <2>1 DEF ShownOK, b
    <3>2. QED
      BY <1>1, <1>3, <1>5, <3>1, PartEnd
  <2>2. CASE b.socket # "joined"
    BY <1>3, <1>5, <2>2, PartSilent
  <2>3. QED
    BY <2>1, <2>2
<1>7. ShownOK(c)'
    BY <1>1, <1>2, <1>3, <1>4, <1>5 DEF ShownOK
<1>8. ~Away(c)'
    BY <1>1, <1>3, <1>5 DEF Away, Untouched
<1>9. \A x \in Clients \ {c} : shown'[x] = shown[x]
    BY <1>2, <1>4
<1>10. QED
    BY <1>1, <1>3, <1>4, <1>5, <1>6, <1>7, <1>8, <1>9, RoundForms, RoundOfBrowser

(* playAgain                                                               *)
LEMMA PlayAgainRound ==
    ASSUME Inv, RoundInv, NEW c \in Clients, PlayAgain(c)
    PROVE  RoundInv'
<1> DEFINE b == client[c]
           d == client'[c]
           m == [kind |-> "rematch_request"]
<1>1. /\ UNCHANGED <<down, server, gone, shown>>
      /\ b.modal # "none" /\ ~b.pending /\ ~b.asked
    BY DEF PlayAgain
<1>2. /\ client \in [Clients -> Browser] /\ b \in Browser
      /\ up \in [Clients -> Seq(Request)] /\ up[c] \in Seq(Request)
      /\ agreed \in [Clients -> SUBSET Nat] /\ b.view.round \in Nat
      /\ server.view.round \in Nat
    BY RoundForms
<1>3. /\ c \in server.sockets => PartOK(c, up[c], down[c], b, server, agreed[c])
      /\ ShownOK(c) /\ (Away(c) => Untouched(c))
      /\ b.view.round <= server.view.round
      /\ Has(up[c], "disconnect") => b.socket # "joined"
      /\ Has(up[c], "join_room") =>
            \A i \in DOMAIN up[c] : up[c][i].kind \in {"join_room", "disconnect"}
      /\ b.socket = "joined" => b.online
    BY RoundForms
<1>4. ~Away(c)
    BY <1>1, <1>3 DEF Untouched
<1>5. CASE b.online
  <2>1. /\ b.view.round < MaxRounds
        /\ client' = [client EXCEPT ![c].pending = TRUE]
        /\ Emit(c, m)
        /\ agreed' = [agreed EXCEPT ![c] = @ \union {b.view.round}]
    BY <1>5 DEF PlayAgain
  <2>2. /\ d.view = b.view /\ d.endTimer = b.endTimer /\ d.pending
        /\ ~d.asked /\ d.online = b.online /\ d.socket = b.socket /\ d.modal = b.modal
        /\ \A x \in Clients \ {c} : client'[x] = client[x]
    BY <1>1, <1>2, <2>1 DEF Browser
  <2>3. /\ agreed' \in [Clients -> SUBSET Nat] /\ agreed'[c] = agreed[c] \union {b.view.round}
        /\ \A x \in Clients \ {c} : agreed'[x] = agreed[x]
    BY <1>2, <2>1
  <2>4. m \in Request /\ m.kind = "rematch_request"
    BY DEF Request
  <2> HIDE DEF m
  <2>5. /\ up'[c] = IF b.socket = "joined" THEN Append(up[c], m) ELSE up[c]
        /\ \A x \in Clients \ {c} : up'[x] = up[x]
    BY <1>2, <2>1 DEF Emit
  <2>6. \A k \in {"join_room", "disconnect"} : Has(up'[c], k) => Has(up[c], k)
    BY <1>2, <2>4, <2>5, AppendFacts
  <2>7. Has(up'[c], "join_room") => FALSE
    BY <1>4, <2>6 DEF Away
  <2>8. c \in server.sockets => PartOK(c, up'[c], down[c], d, server, agreed'[c])
    <3>1. CASE b.socket = "joined"
      <4> DEFINE u == up[c]
                 w == down[c]
                 a == agreed[c]
                 r == server
      <4>1. /\ c \in server.sockets => PartOK(c, u, w, b, r, a)
            /\ u \in Seq(Request)
        BY <1>2, <1>3
      <4> HIDE DEF b, d, u, w, a, r
      <4>2. c \in server.sockets => PartOK(c, Append(u, m), w, d, r, a \union {b.view.round})
        BY <1>1, <2>1, <2>2, <2>4, <3>1, <4>1, PartPlayAgain
      <4>3. up'[c] = Append(u, m) /\ agreed'[c] = a \union {b.view.round}
        BY <2>3, <2>5, <3>1 DEF u, a
      <4>4. QED
        BY <4>2, <4>3 DEF w, r
    <3>2. CASE b.socket # "joined"
      <4>1. up'[c] = up[c] /\ agreed[c] \subseteq agreed'[c] /\ d.socket # "joined"
        BY <2>2, <2>3, <2>5, <3>2
      <4> HIDE DEF b, d
      <4>2. QED
        BY <1>3, <4>1, PartSilent
    <3>3. QED
      BY <3>1, <3>2
  <2>9. ~Away(c)'
    BY <1>1, <1>4, <2>2, <2>7 DEF Away
  <2>10. ShownOK(c)'
    BY <1>1, <1>3, <2>2 DEF ShownOK
  <2>11. Has(up'[c], "disconnect") => d.socket # "joined"
    BY <1>3, <2>2, <2>6
  <2>12. QED
    BY <1>1, <1>3, <2>2, <2>3, <2>5, <2>7, <2>8, <2>9, <2>10, <2>11, RoundForms, RoundOfBrowser
<1>6. CASE ~b.online
  <2>1. /\ client' = [client EXCEPT
                    ![c].modal = "none", ![c].active = TRUE, ![c].endShown = FALSE,
                    ![c].view = Blank, ![c].screen = "game"]
        /\ UNCHANGED <<up, agreed>>
    BY <1>6 DEF PlayAgain
  <2>2. /\ d.view = Blank /\ d.online = b.online /\ d.socket = b.socket
        /\ \A x \in Clients \ {c} : client'[x] = client[x]
    BY <1>2, <2>1 DEF Browser
  <2>3. d.view.round <= server.view.round
    BY <1>2, <2>2 DEF Blank
  <2>4. c \in server.sockets => PartOK(c, up[c], down[c], d, server, agreed[c])
    <3>1. d.socket # "joined"
      BY <1>3, <1>6, <2>2
    <3> HIDE DEF b, d
    <3>2. QED
      BY <1>3, <3>1, PartSilent
  <2>5. ~Away(c)'
    BY <1>1, <1>4, <2>1, <2>2 DEF Away
  <2>6. ShownOK(c)'
    BY <1>6, <2>2 DEF ShownOK
  <2>7. QED
    BY <1>1, <1>3, <1>6, <2>1, <2>2, <2>3, <2>4, <2>5, <2>6, RoundForms, RoundOfBrowser
<1>7. QED
    BY <1>5, <1>6

(* The answer to a question for a rematch                                  *)
LEMMA AnswerRound ==
    ASSUME Inv, RoundInv, NEW c \in Clients, NEW accept \in BOOLEAN, Answer(c, accept)
    PROVE  RoundInv'
<1> DEFINE b == client[c]
           d == client'[c]
           m == [kind |-> "rematch_response", accept |-> accept]
<1>1. /\ UNCHANGED <<down, server, gone, shown>>
      /\ b.asked /\ Emit(c, m)
      /\ client' = [client EXCEPT ![c].asked = FALSE,
                    ![c].endTimer = IF @ = "set" THEN "due" ELSE @]
      /\ agreed' = [agreed EXCEPT ![c] = IF accept THEN @ \union {b.view.round} ELSE @]
    BY DEF Answer
<1>2. /\ client \in [Clients -> Browser] /\ b \in Browser
      /\ up \in [Clients -> Seq(Request)] /\ up[c] \in Seq(Request)
      /\ agreed \in [Clients -> SUBSET Nat] /\ b.view.round \in Nat
      /\ server.view.round \in Nat
    BY RoundForms
<1>3. /\ c \in server.sockets => PartOK(c, up[c], down[c], b, server, agreed[c])
      /\ ShownOK(c) /\ (Away(c) => Untouched(c))
      /\ b.view.round <= server.view.round
      /\ Has(up[c], "disconnect") => b.socket # "joined"
    BY RoundForms
<1>4. ~Away(c)
    BY <1>1, <1>3 DEF Untouched
<1>5. /\ d.view = b.view /\ d.pending = b.pending /\ ~d.asked
      /\ d.endTimer = IF b.endTimer = "set" THEN "due" ELSE b.endTimer
      /\ d.online = b.online /\ d.socket = b.socket /\ d.modal = b.modal
      /\ \A x \in Clients \ {c} : client'[x] = client[x]
    BY <1>1, <1>2 DEF Browser
<1>6. /\ agreed' \in [Clients -> SUBSET Nat] /\ agreed[c] \subseteq agreed'[c]
      /\ accept => b.view.round \in agreed'[c]
      /\ \A x \in Clients \ {c} : agreed'[x] = agreed[x]
    BY <1>1, <1>2
<1>7. m \in Request /\ m.kind = "rematch_response" /\ (m.accept <=> accept)
    BY DEF Request
<1> HIDE DEF m
<1>8. /\ up'[c] = IF b.socket = "joined" THEN Append(up[c], m) ELSE up[c]
      /\ \A x \in Clients \ {c} : up'[x] = up[x]
    BY <1>1, <1>2 DEF Emit
<1>9. \A k \in {"join_room", "disconnect"} : Has(up'[c], k) => Has(up[c], k)
    BY <1>2, <1>7, <1>8, AppendFacts
<1>10. Has(up'[c], "join_room") => FALSE
    BY <1>4, <1>9 DEF Away
<1>11. c \in server.sockets => PartOK(c, up'[c], down[c], d, server, agreed'[c])
  <2>1. CASE b.socket = "joined"
    <3> DEFINE u == up[c]
               w == down[c]
               a == agreed[c]
               e == agreed'[c]
               r == server
    <3>1. /\ c \in server.sockets => PartOK(c, u, w, b, r, a)
          /\ u \in Seq(Request) /\ a \subseteq e /\ (m.accept => b.view.round \in e)
          /\ b.asked
      BY <1>1, <1>2, <1>3, <1>6, <1>7
    <3> HIDE DEF b, d, u, w, a, e, r
    <3>2. c \in server.sockets => PartOK(c, Append(u, m), w, d, r, e)
      BY <1>5, <1>7, <2>1, <3>1, PartAnswer
    <3>3. up'[c] = Append(u, m)
      BY <1>8, <2>1 DEF u
    <3>4. QED
      BY <3>2, <3>3 DEF w, r, e
  <2>2. CASE b.socket # "joined"
    <3>1. up'[c] = up[c] /\ d.socket # "joined"
      BY <1>5, <1>8, <2>2
    <3> HIDE DEF b, d
    <3>2. QED
      BY <1>3, <1>6, <3>1, PartSilent
  <2>3. QED
    BY <2>1, <2>2
<1>12. ~Away(c)'
    BY <1>1, <1>4, <1>5, <1>10 DEF Away
<1>13. ShownOK(c)'
  <2>1. d.endTimer # "off" => b.endTimer # "off"
    BY <1>5
  <2>2. QED
    BY <1>1, <1>3, <1>5, <2>1 DEF ShownOK
<1>14. Has(up'[c], "disconnect") => d.socket # "joined"
    BY <1>3, <1>5, <1>9
<1>15. QED
    BY <1>1, <1>3, <1>5, <1>6, <1>8, <1>10, <1>11, <1>12, <1>13, <1>14, RoundForms, RoundOfBrowser

(* A click                                                                 *)
LEMMA ClickRound ==
    ASSUME Inv, RoundInv, NEW c \in Clients, NEW e \in BoardEdges, Click(c, e)
    PROVE  RoundInv'
<1> DEFINE b == client[c]
           m == [kind |-> "make_move", edge |-> e]
<1>1. /\ UNCHANGED <<client, down, server, gone, shown, agreed>>
      /\ b.assigned = b.view.board.turn /\ e \notin b.view.board.taken /\ Emit(c, m)
    BY DEF Click, history
<1>2. /\ client \in [Clients -> Browser] /\ b \in Browser
      /\ up \in [Clients -> Seq(Request)] /\ up[c] \in Seq(Request)
    BY RoundForms
<1>3. /\ c \in server.sockets => PartOK(c, up[c], down[c], b, server, agreed[c])
      /\ ShownOK(c) /\ (Away(c) => Untouched(c))
      /\ b.view.round <= server.view.round
      /\ Has(up[c], "disconnect") => b.socket # "joined"
      /\ Has(up[c], "join_room") =>
            \A i \in DOMAIN up[c] : up[c][i].kind \in {"join_room", "disconnect"}
    BY RoundForms
<1>4. b.assigned \in Slots /\ None \notin Slots
    BY <1>1, <1>2, OnlineAssumption DEF Browser, View, Board
<1>5. ~Has(up[c], "join_room")
    BY <1>4, OnlineAssumption DEF Inv, JoinInv, Has
<1>6. m \in Request /\ m.kind = "make_move"
    BY DEF Request
<1> HIDE DEF m
<1>7. /\ up'[c] = IF b.socket = "joined" THEN Append(up[c], m) ELSE up[c]
      /\ \A x \in Clients \ {c} : up'[x] = up[x]
    BY <1>1, <1>2 DEF Emit
<1>8. \A k \in {"join_room", "disconnect"} : Has(up'[c], k) => Has(up[c], k)
    BY <1>2, <1>6, <1>7, AppendFacts
<1>9. c \in server.sockets => PartOK(c, up'[c], down[c], b, server, agreed[c])
  <2>1. CASE b.socket = "joined"
    <3>1. ~Full(b.view.board)
      BY <1>1 DEF Full
    <3> DEFINE u == up[c]
               w == down[c]
               r == server
               a == agreed[c]
    <3>2. (c \in server.sockets => PartOK(c, u, w, b, r, a)) /\ u \in Seq(Request)
      BY <1>2, <1>3
    <3> HIDE DEF b, u, w, r, a
    <3>3. c \in server.sockets => PartOK(c, Append(u, m), w, b, r, a)
      BY <1>6, <2>1, <3>1, <3>2, PartClick
    <3>4. up'[c] = Append(u, m)
      BY <1>7, <2>1 DEF u
    <3>5. QED
      BY <3>3, <3>4 DEF w, r, a
  <2>2. CASE b.socket # "joined"
    BY <1>3, <1>7, <2>2
  <2>3. QED
    BY <2>1, <2>2
<1>10. Away(c)' => Away(c) /\ Untouched(c)'
    BY <1>1, <1>3, <1>8 DEF Away, Untouched
<1>11. ShownOK(c)'
    BY <1>1, <1>3 DEF ShownOK
<1>12. QED
    BY <1>1, <1>3, <1>5, <1>7, <1>8, <1>9, <1>10, <1>11, RoundForms, RoundOfBrowser

(* The connection breaks, or the player goes home.                         *)
LEMMA FarewellRound ==
    ASSUME Inv, RoundInv, NEW c \in Clients, Drop(c) \/ GoHome(c)
    PROVE  RoundInv'
<1> DEFINE b == client[c]
           d == client'[c]
           m == [kind |-> "disconnect"]
<1>1. /\ client \in [Clients -> Browser] /\ b \in Browser
      /\ up \in [Clients -> Seq(Request)] /\ up[c] \in Seq(Request)
      /\ down \in [Clients -> Seq(Message)]
      /\ server.view.round \in Nat
    BY RoundForms
<1>2. /\ c \in server.sockets => PartOK(c, up[c], down[c], b, server, agreed[c])
      /\ ShownOK(c) /\ (Away(c) => Untouched(c))
      /\ b.view.round <= server.view.round
      /\ Has(up[c], "disconnect") => b.socket # "joined"
      /\ Has(up[c], "join_room") =>
            \A i \in DOMAIN up[c] : up[c][i].kind \in {"join_room", "disconnect"}
    BY RoundForms
<1>3. /\ UNCHANGED <<server, shown, agreed>> /\ gone' = gone \union {c}
      /\ down' = [down EXCEPT ![c] = <<>>]
    BY DEF Drop, GoHome, Goes
<1>4. /\ down'[c] = <<>> /\ \A x \in Clients \ {c} : down'[x] = down[x]
      /\ \A x \in Clients \ {c} : client'[x] = client[x]
    BY <1>1, <1>3 DEF Drop, GoHome
<1>5. m \in Request /\ m.kind = "disconnect"
    BY DEF Request
<1>6. /\ d.socket \in {"lost", "none"} /\ d.view.round <= server.view.round
      /\ Away(c) => Untouched(c)'
      /\ ShownOK(c)'
  <2>1. CASE Drop(c)
    <3>1. /\ d.socket = "lost" /\ d.view = b.view /\ d.endTimer = b.endTimer
          /\ d.modal = b.modal /\ d.pending = b.pending /\ d.asked = b.asked
          /\ d.online = b.online
      BY <1>1, <2>1 DEF Drop, Browser
    <3>2. QED
      BY <1>2, <1>3, <3>1 DEF Untouched, ShownOK
  <2>2. CASE GoHome(c)
    <3> DEFINE t == IF b.endTimer = "set" /\ b.active THEN "due" ELSE b.endTimer
    <3>1. d = [NewClient EXCEPT !.endTimer = t]
      BY <1>1, <2>2 DEF GoHome
    <3> HIDE DEF t
    <3>2. /\ d.socket = "none" /\ d.view = Blank /\ d.endTimer = t
          /\ d.modal = "none" /\ ~d.pending /\ ~d.asked /\ ~d.online
      BY <3>1 DEF NewClient
    <3>3. b.endTimer = "off" => t = "off"
      BY DEF t
    <3>4. d.view.round <= server.view.round
      BY <1>1, <3>2 DEF Blank
    <3>5. QED
      BY <1>2, <1>3, <3>2, <3>3, <3>4 DEF Untouched, ShownOK
  <2>3. QED
    BY <2>1, <2>2
<1>7. /\ \A x \in Clients \ {c} : up'[x] = up[x]
      /\ \/ up'[c] = up[c]
         \/ up'[c] = Append(up[c], m)
         \/ \E n \in 0..Len(up[c]) : up'[c] = Append(SubSeq(up[c], 1, n), m)
  <2>1. CASE Drop(c)
    BY <1>1, <2>1 DEF Drop
  <2>2. CASE GoHome(c)
    BY <1>1, <2>2 DEF GoHome, Emit
  <2>3. QED
    BY <2>1, <2>2
<1> HIDE DEF m
<1>8. /\ Has(up'[c], "join_room") => Has(up[c], "join_room")
      /\ Has(up[c], "join_room") =>
            \A i \in DOMAIN up'[c] : up'[c][i].kind \in {"join_room", "disconnect"}
      /\ c \in server.sockets => PartOK(c, up'[c], down'[c], d, server, agreed[c])
  <2> DEFINE u == up[c]
             w == down[c]
             v == down'[c]
             r == server
             a == agreed[c]
  <2>1. /\ c \in server.sockets => PartOK(c, u, w, b, r, a)
        /\ u \in Seq(Request) /\ d.socket # "joined"
        /\ Has(u, "join_room") => \A i \in DOMAIN u : u[i].kind \in {"join_room", "disconnect"}
    BY <1>1, <1>2, <1>6
  <2> HIDE DEF b, d, u, w, v, r, a
  <2>2. /\ c \in server.sockets => PartOK(c, u, v, d, r, a)
        /\ \A n \in 0..Len(u) :
              c \in server.sockets => /\ PartOK(c, Append(SubSeq(u, 1, n), m), v, d, r, a)
                                      /\ PartOK(c, Append(u, m), v, d, r, a)
    BY <1>5, <2>1, PartSilent, PartFarewell
  <2>3. ASSUME NEW s \in Seq(Request), \A i \in DOMAIN s : i \in DOMAIN u /\ s[i] = u[i]
        PROVE  /\ Has(Append(s, m), "join_room") => Has(u, "join_room")
               /\ Has(u, "join_room") =>
                     \A i \in DOMAIN Append(s, m) :
                         Append(s, m)[i].kind \in {"join_room", "disconnect"}
    <3>1. \A i \in DOMAIN Append(s, m) : \/ i \in DOMAIN s /\ Append(s, m)[i] = s[i]
                                         \/ Append(s, m)[i] = m
      BY <1>5, Appended
    <3>2. QED
      BY <1>5, <2>1, <2>3, <3>1 DEF Has
  <2>4. 0 \in 0..Len(u)
    BY <2>1, LenProperties
  <2>5. CASE up'[c] = u
    BY <2>1, <2>2, <2>5 DEF v, u, r, a
  <2>6. CASE up'[c] = Append(u, m)
    <3>1. c \in server.sockets => PartOK(c, Append(u, m), v, d, r, a)
      BY <2>2, <2>4
    <3>2. /\ Has(Append(u, m), "join_room") => Has(u, "join_room")
          /\ Has(u, "join_room") =>
                \A i \in DOMAIN Append(u, m) :
                    Append(u, m)[i].kind \in {"join_room", "disconnect"}
      BY <2>1, <2>3
    <3>3. QED
      BY <2>6, <3>1, <3>2 DEF v, u, r, a
  <2>7. ASSUME NEW n \in 0..Len(u), up'[c] = Append(SubSeq(u, 1, n), m)
        PROVE  <1>8!1 /\ <1>8!2 /\ <1>8!3
    <3> DEFINE s == SubSeq(u, 1, n)
    <3>1. s \in Seq(Request) /\ \A i \in DOMAIN s : i \in DOMAIN u /\ s[i] = u[i]
      BY <2>1, LenProperties
    <3>2. c \in server.sockets => PartOK(c, Append(s, m), v, d, r, a)
      BY <2>2
    <3> HIDE DEF s
    <3>3. up'[c] = Append(s, m)
      BY <2>7 DEF s
    <3>4. /\ Has(Append(s, m), "join_room") => Has(u, "join_room")
          /\ Has(u, "join_room") =>
                \A i \in DOMAIN Append(s, m) :
                    Append(s, m)[i].kind \in {"join_room", "disconnect"}
      BY <2>3, <3>1
    <3>5. QED
      BY <3>2, <3>3, <3>4 DEF v, u, r, a
  <2>8. QED
    BY <1>7, <2>5, <2>6, <2>7 DEF u
<1>9. Away(c)' => Away(c) /\ Untouched(c)'
  <2>1. Away(c)' => Has(up'[c], "join_room")
    BY <1>3, <1>6 DEF Away
  <2>2. QED
    BY <1>6, <1>8, <2>1 DEF Away
<1>10. ~Has(down'[c], "game_state") /\ ~Has(down'[c], "rematch_started")
       /\ \A i \in DOMAIN down'[c] : FALSE
    BY <1>4 DEF Has
<1>11. d.socket # "joined"
    BY <1>6
<1>12. shown \in [Clients -> SUBSET Nat] /\ agreed \in [Clients -> SUBSET Nat]
    BY RoundForms
<1> HIDE DEF b, d
<1>13. QED
    BY <1>3, <1>4, <1>6, <1>7, <1>8, <1>9, <1>10, <1>11, <1>12, RoundOfBrowser DEF d

(* The steps on the way to the room                                        *)
LEMMA ArrivalRound ==
    ASSUME Inv, RoundInv, NEW c \in Clients,
           Enter(c) \/ Connect(c) \/ TokenRefused(c) \/ DialFails(c)
    PROVE  RoundInv'
<1> DEFINE b == client[c]
           d == client'[c]
           m == [kind |-> "join_room"]
<1>1. /\ client \in [Clients -> Browser] /\ b \in Browser
      /\ up \in [Clients -> Seq(Request)] /\ down \in [Clients -> Seq(Message)]
      /\ shown \in [Clients -> SUBSET Nat] /\ agreed \in [Clients -> SUBSET Nat]
      /\ b.view.round <= server.view.round /\ ShownOK(c)
    BY RoundForms
<1>2. /\ b.socket \in {"none", "dialing"} /\ c \notin gone
      /\ UNCHANGED <<server, down, shown, agreed>>
      /\ gone' = gone \/ (gone' = gone \union {c} /\ d.socket \in {"refused", "lost"})
  <2>1. /\ b.socket \in {"none", "dialing"} /\ (b.socket = "none" => c \notin gone)
        /\ UNCHANGED <<server, down, shown, agreed>>
    BY DEF Enter, Connect, TokenRefused, DialFails, history
  <2>2. b.socket = "dialing" => c \notin gone
    BY DEF Inv, FreshInv
  <2>3. CASE Enter(c) \/ Connect(c)
    BY <2>1, <2>2, <2>3 DEF Enter, Connect, history
  <2>4. CASE TokenRefused(c) \/ DialFails(c)
    <3>1. PICK k \in {"refused", "lost"} : client' = [client EXCEPT ![c].socket = k]
      BY <2>4 DEF TokenRefused, DialFails
    <3>2. d.socket = k
      BY <1>1, <3>1 DEF Browser
    <3>3. gone' = gone \union {c}
      BY <2>4 DEF TokenRefused, DialFails, Goes
    <3>4. QED
      BY <2>1, <2>2, <3>2, <3>3
  <2>5. QED
    BY <2>3, <2>4
<1>3. up[c] = <<>> /\ down[c] = <<>> /\ c \notin server.sockets /\ Away(c)
    BY <1>2 DEF Inv, FreshInv, Away
<1>4. Untouched(c)
    BY <1>3, RoundForms
<1>5. /\ \A x \in Clients \ {c} : client'[x] = client[x]
      /\ d.view = b.view /\ d.endTimer = b.endTimer
      /\ d.modal = b.modal /\ d.pending \in {FALSE, b.pending} /\ d.asked = b.asked
  <2>1. CASE Enter(c)
    BY <1>1, <2>1 DEF Enter, Browser
  <2>2. CASE Connect(c)
    BY <1>1, <2>2 DEF Connect, Browser
  <2>3. CASE TokenRefused(c) \/ DialFails(c)
    <3>1. \E k \in {"refused", "lost"} : client' = [client EXCEPT ![c].socket = k]
      BY <2>3 DEF TokenRefused, DialFails
    <3>2. QED
      BY <1>1, <3>1 DEF Browser
  <2>4. QED
    BY <2>1, <2>2, <2>3
<1>6. Untouched(c)' /\ ShownOK(c)' /\ d.view.round <= server.view.round
    BY <1>1, <1>2, <1>4, <1>5 DEF Untouched, ShownOK
<1>7. m \in Request
    BY DEF Request
<1>8. /\ \A x \in Clients \ {c} : up'[x] = up[x]
      /\ \A i \in DOMAIN up'[c] : up'[c][i].kind = "join_room"
  <2>1. CASE up' = up
    BY <1>3, <2>1
  <2>2. CASE up' = [up EXCEPT ![c] = Append(@, m)]
    <3>1. up'[c] = <<m>>
      BY <1>1, <1>3, <1>7, <2>2
    <3>2. m.kind = "join_room"
      OBVIOUS
    <3> HIDE DEF m
    <3>3. \A i \in DOMAIN up'[c] : up'[c][i] = m
      BY <3>1
    <3>4. \A x \in Clients \ {c} : up'[x] = up[x]
      BY <1>1, <2>2
    <3>5. QED
      BY <3>2, <3>3, <3>4
  <2>3. QED
    BY <2>1, <2>2 DEF Enter, Connect, TokenRefused, DialFails
<1>9. ~Has(up'[c], "disconnect") /\ ~Has(down[c], "game_state") /\ ~Has(down[c], "rematch_started")
    BY <1>3, <1>8 DEF Has
<1>10. \A i \in DOMAIN down[c] : FALSE
    BY <1>3
<1> HIDE DEF b, d, m
<1>11. QED
    BY <1>1, <1>2, <1>3, <1>5, <1>6, <1>8, <1>9, <1>10, RoundOfBrowser DEF d

(* A message reaches the page.                                             *)
LEMMA ReceiveRound ==
    ASSUME Inv, RoundInv, NEW c \in Clients, Receive(c)
    PROVE  RoundInv'
<1> DEFINE b == client[c]
           d == client'[c]
           w == down[c]
           m == Head(w)
<1>1. /\ w # <<>> /\ m \in Message /\ b.socket = "joined"
      /\ client' = [client EXCEPT ![c] = Received(b, m)]
      /\ down' = [down EXCEPT ![c] = Tail(@)]
      /\ UNCHANGED <<up, server, escrow, gone, shown, agreed>>
    BY ReceiveEffect DEF Inv
<1>2. ~b.asked /\ b.endTimer # "due"
    BY DEF Receive
<1>3. /\ client \in [Clients -> Browser] /\ b \in Browser
      /\ down \in [Clients -> Seq(Message)] /\ w \in Seq(Message)
      /\ server \in Room /\ server.view.round \in Nat /\ b.view.round \in Nat
      /\ shown \in [Clients -> SUBSET Nat] /\ agreed \in [Clients -> SUBSET Nat]
    BY RoundForms
<1>4. /\ c \in server.sockets => PartOK(c, up[c], w, b, server, agreed[c])
      /\ c \notin server.sockets => ~Has(w, "game_state") /\ ~Has(w, "rematch_started")
      /\ ShownOK(c) /\ b.online
      /\ b.view.round <= server.view.round
      /\ \A i \in DOMAIN w : w[i].kind = "game_state" =>
             w[i].view.round <= server.view.round /\ Playable(w[i].view.board)
      /\ Has(up[c], "disconnect") => b.socket # "joined"
    BY <1>1, RoundForms
<1>5. /\ d = Received(b, m) /\ down'[c] = Tail(w)
      /\ \A x \in Clients \ {c} : client'[x] = client[x] /\ down'[x] = down[x]
    BY <1>1, <1>3
<1>6. ~Has(up[c], "join_room")
    BY <1>1 DEF Inv, JoinInv, Has
<1>7. ~Away(c) /\ ~Away(c)'
  <2>1. d.socket = b.socket
    BY <1>1, <1>3, <1>5, ReceivedPage
  <2>2. QED
    BY <1>1, <1>6, <2>1 DEF Away
<1>8. /\ m = w[1] /\ 1 \in DOMAIN w
      /\ \A i \in DOMAIN Tail(w) : i + 1 \in DOMAIN w /\ Tail(w)[i] = w[i + 1]
      /\ Has(w, m.kind)
      /\ \A k : Has(Tail(w), k) => Has(w, k)
    BY <1>1, <1>3, Shortened, TailFacts
<1>9. c \in server.sockets => PartOK(c, up[c], down'[c], d, server, agreed[c])
  <2>1. c \in server.sockets => KnowsBoard(w, b, server)
    BY <1>1 DEF Inv, KnowInv
  <2> DEFINE r == server
             u == up[c]
             a == agreed[c]
  <2>2. /\ c \in server.sockets => PartOK(c, u, w, b, r, a) /\ KnowsBoard(w, b, r)
        /\ r \in Room
    BY <1>3, <1>4, <2>1
  <2>3. /\ w \in Seq(Message) /\ w # <<>> /\ b \in Browser
        /\ b.socket = "joined" /\ ~b.asked /\ b.endTimer # "due"
    BY <1>1, <1>2, <1>3
  <2> HIDE DEF r, u, a, w, b, d
  <2>4. c \in server.sockets => PartOK(c, u, Tail(w), Received(b, Head(w)), r, a)
    BY <2>2, <2>3, PartReceive
  <2>5. QED
    BY <1>5, <2>4 DEF r, u, a
<1>10. d.view.round <= server.view.round
  <2>1. d.view = IF m.kind = "game_state" THEN m.view ELSE b.view
    BY <1>1, <1>3, <1>5, ReceivedPage
  <2>2. QED
    BY <1>4, <1>8, <2>1
<1>11. \A i \in DOMAIN down'[c] : down'[c][i].kind = "game_state" =>
           down'[c][i].view.round <= server.view.round /\ Playable(down'[c][i].view.board)
    BY <1>4, <1>5, <1>8
<1>12. ShownOK(c)'
  <2>1. CASE m.kind # "game_state"
    <3>1. d.view = b.view /\ d.endTimer = b.endTimer
      BY <1>1, <1>3, <1>5, <2>1, ReceivedPage
    <3>2. QED
      BY <1>1, <1>4, <3>1 DEF ShownOK
  <2>2. CASE m.kind = "game_state"
    <3>1. c \in server.sockets /\ Has(w, "game_state")
      BY <1>4, <1>8, <2>2
    <3>2. TellsOK(w, server) /\ PageOK(c, b, up[c], w, server)
      BY <1>1, <1>4, <3>1 DEF PartOK
    <3>3. m.view.round = server.view.round /\ Playable(m.view.board)
      BY <1>1, <1>3, <1>4, <1>8, <2>2, <3>2, BoardsFacts DEF TellsOK
    <3>4. /\ d.view = m.view
          /\ d.endTimer = IF Closed(m.view.board) >= NumSquares /\ ~b.endShown
                          THEN "set" ELSE b.endTimer
      BY <1>1, <1>3, <1>5, <2>2, ReceivedPage
    <3>5. ~Has(w, "rematch_started")
      BY <1>1, <1>3, <2>2, <3>1, <3>2, TailFacts DEF TellsOK
    <3>6. /\ b.view.round = server.view.round => ~Full(b.view.board)
          /\ b.view.round # server.view.round => b.endTimer = "off"
      BY <3>1, <3>2, <3>5 DEF PageOK
    <3>7. b.endTimer = "off"
      BY <1>4, <3>6 DEF ShownOK
    <3>8. /\ server.view.round \notin shown[c]
          /\ \A r \in shown[c] : r <= server.view.round
      <4>1. server.view.round \in shown[c] => b.view.round = server.view.round
        BY <1>3, <1>4 DEF ShownOK
      <4>2. server.view.round \notin shown[c]
        BY <1>4, <3>6, <4>1 DEF ShownOK
      <4>3. \A r \in shown[c] : r \in Nat /\ r <= b.view.round
        BY <1>3, <1>4 DEF ShownOK
      <4>4. QED
        BY <1>3, <1>4, <4>2, <4>3
    <3>9. Closed(m.view.board) >= NumSquares => Full(m.view.board)
      <4>1. m.view.board \in Board
        BY <1>1, <2>2, MessageForms DEF View
      <4>2. Closed(m.view.board) \in Nat
        BY <4>1 DEF Board, Closed, Slots
      <4>3. Cardinality(BoardEdges \ m.view.board.taken) \in Nat /\ NumSquares \in Nat
        <5>1. IsFiniteSet(BoardEdges) /\ Cardinality(BoardEdges) \in Nat
          BY BoardAssumption, FS_CardinalityType
        <5>2. NumSquares \in 1..2 * Cardinality(BoardEdges)
          BY BoardAssumption
        <5>3. IsFiniteSet(BoardEdges \ m.view.board.taken)
          BY <5>1, FS_Difference
        <5>4. QED
          BY <5>1, <5>2, <5>3, FS_CardinalityType
      <4>4. NumSquares - Closed(m.view.board) >= 0
        BY <3>3, <4>2, <4>3 DEF Playable
      <4>5. Closed(m.view.board) >= NumSquares => Closed(m.view.board) = NumSquares
        BY <4>2, <4>3, <4>4
      <4>6. QED
        BY <3>3, <4>5 DEF Playable
    <3>10. QED
      BY <1>1, <3>3, <3>4, <3>7, <3>8, <3>9 DEF ShownOK
  <2>3. QED
    BY <2>1, <2>2
<1>13. ~Has(up[c], "disconnect")
    BY <1>1, <1>4
<1>14. c \notin server.sockets => ~Has(down'[c], "game_state") /\ ~Has(down'[c], "rematch_started")
    BY <1>4, <1>5, <1>8
<1> HIDE DEF b, d, w, m
<1>15. QED
    BY <1>1, <1>3, <1>5, <1>6, <1>7, <1>9, <1>10, <1>11, <1>12, <1>13, <1>14, RoundOfBrowser DEF d

-----------------------------------------------------------------------------
(* Rematches and results: the steps of the server                          *)

(* Whoever is in the room has a slot, and no two have the same.            *)
LEMMA SlotsDiffer ==
    ASSUME Inv, RoundInv
    PROVE  /\ server.sockets \subseteq Clients /\ None \notin Slots /\ None \notin Clients
           /\ \A d \in server.sockets : SlotOf(server, d) \in Slots
           /\ \A d, e \in server.sockets : SlotOf(server, d) = SlotOf(server, e) => d = e
           /\ \A d \in server.sockets : server.seats[SlotOf(server, d)] = d
           /\ \A d : SlotOf(server, d) # None => d \in server.sockets
           /\ \A d \in Clients : Other(d) \in Clients /\ Other(d) # d
           /\ \A d, e \in Clients : d # e => Other(d) = e
<1>1. server.sockets \subseteq Clients /\ None \notin Slots /\ None \notin Clients
    BY OnlineAssumption DEF Inv, TypeInv, Room, Clients
<1>2. \A d \in server.sockets : SlotOf(server, d) # None
    BY DEF RoundInv, SeatsOK
<1>3. \A d \in server.sockets : SlotOf(server, d) \in Slots /\ server.seats[SlotOf(server, d)] = d
    BY <1>2 DEF SlotOf, Slots
<1>4. \A d : SlotOf(server, d) # None => d \in server.sockets
    BY DEF SlotOf
<1>5. /\ \A d \in Clients : Other(d) \in Clients /\ Other(d) # d
      /\ \A d, e \in Clients : d # e => Other(d) = e
    BY OnlineAssumption DEF Other, Clients
<1>6. \A d, e \in server.sockets : SlotOf(server, d) = SlotOf(server, e) => d = e
    BY <1>3
<1>7. QED
    BY <1>1, <1>3, <1>4, <1>5, <1>6

(* The server has taken a message: what the invariant says of the browsers *)
(* holds of what is left.                                                  *)
Taken(c) ==
    /\ up[c] # <<>> /\ up' = [up EXCEPT ![c] = Tail(@)]
    /\ UNCHANGED <<client, gone, shown, agreed>>

(* Dropping the head of a browser's queue keeps its part of the invariant. *)
LEMMA TakenRound ==
    ASSUME Inv, RoundInv, NEW c \in Clients, Taken(c)
    PROVE  /\ up'[c] = Tail(up[c]) /\ \A d \in Clients \ {c} : up'[d] = up[d]
           /\ \A d \in Clients : Away(d)' => Away(d)
           /\ \A d \in Clients :
                 /\ Has(up'[d], "join_room") =>
                       \A i \in DOMAIN up'[d] : up'[d][i].kind \in {"join_room", "disconnect"}
                 /\ Has(up'[d], "disconnect") => client'[d].socket # "joined"
           /\ \A d \in server.sockets :
                 PartOK(d, up'[d], down[d], client[d], server, agreed[d])
           /\ HistoryOK'
<1>1. /\ up \in [Clients -> Seq(Request)] /\ up[c] \in Seq(Request)
      /\ server.sockets \subseteq Clients
    BY DEF Inv, TypeInv, Room
<1>2. up'[c] = Tail(up[c]) /\ \A d \in Clients \ {c} : up'[d] = up[d]
    BY <1>1 DEF Taken
<1>3. /\ \A k : Has(Tail(up[c]), k) => Has(up[c], k)
      /\ \A i \in DOMAIN Tail(up[c]) : i + 1 \in DOMAIN up[c] /\ Tail(up[c])[i] = up[c][i + 1]
    BY <1>1, Shortened, TailFacts DEF Taken
<1>4. \A d \in Clients : \A k : Has(up'[d], k) => Has(up[d], k)
    BY <1>2, <1>3
<1>5. \A d \in Clients : Away(d)' => Away(d)
    BY <1>4 DEF Away, Taken
<1>6. ASSUME NEW d \in Clients
      PROVE  /\ Has(up'[d], "join_room") =>
                   \A i \in DOMAIN up'[d] : up'[d][i].kind \in {"join_room", "disconnect"}
             /\ Has(up'[d], "disconnect") => client'[d].socket # "joined"
  <2>1. /\ Has(up[d], "join_room") =>
              \A i \in DOMAIN up[d] : up[d][i].kind \in {"join_room", "disconnect"}
        /\ Has(up[d], "disconnect") => client[d].socket # "joined"
    BY DEF RoundInv, AwayOK
  <2>2. QED
    BY <1>2, <1>3, <1>4, <2>1 DEF Taken
<1>7. ASSUME NEW d \in server.sockets
      PROVE  PartOK(d, up'[d], down[d], client[d], server, agreed[d])
  <2>1. PartOK(d, up[d], down[d], client[d], server, agreed[d])
    BY DEF RoundInv, PartsOK
  <2>2. CASE d = c
    <3>1. PartOK(c, Tail(up[c]), down[c], client[c], server, agreed[c])
      BY <1>1, <2>1, <2>2, PartTail DEF Taken
    <3>2. QED
      BY <1>2, <2>2, <3>1
  <2>3. QED
    BY <1>1, <1>2, <2>1, <2>2
<1>8. HistoryOK'
    BY DEF RoundInv, HistoryOK, ShownOK, Taken
<1>9. QED
    BY <1>2, <1>5, <1>6, <1>7, <1>8

(* What is left to show when the room has changed                          *)
LEMMA RoundOfServer ==
    ASSUME Inv, RoundInv, NEW c \in Clients, Taken(c),
           SeatsOK', QuestionOK', PartsOK',
           server'.view.round <= MaxRounds, Playable(server'.view.board),
           server.view.round <= server'.view.round, server'.view.round \in Nat,
           \A d \in Clients : \A i \in DOMAIN down'[d] :
               \/ i \in DOMAIN down[d] /\ down'[d][i] = down[d][i]
               \/ down'[d][i].kind = "game_state" => down'[d][i].view = server'.view,
           \A d \in Clients : Away(d)' =>
               /\ d \notin server'.sockets
               /\ server'.seats["X"] # d /\ server'.seats["O"] = None
               /\ Fresh(server'.view.board, "O")
               /\ server'.view.round <= IF Away(Other(d))' THEN 0 ELSE 1
    PROVE  RoundInv'
<1>1. /\ \A d \in Clients : Away(d)' => Away(d)
      /\ \A d \in Clients :
            /\ Has(up'[d], "join_room") =>
                  \A i \in DOMAIN up'[d] : up'[d][i].kind \in {"join_room", "disconnect"}
            /\ Has(up'[d], "disconnect") => client'[d].socket # "joined"
      /\ HistoryOK'
    BY TakenRound
<1>2. \A d \in Clients : Away(d)' => Untouched(d)'
    BY <1>1 DEF RoundInv, AwayOK, Untouched, Taken
<1>3. AwayOK'
    BY <1>1, <1>2 DEF AwayOK
<1>4. ViewsOK'
  <2>1. ASSUME NEW d \in Clients
        PROVE  client[d].view.round <= server'.view.round
    <3>1. client[d].view.round \in Nat /\ client[d].view.round <= server.view.round
          /\ server.view.round \in Nat
      BY RoundForms
    <3>2. QED
      BY <3>1
  <2>2. ASSUME NEW d \in Clients, NEW i \in DOMAIN down'[d], down'[d][i].kind = "game_state"
        PROVE  down'[d][i].view.round <= server'.view.round /\ Playable(down'[d][i].view.board)
    <3>1. CASE i \in DOMAIN down[d] /\ down'[d][i] = down[d][i]
      <4>1. /\ down[d][i].view.round <= server.view.round
            /\ Playable(down[d][i].view.board)
        BY <2>2, <3>1 DEF RoundInv, ViewsOK
      <4>2. down[d] \in Seq(Message) /\ server.view.round \in Nat
        BY RoundForms
      <4>3. down[d][i] \in Message
        BY <3>1, <4>2
      <4>4. down[d][i].view.round \in Nat
        BY <2>2, <3>1, <4>3, MessageForms DEF View
      <4>5. QED
        BY <3>1, <4>1, <4>2, <4>4
    <3>2. CASE down'[d][i].view = server'.view
      BY <3>2
    <3>3. QED
      BY <2>2, <3>1, <3>2
  <2>3. QED
    BY <2>1, <2>2 DEF ViewsOK, Taken
<1>5. QED
    BY <1>1, <1>3, <1>4 DEF RoundInv

(* A message that changes nothing                                          *)
LEMMA NothingRound ==
    ASSUME Inv, RoundInv, NEW c \in Clients, Taken(c), UNCHANGED <<server, down>>
    PROVE  RoundInv'
<1>1. /\ \A d \in Clients : Away(d)' => Away(d)
      /\ \A d \in server.sockets :
            PartOK(d, up'[d], down[d], client[d], server, agreed[d])
    BY TakenRound
<1>2. SeatsOK' /\ QuestionOK'
    BY DEF RoundInv, SeatsOK, QuestionOK, Taken
<1>3. PartsOK'
    BY <1>1 DEF RoundInv, PartsOK, Taken
<1>4. /\ server.view.round <= MaxRounds /\ Playable(server.view.board)
      /\ server.view.round \in Nat
    BY DEF RoundInv, ViewsOK, Inv, TypeInv, Room, View
<1>5. ASSUME NEW d \in Clients, Away(d)'
      PROVE  /\ d \notin server.sockets
             /\ server.seats["X"] # d /\ server.seats["O"] = None
             /\ Fresh(server.view.board, "O")
             /\ server.view.round <= IF Away(Other(d))' THEN 0 ELSE 1
  <2>1. /\ d \notin server.sockets
        /\ server.seats["X"] # d /\ server.seats["O"] = None
        /\ Fresh(server.view.board, "O")
        /\ server.view.round <= IF Away(Other(d)) THEN 0 ELSE 1
    BY <1>1, <1>5 DEF RoundInv, AwayOK
  <2>2. Away(Other(d))' => Away(Other(d))
    BY <1>1, SlotsDiffer
  <2>3. QED
    BY <1>4, <2>1, <2>2
<1>6. QED
    BY <1>2, <1>3, <1>4, <1>5, RoundOfServer

(* MAKE_MOVE                                                               *)
LEMMA MoveRound ==
    ASSUME Inv, RoundInv, NEW c \in Clients, Taken(c), Head(up[c]).kind = "make_move",
           NEW e \in BoardEdges, MakeMove(c, e)
    PROVE  RoundInv'
<1>1. /\ server \in Room /\ down \in [Clients -> Seq(Message)]
      /\ server.sockets \subseteq Clients /\ up[c] \in Seq(Request)
      /\ server.view.round \in Nat
    BY DEF Inv, TypeInv, Room, View
<1>2. CASE UNCHANGED <<server, down>>
    BY <1>2, NothingRound
<1>3. ASSUME SlotOf(server, c) = server.view.board.turn, e \notin server.view.board.taken,
             NEW b \in AfterLine(server.view.board, e),
             server' = [server EXCEPT !.view.board = b],
             down' = Send(down, server'.sockets, GameState(server'))
      PROVE  RoundInv'
  <2>1. b \in Board /\ Playable(b)
    <3>1. b \in Board
      BY <1>1, AfterIsBoard DEF Room, View
    <3>2. Playable(b)
      BY DEF AfterLine, After
    <3>3. QED
      BY <3>1, <3>2
  <2>2. /\ server' \in Room
        /\ server'.sockets = server.sockets /\ server'.seats = server.seats
        /\ server'.rematch = server.rematch /\ server'.view.round = server.view.round
        /\ server'.view.board = b
    BY <1>1, <1>3, <2>1 DEF Room, View
  <2>3. ~Full(server.view.board) /\ server.rematch = None
    BY <1>3 DEF Full, RoundInv, QuestionOK
  <2>4. c \in server.sockets
    BY <1>1, <1>3, SlotsDiffer DEF Room, View, Board
  <2>5. \A d : SlotOf(server', d) = SlotOf(server, d)
    BY <2>2 DEF SlotOf
  <2>6. ASSUME NEW p, Fresh(server.view.board, p), p # server.view.board.turn
        PROVE  p \in Slots => Fresh(b, p)
    <3>1. CASE server.view.board = NewBoard
      <4>1. server.view.board.turn = "X" /\ b.turn = "O" /\ b \in AfterLine(NewBoard, e)
        <5>1. b \in AfterLine(NewBoard, e)
          BY <3>1, Zenon
        <5>2. b.turn = "O"
          BY <5>1, FirstLine
        <5>3. NewBoard.turn = "X"
          BY DEF NewBoard
        <5>4. QED
          BY <3>1, <5>1, <5>2, <5>3
      <4>2. QED
        BY <2>6, <4>1 DEF Fresh, Slots
    <3>2. QED
      BY <2>6, <3>1 DEF Fresh
  <2>7. GameState(server') \in Message
    BY <2>2, MessagesTyped
  <2>8. \A d \in Clients : down'[d] = IF d \in server.sockets
                                      THEN Append(down[d], GameState(server')) ELSE down[d]
    <3>1. down' = Send(down, server.sockets, GameState(server'))
      BY <1>3, <2>2, Zenon
    <3>2. QED
      BY <1>1, <2>7, <3>1, SendAppends
  <2>9. ASSUME NEW d \in server.sockets
        PROVE  PartOK(d, up'[d], down'[d], client[d], server', agreed[d])
    <3>1. /\ PartOK(d, up'[d], down[d], client[d], server, agreed[d])
          /\ PartOK(d, up[d], down[d], client[d], server, agreed[d])
      BY TakenRound DEF RoundInv, PartsOK
    <3>2. down[d] \in Seq(Message) /\ SlotOf(server, d) \in Slots /\ None \notin Slots
      BY <1>1, SlotsDiffer
    <3>3. Fresh(server.view.board, SlotOf(server, d)) =>
               \/ Fresh(server'.view.board, SlotOf(server, d))
               \/ ~Has(up'[d], "rematch_response")
                  /\ (client[d].socket = "joined" => ~Has(down[d], "rematch_started"))
      <4>1. CASE d = c
        <5>1. up'[c] = Tail(up[c]) /\ up[c] # <<>>
          BY TakenRound DEF Taken
        <5>2. ~Has(up[c], "rematch_response") /\ Has(up[c], "make_move")
          BY <1>1, <2>3, <3>1, <4>1, <5>1, TailFacts DEF PartOK, SentOK
        <5>3. ~Has(up'[c], "rematch_response")
          BY <1>1, <5>1, <5>2, TailFacts
        <5>4. client[c].socket = "joined" => ~Has(down[c], "rematch_started")
          BY <3>1, <4>1, <5>2 DEF PartOK, PageOK
        <5>5. QED
          BY <4>1, <5>3, <5>4
      <4>2. CASE d # c
        <5>1. SlotOf(server, d) # server.view.board.turn
          BY <1>3, <2>4, <4>2, SlotsDiffer
        <5>2. QED
          BY <2>2, <2>6, <3>2, <5>1
      <4>3. QED
        BY <4>1, <4>2
    <3> DEFINE u == up'[d]
               w == down[d]
               x == client[d]
               a == agreed[d]
               r == server
               s == server'
    <3>4. /\ PartOK(d, u, w, x, r, a) /\ w \in Seq(Message) /\ r \in Room /\ s \in Room
          /\ ~Full(r.view.board) /\ r.rematch = None /\ s.rematch = None
          /\ SlotOf(r, d) # None /\ SlotOf(s, d) = SlotOf(r, d)
          /\ s.view.round = r.view.round
          /\ Fresh(r.view.board, SlotOf(r, d)) =>
                  \/ Fresh(s.view.board, SlotOf(r, d))
                  \/ ~Has(u, "rematch_response")
                     /\ (x.socket = "joined" => ~Has(w, "rematch_started"))
      BY <1>1, <2>2, <2>3, <2>5, <3>1, <3>2, <3>3
    <3> HIDE DEF u, w, x, a, r, s
    <3>5. PartOK(d, u, Append(w, GameState(s)), x, s, a)
      BY <3>4, PartMove
    <3>6. QED
      BY <1>1, <2>8, <3>5 DEF u, w, x, a, s
  <2>10. SeatsOK' /\ QuestionOK'
    BY <2>2, <2>3, <2>5 DEF RoundInv, SeatsOK, QuestionOK
  <2>11. PartsOK'
    BY <2>2, <2>8, <2>9 DEF RoundInv, PartsOK, Taken
  <2>12. ASSUME NEW d \in Clients, Away(d)'
         PROVE  /\ d \notin server'.sockets
                /\ server'.seats["X"] # d /\ server'.seats["O"] = None
                /\ Fresh(server'.view.board, "O")
                /\ server'.view.round <= IF Away(Other(d))' THEN 0 ELSE 1
    <3>1. /\ d \notin server.sockets
          /\ server.seats["X"] # d /\ server.seats["O"] = None
          /\ Fresh(server.view.board, "O")
          /\ server.view.round <= IF Away(Other(d)) THEN 0 ELSE 1
      BY <2>12, TakenRound DEF RoundInv, AwayOK
    <3>2. Away(Other(d))' => Away(Other(d))
      BY TakenRound, SlotsDiffer
    <3>3. server.view.board.turn # "O"
      BY <1>3, <2>4, <3>1, SlotsDiffer
    <3>4. Fresh(b, "O")
      BY <2>6, <3>1, <3>3 DEF Slots
    <3>5. QED
      BY <1>1, <2>2, <3>1, <3>2, <3>4
  <2>13. \A d \in Clients : \A i \in DOMAIN down'[d] :
             \/ i \in DOMAIN down[d] /\ down'[d][i] = down[d][i]
             \/ down'[d][i].kind = "game_state" => down'[d][i].view = server'.view
    <3>1. ASSUME NEW d \in Clients, NEW i \in DOMAIN Append(down[d], GameState(server'))
          PROVE  \/ i \in DOMAIN down[d] /\ Append(down[d], GameState(server'))[i] = down[d][i]
                 \/ Append(down[d], GameState(server'))[i] = GameState(server')
      BY <1>1, <2>7, <3>1, Appended
    <3>2. GameState(server').view = server'.view
      BY DEF GameState
    <3>3. QED
      BY <2>8, <3>1, <3>2
  <2>14. server.view.round <= MaxRounds
    BY DEF RoundInv, ViewsOK
  <2>15. QED
    BY <1>1, <2>1, <2>2, <2>10, <2>11, <2>12, <2>13, <2>14, RoundOfServer
<1>4. QED
    BY <1>2, <1>3 DEF MakeMove

(* Nobody is yet to arrive once a board is full.                           *)
LEMMA AllThere ==
    ASSUME Inv, RoundInv, NEW c \in Clients, Taken(c), Full(server.view.board)
    PROVE  \A d \in Clients : ~Away(d)'
<1>1. ASSUME NEW d \in Clients, Away(d)'
      PROVE  FALSE
  <2>1. Away(d)
    BY <1>1, TakenRound
  <2>2. Fresh(server.view.board, "O")
    BY <2>1 DEF RoundInv, AwayOK
  <2>3. QED
    BY <2>2, FreshNotFull
<1>2. QED
    BY <1>1

(* A message appended is the only new one.                                 *)
LEMMA OnlyNew ==
    ASSUME NEW s \in Seq(Message), NEW m \in Message, NEW n \in Message
    PROVE  /\ \A i \in DOMAIN Append(s, m) :
                 \/ i \in DOMAIN s /\ Append(s, m)[i] = s[i]
                 \/ Append(s, m)[i] = m
           /\ \A i \in DOMAIN Append(Append(s, m), n) :
                 \/ i \in DOMAIN s /\ Append(Append(s, m), n)[i] = s[i]
                 \/ Append(Append(s, m), n)[i] \in {m, n}
<1> DEFINE x == Append(s, m)
           y == Append(x, n)
<1>1. /\ x \in Seq(Message)
      /\ \A i \in DOMAIN x : (i \in DOMAIN s /\ x[i] = s[i]) \/ x[i] = m
    BY Appended
<1> HIDE DEF x
<1>2. \A i \in DOMAIN y : (i \in DOMAIN x /\ y[i] = x[i]) \/ y[i] = n
    BY <1>1, Appended
<1> HIDE DEF y
<1>3. \A i \in DOMAIN y : (i \in DOMAIN s /\ y[i] = s[i]) \/ y[i] \in {m, n}
    BY <1>1, <1>2
<1>4. QED
    BY <1>1, <1>3 DEF x, y

(* REMATCH_REQUEST                                                         *)
LEMMA RequestRound ==
    ASSUME Inv, RoundInv, NEW c \in Clients, Taken(c),
           Head(up[c]).kind = "rematch_request", RematchRequest(c)
    PROVE  RoundInv'
<1>1. /\ server \in Room /\ down \in [Clients -> Seq(Message)]
      /\ server.sockets \subseteq Clients /\ up[c] \in Seq(Request)
      /\ server.view.round \in Nat /\ up[c] # <<>>
    BY DEF Inv, TypeInv, Room, View, Taken
<1>2. CASE UNCHANGED <<server, down>>
    BY <1>2, NothingRound
<1>3. ASSUME SlotOf(server, c) # None,
             server' = [server EXCEPT !.rematch = SlotOf(server, c)],
             down' = Send(Send(down, server.sockets, RematchPrompt(FALSE)),
                          server.sockets \ {c}, RematchPrompt(TRUE))
      PROVE  RoundInv'
  <2> DEFINE m == RematchPrompt(FALSE)
             n == RematchPrompt(TRUE)
             mid == Send(down, server.sockets, m)
  <2>1. c \in server.sockets /\ SlotOf(server, c) \in Slots
    BY <1>3, SlotsDiffer
  <2>2. /\ server' \in Room
        /\ server'.sockets = server.sockets /\ server'.seats = server.seats
        /\ server'.rematch = SlotOf(server, c) /\ server'.view = server.view
    BY <1>1, <1>3, <2>1 DEF Room
  <2>3. \A d : SlotOf(server', d) = SlotOf(server, d)
    BY <2>2 DEF SlotOf
  <2>4. m \in Message /\ n \in Message /\ m.kind = "rematch_prompt" /\ n.kind = "rematch_prompt"
    BY <1>1, MessagesTyped, Kinds
  <2>5. down' = Send(mid, server.sockets \ {c}, n)
    BY <1>3
  <2> HIDE DEF m, n
  <2>6. /\ mid \in [Clients -> Seq(Message)]
        /\ \A d \in Clients : mid[d] = IF d \in server.sockets THEN Append(down[d], m) ELSE down[d]
    BY <1>1, <2>4, SendAppends
  <2> HIDE DEF mid
  <2>7. \A d \in Clients : down'[d] = IF d \in server.sockets \ {c}
                                      THEN Append(mid[d], n) ELSE mid[d]
    BY <2>4, <2>5, <2>6, SendAppends
  <2>8. \A d \in Clients :
            \/ d \notin server.sockets /\ down'[d] = down[d]
            \/ down'[d] = Append(down[d], m)
            \/ down'[d] = Append(Append(down[d], m), n)
    BY <2>6, <2>7
  <2>9. /\ Full(server.view.board) /\ server.view.round \in agreed[c]
        /\ server.view.round < MaxRounds
        /\ ~Has(up'[c], "rematch_request") /\ ~Has(up'[c], "make_move")
        /\ client[c].socket = "joined" =>
              Waits(client[c], server) /\ client[c].endTimer # "set"
    <3>1. PartOK(c, up[c], down[c], client[c], server, agreed[c])
      BY <2>1 DEF RoundInv, PartsOK
    <3>2. Has(up[c], "rematch_request")
      BY <1>1, TailFacts
    <3>3. up'[c] = Tail(up[c])
      BY TakenRound
    <3>4. ~Has(up[c], "make_move") /\ ~Has(Tail(up[c]), "rematch_request")
      BY <1>1, <3>1, TailFacts DEF PartOK, SentOK
    <3>5. ~Has(Tail(up[c]), "make_move")
      BY <1>1, <3>4, TailFacts
    <3>6. Involved(c, up[c], server)
      BY <3>2 DEF Involved
    <3>7. QED
      BY <3>1, <3>2, <3>3, <3>4, <3>5, <3>6 DEF PartOK, SentOK, PageOK
  <2>10. ASSUME NEW d \in server.sockets
         PROVE  PartOK(d, up'[d], down'[d], client[d], server', agreed[d])
    <3>1. PartOK(d, up'[d], down[d], client[d], server, agreed[d])
      BY TakenRound
    <3>2. SlotOf(server, c) = SlotOf(server, d) => d = c
      BY <2>1, SlotsDiffer
    <3>3. \/ down'[d] = Append(down[d], m)
          \/ down'[d] = Append(Append(down[d], m), n)
      BY <1>1, <2>8
    <3> DEFINE u == up'[d]
               w == down[d]
               v == down'[d]
               x == client[d]
               a == agreed[d]
               r == server
               s == server'
    <3>4. /\ PartOK(d, u, w, x, r, a) /\ w \in Seq(Message) /\ r \in Room /\ s \in Room
          /\ Full(r.view.board) /\ s.view = r.view /\ SlotOf(s, d) = SlotOf(r, d)
          /\ s.rematch = SlotOf(r, d) =>
                 /\ ~Has(u, "rematch_request") /\ ~Has(u, "make_move")
                 /\ x.socket = "joined" => Waits(x, r) /\ x.endTimer # "set"
          /\ \/ v = Append(w, RematchPrompt(FALSE))
             \/ v = Append(Append(w, RematchPrompt(FALSE)), RematchPrompt(TRUE))
      BY <1>1, <2>2, <2>3, <2>9, <3>1, <3>2, <3>3 DEF m, n
    <3> HIDE DEF u, w, v, x, a, r, s
    <3>5. PartOK(d, u, v, x, s, a)
      BY <3>4, PartAsk
    <3>6. QED
      BY <3>5 DEF u, v, x, a, s
  <2>11. SeatsOK'
    BY <2>2, <2>3 DEF RoundInv, SeatsOK
  <2>12. QuestionOK'
    <3>1. ASSUME NEW d \in server.sockets, SlotOf(server, d) # SlotOf(server, c)
          PROVE  server.view.round \in agreed[Other(d)]
      <4>1. Other(d) = c
        BY <1>1, <3>1, SlotsDiffer
      <4>2. QED
        BY <2>9, <4>1
    <3>2. QED
      BY <2>2, <2>3, <2>9, <3>1 DEF QuestionOK, Taken
  <2>13. PartsOK'
    <3>1. ASSUME NEW d \in Clients \ server.sockets, client[d].socket = "joined"
          PROVE  ~Has(down'[d], "game_state") /\ ~Has(down'[d], "rematch_started")
      <4>1. down'[d] = down[d]
        BY <2>6, <2>7
      <4>2. QED
        BY <3>1, <4>1 DEF RoundInv, PartsOK
    <3>2. QED
      BY <2>2, <2>10, <3>1 DEF PartsOK, Taken
  <2>14. \A d \in Clients : \A i \in DOMAIN down'[d] :
             \/ i \in DOMAIN down[d] /\ down'[d][i] = down[d][i]
             \/ down'[d][i].kind = "game_state" => down'[d][i].view = server'.view
    <3>1. ASSUME NEW d \in Clients, NEW i \in DOMAIN down'[d]
          PROVE  \/ i \in DOMAIN down[d] /\ down'[d][i] = down[d][i]
                 \/ down'[d][i] \in {m, n}
      <4>1. down[d] \in Seq(Message)
        BY <1>1
      <4>2. CASE down'[d] = Append(down[d], m)
        BY <2>4, <3>1, <4>1, <4>2, OnlyNew
      <4>3. CASE down'[d] = Append(Append(down[d], m), n)
        BY <2>4, <3>1, <4>1, <4>3, OnlyNew
      <4>4. QED
        BY <2>8, <3>1, <4>2, <4>3
    <3>2. QED
      BY <2>4, <3>1
  <2>15. \A d \in Clients : ~Away(d)'
    BY <2>9, AllThere
  <2>16. server.view.round <= MaxRounds /\ Playable(server.view.board)
    BY DEF RoundInv, ViewsOK
  <2>17. QED
    BY <1>1, <2>2, <2>11, <2>12, <2>13, <2>14, <2>15, <2>16, RoundOfServer
<1>4. QED
    BY <1>2, <1>3 DEF RematchRequest

(* The first board is playable, and not full.                              *)
LEMMA NewBoardPlayable == Playable(NewBoard) /\ ~Full(NewBoard) /\ NewBoard \in Board
<1>1. /\ IsFiniteSet(BoardEdges) /\ BoardEdges # {} /\ Cardinality(BoardEdges) \in Nat
      /\ NumSquares \in 1..2 * Cardinality(BoardEdges)
    BY BoardAssumption, FS_CardinalityType
<1>2. NewBoard.taken = {} /\ Closed(NewBoard) = 0
    BY DEF NewBoard, Closed, Slots
<1>3. BoardEdges \ NewBoard.taken = BoardEdges
    BY <1>2
<1>4. NewBoard \in Board
    BY FirstViews
<1>5. QED
    BY <1>1, <1>2, <1>3, <1>4 DEF Playable, Full

(* Whoever answers with a question open has nothing on its way from the    *)
(* game that is over, nor has the other, who asked; and an answer that     *)
(* accepts speaks for both.                                                *)
LEMMA AnswerIsLast ==
    ASSUME Inv, RoundInv, NEW c \in Clients, Taken(c),
           Head(up[c]).kind = "rematch_response",
           SlotOf(server, c) # None, server.rematch \notin {None, SlotOf(server, c)}
    PROVE  /\ Full(server.view.board) /\ server.view.round < MaxRounds
           /\ Head(up[c]).accept => \A d \in Clients : server.view.round \in agreed[d]
           /\ \A d \in server.sockets :
                 /\ ~Has(up'[d], "rematch_request") /\ ~Has(up'[d], "make_move")
                 /\ client[d].socket = "joined" =>
                       Waits(client[d], server) /\ client[d].endTimer # "set"
<1>1. /\ server \in Room /\ up[c] \in Seq(Request) /\ up[c] # <<>>
      /\ server.sockets \subseteq Clients
    BY DEF Inv, TypeInv, Room, Taken
<1>2. c \in server.sockets /\ SlotOf(server, c) \in Slots
    BY SlotsDiffer
<1>3. server.rematch \in Slots
    BY <1>1 DEF Room
<1>4. /\ Full(server.view.board) /\ server.view.round < MaxRounds
      /\ server.view.round \in agreed[Other(c)]
    BY <1>2, <1>3 DEF RoundInv, QuestionOK
<1>5. \A d \in server.sockets : PartOK(d, up[d], down[d], client[d], server, agreed[d])
    BY DEF RoundInv, PartsOK
<1>6. Has(up[c], "rematch_response") /\ (Head(up[c]).accept => Accepts(up[c]))
    BY <1>1, TailFacts
<1>7. Head(up[c]).accept => server.view.round \in agreed[c]
    BY <1>2, <1>4, <1>5, <1>6 DEF PartOK, SentOK
<1>8. ASSUME NEW d \in server.sockets
      PROVE  /\ ~Has(up'[d], "rematch_request") /\ ~Has(up'[d], "make_move")
             /\ client[d].socket = "joined" =>
                   Waits(client[d], server) /\ client[d].endTimer # "set"
  <2>1. PartOK(d, up[d], down[d], client[d], server, agreed[d])
    BY <1>5
  <2>2. CASE d = c
    <3>1. ~Has(up[c], "rematch_request") /\ ~Has(up[c], "make_move")
      BY <1>1, <1>4, <2>1, <2>2, TailFacts DEF PartOK, SentOK
    <3>2. ~Has(Tail(up[c]), "rematch_request") /\ ~Has(Tail(up[c]), "make_move")
      BY <1>1, <3>1, TailFacts
    <3>3. Involved(c, up[c], server)
      BY <1>4, <1>6 DEF Involved
    <3>4. QED
      BY <2>1, <2>2, <3>2, <3>3, TakenRound DEF PartOK, PageOK
  <2>3. CASE d # c
    <3>1. SlotOf(server, d) \in Slots /\ SlotOf(server, d) # SlotOf(server, c)
      BY <1>2, <2>3, SlotsDiffer
    <3>2. server.rematch = SlotOf(server, d)
      BY <1>2, <1>3, <3>1 DEF Slots
    <3>3. ~Has(up[d], "rematch_request") /\ ~Has(up[d], "make_move")
      BY <2>1, <3>2 DEF PartOK, SentOK
    <3>4. Involved(d, up[d], server)
      BY <3>2 DEF Involved
    <3>5. up'[d] = up[d]
      BY <1>1, <2>3, TakenRound
    <3>6. QED
      BY <2>1, <3>3, <3>4, <3>5 DEF PartOK, PageOK
  <2>4. QED
    BY <2>2, <2>3
<1>9. \A d \in Clients : d = c \/ d = Other(c)
    BY DEF Clients, Other
<1>10. QED
    BY <1>4, <1>7, <1>8, <1>9

(* REMATCH_RESPONSE, accepted                                              *)
LEMMA AcceptRound ==
    ASSUME Inv, RoundInv, NEW c \in Clients, Taken(c),
           Head(up[c]).kind = "rematch_response", Head(up[c]).accept,
           SlotOf(server, c) # None, server.rematch \notin {None, SlotOf(server, c)},
           server' = ResetForRematch,
           down' = Send(Send(down, server.sockets, RematchStarted),
                        server.sockets, GameState(ResetForRematch))
    PROVE  RoundInv'
<1>1. /\ server \in Room /\ down \in [Clients -> Seq(Message)]
      /\ client \in [Clients -> Browser]
      /\ server.sockets \subseteq Clients /\ server.view.round \in Nat
    BY DEF Inv, TypeInv, Room, View
<1>2. /\ server'.sockets = server.sockets /\ server'.seats = server.seats
      /\ server'.rematch = None /\ server' \in Room
      /\ server'.view = [board |-> NewBoard, round |-> server.view.round + 1]
  <2>1. [board |-> NewBoard, round |-> server.view.round + 1] \in View
    BY <1>1, FirstViews DEF View
  <2>2. QED
    BY <1>1, <2>1 DEF Room, ResetForRematch
<1>3. \A d : SlotOf(server', d) = SlotOf(server, d)
    BY <1>2 DEF SlotOf
<1>4. server'.view.round = server.view.round + 1 /\ server'.view.board = NewBoard
    BY <1>2
<1> DEFINE m == RematchStarted
           n == GameState(server')
           mid == Send(down, server.sockets, m)
<1>5. /\ m \in Message /\ n \in Message /\ m.kind = "rematch_started"
      /\ n.view = server'.view
    BY <1>2, MessagesTyped, Kinds
<1>6. down' = Send(mid, server.sockets, n)
    OBVIOUS
<1> HIDE DEF m, n
<1>7. /\ mid \in [Clients -> Seq(Message)]
      /\ \A d \in Clients : mid[d] = IF d \in server.sockets THEN Append(down[d], m) ELSE down[d]
    BY <1>1, <1>5, SendAppends
<1> HIDE DEF mid
<1>8. \A d \in Clients : down'[d] = IF d \in server.sockets THEN Append(mid[d], n) ELSE mid[d]
    BY <1>5, <1>6, <1>7, SendAppends
<1>9. \A d \in Clients : down'[d] = IF d \in server.sockets
                                    THEN Append(Append(down[d], m), n) ELSE down[d]
    BY <1>7, <1>8
<1>10. /\ Full(server.view.board) /\ server.view.round < MaxRounds
       /\ \A d \in server.sockets :
             /\ ~Has(up'[d], "rematch_request") /\ ~Has(up'[d], "make_move")
             /\ client[d].socket = "joined" =>
                   Waits(client[d], server) /\ client[d].endTimer # "set"
    BY AnswerIsLast
<1>11. ASSUME NEW d \in server.sockets
       PROVE  PartOK(d, up'[d], down'[d], client[d], server', agreed[d])
  <2>1. /\ PartOK(d, up'[d], down[d], client[d], server, agreed[d])
        /\ SlotOf(server', d) # None
    BY <1>3, TakenRound, SlotsDiffer
  <2>2. down'[d] = Append(Append(down[d], m), n)
    BY <1>1, <1>9
  <2> DEFINE u == up'[d]
             w == down[d]
             v == down'[d]
             x == client[d]
             a == agreed[d]
             r == server
             s == server'
  <2>3. /\ PartOK(d, u, w, x, r, a) /\ w \in Seq(Message) /\ x \in Browser
        /\ r \in Room /\ s \in Room /\ Full(r.view.board)
        /\ s.view = [board |-> NewBoard, round |-> r.view.round + 1]
        /\ s.rematch = None /\ SlotOf(s, d) # None
        /\ ~Has(u, "rematch_request") /\ ~Has(u, "make_move")
        /\ x.socket = "joined" => Waits(x, r) /\ x.endTimer # "set"
        /\ v = Append(Append(w, RematchStarted), GameState(s))
    BY <1>1, <1>2, <1>10, <2>1, <2>2 DEF m, n
  <2> HIDE DEF u, w, v, x, a, r, s
  <2>4. PartOK(d, u, v, x, s, a)
    BY <2>3, PartRestart
  <2>5. QED
    BY <2>4 DEF u, v, x, a, s
<1>12. SeatsOK' /\ QuestionOK'
    BY <1>2, <1>3 DEF RoundInv, SeatsOK, QuestionOK
<1>13. PartsOK'
  <2>1. ASSUME NEW d \in Clients \ server.sockets, client[d].socket = "joined"
        PROVE  ~Has(down'[d], "game_state") /\ ~Has(down'[d], "rematch_started")
    <3>1. down'[d] = down[d]
      BY <1>9
    <3>2. QED
      BY <2>1, <3>1 DEF RoundInv, PartsOK
  <2>2. QED
    BY <1>2, <1>11, <2>1 DEF PartsOK, Taken
<1>14. \A d \in Clients : \A i \in DOMAIN down'[d] :
           \/ i \in DOMAIN down[d] /\ down'[d][i] = down[d][i]
           \/ down'[d][i].kind = "game_state" => down'[d][i].view = server'.view
  <2>1. ASSUME NEW d \in Clients, NEW i \in DOMAIN down'[d]
        PROVE  \/ i \in DOMAIN down[d] /\ down'[d][i] = down[d][i]
               \/ down'[d][i] \in {m, n}
    <3>1. down[d] \in Seq(Message)
      BY <1>1
    <3>2. CASE down'[d] = down[d]
      BY <2>1, <3>2
    <3>3. CASE down'[d] = Append(Append(down[d], m), n)
      BY <1>5, <2>1, <3>1, <3>3, OnlyNew
    <3>4. QED
      BY <1>9, <3>2, <3>3
  <2>2. QED
    BY <1>5, <2>1
<1>15. \A d \in Clients : ~Away(d)'
    BY <1>10, AllThere
<1>16. /\ server'.view.round <= MaxRounds /\ Playable(server'.view.board)
       /\ server.view.round <= server'.view.round /\ server'.view.round \in Nat
    BY <1>1, <1>4, <1>10, OnlineAssumption, NewBoardPlayable
<1>17. QED
    BY <1>12, <1>13, <1>14, <1>15, <1>16, RoundOfServer

(* REMATCH_RESPONSE, declined                                              *)
LEMMA DeclineRound ==
    ASSUME Inv, RoundInv, NEW c \in Clients, Taken(c),
           Head(up[c]).kind = "rematch_response",
           SlotOf(server, c) # None, server.rematch \notin {None, SlotOf(server, c)},
           server' = RoomAfterDecline,
           down' = Send(down, server.sockets, RematchDeclined)
    PROVE  RoundInv'
<1>1. /\ server \in Room /\ down \in [Clients -> Seq(Message)]
      /\ server.sockets \subseteq Clients /\ server.view.round \in Nat
    BY DEF Inv, TypeInv, Room, View
<1>2. /\ server'.sockets = {} /\ server'.rematch = None /\ server'.view = server.view
      /\ server'.seats = [p \in Slots |-> IF server.seats[p] \in server.sockets THEN None
                                          ELSE server.seats[p]]
    BY <1>1 DEF Room, RoomAfterDecline
<1>3. RematchDeclined \in Message /\ RematchDeclined.kind = "rematch_declined"
    BY <1>1, MessagesTyped, Kinds
<1>4. \A d \in Clients : down'[d] = IF d \in server.sockets
                                    THEN Append(down[d], RematchDeclined) ELSE down[d]
    BY <1>1, <1>3, SendAppends
<1>5. c \in server.sockets /\ SlotOf(server, c) \in Slots /\ server.rematch \in Slots
    BY <1>1, SlotsDiffer DEF Room
<1>6. Full(server.view.board)
    BY <1>5 DEF RoundInv, QuestionOK
<1>7. SeatsOK'
    BY <1>2 DEF RoundInv, SeatsOK, Slots
<1>8. QuestionOK'
    BY <1>2 DEF QuestionOK
<1>9. ASSUME NEW d \in server.sockets, client[d].socket = "joined"
      PROVE  ~Has(down[d], "game_state") /\ ~Has(down[d], "rematch_started")
  <2>1. Waits(client[d], server)
    BY <1>9, AnswerIsLast
  <2>2. PageOK(d, client[d], up[d], down[d], server)
    BY <1>9 DEF RoundInv, PartsOK, PartOK
  <2>3. QED
    BY <2>1, <2>2 DEF Waits, PageOK
<1>10. ASSUME NEW d \in Clients, client[d].socket = "joined"
       PROVE  ~Has(down'[d], "game_state") /\ ~Has(down'[d], "rematch_started")
  <2>1. down[d] \in Seq(Message)
    BY <1>1
  <2>2. ~Has(down[d], "game_state") /\ ~Has(down[d], "rematch_started")
    BY <1>9, <1>10 DEF RoundInv, PartsOK
  <2> DEFINE m == RematchDeclined
  <2>3. m \in Message /\ m.kind = "rematch_declined"
    BY <1>3
  <2> HIDE DEF m
  <2>4. ~Has(Append(down[d], m), "game_state") /\ ~Has(Append(down[d], m), "rematch_started")
    BY <2>1, <2>2, <2>3, AppendFacts
  <2>5. QED
    BY <1>4, <2>2, <2>4 DEF m
<1>11. PartsOK'
    BY <1>2, <1>10 DEF PartsOK, Taken
<1>12. \A d \in Clients : \A i \in DOMAIN down'[d] :
           \/ i \in DOMAIN down[d] /\ down'[d][i] = down[d][i]
           \/ down'[d][i].kind = "game_state" => down'[d][i].view = server'.view
  <2>1. ASSUME NEW d \in Clients, NEW i \in DOMAIN down'[d]
        PROVE  \/ i \in DOMAIN down[d] /\ down'[d][i] = down[d][i]
               \/ down'[d][i] = RematchDeclined
    <3>1. down[d] \in Seq(Message)
      BY <1>1
    <3>2. CASE down'[d] = down[d]
      BY <2>1, <3>2
    <3>3. CASE down'[d] = Append(down[d], RematchDeclined)
      BY <1>3, <2>1, <3>1, <3>3, OnlyNew
    <3>4. QED
      BY <1>4, <3>2, <3>3
  <2>2. QED
    BY <1>3, <2>1
<1>13. \A d \in Clients : ~Away(d)'
    BY <1>6, AllThere
<1>14. server.view.round <= MaxRounds /\ Playable(server.view.board)
    BY DEF RoundInv, ViewsOK
<1>15. QED
    BY <1>1, <1>2, <1>7, <1>8, <1>11, <1>12, <1>13, <1>14, RoundOfServer

(* REMATCH_RESPONSE                                                        *)
LEMMA ResponseRound ==
    ASSUME Inv, RoundInv, NEW c \in Clients, Taken(c),
           Head(up[c]).kind = "rematch_response", RematchResponse(c, Head(up[c]).accept)
    PROVE  RoundInv'
<1>1. CASE UNCHANGED <<server, down>>
    BY <1>1, NothingRound
<1>2. CASE /\ SlotOf(server, c) # None /\ server.rematch \notin {None, SlotOf(server, c)}
           /\ Head(up[c]).accept /\ server' = ResetForRematch
           /\ down' = Send(Send(down, server.sockets, RematchStarted),
                           server.sockets, GameState(ResetForRematch))
    BY <1>2, AcceptRound
<1>3. CASE /\ SlotOf(server, c) # None /\ server.rematch \notin {None, SlotOf(server, c)}
           /\ server' = RoomAfterDecline
           /\ down' = Send(down, server.sockets, RematchDeclined)
    BY <1>3, DeclineRound
<1>4. QED
    BY <1>1, <1>2, <1>3 DEF RematchResponse

(* Who comes into the room for the first time: it gets the slot X or, if   *)
(* that is taken, O, and no question is open.                              *)
LEMMA EnteredRound ==
    ASSUME Inv, RoundInv, NEW c \in Clients, Away(c)
    PROVE  /\ Entered(c).rematch = None /\ server.rematch = None /\ ~Full(server.view.board)
           /\ \/ server.open /\ Entered(c).view = server.view
              \/ /\ ~server.open /\ server.sockets = {}
                 /\ Entered(c).view = [board |-> NewBoard, round |-> server.view.round + 1]
           /\ \/ Entered(c).seats["X"] = c /\ Entered(c).seats["O"] = None
              \/ /\ server.open /\ server.seats["X"] # None
                 /\ Entered(c).seats["X"] = server.seats["X"] /\ Entered(c).seats["O"] = c
<1>1. /\ server \in Room /\ server.sockets \subseteq Clients /\ None \notin Clients
      /\ server.view.round \in Nat
    BY OnlineAssumption DEF Inv, TypeInv, Room, View, Clients
<1>2. /\ server.seats["X"] # c /\ server.seats["O"] = None
      /\ Fresh(server.view.board, "O") /\ c \notin server.sockets
    BY DEF RoundInv, AwayOK
<1>3. ~Full(server.view.board)
    BY <1>2, FreshNotFull
<1>4. server.rematch = None
    BY <1>3 DEF RoundInv, QuestionOK
<1> DEFINE room == IF server.open THEN server
                   ELSE [NewRoom EXCEPT !.open = TRUE,
                                        !.view.round = server.view.round + 1]
           free == {p \in Slots : room.seats[p] = None}
           seat == IF "X" \in free THEN "X" ELSE "O"
<1>5. /\ room \in Room /\ room.rematch = None /\ room.seats["O"] = None
      /\ \/ server.open /\ room.view = server.view /\ room.seats = server.seats
         \/ /\ ~server.open /\ server.sockets = {} /\ room.seats["X"] = None
            /\ room.view = [board |-> NewBoard, round |-> server.view.round + 1]
  <2>1. CASE server.open
    BY <1>1, <1>2, <1>4, <2>1
  <2>2. CASE ~server.open
    <3>1. server.sockets = {}
      BY <2>2 DEF Inv, OpenInv
    <3>2. [NewRoom.view EXCEPT !.round = server.view.round + 1]
             = [board |-> NewBoard, round |-> server.view.round + 1]
      BY DEF NewRoom, Blank
    <3>3. [board |-> NewBoard, round |-> server.view.round + 1] \in View
      BY <1>1, FirstViews DEF View
    <3>4. room = [NewRoom EXCEPT !.open = TRUE,
                     !.view = [board |-> NewBoard, round |-> server.view.round + 1]]
      BY <2>2, <3>2
    <3>5. /\ room \in Room /\ room.rematch = None /\ room.seats = [p \in Slots |-> None]
          /\ room.view = [board |-> NewBoard, round |-> server.view.round + 1]
      BY <3>3, <3>4, FirstViews DEF Room, NewRoom
    <3>6. QED
      BY <2>2, <3>1, <3>5 DEF Slots
  <2>3. QED
    BY <2>1, <2>2
<1>6. Entered(c) = [room EXCEPT
          !.sockets = @ \union {c},
          !.seats = IF free = {} THEN @ ELSE [@ EXCEPT ![seat] = c],
          !.rematch = IF Cardinality(free) < 2 THEN None ELSE @]
    BY DEF Entered
<1> HIDE DEF room
<1>7. "O" \in free /\ free # {}
    BY <1>5 DEF Slots
<1>8. "X" \in free <=> room.seats["X"] = None
    BY DEF Slots
<1> HIDE DEF free
<1>9. /\ Entered(c).view = room.view
      /\ Entered(c).seats = [room.seats EXCEPT ![seat] = c]
      /\ Entered(c).rematch = None
    BY <1>5, <1>6, <1>7 DEF Room
<1>10. /\ room.seats["X"] = None => Entered(c).seats["X"] = c /\ Entered(c).seats["O"] = None
       /\ room.seats["X"] # None =>
             Entered(c).seats["X"] = room.seats["X"] /\ Entered(c).seats["O"] = c
    BY <1>5, <1>8, <1>9 DEF Room, Slots
<1>11. QED
    BY <1>3, <1>4, <1>5, <1>9, <1>10

(* JOIN_ROOM                                                               *)
LEMMA JoinRound ==
    ASSUME Inv, RoundInv, NEW c \in Clients, Taken(c), Head(up[c]).kind = "join_room", Join(c)
    PROVE  RoundInv'
<1>1. /\ server \in Room /\ down \in [Clients -> Seq(Message)]
      /\ client \in [Clients -> Browser] /\ up[c] \in Seq(Request) /\ up[c] # <<>>
      /\ server.sockets \subseteq Clients /\ None \notin Clients
      /\ server.view.round \in Nat
    BY OnlineAssumption DEF Inv, TypeInv, Room, View, Clients, Taken
<1>2. 1 \in DOMAIN up[c] /\ up[c][1].kind = "join_room"
    BY <1>1, Shortened
<1>3. down[c] = <<>> /\ c \notin server.sockets
    BY <1>2 DEF Inv, JoinInv
<1>4. Has(up[c], "join_room")
    BY <1>2 DEF Has
<1>5. Away(c)
    BY <1>4 DEF Away
<1>6. \A i \in DOMAIN up'[c] : up'[c][i].kind = "disconnect"
  <2>1. ASSUME NEW i \in DOMAIN Tail(up[c])
        PROVE  Tail(up[c])[i].kind = "disconnect"
    <3>1. i + 1 \in DOMAIN up[c] /\ Tail(up[c])[i] = up[c][i + 1] /\ i + 1 # 1
      BY <1>1, Shortened
    <3>2. up[c][i + 1].kind # "join_room"
      BY <3>1 DEF Inv, JoinInv
    <3>3. up[c][i + 1].kind \in {"join_room", "disconnect"}
      BY <1>4, <3>1 DEF RoundInv, AwayOK
    <3>4. QED
      BY <3>1, <3>2, <3>3
  <2>2. QED
    BY <2>1, TakenRound
<1>7. ~Away(c)'
  <2>1. ~Has(up'[c], "join_room")
    BY <1>6 DEF Has
  <2>2. client[c].socket # "dialing" /\ ~(client[c].socket = "none" /\ c \notin gone)
    BY <1>1 DEF Inv, FreshInv
  <2>3. QED
    BY <2>1, <2>2 DEF Away, Taken
<1>8. server' = Entered(c) /\ server' \in Room
    BY EnteredTyped DEF Join, Inv
<1>9. /\ server'.sockets = server.sockets \union {c} /\ server'.open
      /\ \A d \in server.sockets, p \in Slots : server'.seats[p] = d <=> server.seats[p] = d
    BY <1>3, <1>8, EnteredRoom
<1>10. /\ server'.rematch = None /\ server.rematch = None /\ ~Full(server.view.board)
       /\ \/ server.open /\ server'.view = server.view
          \/ /\ ~server.open /\ server.sockets = {}
             /\ server'.view = [board |-> NewBoard, round |-> server.view.round + 1]
       /\ \/ server'.seats["X"] = c /\ server'.seats["O"] = None
          \/ /\ server.open /\ server.seats["X"] # None
             /\ server'.seats["X"] = server.seats["X"] /\ server'.seats["O"] = c
    BY <1>5, <1>8, EnteredRound
<1>11. \A d \in server.sockets : SlotOf(server', d) = SlotOf(server, d)
    BY <1>9 DEF SlotOf, Slots
<1>12. /\ Untouched(c) /\ server.seats["X"] # c
       /\ Fresh(server.view.board, "O") /\ server.view.round <= 1
       /\ \A d \in Clients \ {c} : Away(d) => server.view.round = 0
  <2>1. /\ Untouched(c) /\ server.seats["X"] # c /\ Fresh(server.view.board, "O")
        /\ server.view.round <= IF Away(Other(c)) THEN 0 ELSE 1
    BY <1>5 DEF RoundInv, AwayOK
  <2>2. \A d \in Clients \ {c} : Other(c) = d
    BY SlotsDiffer
  <2>3. QED
    BY <1>1, <2>1, <2>2
<1>13. SlotOf(server', c) \in Slots
    BY <1>1, <1>9, <1>10, <1>12 DEF SlotOf, Slots
<1>14. SeatsOK'
  <2>1. server'.seats["X"] # None => server'.seats["X"] # server'.seats["O"]
    BY <1>1, <1>10, <1>12
  <2>2. ASSUME NEW d \in server'.sockets
        PROVE  SlotOf(server', d) # None
    BY <1>9, <1>11, <1>13, <2>2, SlotsDiffer
  <2>3. QED
    BY <2>1, <2>2 DEF SeatsOK
<1>15. QuestionOK'
    BY <1>10 DEF QuestionOK
<1>16. /\ server'.view.round \in Nat /\ server.view.round <= server'.view.round
       /\ server'.view.round <= server.view.round + 1
       /\ server'.view.round <= MaxRounds
       /\ Playable(server'.view.board) /\ ~Full(server'.view.board)
       /\ Fresh(server'.view.board, "O")
  <2>1. CASE server.open /\ server'.view = server.view
    BY <1>1, <1>10, <1>12, <2>1 DEF RoundInv, ViewsOK
  <2>2. CASE server'.view = [board |-> NewBoard, round |-> server.view.round + 1]
    <3>1. server'.view.round = server.view.round + 1 /\ server'.view.board = NewBoard
      BY <2>2
    <3>2. MaxRounds \in Nat /\ MaxRounds >= 2
      BY OnlineAssumption
    <3>3. Fresh(NewBoard, "O")
      BY DEF Fresh
    <3>4. QED
      BY <1>1, <1>12, <3>1, <3>2, <3>3, NewBoardPlayable
  <2>3. QED
    BY <1>10, <2>1, <2>2
<1>17. ASSUME NEW d \in Clients, Away(d)'
       PROVE  /\ d \notin server'.sockets
              /\ server'.seats["X"] # d /\ server'.seats["O"] = None
              /\ Fresh(server'.view.board, "O")
              /\ server'.view.round <= IF Away(Other(d))' THEN 0 ELSE 1
  <2>1. d # c /\ Away(d)
    BY <1>7, <1>17, TakenRound
  <2>2. d \notin server.sockets /\ server.seats["X"] # d
    BY <2>1 DEF RoundInv, AwayOK
  <2>3. server.seats["X"] \in {c, d, None}
    BY <1>1, <2>1 DEF Room, Slots, Clients
  <2>4. server'.seats["X"] = c /\ server'.seats["O"] = None
    BY <1>10, <1>12, <2>2, <2>3
  <2>5. Other(d) = c
    BY <2>1, SlotsDiffer
  <2>6. ~Away(Other(d))'
    BY <1>7, <2>5
  <2>7. server'.view.round <= 1
    BY <1>12, <1>16, <2>1
  <2>8. QED
    BY <1>9, <1>16, <2>1, <2>2, <2>4, <2>6, <2>7
<1> DEFINE info == RoomInfo(server', SlotOf(server', c))
           state == GameState(server')
           joined == PlayerJoined(server')
           first == Send(down, {c}, info)
           second == Send(first, server'.sockets, state)
<1>18. info \in Message /\ state \in Message /\ joined \in Message
    BY <1>8, <1>13, MessagesTyped
<1>19. /\ info.kind = "room_info" /\ joined.kind = "player_joined"
       /\ state.view = server'.view
    BY Kinds
<1>20. down' = Send(second, server'.sockets \ {c}, joined)
    BY DEF Join
<1> HIDE DEF info, state, joined
<1>21. /\ first \in [Clients -> Seq(Message)]
       /\ \A d \in Clients : first[d] = IF d \in {c} THEN Append(down[d], info) ELSE down[d]
    BY <1>1, <1>18, SendAppends
<1> HIDE DEF first
<1>22. /\ second \in [Clients -> Seq(Message)]
       /\ \A d \in Clients : second[d] = IF d \in server'.sockets
                                         THEN Append(first[d], state) ELSE first[d]
    BY <1>18, <1>21, SendAppends
<1> HIDE DEF second
<1>23. \A d \in Clients : down'[d] = IF d \in server'.sockets \ {c}
                                     THEN Append(second[d], joined) ELSE second[d]
    BY <1>18, <1>20, <1>22, SendAppends
<1>24. /\ down'[c] = Append(Append(<<>>, info), state)
       /\ \A d \in server.sockets : down'[d] = Append(Append(down[d], state), joined)
       /\ \A d \in Clients \ server'.sockets : down'[d] = down[d]
  <2>0. server'.sockets = server.sockets \union {c}
    BY <1>9
  <2>1. down'[c] = Append(Append(<<>>, info), state)
    <3>1. first[c] = Append(<<>>, info)
      BY <1>3, <1>21
    <3>2. second[c] = Append(first[c], state)
      BY <1>22, <2>0
    <3>3. down'[c] = second[c]
      BY <1>23
    <3>4. QED
      BY <3>1, <3>2, <3>3
  <2>2. ASSUME NEW d \in server.sockets
        PROVE  down'[d] = Append(Append(down[d], state), joined)
    <3>1. d \in Clients /\ d # c /\ d \in server'.sockets
      BY <1>1, <1>3, <2>0
    <3>2. first[d] = down[d]
      BY <1>21, <3>1
    <3>3. second[d] = Append(first[d], state)
      BY <1>22, <3>1
    <3>4. down'[d] = Append(second[d], joined)
      BY <1>23, <3>1
    <3>5. QED
      BY <3>2, <3>3, <3>4
  <2>3. \A d \in Clients \ server'.sockets : down'[d] = down[d]
    BY <1>9, <1>21, <1>22, <1>23
  <2>4. QED
    BY <2>1, <2>2, <2>3
<1>25. PartOK(c, up'[c], down'[c], client[c], server', agreed[c])
  <2> DEFINE u == up'[c]
             x == client[c]
             a == agreed[c]
             s == server'
             p == SlotOf(s, c)
  <2>1. /\ x \in Browser /\ s \in Room /\ p \in Slots \union {None} /\ p # None
        /\ \A i \in DOMAIN u : u[i].kind = "disconnect"
        /\ ~Full(s.view.board) /\ s.rematch = None
        /\ x.view = Blank /\ x.endTimer = "off" /\ x.modal = "none" /\ ~x.pending /\ ~x.asked
    BY <1>1, <1>6, <1>8, <1>10, <1>12, <1>13, <1>16, SlotsDiffer DEF Untouched
  <2>2. down'[c] = Append(Append(<<>>, RoomInfo(s, p)), GameState(s))
    BY <1>24 DEF info, state
  <2>3. p = SlotOf(s, c)
    OBVIOUS
  <2> HIDE DEF u, x, a, s, p
  <2>4. PartOK(c, u, Append(Append(<<>>, RoomInfo(s, p)), GameState(s)), x, s, a)
    BY <2>1, <2>3, PartNew
  <2>5. QED
    BY <2>2, <2>4 DEF u, x, a, s
<1>26. ASSUME NEW d \in server.sockets
       PROVE  PartOK(d, up'[d], down'[d], client[d], server', agreed[d])
  <2>1. /\ PartOK(d, up'[d], down[d], client[d], server, agreed[d])
        /\ SlotOf(server, d) # None
    BY TakenRound, SlotsDiffer
  <2>2. server'.view = server.view
    BY <1>10
  <2> DEFINE u == up'[d]
             w == down[d]
             x == client[d]
             a == agreed[d]
             r == server
             s == server'
  <2>3. /\ PartOK(d, u, w, x, r, a) /\ w \in Seq(Message) /\ r \in Room /\ s \in Room
        /\ ~Full(r.view.board) /\ r.rematch = None /\ s.rematch = None /\ s.view = r.view
        /\ SlotOf(r, d) # None /\ SlotOf(s, d) = SlotOf(r, d)
    BY <1>1, <1>8, <1>10, <1>11, <2>1, <2>2
  <2>4. down'[d] = Append(Append(w, GameState(s)), PlayerJoined(s))
    BY <1>24 DEF state, joined
  <2> HIDE DEF u, w, x, a, r, s
  <2>5. PartOK(d, u, Append(Append(w, GameState(s)), PlayerJoined(s)), x, s, a)
    BY <2>3, PartJoined
  <2>6. QED
    BY <2>4, <2>5 DEF u, x, a, s
<1>27. PartsOK'
  <2>1. ASSUME NEW d \in Clients \ server'.sockets, client[d].socket = "joined"
        PROVE  ~Has(down'[d], "game_state") /\ ~Has(down'[d], "rematch_started")
    <3>1. down'[d] = down[d] /\ d \notin server.sockets
      BY <1>9, <1>24
    <3>2. QED
      BY <2>1, <3>1 DEF RoundInv, PartsOK
  <2>2. \A d \in server'.sockets : PartOK(d, up'[d], down'[d], client[d], server', agreed[d])
    BY <1>9, <1>25, <1>26
  <2>3. QED
    BY <2>1, <2>2 DEF PartsOK, Taken
<1>28. \A d \in Clients : \A i \in DOMAIN down'[d] :
           \/ i \in DOMAIN down[d] /\ down'[d][i] = down[d][i]
           \/ down'[d][i].kind = "game_state" => down'[d][i].view = server'.view
  <2>1. ASSUME NEW d \in Clients, NEW i \in DOMAIN down'[d]
        PROVE  \/ i \in DOMAIN down[d] /\ down'[d][i] = down[d][i]
               \/ down'[d][i] \in {info, state, joined}
    <3>1. down[d] \in Seq(Message)
      BY <1>1
    <3>2. CASE down'[d] = down[d]
      BY <2>1, <3>2
    <3>3. CASE down'[d] = Append(Append(down[d], info), state)
      BY <1>18, <2>1, <3>1, <3>3, OnlyNew
    <3>4. CASE down'[d] = Append(Append(down[d], state), joined)
      BY <1>18, <2>1, <3>1, <3>4, OnlyNew
    <3>5. d = c \/ d \in server.sockets \/ d \in Clients \ server'.sockets
      BY <1>9
    <3>6. QED
      BY <1>3, <1>24, <3>2, <3>3, <3>4, <3>5
  <2>2. QED
    BY <1>19, <2>1
<1>29. QED
    BY <1>14, <1>15, <1>16, <1>17, <1>27, <1>28, RoundOfServer

(* The server learns that a browser is gone.                               *)
LEMMA DisconnectRound ==
    ASSUME Inv, RoundInv, NEW c \in Clients, Taken(c),
           Head(up[c]).kind = "disconnect", Disconnect(c)
    PROVE  RoundInv'
<1>1. /\ server \in Room /\ down \in [Clients -> Seq(Message)]
      /\ up[c] \in Seq(Request) /\ up[c] # <<>>
      /\ server.sockets \subseteq Clients /\ server.view.round \in Nat
    BY DEF Inv, TypeInv, Room, View, Taken
<1>2. client[c].socket # "joined"
  <2>1. Has(up[c], "disconnect")
    BY <1>1, TailFacts
  <2>2. QED
    BY <2>1 DEF RoundInv, AwayOK
<1> DEFINE left == IF c \in server.sockets THEN server'.sockets ELSE {}
           m == RoomInfo(server', None)
<1>3. /\ server' = [server EXCEPT !.sockets = @ \ {c}]
      /\ down' = Send(down, left, m)
    BY DEF Disconnect
<1>4. /\ server'.sockets = server.sockets \ {c} /\ server'.seats = server.seats
      /\ server'.view = server.view /\ server'.rematch = server.rematch /\ server' \in Room
    BY <1>1, <1>3 DEF Room
<1>5. m \in Message /\ m.kind = "room_info"
  <2>1. m \in Message
    BY <1>4, MessagesTyped
  <2>2. m.kind = "room_info"
    BY Kinds
  <2>3. QED
    BY <2>1, <2>2
<1> HIDE DEF m
<1>6. left \subseteq server'.sockets
    OBVIOUS
<1> HIDE DEF left
<1>7. \A d \in Clients : down'[d] = IF d \in left THEN Append(down[d], m) ELSE down[d]
  <2>1. down' = Send(down, left, m)
    BY <1>3
  <2>2. QED
    BY <1>1, <1>5, <2>1, SendAppends
<1>8. \A d \in server'.sockets : SlotOf(server', d) = SlotOf(server, d)
    BY <1>4 DEF SlotOf
<1>9. ASSUME NEW d \in server'.sockets
      PROVE  PartOK(d, up'[d], down'[d], client[d], server', agreed[d])
  <2>1. /\ PartOK(d, up'[d], down[d], client[d], server, agreed[d])
        /\ d \in Clients /\ down[d] \in Seq(Message)
    BY <1>1, <1>4, TakenRound
  <2> DEFINE u == up'[d]
             w == down[d]
             x == client[d]
             a == agreed[d]
             r == server
             s == server'
  <2>2. /\ PartOK(d, u, w, x, r, a) /\ w \in Seq(Message)
        /\ s.view = r.view /\ s.rematch = r.rematch /\ SlotOf(s, d) = SlotOf(r, d)
    BY <1>4, <1>8, <2>1
  <2>3. down'[d] = w \/ down'[d] = Append(w, m)
    BY <1>7, <2>1
  <2> HIDE DEF u, w, x, a, r, s
  <2>4. PartOK(d, u, w, x, s, a)
    BY <2>2, PartSame
  <2>5. PartOK(d, u, Append(w, m), x, s, a)
    BY <1>5, <2>2, <2>4, PartOther
  <2>6. PartOK(d, u, down'[d], x, s, a)
    BY <2>3, <2>4, <2>5
  <2>7. QED
    BY <2>6 DEF u, x, a, s
<1>10. PartsOK'
  <2>1. ASSUME NEW d \in Clients \ server'.sockets, client[d].socket = "joined"
        PROVE  ~Has(down'[d], "game_state") /\ ~Has(down'[d], "rematch_started")
    <3>1. d \notin server.sockets /\ down'[d] = down[d]
      BY <1>2, <1>4, <1>6, <1>7, <2>1
    <3>2. QED
      BY <2>1, <3>1 DEF RoundInv, PartsOK
  <2>2. QED
    BY <1>9, <2>1 DEF PartsOK, Taken
<1>11. SeatsOK'
    BY <1>4, <1>8 DEF RoundInv, SeatsOK
<1>12. QuestionOK'
    BY <1>4, <1>8 DEF RoundInv, QuestionOK, Taken
<1>13. \A d \in Clients : \A i \in DOMAIN down'[d] :
           \/ i \in DOMAIN down[d] /\ down'[d][i] = down[d][i]
           \/ down'[d][i].kind = "game_state" => down'[d][i].view = server'.view
  <2>1. ASSUME NEW d \in Clients, NEW i \in DOMAIN down'[d]
        PROVE  \/ i \in DOMAIN down[d] /\ down'[d][i] = down[d][i]
               \/ down'[d][i] = m
    <3>1. down[d] \in Seq(Message)
      BY <1>1
    <3>2. CASE down'[d] = down[d]
      BY <2>1, <3>2
    <3>3. CASE down'[d] = Append(down[d], m)
      BY <1>5, <2>1, <3>1, <3>3, OnlyNew
    <3>4. QED
      BY <1>7, <3>2, <3>3
  <2>2. QED
    BY <1>5, <2>1
<1>14. ASSUME NEW d \in Clients, Away(d)'
       PROVE  /\ d \notin server'.sockets
              /\ server'.seats["X"] # d /\ server'.seats["O"] = None
              /\ Fresh(server'.view.board, "O")
              /\ server'.view.round <= IF Away(Other(d))' THEN 0 ELSE 1
  <2>1. /\ d \notin server.sockets
        /\ server.seats["X"] # d /\ server.seats["O"] = None
        /\ Fresh(server.view.board, "O")
        /\ server.view.round <= IF Away(Other(d)) THEN 0 ELSE 1
    BY <1>14, TakenRound DEF RoundInv, AwayOK
  <2>2. Away(Other(d))' => Away(Other(d))
    BY TakenRound, SlotsDiffer
  <2>3. QED
    BY <1>1, <1>4, <2>1, <2>2
<1>15. server.view.round <= MaxRounds /\ Playable(server.view.board)
    BY DEF RoundInv, ViewsOK
<1>16. QED
    BY <1>1, <1>4, <1>10, <1>11, <1>12, <1>13, <1>14, <1>15, RoundOfServer

(* Every step of the server                                                *)
LEMMA ServerRound ==
    ASSUME Inv, RoundInv, NEW c \in Clients, ServerHandles(c)
    PROVE  RoundInv'
<1> DEFINE m == Head(up[c])
<1>1. Taken(c)
    BY DEF ServerHandles, HandleMove, RefuseMove, HandleOther, Takes, Taken
<1>2. CASE HandleMove(c)
  <2>1. m.kind = "make_move" /\ MakeMove(c, m.edge)
    BY <1>2 DEF HandleMove
  <2>2. up[c] \in Seq(Request) /\ up[c] # <<>>
    BY <1>1 DEF Inv, TypeInv, Taken
  <2>3. m \in Request
    BY <2>2, Shortened
  <2>4. m.edge \in BoardEdges
    BY <2>1, <2>3 DEF Request
  <2>5. QED
    BY <1>1, <2>1, <2>4, MoveRound
<1>3. CASE RefuseMove(c)
    BY <1>1, <1>3, NothingRound DEF RefuseMove
<1>4. CASE HandleOther(c)
    BY <1>1, <1>4, JoinRound, RequestRound, ResponseRound, DisconnectRound DEF HandleOther
<1>5. QED
    BY <1>2, <1>3, <1>4 DEF ServerHandles

(* A seat that is free again                                               *)
LEMMA ExpireRound ==
    ASSUME Inv, RoundInv, NEW p \in Slots, Expire(p)
    PROVE  RoundInv'
<1>1. /\ server \in Room /\ server.seats[p] \notin server.sockets \union {None}
      /\ UNCHANGED <<client, up, down, gone, shown, agreed>>
      /\ server.sockets \subseteq Clients /\ None \notin Clients
    BY OnlineAssumption DEF Expire, Inv, TypeInv, Room, Clients
<1>2. /\ server'.sockets = server.sockets /\ server'.view = server.view
      /\ server'.rematch = server.rematch
      /\ server'.seats = [server.seats EXCEPT ![p] = None]
    BY <1>1 DEF Expire, Room
<1>3. \A c \in server.sockets, q \in Slots : server'.seats[q] = c <=> server.seats[q] = c
    BY <1>1, <1>2 DEF Room
<1>4. \A c \in server.sockets : SlotOf(server', c) = SlotOf(server, c)
    BY <1>2, <1>3 DEF SlotOf, Slots
<1>5. \A q \in Slots : server'.seats[q] \in {server.seats[q], None}
    BY <1>1, <1>2 DEF Room
<1>6. SeatsOK'
    BY <1>2, <1>4, <1>5 DEF RoundInv, SeatsOK, Slots
<1>7. QuestionOK'
    BY <1>1, <1>2, <1>4 DEF RoundInv, QuestionOK
<1>8. PartsOK'
  <2>1. ASSUME NEW d \in server.sockets
        PROVE  PartOK(d, up[d], down[d], client[d], server', agreed[d])
    <3>1. PartOK(d, up[d], down[d], client[d], server, agreed[d])
      BY DEF RoundInv, PartsOK
    <3> DEFINE u == up[d]
               w == down[d]
               x == client[d]
               a == agreed[d]
               r == server
               s == server'
    <3>2. /\ PartOK(d, u, w, x, r, a)
          /\ s.view = r.view /\ s.rematch = r.rematch /\ SlotOf(s, d) = SlotOf(r, d)
      BY <1>2, <1>4, <3>1
    <3> HIDE DEF u, w, x, a, r, s
    <3>3. PartOK(d, u, w, x, s, a)
      BY <3>2, PartSame
    <3>4. QED
      BY <3>3 DEF u, w, x, a, s
  <2>2. QED
    BY <1>1, <1>2, <2>1 DEF RoundInv, PartsOK
<1>9. \A d : Away(d)' <=> Away(d)
    BY <1>1 DEF Away
<1>10. AwayOK'
  <2>1. ASSUME NEW d \in Clients, Away(d)
        PROVE  /\ Untouched(d)' /\ d \notin server'.sockets
               /\ server'.seats["X"] # d /\ server'.seats["O"] = None
               /\ Fresh(server'.view.board, "O")
               /\ server'.view.round <= IF Away(Other(d)) THEN 0 ELSE 1
    <3>1. /\ Untouched(d) /\ d \notin server.sockets
          /\ server.seats["X"] # d /\ server.seats["O"] = None
          /\ Fresh(server.view.board, "O")
          /\ server.view.round <= IF Away(Other(d)) THEN 0 ELSE 1
      BY <2>1 DEF RoundInv, AwayOK
    <3>2. Untouched(d)'
      BY <1>1, <3>1 DEF Untouched
    <3>3. server'.seats["X"] # d /\ server'.seats["O"] = None
      BY <1>1, <1>5, <3>1 DEF Slots
    <3>4. QED
      BY <1>2, <3>1, <3>2, <3>3
  <2>2. QED
    BY <1>1, <1>9, <2>1 DEF RoundInv, AwayOK
<1>11. ViewsOK' /\ HistoryOK'
    BY <1>1, <1>2 DEF RoundInv, ViewsOK, HistoryOK, ShownOK
<1>12. QED
    BY <1>6, <1>7, <1>8, <1>10, <1>11 DEF RoundInv

(* Rounds, results and rematches are in order initially,                   *)
LEMMA RoundInit == Init => RoundInv
<1> SUFFICES ASSUME Init PROVE RoundInv
    OBVIOUS
<1>1. /\ server = NewRoom /\ gone = {}
      /\ \A c \in Clients : /\ client[c] = NewClient /\ up[c] = <<>> /\ down[c] = <<>>
                            /\ shown[c] = {} /\ agreed[c] = {}
      /\ shown \in [Clients -> SUBSET Nat] /\ agreed \in [Clients -> SUBSET Nat]
    BY DEF Init
<1>2. /\ server.sockets = {} /\ server.rematch = None /\ server.view = Blank
      /\ server.seats["X"] = None /\ server.seats["O"] = None
    BY <1>1 DEF NewRoom, Slots
<1>3. Blank.round = 0 /\ Blank.board = NewBoard
    BY DEF Blank
<1>4. None \notin Clients /\ MaxRounds \in Nat
    BY OnlineAssumption DEF Clients
<1>5. /\ NewClient.view = Blank /\ NewClient.socket = "none" /\ ~NewClient.online
      /\ NewClient.endTimer = "off" /\ NewClient.modal = "none"
      /\ ~NewClient.pending /\ ~NewClient.asked
    BY DEF NewClient
<1>6. SeatsOK /\ QuestionOK
    BY <1>2 DEF SeatsOK, QuestionOK
<1>7. AwayOK
  <2>1. \A c \in Clients : \A k : ~Has(up[c], k)
    BY <1>1 DEF Has
  <2>2. \A c \in Clients : Untouched(c)
    BY <1>1, <1>5 DEF Untouched
  <2>3. Fresh(server.view.board, "O")
    BY <1>2, <1>3 DEF Fresh
  <2>4. \A c \in Clients : server.view.round <= IF Away(Other(c)) THEN 0 ELSE 1
    BY <1>2, <1>3
  <2>5. QED
    BY <1>2, <1>4, <2>1, <2>2, <2>3, <2>4 DEF AwayOK
<1>8. PartsOK
    BY <1>1, <1>2, <1>5 DEF PartsOK
<1>9. ViewsOK
  <2>1. server.view.round <= MaxRounds /\ Playable(server.view.board)
    BY <1>2, <1>3, <1>4, NewBoardPlayable
  <2>2. \A c \in Clients : client[c].view.round <= server.view.round
    BY <1>1, <1>2, <1>3, <1>5
  <2>3. QED
    BY <1>1, <2>1, <2>2 DEF ViewsOK
<1>10. HistoryOK
    BY <1>1, <1>5 DEF HistoryOK, ShownOK
<1>11. QED
    BY <1>6, <1>7, <1>8, <1>9, <1>10 DEF RoundInv

(* and every step keeps them so.                                           *)
LEMMA RoundNext == Inv /\ RoundInv /\ [Next]_vars => RoundInv'
<1> SUFFICES ASSUME Inv, RoundInv, [Next]_vars PROVE RoundInv'
    OBVIOUS
<1>1. CASE UNCHANGED vars
  <2>1. UNCHANGED <<client, up, down, server, gone, shown, agreed>>
    BY <1>1 DEF vars
  <2>2. SeatsOK' /\ QuestionOK' /\ PartsOK'
    BY <2>1 DEF RoundInv, SeatsOK, QuestionOK, PartsOK
  <2>3. \A d : (Away(d)' <=> Away(d)) /\ (Untouched(d)' <=> Untouched(d))
    BY <2>1 DEF Away, Untouched
  <2>4. AwayOK'
    BY <2>1, <2>3 DEF RoundInv, AwayOK
  <2>5. ViewsOK' /\ HistoryOK'
    BY <2>1 DEF RoundInv, ViewsOK, HistoryOK, ShownOK
  <2>6. QED
    BY <2>2, <2>4, <2>5 DEF RoundInv
<1>2. ASSUME NEW c \in Clients,
             ServerHandles(c) \/ Receive(c)
             \/ Enter(c) \/ Connect(c) \/ TokenRefused(c) \/ DialFails(c)
             \/ Drop(c) \/ Reconnect(c)
             \/ CountdownEnds(c) \/ EndGame(c) \/ PlayAgain(c)
             \/ (\E accept \in BOOLEAN : Answer(c, accept))
             \/ (\E e \in BoardEdges : Click(c, e))
             \/ ShowHistory(c) \/ ShowGame(c) \/ GoHome(c)
      PROVE  RoundInv'
  <2>1. CASE ServerHandles(c)
    BY <2>1, ServerRound
  <2>2. CASE Receive(c)
    BY <2>2, ReceiveRound
  <2>3. CASE Enter(c) \/ Connect(c) \/ TokenRefused(c) \/ DialFails(c)
    BY <2>3, ArrivalRound
  <2>4. CASE Drop(c) \/ GoHome(c)
    BY <2>4, FarewellRound
  <2>5. CASE CountdownEnds(c) \/ Reconnect(c) \/ ShowHistory(c) \/ ShowGame(c)
    BY <2>5, PageRound
  <2>6. CASE EndGame(c)
    BY <2>6, EndRound
  <2>7. CASE PlayAgain(c)
    BY <2>7, PlayAgainRound
  <2>8. CASE \E accept \in BOOLEAN : Answer(c, accept)
    BY <2>8, AnswerRound
  <2>9. CASE \E e \in BoardEdges : Click(c, e)
    BY <2>9, ClickRound
  <2>10. QED
    BY <1>2, <2>1, <2>2, <2>3, <2>4, <2>5, <2>6, <2>7, <2>8, <2>9
<1>3. QED
    BY <1>1, <1>2, ExpireRound DEF Next

(* So they are throughout.                                                 *)
LEMMA RoundInvariance == Spec => [](Inv /\ RoundInv)
<1>1. Init => Inv /\ RoundInv
    BY InvInit, RoundInit
<1>2. Inv /\ RoundInv /\ [Next]_vars => (Inv /\ RoundInv)'
    BY InvNext, RoundNext
<1>3. QED
    BY <1>1, <1>2, PTL DEF Spec

(* Every variable keeps its type: no page ever shows a round the room has  *)
(* not come to, and the room comes to no more than MaxRounds.              *)
THEOREM ClientTypeOK == Spec => []TypeOK
<1>1. ASSUME Inv, RoundInv PROVE TypeOK
  <2>1. /\ client \in [Clients -> Browser] /\ server \in Room
        /\ escrow \in {"none", "waiting", "active"} /\ gone \subseteq Clients
        /\ server.view.round \in Nat /\ server.view.board \in Board
        /\ MaxRounds \in Nat /\ server.view.round <= MaxRounds
    BY <1>1, OnlineAssumption DEF Inv, TypeInv, Room, View, RoundInv, ViewsOK
  <2>2. server.view \in Snapshots
    BY <2>1 DEF Room, View, Snapshots
  <2>3. ASSUME NEW c \in Clients PROVE client[c] \in ClientType
    <3>1. /\ client[c] \in Browser /\ client[c].view \in View
          /\ client[c].view.round <= server.view.round
      BY <1>1, <2>1 DEF Browser, RoundInv, ViewsOK
    <3>2. client[c].view \in Snapshots
      BY <2>1, <3>1 DEF View, Snapshots
    <3>3. QED
      BY <3>1, <3>2 DEF Browser, ClientType
  <2>4. client \in [Clients -> ClientType]
    BY <2>1, <2>3
  <2>5. QED
    BY <2>1, <2>2, <2>4 DEF Room, TypeOK
<1>2. QED
    BY <1>1, RoundInvariance, PTL

(* The modal with the result of an online game opens only by endGame.      *)
LEMMA OnlyEndGameShows ==
    ASSUME Inv, [Next]_vars, NEW c \in Clients,
           client'[c].modal = "online", client[c].modal # "online"
    PROVE  EndGame(c) /\ client[c].online
<1>1. client \in [Clients -> Browser] /\ client[c] \in Browser
    BY DEF Inv, TypeInv
<1>2. client'[c] # client[c]
    OBVIOUS
<1>3. ASSUME NEW d \in Clients, d # c,
             \/ Receive(d) \/ Enter(d) \/ Connect(d) \/ TokenRefused(d) \/ DialFails(d)
             \/ Drop(d) \/ Reconnect(d) \/ CountdownEnds(d) \/ EndGame(d) \/ PlayAgain(d)
             \/ (\E accept \in BOOLEAN : Answer(d, accept))
             \/ ShowHistory(d) \/ ShowGame(d) \/ GoHome(d)
      PROVE  client'[c] = client[c]
    BY <1>1, <1>3 DEF Receive, Enter, Connect, TokenRefused, DialFails, Drop, Reconnect,
       CountdownEnds, EndGame, PlayAgain, Answer, ShowHistory, ShowGame, GoHome
<1>4. ASSUME NEW d \in Clients, ServerHandles(d) \/ (\E e \in BoardEdges : Click(d, e))
      PROVE  client'[c] = client[c]
    BY <1>4 DEF ServerHandles, HandleMove, RefuseMove, HandleOther, Takes, Click
<1>5. ASSUME NEW p \in Slots, Expire(p)
      PROVE  client'[c] = client[c]
    BY <1>5 DEF Expire
<1>6. ASSUME Receive(c)
      PROVE  FALSE
  <2>1. /\ client'[c] = Received(client[c], Head(down[c])) /\ Head(down[c]) \in Message
    BY <1>1, <1>6, ReceiveEffect DEF Inv
  <2> DEFINE b == client[c]
             m == Head(down[c])
             d == client'[c]
  <2>2. b \in Browser /\ m \in Message /\ d = Received(b, m)
        /\ b.modal # "online" /\ d.modal = "online"
    BY <1>1, <2>1
  <2> HIDE DEF b, m, d
  <2>3. d.modal \in {"none", b.modal}
    BY <2>2, ReceivedPage
  <2>4. QED
    BY <2>2, <2>3
<1>7. ASSUME Enter(c) \/ Connect(c) \/ TokenRefused(c) \/ DialFails(c)
      PROVE  FALSE
    BY <1>1, <1>7 DEF Enter, Connect, TokenRefused, DialFails, Browser
<1>8. ASSUME Drop(c) \/ Reconnect(c) \/ CountdownEnds(c) \/ ShowGame(c)
      PROVE  FALSE
    BY <1>1, <1>8 DEF Drop, Reconnect, CountdownEnds, ShowGame, Browser
<1>9. ASSUME PlayAgain(c) \/ ShowHistory(c)
      PROVE  FALSE
    BY <1>1, <1>9 DEF PlayAgain, ShowHistory, Browser
<1>10. ASSUME NEW accept \in BOOLEAN, Answer(c, accept)
       PROVE  FALSE
    BY <1>1, <1>10 DEF Answer, Browser
<1>11. ASSUME GoHome(c)
       PROVE  FALSE
  <2>1. PICK t : client' = [client EXCEPT ![c] = [NewClient EXCEPT !.endTimer = t]]
    BY <1>11 DEF GoHome
  <2>2. [NewClient EXCEPT !.endTimer = t].modal = "none"
    BY DEF NewClient
  <2>3. QED
    BY <1>1, <2>1, <2>2
<1>12. EndGame(c)
  <2>1. \E d \in Clients :
           \/ ServerHandles(d) \/ Receive(d)
           \/ Enter(d) \/ Connect(d) \/ TokenRefused(d) \/ DialFails(d)
           \/ Drop(d) \/ Reconnect(d)
           \/ CountdownEnds(d) \/ EndGame(d) \/ PlayAgain(d)
           \/ (\E accept \in BOOLEAN : Answer(d, accept))
           \/ (\E e \in BoardEdges : Click(d, e))
           \/ ShowHistory(d) \/ ShowGame(d) \/ GoHome(d)
    BY <1>2, <1>5 DEF Next, vars
  <2>2. QED
    BY <1>2, <1>3, <1>4, <1>6, <1>7, <1>8, <1>9, <1>10, <1>11, <2>1
<1>13. client[c].online
    BY <1>1, <1>12 DEF EndGame, Browser
<1>14. QED
    BY <1>12, <1>13

(* A result is shown only of a board that is full, and once for each game, *)
(* although full boards are sent more than once, a dialog may hold up the  *)
(* timer of 200 ms, and the next game's board may come before it has run.  *)
THEOREM ResultsShownOnce == Spec => OneResultPerGame
<1>1. ASSUME Inv, RoundInv, [Next]_vars, NEW c \in Clients,
             client'[c].modal = "online", client[c].modal # "online"
      PROVE  Full(client[c].view.board) /\ client[c].view.round \notin shown[c]
  <2>1. EndGame(c) /\ client[c].online
    BY <1>1, OnlyEndGameShows
  <2>2. client[c].endTimer # "off"
    BY <2>1 DEF EndGame
  <2>3. QED
    BY <1>1, <2>1, <2>2 DEF RoundInv, HistoryOK, ShownOK
<1>2. Inv /\ RoundInv /\ [Next]_vars =>
          \A c \in Clients :
              client'[c].modal = "online" /\ client[c].modal # "online" =>
                  /\ Full(client[c].view.board)
                  /\ client[c].view.round \notin shown[c]
    BY <1>1
<1>3. QED
    BY <1>2, RoundInvariance, PTL DEF Spec, OneResultPerGame

(* Only an accepted rematch changes the round of a room that is open.      *)
LEMMA OnlyAcceptStartsOver ==
    ASSUME Inv, RoundInv, [Next]_vars, server.open, server'.view.round # server.view.round
    PROVE  \E c \in Clients :
              /\ Taken(c) /\ Head(up[c]).kind = "rematch_response" /\ Head(up[c]).accept
              /\ SlotOf(server, c) # None /\ server.rematch \notin {None, SlotOf(server, c)}
<1>1. server \in Room
    BY DEF Inv, TypeInv
<1>2. \A p \in Slots : ~Expire(p)
    BY <1>1 DEF Expire, Room
<1>3. ASSUME NEW c \in Clients,
             \/ Receive(c) \/ Enter(c) \/ Connect(c) \/ TokenRefused(c) \/ DialFails(c)
             \/ Drop(c) \/ Reconnect(c) \/ CountdownEnds(c) \/ EndGame(c) \/ PlayAgain(c)
             \/ ShowHistory(c) \/ ShowGame(c) \/ GoHome(c)
      PROVE  FALSE
  <2>1. server' = server
    BY <1>3 DEF Receive, Enter, Connect, TokenRefused, DialFails, Drop, Reconnect,
       CountdownEnds, EndGame, PlayAgain, ShowHistory, ShowGame, GoHome
  <2>2. QED
    BY <2>1
<1>4. ASSUME NEW c \in Clients,
              (\E accept \in BOOLEAN : Answer(c, accept)) \/ (\E e \in BoardEdges : Click(c, e))
       PROVE  FALSE
  <2>1. server' = server
    BY <1>4 DEF Answer, Click
  <2>2. QED
    BY <2>1
<1>5. PICK c \in Clients : ServerHandles(c)
    BY <1>2, <1>3, <1>4 DEF Next, vars
<1>6. Taken(c) /\ up[c] \in Seq(Request) /\ up[c] # <<>>
    BY <1>5 DEF ServerHandles, HandleMove, RefuseMove, HandleOther, Takes, Taken, Inv, TypeInv
<1>7. ~HandleMove(c) /\ ~RefuseMove(c)
    BY <1>1 DEF HandleMove, MakeMove, RefuseMove, Room, View
<1>8. ASSUME Head(up[c]).kind = "join_room", Join(c)
      PROVE  FALSE
  <2>1. Has(up[c], "join_room")
    BY <1>6, <1>8, TailFacts
  <2>2. Away(c)
    BY <2>1 DEF Away
  <2>3. server'.view = server.view
    BY <1>8, <2>2, EnteredRound DEF Join
  <2>4. QED
    BY <2>3
<1>9. ~RematchRequest(c) /\ ~Disconnect(c)
    BY <1>1 DEF RematchRequest, Disconnect, Room
<1>10. server' # RoomAfterDecline
    BY <1>1 DEF RoomAfterDecline, Room
<1>11. Head(up[c]).kind = "rematch_response" /\ RematchResponse(c, Head(up[c]).accept)
    BY <1>5, <1>7, <1>8, <1>9 DEF ServerHandles, HandleOther
<1>12. /\ SlotOf(server, c) # None /\ server.rematch \notin {None, SlotOf(server, c)}
       /\ Head(up[c]).accept
    BY <1>10, <1>11 DEF RematchResponse
<1>13. QED
    BY <1>6, <1>11, <1>12

(* The room starts over only after a finished game, and only when both     *)
(* players have asked for or agreed to a rematch of just that game, even if*)
(* their requests cross or their answers come late.                        *)
THEOREM RematchesAreAgreed == Spec => RematchIsAgreed
<1>1. ASSUME Inv, RoundInv, [Next]_vars, server.open,
             server'.view.round # server.view.round
      PROVE  /\ Full(server.view.board)
             /\ \A c \in Clients : server.view.round \in agreed[c]
  <2>1. PICK c \in Clients :
            /\ Taken(c) /\ Head(up[c]).kind = "rematch_response" /\ Head(up[c]).accept
            /\ SlotOf(server, c) # None /\ server.rematch \notin {None, SlotOf(server, c)}
    BY <1>1, OnlyAcceptStartsOver
  <2>2. QED
    BY <1>1, <2>1, AnswerIsLast
<1>2. Inv /\ RoundInv /\ [Next]_vars =>
          (server.open /\ server'.view.round # server.view.round =>
              /\ Full(server.view.board)
              /\ \A c \in Clients : server.view.round \in agreed[c])
    BY <1>1
<1>3. QED
    BY <1>2, RoundInvariance, PTL DEF Spec, RematchIsAgreed
=============================================================================
