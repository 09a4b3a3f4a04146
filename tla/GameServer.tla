----------------------------- MODULE GameServer -----------------------------
(***************************************************************************)
(* The socket server of the backend: the handlers of                       *)
(* src/packages/backend/src/socket/handler.ts over the rooms of            *)
(* RoomManager, with the settlement of a finished game on the chain and in *)
(* the database (saveMatchIfFinished).                                     *)
(*                                                                         *)
(* Node runs one handler at a time, up to an await.                        *)
(*  - An await of the chain or of the database, and the first import of    *)
(*    game-core, wait for I/O: anything may happen meanwhile.              *)
(*  - Once game-core is loaded, an await of it, and a step of a room's     *)
(*    moveInProgress chain, resume before the next event of the loop; only *)
(*    packets of one socket that were read together are dispatched before. *)
(* So a step in that second class is an action of its own, and while one is*)
(* due (Busy) nothing else happens but, when Batched, the handlers of the  *)
(* socket it belongs to.                                                   *)
(***************************************************************************)
EXTENDS RoomManager

CONSTANTS
    Actions,        \* actionIds of MAKE_MOVE packets
    EdgeOf,         \* [Actions -> BoardEdges]: the edge each one asks for
    Stakes,         \* stakeRose values a JOIN_ROOM may carry, None for no field
    Registered,     \* users with a row in the database (guests have none)
    HasWallet,      \* users of those with a wallet address
    ChainEnabled,   \* blockchainService.isEnabled()
    Requests,       \* the packets and events the clients of an instance send
    Faults,         \* what goes wrong in an instance
    Batched,        \* packets of a socket may be read together
    Warm,           \* game-core has been loaded before
    MaxGames,       \* bound: games that are started
    MaxQueue,       \* bound: packets that wait in a moveInProgress chain
    SaveIds,        \* bound: saves in flight
    MaxRecords      \* bound: rows written to the match table

AllRequests == {"join", "disconnect", "move", "reset", "sync", "rematch",
                "accept", "decline", "stake", "forceDraw", "forget"}
AllFaults == {"clock ticks in join", "chain fails", "tx unconfirmed", "tx late",
              "db fails", "db ack lost"}

ASSUME ServerAssumption ==
    /\ EdgeOf \in [Actions -> BoardEdges]
    /\ Stakes \subseteq Nat \union {None}
    /\ HasWallet \subseteq Registered /\ Registered \subseteq Users
    /\ ChainEnabled \in BOOLEAN /\ Batched \in BOOLEAN /\ Warm \in BOOLEAN
    /\ Requests \subseteq AllRequests /\ Faults \subseteq AllFaults
    /\ MaxGames \in Nat /\ MaxQueue \in Nat /\ MaxRecords \in Nat
    /\ SaveIds \subseteq Nat

VARIABLES
    conn,           \* [Sockets -> {"new", "live", "gone"}]
    socketToRoom,   \* the map of registerSocketHandlers
    mgr,            \* the RoomManager
    core,           \* "cold" until game-core has been imported
    joins,          \* JOIN_ROOM handlers awaiting createGame
    resets,         \* REMATCH_RESPONSE handlers awaiting createGame
    saves,          \* [SaveIds -> saves in flight]
    db,             \* rows of the match table, in order
    escrow,         \* [RoomIds -> what the contract says of the room]
    mempool,        \* result transactions that may still be mined
    games,          \* how many games were started (names each game)
    applied         \* history: how often an action changed a room's board, up to 2

vars == <<conn, socketToRoom, mgr, core, joins, resets, saves, db, escrow,
          mempool, games, applied>>

handling == <<core, joins, resets>>
settling == <<db, escrow, mempool>>
history == <<games, applied>>

-----------------------------------------------------------------------------
Room(r) == mgr.heap[mgr.rooms[r]]
Exists(r) == mgr.rooms[r] # None
Draw == "DRAW"

NewGame(n) == [id |-> n, board |-> NewBoard]

Dequeued(room) ==
    [room EXCEPT !.queue = Tail(@), !.phase = "start", !.before = None]

(* Room objects that a handler, a chain or the map still refers to.        *)
InUse(o) ==
    \/ \E r \in RoomIds : mgr.rooms[r] = o
    \/ mgr.heap[o] # None /\ mgr.heap[o].queue # <<>>
    \/ \E x \in resets : x.obj = o
    \/ \E i \in SaveIds : saves[i] # None /\ o \in {saves[i].obj, saves[i].owner}

(* The resets that wait in the queues of rooms.                            *)
QueuedResets(m) ==
    {x \in UNION {{o} \X DOMAIN m.heap[o].queue : o \in {p \in Objs : m.heap[p] # None}} :
        m.heap[x[1]].queue[x[2]].kind = "reset"}

(* The bound MaxGames leaves room for the games that are on their way.     *)
MayStartGame ==
    games + Cardinality(joins) + Cardinality(resets) + Cardinality(QueuedResets(mgr))
        < MaxGames

FreeObjs == {o \in Objs : ~InUse(o)}

(* The sockets whose handlers resume before the next event of the loop.    *)
Busy ==
    {j.socket : j \in IF core = "ready" THEN joins ELSE {}}
    \union {x.socket : x \in resets}
    \union {Head(mgr.heap[o].queue).socket :
                o \in {p \in Objs : /\ mgr.heap[p] # None
                                    /\ mgr.heap[p].queue # <<>>
                                    /\ mgr.heap[p].phase # "save"}}

Receives(s, request) ==
    /\ conn[s] = "live"
    /\ request \in Requests
    /\ Busy \subseteq IF Batched THEN {s} ELSE {}

EventLoopIdle == Busy = {}

-----------------------------------------------------------------------------
(* saveMatchIfFinished, up to its first wait: the chain, if it is enabled, *)
(* or else (submitResult returns at once) the database.  A history field:  *)
(* read, the game the winner was read from (0: not yet).                   *)
CanSave(m, r) ==
    /\ m.rooms[r] # None
    /\ LET room == m.heap[m.rooms[r]] IN
       ~room.saved /\ Full(room.game.board) /\ IsRoomFull(room)

NewSave(m, r, owner) ==
    LET room == m.heap[m.rooms[r]] IN
    [obj |-> m.rooms[r], owner |-> owner, game |-> room.game.id,
     players |-> room.players, score |-> room.game.board.score,
     stage |-> IF ChainEnabled THEN "chain" ELSE "db", paid |-> FALSE,
     winner |-> IF ChainEnabled THEN None ELSE Winner(room.game.board.score),
     read |-> IF ChainEnabled THEN 0 ELSE room.game.id]

(* Mutant: the flag is set only when the save is done.                     *)
TrySaveUnmarked(m, r, owner) ==
    IF ~CanSave(m, r) THEN mgr' = m /\ saves' = saves
    ELSE /\ \E i \in SaveIds : saves[i] = None
         /\ mgr' = m
         /\ saves' = [saves EXCEPT
                ![Min({i \in SaveIds : saves[i] = None})] = NewSave(m, r, owner)]

(* owner: the room object whose moveInProgress chain waits for the save    *)
TrySave(m, r, owner) ==
    IF ~CanSave(m, r) THEN mgr' = m /\ saves' = saves
    ELSE /\ \E i \in SaveIds : saves[i] = None
         /\ mgr' = [m EXCEPT !.heap[m.rooms[r]].saved = TRUE]
         /\ saves' = [saves EXCEPT
                ![Min({i \in SaveIds : saves[i] = None})] = NewSave(m, r, owner)]

-----------------------------------------------------------------------------
Connect(s) ==
    /\ conn[s] = "new" /\ EventLoopIdle
    /\ conn' = [conn EXCEPT ![s] = "live"]
    /\ UNCHANGED <<socketToRoom, mgr, handling, saves, settling, history>>

(* JOIN_ROOM from the lookup of the room to the end.  (All boards have one *)
(* size; a JOIN_ROOM with another one is refused as one with another stake *)
(* is.)                                                                    *)
EnterRoom(m, s, r, stake) ==
    LET o == m.rooms[r]
        room == CleanupExpiredReconnect(m.heap[o])
        mismatch == stake # None /\ stake # room.stake
        active == \E t \in room.sockets \ {s} : SocketUser[t] = SocketUser[s]
    IN  IF mismatch \/ active
        THEN /\ mgr' = [m EXCEPT !.heap[o] = room]
             /\ UNCHANGED <<socketToRoom, saves>>
        ELSE \E late \in IF "clock ticks in join" \in Faults THEN BOOLEAN ELSE {FALSE} :
               LET seated == AssignSocket(room, s, late)
                   entered == IF IsRoomFull(seated)
                              THEN [seated EXCEPT !.rematch = None] ELSE seated
               IN  /\ socketToRoom' = [socketToRoom EXCEPT ![s] = r]
                   /\ TrySave([m EXCEPT !.heap[o] = entered, !.index[s] = r], r, None)

(* Mutant: the room a socket was in is not left.                           *)
LeaveOtherRoomNever(s, r) == mgr

(* The start of JOIN_ROOM: another room is left before this one is found.  *)
LeaveOtherRoom(s, r) ==
    IF socketToRoom[s] \in {None, r} THEN mgr ELSE RemoveSocket(mgr, s, FALSE)

JoinRoom(s, r, stake) ==
    LET m == LeaveOtherRoom(s, r) IN
    /\ Receives(s, "join")
    /\ \/ /\ m.rooms[r] # None
          /\ EnterRoom(m, s, r, stake)
          /\ joins' = joins
       \/ /\ m.rooms[r] = None /\ MayStartGame
          /\ mgr' = m
          /\ joins' = joins \union {[socket |-> s, room |-> r, stake |-> stake]}
          /\ UNCHANGED <<socketToRoom, saves>>
    /\ UNCHANGED <<conn, core, resets, settling, history>>

(* The import of game-core, started by the first createGame, completes.    *)
LoadCore ==
    /\ core = "cold" /\ joins # {}
    /\ core' = "ready"
    /\ UNCHANGED <<conn, socketToRoom, mgr, joins, resets, saves, settling, history>>

(* JOIN_ROOM after its await: the socket may be gone, or elsewhere.        *)
JoinResumes(j) ==
    /\ core = "ready"
    /\ joins' = joins \ {j}
    /\ \/ /\ Exists(j.room)
          /\ EnterRoom(mgr, j.socket, j.room, j.stake)
          /\ UNCHANGED history
       \/ /\ ~Exists(j.room)
          /\ \E o \in FreeObjs :
                /\ \A p \in FreeObjs : o <= p
                /\ EnterRoom([mgr EXCEPT
                        !.heap[o] = NewRoom(j.room, NewGame(games + 1),
                                            IF j.stake = None THEN 0 ELSE j.stake),
                        !.rooms[j.room] = o], j.socket, j.room, j.stake)
                /\ applied' = [applied EXCEPT ![o] = [a \in Actions |-> 0]]
          /\ games' = games + 1
    /\ UNCHANGED <<conn, core, resets, settling>>

Disconnect(s) ==
    /\ conn[s] = "live" /\ "disconnect" \in Requests /\ EventLoopIdle
    /\ conn' = [conn EXCEPT ![s] = "gone"]
    /\ mgr' = RemoveSocket(mgr, s, TRUE)
    /\ socketToRoom' = [socketToRoom EXCEPT ![s] = None]
    /\ UNCHANGED <<handling, saves, settling, history>>

(* The timer of server.ts.                                                 *)
Sweep ==
    /\ EventLoopIdle
    /\ mgr' = SweepExpired(mgr)
    /\ UNCHANGED <<conn, socketToRoom, handling, saves, settling, history>>

(* RECONNECT_TIMEOUT_MS after a disconnect, and DEDUPE_WINDOW_MS after a   *)
(* move, have passed.                                                      *)
Expire(o, u) ==
    /\ mgr.heap[o] # None /\ mgr.heap[o].pending[u] # None
    /\ ~mgr.heap[o].pending[u].expired /\ EventLoopIdle
    /\ mgr' = [mgr EXCEPT !.heap[o].pending[u].expired = TRUE]
    /\ UNCHANGED <<conn, socketToRoom, handling, saves, settling, history>>

Forget(o, a) ==
    /\ "forget" \in Requests /\ EventLoopIdle
    /\ mgr.heap[o] # None /\ a \in mgr.heap[o].dedupe
    /\ mgr' = [mgr EXCEPT !.heap[o].dedupe = @ \ {a}]
    /\ UNCHANGED <<conn, socketToRoom, handling, saves, settling, history>>

-----------------------------------------------------------------------------
(* MAKE_MOVE and RESET_GAME put their body on the room's chain.            *)
Enqueue(s, r, kind, action) ==
    /\ Exists(r) /\ Len(Room(r).queue) < MaxQueue
    /\ mgr' = [mgr EXCEPT !.heap[mgr.rooms[r]].queue =
                    Append(@, [kind |-> kind, socket |-> s, action |-> action])]
    /\ UNCHANGED <<conn, socketToRoom, handling, saves, settling, history>>

MakeMove(s, r, a) == Receives(s, "move") /\ Enqueue(s, r, "move", a)

ResetGame(s, r) ==
    Receives(s, "reset") /\ MayStartGame /\ Enqueue(s, r, "reset", None)

(* What runMove and runReset check before they await game-core             *)
MayRun(room, op) ==
    IF op.kind = "reset" THEN PlayerInRoom(room, op.socket) # None
    ELSE /\ op.action \notin room.dedupe
         /\ PlayerInRoom(room, op.socket) = room.game.board.turn

(* The head of the chain starts: it returns or throws, or awaits.          *)
StartOp(o) ==
    LET room == mgr.heap[o] IN
    /\ room # None /\ room.queue # <<>> /\ room.phase = "start"
    /\ mgr' = [mgr EXCEPT !.heap[o] =
                IF MayRun(room, Head(room.queue))
                THEN [room EXCEPT !.phase = "core", !.before = room.game]
                ELSE Dequeued(room)]
    /\ UNCHANGED <<conn, socketToRoom, handling, saves, settling, history>>

(* Mutants: applyMove that does not look at the edge, a move that is not   *)
(* remembered.                                                             *)
NeverTaken(board, edge) == FALSE

MovedUnnoted(room, action, board) == [room EXCEPT !.game = [room.before EXCEPT !.board = board]]

(* applyMove throws for an edge that is taken.                             *)
EdgeTaken(board, edge) == edge \in board.taken

(* saveProcessedAction notes the action with the new state.                *)
Moved(room, action, board) ==
    [room EXCEPT !.game = [room.before EXCEPT !.board = board],
                 !.dedupe = @ \union {action}]

(* runMove after applyMove, which worked on the state from before          *)
FinishMove(o) ==
    LET room == mgr.heap[o]
        op == Head(room.queue)
        edge == EdgeOf[op.action]
    IN  /\ room # None /\ room.queue # <<>> /\ room.phase = "core"
        /\ op.kind = "move"
        /\ \/ /\ EdgeTaken(room.before.board, edge)
              /\ mgr' = [mgr EXCEPT !.heap[o] = Dequeued(room)]
              /\ UNCHANGED <<saves, applied>>
           \/ /\ ~EdgeTaken(room.before.board, edge)
              /\ \E b \in After(room.before.board, edge) :
                   LET moved == Moved(room, op.action, b)
                       m == [mgr EXCEPT !.heap[o] = moved]
                   IN  TrySave([m EXCEPT !.heap[o] =
                                  IF CanSave(m, room.roomId)
                                  THEN [moved EXCEPT !.phase = "save"]
                                  ELSE Dequeued(moved)], room.roomId, o)
              /\ applied' = [applied EXCEPT ![o][op.action] = Min({@ + 1, 2})]
        /\ UNCHANGED <<conn, socketToRoom, handling, settling, games>>

FinishReset(o) ==
    LET room == mgr.heap[o] IN
    /\ room # None /\ room.queue # <<>> /\ room.phase = "core"
    /\ Head(room.queue).kind = "reset"
    /\ mgr' = [mgr EXCEPT !.heap[o] =
                [Dequeued(room) EXCEPT !.game = NewGame(games + 1),
                                       !.saved = FALSE, !.rematch = None]]
    /\ games' = games + 1
    /\ UNCHANGED <<conn, socketToRoom, handling, saves, settling, applied>>

SyncState(s, r) ==
    /\ Receives(s, "sync")
    /\ CanSave(mgr, r)
    /\ TrySave(mgr, r, None)
    /\ UNCHANGED <<conn, socketToRoom, handling, settling, history>>

-----------------------------------------------------------------------------
(* Mutant: the requester is noted by user id instead of by seat.           *)
RematchRequestByUser(s, r) ==
    /\ Receives(s, "rematch")
    /\ Exists(r) /\ PlayerInRoom(Room(r), s) # None /\ IsRoomFull(Room(r))
    /\ mgr' = [mgr EXCEPT !.heap[mgr.rooms[r]].rematch = SocketUser[s]]
    /\ UNCHANGED <<conn, socketToRoom, handling, saves, settling, history>>

RematchRequest(s, r) ==
    /\ Receives(s, "rematch")
    /\ Exists(r) /\ PlayerInRoom(Room(r), s) # None /\ IsRoomFull(Room(r))
    /\ mgr' = [mgr EXCEPT !.heap[mgr.rooms[r]].rematch = PlayerInRoom(Room(r), s)]
    /\ UNCHANGED <<conn, socketToRoom, handling, saves, settling, history>>

(* REMATCH_RESPONSE is for the player who did not ask.                     *)
MayRespond(s, r) ==
    /\ Exists(r)
    /\ PlayerInRoom(Room(r), s) # None
    /\ Room(r).rematch \notin {None, PlayerInRoom(Room(r), s)}

RematchAccept(s, r) ==
    /\ Receives(s, "accept")
    /\ MayRespond(s, r) /\ MayStartGame
    /\ resets' = resets \union {[obj |-> mgr.rooms[r], socket |-> s]}
    /\ UNCHANGED <<conn, socketToRoom, mgr, core, joins, saves, settling, history>>

(* resetRoomForRematch after its await                                     *)
RematchResumes(x) ==
    /\ resets' = resets \ {x}
    /\ mgr' = [mgr EXCEPT !.heap[x.obj].game = NewGame(games + 1),
                          !.heap[x.obj].saved = FALSE,
                          !.heap[x.obj].rematch = None,
                          !.heap[x.obj].dedupe = {}]
    /\ games' = games + 1
    /\ UNCHANGED <<conn, socketToRoom, core, joins, saves, settling, applied>>

(* closeRoomAfterRematchDecline: each socket leaves the room it is indexed *)
(* in, and gives its seat up.                                              *)
CloseRoom(m, sockets) == FoldSet(LAMBDA t, n : RemoveSocket(n, t, FALSE), m, sockets)

RematchDecline(s, r) ==
    /\ Receives(s, "decline")
    /\ MayRespond(s, r)
    /\ mgr' = CloseRoom([mgr EXCEPT !.heap[mgr.rooms[r]].rematch = None],
                        Room(r).sockets)
    /\ UNCHANGED <<conn, socketToRoom, handling, saves, settling, history>>

-----------------------------------------------------------------------------
(* The contract, by the abstract Escrow that SquarexoMatch implements: two *)
(* users stake on a room, the signer names the winner.                     *)
Chain == INSTANCE Escrow WITH Rooms <- RoomIds

Stake(r, u) ==
    /\ "stake" \in Requests /\ EventLoopIdle /\ u \in HasWallet
    /\ Chain!Stake(r, u)
    /\ UNCHANGED <<conn, socketToRoom, mgr, handling, saves, db, mempool, history>>

ForceDraw(r) ==
    /\ "forceDraw" \in Requests /\ EventLoopIdle
    /\ Chain!Resolve(r, Draw)
    /\ UNCHANGED <<conn, socketToRoom, mgr, handling, saves, db, mempool, history>>

(* A transaction whose confirmation timed out is mined after all.          *)
Mine(tx) ==
    /\ EventLoopIdle
    /\ mempool' = mempool \ {tx}
    /\ \/ Chain!Resolve(tx.room, tx.winner)
       \/ ~Chain!Accepts(tx.room, tx.winner) /\ escrow' = escrow
    /\ UNCHANGED <<conn, socketToRoom, mgr, handling, saves, db, history>>

-----------------------------------------------------------------------------
(* The end of a save: its chain moves on, if one was waiting.              *)
Release(m, save) ==
    IF save.owner = None THEN m ELSE [m EXCEPT !.heap[save.owner] = Dequeued(@)]

(* Mutant: the flag stays set after a failure.                             *)
FailSaveForGood(i) ==
    /\ mgr' = Release(mgr, saves[i])
    /\ saves' = [saves EXCEPT ![i] = None]

FailSave(i) ==
    /\ mgr' = Release([mgr EXCEPT !.heap[saves[i].obj].saved = FALSE], saves[i])
    /\ saves' = [saves EXCEPT ![i] = None]

WinnerUser(save) ==
    LET w == Winner(save.score) IN IF w = Draw THEN Draw ELSE save.players[w]

(* shouldRequireOnChainSettlement, when the chain is enabled               *)
NeedsSettlement(room) == room.stake > 0

(* Mutant: saveResult is given the scores in the wrong order.              *)
ChainAnsweredSwapped(i, submitted) ==
    LET room == mgr.heap[saves[i].obj]
        score == room.game.board.score
    IN
    IF NeedsSettlement(room) /\ ~submitted THEN FailSave(i)
    ELSE /\ saves' = [saves EXCEPT ![i].stage = "db", ![i].paid = submitted,
                                   ![i].winner = Winner([X |-> score["O"], O |-> score["X"]]),
                                   ![i].read = room.game.id]
         /\ mgr' = mgr

(* The settlement check, and the argument of saveResult: the score is read *)
(* again, from whatever game the room object holds by now.                 *)
ChainAnswered(i, submitted) ==
    LET room == mgr.heap[saves[i].obj] IN
    IF NeedsSettlement(room) /\ ~submitted THEN FailSave(i)
    ELSE /\ saves' = [saves EXCEPT ![i].stage = "db", ![i].paid = submitted,
                                   ![i].winner = Winner(room.game.board.score),
                                   ![i].read = room.game.id]
         /\ mgr' = mgr

(* blockchainService.submitResult: it fails, or sends the result.          *)
NotSubmitted(i) ==
    /\ \/ "chain fails" \in Faults
       \/ WinnerUser(saves[i]) \notin HasWallet \union {Draw}
       \/ ~Chain!Accepts(mgr.heap[saves[i].obj].roomId, WinnerUser(saves[i]))
    /\ ChainAnswered(i, FALSE)
    /\ UNCHANGED <<escrow, mempool>>

Sendable(i) ==
    /\ WinnerUser(saves[i]) \in HasWallet \union {Draw}
    /\ Chain!Accepts(mgr.heap[saves[i].obj].roomId, WinnerUser(saves[i]))

(* The result is mined; its confirmation may come too late.                *)
Submitted(i) ==
    /\ Sendable(i)
    /\ Chain!Resolve(mgr.heap[saves[i].obj].roomId, WinnerUser(saves[i]))
    /\ \/ ChainAnswered(i, TRUE)
       \/ "tx unconfirmed" \in Faults /\ ChainAnswered(i, FALSE)
    /\ UNCHANGED mempool

(* The confirmation times out before the result is mined.                  *)
SubmittedLate(i) ==
    /\ Sendable(i) /\ "tx late" \in Faults
    /\ mempool' = mempool \union {[room |-> mgr.heap[saves[i].obj].roomId,
                                   winner |-> WinnerUser(saves[i])]}
    /\ ChainAnswered(i, FALSE)
    /\ UNCHANGED escrow

SubmitResult(i) ==
    /\ saves[i] # None /\ saves[i].stage = "chain" /\ EventLoopIdle
    /\ NotSubmitted(i) \/ Submitted(i) \/ SubmittedLate(i)
    /\ UNCHANGED <<conn, socketToRoom, handling, db, history>>

Row(save) ==
    [room |-> mgr.heap[save.obj].roomId, staked |-> mgr.heap[save.obj].stake > 0,
     game |-> save.game, players |-> save.players, winner |-> save.winner,
     read |-> save.read, played |-> Winner(save.score), paid |-> save.paid]

Commit(i) == Len(db) < MaxRecords /\ db' = Append(db, Row(saves[i]))

(* matchService.saveResult: a transaction that needs both players' rows;   *)
(* its commit may go through without the backend learning of it.           *)
Storing(i) == saves[i] # None /\ saves[i].stage = "db" /\ EventLoopIdle
Known(i) == \A p \in Slots : saves[i].players[p] \in Registered

Saved(i) ==
    /\ Storing(i) /\ Known(i) /\ Commit(i)
    /\ saves' = [saves EXCEPT ![i] = None]
    /\ mgr' = Release(mgr, saves[i])

SavedUnawares(i) ==
    /\ Storing(i) /\ Known(i) /\ "db ack lost" \in Faults
    /\ Commit(i)
    /\ FailSave(i)

NotSaved(i) ==
    /\ Storing(i)
    /\ ~Known(i) \/ "db fails" \in Faults
    /\ FailSave(i)
    /\ db' = db

SaveResult(i) ==
    /\ Saved(i) \/ SavedUnawares(i) \/ NotSaved(i)
    /\ UNCHANGED <<conn, socketToRoom, handling, escrow, mempool, history>>

-----------------------------------------------------------------------------
Init ==
    /\ conn = [s \in Sockets |-> "new"]
    /\ socketToRoom = [s \in Sockets |-> None]
    /\ mgr = [rooms |-> [r \in RoomIds |-> None],
              heap |-> [o \in Objs |-> None],
              index |-> [s \in Sockets |-> None]]
    /\ core = IF Warm THEN "ready" ELSE "cold"
    /\ joins = {} /\ resets = {}
    /\ saves = [i \in SaveIds |-> None]
    /\ db = <<>>
    /\ Chain!Init
    /\ mempool = {}
    /\ games = 0
    /\ applied = [o \in Objs |-> [a \in Actions |-> 0]]

Packet(s, r) ==
    \/ \E stake \in Stakes : JoinRoom(s, r, stake)
    \/ \E a \in Actions : MakeMove(s, r, a)
    \/ ResetGame(s, r)
    \/ SyncState(s, r)
    \/ RematchRequest(s, r)
    \/ RematchAccept(s, r)
    \/ RematchDecline(s, r)

(* What is due before the event loop turns                                 *)
Resumption ==
    \/ \E j \in joins : JoinResumes(j)
    \/ \E x \in resets : RematchResumes(x)
    \/ \E o \in Objs : StartOp(o) \/ FinishMove(o) \/ FinishReset(o)

Next ==
    \/ \E s \in Sockets : Connect(s) \/ Disconnect(s)
    \/ \E s \in Sockets, r \in RoomIds : Packet(s, r)
    \/ Resumption
    \/ LoadCore
    \/ Sweep
    \/ \E o \in Objs, u \in Users : Expire(o, u)
    \/ \E o \in Objs, a \in Actions : Forget(o, a)
    \/ \E r \in RoomIds, u \in Users : Stake(r, u)
    \/ \E r \in RoomIds : ForceDraw(r)
    \/ \E tx \in mempool : Mine(tx)
    \/ \E i \in SaveIds : SubmitResult(i) \/ SaveResult(i)

Spec == Init /\ [][Next]_vars

(***************************************************************************)
(* Fairness: what is due is resumed, timers fire, and the chain and the    *)
(* database answer, though they may answer with an error every time.  These*)
(* callbacks wait for the event loop between other events, again and again,*)
(* and the loop reaches each one: strong fairness.                         *)
(***************************************************************************)
FairSpec ==
    /\ Spec
    /\ WF_vars(Resumption) /\ WF_vars(LoadCore) /\ SF_vars(Sweep)
    /\ SF_vars(\E o \in Objs, u \in Users : Expire(o, u))
    /\ \A i \in SaveIds : SF_vars(SubmitResult(i) \/ SaveResult(i))

(***************************************************************************)
(* The best case for the saving of results: the players stake what they    *)
(* play for, clients keep asking for the state (App.tsx does not), and     *)
(* neither the chain nor the database fails every time it is asked.        *)
(***************************************************************************)
RetryingSpec ==
    /\ FairSpec
    /\ \A r \in RoomIds : /\ SF_vars(\E u \in Users : Stake(r, u))
                          /\ SF_vars(\E s \in Sockets : SyncState(s, r))
    /\ SF_vars(\E i \in SaveIds : SubmitResult(i) /\ Submitted(i) /\ ChainAnswered(i, TRUE))
    /\ SF_vars(\E i \in SaveIds : SaveResult(i) /\ Saved(i))
=============================================================================
