-------------------------- MODULE ServerProperties --------------------------
(***************************************************************************)
(* What GameServer promises about seats, games and records.                *)
(***************************************************************************)
EXTENDS GameServer

GameOf == [id: Nat, board: Board]
Op == [kind: {"move", "reset"}, socket: Sockets, action: Actions \union {None}]
Seating == [Slots -> Users \union {None}]

RoomObject ==
    [roomId: RoomIds, game: GameOf, saved: BOOLEAN, stake: Nat,
     rematch: Slots \union {None}, players: Seating, sockets: SUBSET Sockets,
     pending: [Users -> [slot: Slots, expired: BOOLEAN] \union {None}],
     dedupe: SUBSET Actions, queue: Seq(Op), phase: {"start", "core", "save"},
     before: GameOf \union {None}]

(* null is not a room.                                                     *)
ASSUME NullAssumption == None \notin RoomObject

SaveInFlight ==
    [obj: Objs, owner: Objs \union {None}, game: Nat, players: Seating,
     score: [Slots -> Nat], stage: {"chain", "db"}, paid: BOOLEAN,
     winner: {"X", "O", "DRAW", None}, read: Nat]

Typed ==
    /\ conn \in [Sockets -> {"new", "live", "gone"}]
    /\ socketToRoom \in [Sockets -> RoomIds \union {None}]
    /\ mgr.rooms \in [RoomIds -> Objs \union {None}]
    /\ mgr.index \in [Sockets -> RoomIds \union {None}]
    /\ \A o \in Objs : mgr.heap[o] = None \/ mgr.heap[o] \in RoomObject
    /\ core \in {"cold", "ready"}
    /\ joins \subseteq [socket: Sockets, room: RoomIds, stake: Stakes]
    /\ resets \subseteq [obj: Objs, socket: Sockets]
    /\ \A i \in SaveIds : saves[i] = None \/ saves[i] \in SaveInFlight
    /\ games \in Nat

TypeOK == Typed /\ games <= MaxGames

LiveRooms == {r \in RoomIds : Exists(r)}

-----------------------------------------------------------------------------
(***************************************************************************)
(* The seats of a room make sense: nobody sits on both, an identity has at *)
(* most one socket in the room, a reservation is for the seat its user has,*)
(* and a seat is held by a socket of its player or by a reservation        *)
(* (assignSocket, removeSocketFromRoom).  The socket may be a ghost, see   *)
(* NoGhostPlayers.                                                         *)
(***************************************************************************)
SeatsAreHeld ==
    \A r \in LiveRooms :
        LET room == Room(r) IN
        /\ IsRoomFull(room) => room.players["X"] # room.players["O"]
        /\ \A s, t \in room.sockets : SocketUser[s] = SocketUser[t] => s = t
        /\ \A u \in Users : room.pending[u] # None
                                => room.players[room.pending[u].slot] = u
        /\ \A p \in Slots : room.players[p] # None =>
                \/ \E s \in room.sockets : SocketUser[s] = room.players[p]
                \/ room.pending[room.players[p]] # None

(***************************************************************************)
(* A player loses a seat only by leaving (a socket of its leaves the room  *)
(* in that step: another room is joined, a rematch is declined) or when it *)
(* is away and the time to come back has run out; whoever else joins,      *)
(* leaves, comes back or is swept meanwhile.  A socket that sits in a room *)
(* it is no longer indexed under leaves and returns in one JOIN_ROOM, and  *)
(* may find its seat taken or get the other one.                           *)
(***************************************************************************)
Away(room, u) == \A s \in room.sockets : SocketUser[s] # u

Loses(o, u) ==
    /\ mgr.heap[o] # None /\ mgr'.heap[o] # None
    /\ SlotOf(mgr.heap[o], u) # None
    /\ SlotOf(mgr'.heap[o], u) # SlotOf(mgr.heap[o], u)
    /\ \E r \in RoomIds : mgr.rooms[r] = o

(* A socket of u that the index lost sight of is found in the room, leaves *)
(* and enters again in one JOIN_ROOM.                                      *)
Returns(o, u) ==
    \E s \in mgr.heap[o].sockets :
        SocketUser[s] = u /\ mgr.index[s] = None /\ mgr'.index[s] # None

SeatIsKept ==
    [][\A o \in Objs, u \in Users : Loses(o, u) =>
          \/ \E s \in mgr.heap[o].sockets \ mgr'.heap[o].sockets : SocketUser[s] = u
          \/ Away(mgr.heap[o], u) /\ HasExpired(mgr.heap[o], u)
          \/ Returns(o, u)]_vars

-----------------------------------------------------------------------------
(***************************************************************************)
(* A board changes by one legal move at a time: a free edge is taken, from *)
(* the very board the move was checked against, and no move is undone or   *)
(* overwritten; a room gets another game only as a new one (the            *)
(* moveInProgress chain serialises what handlers do around their awaits).  *)
(***************************************************************************)
MovesAreKept ==
    [][\A o \in Objs : mgr.heap[o] # None /\ InUse(o) =>
          LET g == mgr.heap[o].game
              h == mgr'.heap[o].game
          IN  \/ h = g
              \/ h = NewGame(games + 1)
              \/ /\ h.id = g.id
                 /\ \E e \in BoardEdges \ g.board.taken :
                        h.board \in After(g.board, e)]_vars

(***************************************************************************)
(* An actionId changes a room's board at most once, however often its      *)
(* packet is delivered and whatever happens in between, a new game after a *)
(* reset included (dedupe, lines 385-393), but not a rematch, which forgets*)
(* the actionIds.                                                          *)
(***************************************************************************)
AppliedAtMostOnce == \A o \in Objs, a \in Actions : applied[o][a] <= 1

-----------------------------------------------------------------------------
Rows == {db[i] : i \in DOMAIN db}

(***************************************************************************)
(* A finished game is stored once: the flag that is set before the first   *)
(* await lets no second save start, whichever handlers find the board full *)
(* (lines 146-150).  A failure of the chain or of the database takes it    *)
(* back for a retry; a failure after a rematch takes back the flag of the  *)
(* next game, and a commit whose acknowledgement is lost counts as one.    *)
(***************************************************************************)
RecordedAtMostOnce ==
    /\ \A i, j \in DOMAIN db : db[i].game = db[j].game => i = j
    /\ \A i, j \in SaveIds : /\ saves[i] # None /\ saves[j] # None
                             /\ saves[i].game = saves[j].game
                             => i = j

(* No save in flight is of a game that its room has left behind.           *)
SavesAreCurrent ==
    \A i \in SaveIds :
        saves[i] # None => mgr.heap[saves[i].obj].game.id = saves[i].game

(***************************************************************************)
(* The one way to store a game twice is a save that outlives its game in   *)
(* the room, by a rematch or a reset, and fails (line 217).  Otherwise     *)
(* chain and database may fail, answer late or lose their answers, and     *)
(* moves, joins and syncs may find the board full at any time: a game with *)
(* a stake has one save at a time, and one row.                            *)
(***************************************************************************)
DoubleSavesNeedRaces == []SavesAreCurrent => []RecordedAtMostOnce

(***************************************************************************)
(* When the board is full, its result is saved (README.md:481): the stored *)
(* winner is the winner of the board that was full.                        *)
(***************************************************************************)
RecordedAsPlayed == \A row \in Rows : row.winner = row.played

(***************************************************************************)
(* With the chain enabled, a staked room has at most one row, and only once*)
(* the escrow has been resolved for the player who won the game that was   *)
(* saved: late transactions, retries, resets and rematches notwithstanding *)
(* (lines 177-187).  The winner that the row names is the one whom the     *)
(* escrow paid, unless the room had gone on to another game when the score *)
(* was read again for the row (line 200, RecordedAsPlayed).                *)
(***************************************************************************)
PaidTo(row, winner) ==
    /\ escrow[row.room].status = "Resolved"
    /\ escrow[row.room].winner = IF winner = Draw THEN Draw ELSE row.players[winner]

RowsAreSettled ==
    \A i \in DOMAIN db : ChainEnabled /\ db[i].staked =>
        /\ db[i].paid
        /\ PaidTo(db[i], db[i].played)
        /\ db[i].read = db[i].game => PaidTo(db[i], db[i].winner)
        /\ \A j \in DOMAIN db : db[j].room = db[i].room /\ db[j].staked => i = j

-----------------------------------------------------------------------------
(***************************************************************************)
(* No ghost players (docs/implementation-summary.md, Room Switching): a    *)
(* socket that a room counts is connected, and is in no other room.        *)
(***************************************************************************)
NoGhostPlayers ==
    \A r \in LiveRooms : \A s \in Room(r).sockets :
        /\ conn[s] = "live"
        /\ \A q \in LiveRooms \ {r} : s \notin Room(q).sockets

(* While a JOIN_ROOM awaits createGame its socket stays, and nothing else  *)
(* takes it into a room.                                                   *)
JoinsAreAlone ==
    \A j \in joins :
        /\ conn[j.socket] = "live"
        /\ \A k \in joins : k.socket = j.socket => k = j
        /\ \A r \in LiveRooms : j.socket \notin Room(r).sockets

(***************************************************************************)
(* A ghost comes only of a JOIN_ROOM that was overtaken in its await of    *)
(* createGame (line 285): by the end of its connection, or by another join *)
(* of its socket.  Every other way in and out - switching rooms, returning,*)
(* a declined rematch, a disconnect - leaves none behind.                  *)
(***************************************************************************)
GhostsNeedRaces == []JoinsAreAlone => []NoGhostPlayers

(***************************************************************************)
(* Automatic room cleanup after timeout (docs/implementation-summary.md    *)
(* line 180): a room that nobody is connected to is in time dropped or     *)
(* entered again, as reservations expire and the sweep removes the room.   *)
(* The code keeps this but for one case, the second disjunct: a ghost that *)
(* disconnected before its JOIN_ROOM went on (NoGhostPlayers) keeps a room *)
(* for ever, since only rooms without sockets are dropped (roomManager.ts  *)
(* line 259).                                                              *)
(***************************************************************************)
Haunted(r) == Exists(r) /\ \E s \in Room(r).sockets : conn[s] = "gone"

Deserted(r) == Exists(r) /\ \A s \in Room(r).sockets : conn[s] = "gone"

AbandonedRoomsGo == \A r \in RoomIds : Deserted(r) ~> ~Deserted(r) \/ Haunted(r)

(***************************************************************************)
(* A save comes to an end, however chain and database answer (lines 193 to *)
(* 219, 415).  A game that is marked as saved is in time in the database,  *)
(* or the mark is taken back, so that the next move, join or sync tries    *)
(* again, or the room has gone on without the game; and the moves and      *)
(* resets that wait behind the move that filled the board are handled.     *)
(***************************************************************************)
IsMarked(r, n) == Exists(r) /\ Room(r).game.id = n /\ Room(r).saved

MarkedGamesAreStored ==
    \A r \in RoomIds, n \in 1..MaxGames :
        IsMarked(r, n) ~> ~IsMarked(r, n) \/ \E row \in Rows : row.game = n

IsSaving(o) == mgr.heap[o] # None /\ mgr.heap[o].queue # <<>> /\ mgr.heap[o].phase = "save"

ChainsMoveOn == \A o \in Objs : IsSaving(o) ~> ~IsSaving(o)

SavesEnd == MarkedGamesAreStored /\ ChainsMoveOn

(***************************************************************************)
(* Eventual save without additional retry logic (handler.ts lines 337-340):*)
(* a finished game whose players keep their seats is stored in the end,    *)
(* when clients keep asking and failures do not last.                      *)
(***************************************************************************)
FinishedGamesAreStored ==
    \A r \in RoomIds, n \in 1..MaxGames :
        (/\ Exists(r) /\ Room(r).game.id = n
         /\ Full(Room(r).game.board) /\ IsRoomFull(Room(r)))
            ~> \/ \E row \in Rows : row.game = n
               \/ ~Exists(r)
               \/ ~IsRoomFull(Room(r))
=============================================================================
