---------------------------- MODULE RoomManager ----------------------------
(***************************************************************************)
(* The rooms of the server and who sits in them, after                     *)
(* src/packages/backend/src/room/roomManager.ts.  Each operator maps the   *)
(* manager before a method to the manager after it.  The manager keeps     *)
(*   rooms  the map from room ids to room objects,                         *)
(*   heap   the room objects (a handler may hold one that has left rooms), *)
(*   index  socketToRoomId.                                                *)
(* The clock is abstracted to one flag per reservation: it has expired.    *)
(***************************************************************************)
EXTENDS BoardRules, Sequences, FiniteSetsExt

CONSTANTS
    RoomIds, Users, Sockets,
    SocketUser,     \* [Sockets -> Users]: the identity a socket logged in with
    Objs,           \* bound: room objects that can exist at once
    None            \* null and undefined

ASSUME SocketUserAssumption == SocketUser \in [Sockets -> Users]

ASSUME FiniteAssumption == IsFiniteSet(RoomIds) /\ IsFiniteSet(Sockets)

(* null is neither a name nor a reservation.                               *)
ASSUME NoneAssumption ==
    /\ None \notin RoomIds /\ None \notin Users /\ None \notin Sockets
    /\ None \notin Objs /\ None \notin Slots
    /\ None \notin [slot: Slots, expired: BOOLEAN]

(* getOrCreateRoom for an id that has no room                              *)
NewRoom(r, game, stake) ==
    [roomId |-> r, game |-> game, saved |-> FALSE, stake |-> stake, rematch |-> None,
     players |-> [p \in Slots |-> None], sockets |-> {},
     pending |-> [u \in Users |-> None], dedupe |-> {},
     queue |-> <<>>, phase |-> "start", before |-> None]

SlotOf(room, u) ==
    IF room.players["X"] = u THEN "X"
    ELSE IF room.players["O"] = u THEN "O" ELSE None

(* getPlayerInRoom                                                         *)
PlayerInRoom(room, s) ==
    IF s \in room.sockets THEN SlotOf(room, SocketUser[s]) ELSE None

IsRoomFull(room) == \A p \in Slots : room.players[p] # None

HasExpired(room, u) == room.pending[u] # None /\ room.pending[u].expired

(* Mutant: the reservation goes, the seat stays taken.                     *)
CleanupKeepingSeats(room) ==
    [room EXCEPT
        !.pending = [u \in Users |-> IF HasExpired(room, u) THEN None ELSE @[u]]]

CleanupExpiredReconnect(room) ==
    [room EXCEPT
        !.players = [p \in Slots |->
            IF /\ @[p] # None
               /\ HasExpired(room, @[p])
               /\ room.pending[@[p]].slot = p
            THEN None ELSE @[p]],
        !.pending = [u \in Users |-> IF HasExpired(room, u) THEN None ELSE @[u]]]

(* Mutant: coming back does not end the reservation.                       *)
AssignKeepingReservation(joining, s, late) ==
    LET u == SocketUser[s]
        room == [joining EXCEPT !.sockets = @ \union {s}]
    IN  IF SlotOf(room, u) # None \/ IsRoomFull(room) THEN room
        ELSE IF room.players["X"] = None
             THEN [room EXCEPT !.players["X"] = u]
             ELSE [room EXCEPT !.players["O"] = u]

(***************************************************************************)
(* assignSocket.  late: the clock passed the deadline of the reservation   *)
(* between its check here and the cleanupExpiredReconnect just before.     *)
(***************************************************************************)
AssignSocket(joining, s, late) ==
    LET u == SocketUser[s]
        room == [joining EXCEPT !.sockets = @ \union {s}]
        reserved == room.pending[u] # None
    IN  IF reserved /\ ~late
        THEN [room EXCEPT !.players[room.pending[u].slot] = u, !.pending[u] = None]
        ELSE LET seen == IF reserved THEN [room EXCEPT !.pending[u].expired = TRUE]
                         ELSE room
             IN  IF SlotOf(room, u) # None \/ IsRoomFull(room) THEN seen
                 ELSE IF room.players["X"] = None
                      THEN [seen EXCEPT !.players["X"] = u]
                      ELSE [seen EXCEPT !.players["O"] = u]

(* Mutant: a disconnect reserves nothing.                                  *)
LeaveUnreserved(room, s, reserve) ==
    LET u == SocketUser[s]
        left == [room EXCEPT !.sockets = @ \ {s}]
    IN  IF reserve \/ \E t \in left.sockets : SocketUser[t] = u THEN left
        ELSE [left EXCEPT
                !.players = [p \in Slots |-> IF @[p] = u THEN None ELSE @[p]],
                !.pending[u] = None]

(* removeSocketFromRoom, up to its cleanupRoom                             *)
Leave(room, s, reserve) ==
    LET u == SocketUser[s]
        left == [room EXCEPT !.sockets = @ \ {s}]
    IN  IF \E t \in left.sockets : SocketUser[t] = u THEN left
        ELSE IF ~reserve
        THEN [left EXCEPT
                !.players = [p \in Slots |-> IF @[p] = u THEN None ELSE @[p]],
                !.pending[u] = None]
        ELSE IF SlotOf(room, u) = None THEN left
        ELSE [left EXCEPT
                !.pending[u] = [slot |-> SlotOf(room, u), expired |-> FALSE]]

Idle(room) == room.sockets = {} /\ \A p \in Slots : room.players[p] = None

CleanupRoom(m, r) ==
    IF m.rooms[r] = None THEN m
    ELSE LET room == CleanupExpiredReconnect(m.heap[m.rooms[r]]) IN
         [m EXCEPT !.heap[m.rooms[r]] = room,
                   !.rooms[r] = IF Idle(room) THEN None ELSE @]

RemoveSocketFromRoom(m, r, s, reserve) ==
    IF s \notin m.heap[m.rooms[r]].sockets THEN m
    ELSE CleanupRoom([m EXCEPT !.heap[m.rooms[r]] = Leave(@, s, reserve),
                               !.index[s] = None], r)

(* removeSocket: the indexed room, or else a room that has it (the code's  *)
(* map has an order of insertion, which the model does not keep)           *)
RemoveSocket(m, s, reserve) ==
    LET indexed == m.index[s]
        having == {r \in RoomIds :
                      m.rooms[r] # None /\ s \in m.heap[m.rooms[r]].sockets}
    IN  IF indexed # None /\ m.rooms[indexed] # None
        THEN RemoveSocketFromRoom(m, indexed, s, reserve)
        ELSE LET n == [m EXCEPT !.index[s] = None] IN
             IF having = {} THEN n
             ELSE RemoveSocketFromRoom(n, CHOOSE r \in having : TRUE, s, reserve)

SweepExpired(m) == FoldSet(LAMBDA r, n : CleanupRoom(n, r), m, RoomIds)
=============================================================================
