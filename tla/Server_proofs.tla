---------------------------- MODULE Server_proofs ----------------------------
(***************************************************************************)
(* Proofs about the server: rooms, seats, queues, moves, settlement, rows. *)
(*                                                                         *)
(* ServerInv is the inductive invariant everything rests on:               *)
(*   SoundRoom  a room object is well formed and its seats are held;       *)
(*   SoundMgr   rooms, heap and index agree, room by room;                 *)
(*   SavesOK    a save in flight has its object, and at most one save is   *)
(*              waited for by a chain, which is in its phase "save";       *)
(*   Indexed    the manager's index agrees with the handlers' table.       *)
(* Lemma Steps says once what each step does to rooms, seats and games     *)
(* (ServerStep); the later theorems argue from that and not from Next:     *)
(*   AllAbsent  whoever has a reservation is away      (SeatIsKept)        *)
(*   RaceInv    a chain writes to the board it read    (MovesAreKept)      *)
(*   NotedInv   what was applied is still remembered   (AppliedAtMostOnce) *)
(*   StakesInv  a staked save due for its row has its escrow resolved for  *)
(*              the winner of the save         (RowsAreSettled)            *)
(*   Records    a game is in one room object, is recorded at most once,    *)
(*              and its room knows when it is  (RecordedAtMostOnce)        *)
(*   OneGameInv a save in flight is of its room's game, if rooms play one  *)
(*   GamesFit   whatever will start a game has a place for it   (TypeOK)   *)
(* A hypothesis of a theorem (TickFree, OneAtATime, Remembering, OneGame)  *)
(* is about the faults and requests of the instance, and names the         *)
(* scenario without which the property does not hold of this code.  InTime *)
(* is one about steps: it excludes the step that takes a mark back too     *)
(* late.                                                                   *)
(***************************************************************************)
EXTENDS ServerProperties, FiniteSetTheorems, NaturalsInduction,
        WellFoundedInduction, TLAPS

(***************************************************************************)
(* Room objects: their types, their seats, and what the methods of the     *)
(* room manager do to one of them.                                         *)
(***************************************************************************)
Reservation == [slot: Slots, expired: BOOLEAN]

QueuedOp == [kind: {"move"}, socket: Sockets, action: Actions]
            \union [kind: {"reset"}, socket: Sockets, action: {None}]

(* RoomObject, with an action in every move that waits                     *)
RoomRec ==
    [roomId: RoomIds, game: GameOf, saved: BOOLEAN, stake: Nat,
     rematch: Slots \union {None}, players: Seating, sockets: SUBSET Sockets,
     pending: [Users -> Reservation \union {None}],
     dedupe: SUBSET Actions, queue: Seq(QueuedOp), phase: {"start", "core", "save"},
     before: GameOf \union {None}]

(* SeatsAreHeld, of the three parts of a room it is about                  *)
Seats(players, sockets, pending) ==
    /\ players["X"] # None => players["X"] # players["O"]
    /\ \A s, t \in sockets : SocketUser[s] = SocketUser[t] => s = t
    /\ \A u \in Users : pending[u] # None => players[pending[u].slot] = u
    /\ \A p \in Slots : players[p] # None =>
            \/ \E s \in sockets : SocketUser[s] = players[p]
            \/ pending[players[p]] # None

(* A room object that makes sense: its seats do, the chain has a board to  *)
(* go on with after an await, and no operation is under way without one    *)
(* that waits.                                                             *)
SoundRoom(room) ==
    /\ room \in RoomRec
    /\ Seats(room.players, room.sockets, room.pending)
    /\ room.phase = "core" => room.before \in GameOf
    /\ room.queue = <<>> => room.phase = "start"

(* The methods of the room manager change nothing but the seats.           *)
OnlySeats(a, b) ==
    /\ b.roomId = a.roomId /\ b.game = a.game /\ b.saved = a.saved
    /\ b.stake = a.stake /\ b.dedupe = a.dedupe /\ b.queue = a.queue
    /\ b.phase = a.phase /\ b.before = a.before

(* null is none of the names the room records hold.                        *)
LEMMA NoneIsNoName ==
    /\ None \notin RoomIds /\ None \notin Users /\ None \notin Sockets
    /\ None \notin Objs /\ None \notin Slots /\ None \notin Reservation
BY NoneAssumption DEF Reservation

(* A room is sound when it differs from a sound one in its seats only and  *)
(* the three parts of its seats agree.                                     *)
LEMMA SoundBySeats ==
    ASSUME NEW a, SoundRoom(a), NEW b \in RoomRec, OnlySeats(a, b),
           Seats(b.players, b.sockets, b.pending)
    PROVE  SoundRoom(b)
BY DEF SoundRoom, OnlySeats

(* cleanupExpiredReconnect, by its parts                                   *)
FreedPlayers(players, pending) ==
    [p \in Slots |->
        IF /\ players[p] # None
           /\ pending[players[p]] # None /\ pending[players[p]].expired
           /\ pending[players[p]].slot = p
        THEN None ELSE players[p]]

FreedPending(pending) ==
    [u \in Users |-> IF pending[u] # None /\ pending[u].expired THEN None ELSE pending[u]]

(* Freeing the seats whose reservation has expired keeps the parts of the  *)
(* seats in agreement.                                                     *)
LEMMA FreedSeats ==
    ASSUME NEW players \in Seating, NEW sockets \in SUBSET Sockets,
           NEW pending \in [Users -> Reservation \union {None}],
           Seats(players, sockets, pending)
    PROVE  /\ FreedPlayers(players, pending) \in Seating
           /\ FreedPending(pending) \in [Users -> Reservation \union {None}]
           /\ Seats(FreedPlayers(players, pending), sockets, FreedPending(pending))
<1> DEFINE P == FreedPlayers(players, pending)
           Q == FreedPending(pending)
<1>1. P \in Seating /\ \A p \in Slots : P[p] \in {None, players[p]}
    BY DEF FreedPlayers, Seating
<1>2. /\ Q \in [Users -> Reservation \union {None}]
      /\ \A u \in Users : Q[u] \in {None, pending[u]}
      /\ \A u \in Users : Q[u] # None => ~pending[u].expired
    BY DEF FreedPending
<1>3. \A p \in Slots : P[p] = None /\ players[p] # None =>
            /\ players[p] \in Users
            /\ pending[players[p]] # None /\ pending[players[p]].expired
            /\ pending[players[p]].slot = p
    BY DEF FreedPlayers, Seating
<1>4. \A u \in Users : Q[u] = None /\ pending[u] # None => pending[u].expired
    BY DEF FreedPending
<1>5. "X" \in Slots /\ "O" \in Slots /\ \A p, q \in Slots : p # q => {p, q} = {"X", "O"}
    BY DEF Slots
<1>6. \A p, q \in Slots : players[p] # None /\ players[p] = players[q] => p = q
    BY <1>5 DEF Seats
<1>7. \A u \in Users : pending[u] # None => pending[u].slot \in Slots
    BY DEF Reservation
<1>8. \A p \in Slots : players[p] # None => players[p] \in Users
    BY DEF Seating
<1>9. \A p \in Slots : P[p] # None => P[p] = players[p]
    BY <1>1
<1> HIDE DEF P, Q
<1>10. P["X"] # None => P["X"] # P["O"]
    BY <1>1, <1>5, <1>6
<1>11. \A u \in Users : Q[u] # None => P[Q[u].slot] = u
  <2> SUFFICES ASSUME NEW u \in Users, Q[u] # None PROVE P[Q[u].slot] = u
    OBVIOUS
  <2>1. Q[u] = pending[u] /\ ~pending[u].expired /\ pending[u] # None
    BY <1>2
  <2>2. players[pending[u].slot] = u /\ u # None /\ pending[u].slot \in Slots
    BY <2>1, <1>7, NoneIsNoName DEF Seats
  <2>3. P[pending[u].slot] # None
    BY <2>1, <2>2, <1>3
  <2>4. QED
    BY <2>1, <2>2, <2>3, <1>9
<1>12. ASSUME NEW p \in Slots, P[p] # None
       PROVE  (\E s \in sockets : SocketUser[s] = P[p]) \/ Q[P[p]] # None
  <2>1. P[p] = players[p] /\ players[p] \in Users /\ players[p] # None
    BY <1>8, <1>9, <1>12
  <2>2. CASE pending[players[p]] # None
    <3>1. pending[players[p]].slot = p
      BY <2>1, <2>2, <1>6, <1>7 DEF Seats
    <3>2. ~pending[players[p]].expired
      BY <2>1, <2>2, <3>1, <1>12 DEF P, FreedPlayers
    <3>3. QED
      BY <2>1, <2>2, <3>2, <1>4
  <2>3. QED
    BY <2>1, <2>2 DEF Seats
<1>13. Seats(P, sockets, Q)
    BY <1>10, <1>11, <1>12 DEF Seats
<1>14. QED
    BY <1>1, <1>2, <1>13 DEF P, Q

(* cleanupExpiredReconnect writes players and pending and nothing else.    *)
LEMMA CleanupParts ==
    ASSUME NEW room \in RoomRec
    PROVE  LET after == CleanupExpiredReconnect(room) IN
           /\ after \in RoomRec
           /\ after.players = FreedPlayers(room.players, room.pending)
           /\ after.pending = FreedPending(room.pending)
           /\ after.sockets = room.sockets /\ after.rematch = room.rematch
           /\ OnlySeats(room, after)
<1> DEFINE P == FreedPlayers(room.players, room.pending)
           Q == FreedPending(room.pending)
<1>1. CleanupExpiredReconnect(room) = [room EXCEPT !.players = P, !.pending = Q]
    BY DEF CleanupExpiredReconnect, HasExpired, FreedPlayers, FreedPending, RoomRec
<1>2. P \in Seating
    BY DEF RoomRec, FreedPlayers, Seating
<1>3. Q \in [Users -> Reservation \union {None}]
    BY DEF RoomRec, FreedPending
<1> HIDE DEF P, Q
<1>4. [room EXCEPT !.players = P, !.pending = Q] \in RoomRec
    BY <1>2, <1>3 DEF RoomRec
<1>5. QED
    BY <1>1, <1>4 DEF RoomRec, OnlySeats, P, Q

(* cleanupExpiredReconnect keeps a room sound.                             *)
LEMMA CleanupSound ==
    ASSUME NEW room, SoundRoom(room)
    PROVE  SoundRoom(CleanupExpiredReconnect(room))
<1>1. room \in RoomRec /\ Seats(room.players, room.sockets, room.pending)
    BY DEF SoundRoom
<1>2. room.players \in Seating /\ room.sockets \in SUBSET Sockets
      /\ room.pending \in [Users -> Reservation \union {None}]
    BY <1>1 DEF RoomRec
<1> DEFINE after == CleanupExpiredReconnect(room)
<1>3. /\ after \in RoomRec /\ OnlySeats(room, after)
      /\ after.players = FreedPlayers(room.players, room.pending)
      /\ after.pending = FreedPending(room.pending)
      /\ after.sockets = room.sockets
    BY <1>1, CleanupParts
<1> HIDE DEF after
<1>4. Seats(after.players, after.sockets, after.pending)
    BY <1>1, <1>2, <1>3, FreedSeats
<1>5. SoundRoom(after)
    BY <1>3, <1>4, SoundBySeats
<1>6. QED
    BY <1>5 DEF after

(* The first seat that names a user is the seat of that user: no user has  *)
(* two.                                                                    *)
LEMMA SlotOfSeat ==
    ASSUME NEW room \in RoomRec, Seats(room.players, room.sockets, room.pending), NEW u \in Users
    PROVE  /\ \A p \in Slots : SlotOf(room, u) = p <=> room.players[p] = u
           /\ SlotOf(room, u) = None <=> \A p \in Slots : room.players[p] # u
           /\ SlotOf(room, u) \in Slots \union {None}
BY NoneIsNoName DEF SlotOf, Seats, Slots, RoomRec, Seating

(* Whoever has a seat keeps it in a room where no seat is taken away.      *)
LEMMA SeatsStay ==
    ASSUME NEW a \in RoomRec, Seats(a.players, a.sockets, a.pending),
           NEW b \in RoomRec, Seats(b.players, b.sockets, b.pending),
           NEW u \in Users, SlotOf(a, u) # None,
           \A p \in Slots : a.players[p] = u => b.players[p] = u
    PROVE  SlotOf(b, u) = SlotOf(a, u)
BY SlotOfSeat

(* A reservation with another expiry flag, written out.                    *)
LEMMA WithFlag ==
    ASSUME NEW q \in Reservation, NEW x \in BOOLEAN
    PROVE  /\ [q EXCEPT !.expired = x] = [slot |-> q.slot, expired |-> x]
           /\ [slot |-> q.slot, expired |-> x] \in Reservation
BY DEF Reservation

(* What assignPlayer does to the seats and the reservations of a room, for *)
(* a newcomer, a holder of a seat and a spectator.                         *)
LEMMA AssignParts ==
    ASSUME NEW room \in RoomRec, NEW s \in Sockets, NEW late \in BOOLEAN,
           Seats(room.players, room.sockets, room.pending)
    PROVE  LET after == AssignSocket(room, s, late)
               u == SocketUser[s]
           IN  /\ after \in RoomRec /\ OnlySeats(room, after)
               /\ after.rematch = room.rematch
               /\ after.sockets = room.sockets \union {s}
               /\ \A v \in Users : v # u => after.pending[v] = room.pending[v]
               /\ room.pending[u] = None => after.pending[u] = None
               /\ ~late => after.pending[u] = None
               /\ room.pending[u] # None /\ late =>
                    after.pending[u] = [slot |-> room.pending[u].slot, expired |-> TRUE]
               /\ \/ after.players = room.players
                  \/ /\ SlotOf(room, u) = None
                     /\ \E p \in Slots : /\ room.players[p] = None
                                         /\ after.players = [room.players EXCEPT ![p] = u]
<1> DEFINE u == SocketUser[s]
           joined == [room EXCEPT !.sockets = @ \union {s}]
           after == AssignSocket(room, s, late)
<1>1. u \in Users /\ u # None /\ "X" \in Slots /\ "O" \in Slots
    BY SocketUserAssumption, NoneIsNoName DEF Slots
<1>2. /\ joined \in RoomRec /\ OnlySeats(room, joined)
      /\ joined.rematch = room.rematch /\ joined.players = room.players
      /\ joined.pending = room.pending /\ joined.sockets = room.sockets \union {s}
    BY DEF RoomRec, OnlySeats
<1>3. SlotOf(joined, u) = SlotOf(room, u)
    BY <1>2 DEF SlotOf
<1>4. /\ room.players \in Seating /\ room.pending \in [Users -> Reservation \union {None}]
    BY DEF RoomRec
<1> HIDE DEF joined, u
<1>5. CASE room.pending[u] # None /\ ~late
  <2>1. after = [joined EXCEPT !.players[room.pending[u].slot] = u, !.pending[u] = None]
    BY <1>2, <1>5 DEF AssignSocket, joined, u
  <2>2. room.pending[u].slot \in Slots /\ room.players[room.pending[u].slot] = u
    BY <1>1, <1>4, <1>5 DEF Seats, Reservation
  <2> DEFINE P == [room.players EXCEPT ![room.pending[u].slot] = u]
             Q == [room.pending EXCEPT ![u] = None]
  <2>3. P = room.players
    BY <1>4, <2>2 DEF Seating
  <2>4. Q \in [Users -> Reservation \union {None}] /\ Q[u] = None
        /\ \A v \in Users : v # u => Q[v] = room.pending[v]
    BY <1>1, <1>4
  <2>5. after = [joined EXCEPT !.players = P, !.pending = Q]
    BY <1>2, <2>1 DEF RoomRec
  <2> HIDE DEF P, Q, after
  <2>6. after \in RoomRec
    BY <1>2, <1>4, <2>3, <2>4, <2>5 DEF RoomRec
  <2>7. /\ after.players = room.players /\ after.pending = Q
        /\ OnlySeats(joined, after) /\ after.rematch = joined.rematch
        /\ after.sockets = joined.sockets
    BY <1>2, <2>3, <2>5 DEF RoomRec, OnlySeats
  <2>8. QED
    BY <1>2, <1>5, <2>4, <2>6, <2>7 DEF OnlySeats, after, u
<1>6. CASE ~(room.pending[u] # None /\ ~late)
  <2> DEFINE Q == IF room.pending[u] # None THEN [room.pending EXCEPT ![u].expired = TRUE]
                  ELSE room.pending
             seen == [joined EXCEPT !.pending = Q]
             P == IF SlotOf(room, u) # None \/ IsRoomFull(room) THEN room.players
                  ELSE IF room.players["X"] = None THEN [room.players EXCEPT !["X"] = u]
                  ELSE [room.players EXCEPT !["O"] = u]
  <2>1. /\ Q \in [Users -> Reservation \union {None}]
        /\ \A v \in Users : v # u => Q[v] = room.pending[v]
        /\ room.pending[u] = None => Q[u] = None
        /\ room.pending[u] # None =>
              Q[u] = [slot |-> room.pending[u].slot, expired |-> TRUE]
    <3>1. CASE room.pending[u] = None
      BY <1>4, <3>1
    <3>2. CASE room.pending[u] # None
      <4>1. room.pending[u] \in Reservation
        BY <1>1, <1>4, <3>2
      <4>2. [room.pending[u] EXCEPT !.expired = TRUE]
                = [slot |-> room.pending[u].slot, expired |-> TRUE]
        BY <4>1, WithFlag, Zenon
      <4>3. [slot |-> room.pending[u].slot, expired |-> TRUE] \in Reservation
        BY <4>1, WithFlag, Zenon
      <4>4. Q = [room.pending EXCEPT
                    ![u] = [slot |-> room.pending[u].slot, expired |-> TRUE]]
        BY <3>2, <4>2, Zenon
      <4> DEFINE q == [slot |-> room.pending[u].slot, expired |-> TRUE]
      <4> HIDE DEF Q, q
      <4>5. q \in Reservation /\ Q = [room.pending EXCEPT ![u] = q]
        BY <4>3, <4>4 DEF q
      <4>6. /\ Q \in [Users -> Reservation \union {None}] /\ Q[u] = q
            /\ \A v \in Users : v # u => Q[v] = room.pending[v]
        BY <1>1, <1>4, <4>5
      <4>7. QED
        BY <3>2, <4>6 DEF q
    <3>3. QED
      BY <3>1, <3>2
  <2>2. /\ P \in Seating
        /\ \/ P = room.players
           \/ /\ SlotOf(room, u) = None
              /\ \E p \in Slots : /\ room.players[p] = None
                                  /\ P = [room.players EXCEPT ![p] = u]
    BY <1>1, <1>4 DEF Seating, IsRoomFull, Slots
  <2>3. after = [seen EXCEPT !.players = P]
    <3>1. (IF room.pending[u] # None THEN [joined EXCEPT !.pending[u].expired = TRUE]
           ELSE joined) = seen
      BY <1>2 DEF RoomRec
    <3>2. seen \in RoomRec /\ seen.players = room.players
      BY <1>2, <2>1 DEF RoomRec
    <3>3. IsRoomFull(joined) = IsRoomFull(room)
      BY <1>2 DEF IsRoomFull
    <3> HIDE DEF seen
    <3>4. after = IF SlotOf(room, u) # None \/ IsRoomFull(room) THEN seen
                  ELSE IF room.players["X"] = None
                       THEN [seen EXCEPT !.players["X"] = u]
                       ELSE [seen EXCEPT !.players["O"] = u]
      BY <1>2, <1>3, <1>6, <3>1, <3>3 DEF AssignSocket, joined, u
    <3>5. seen = [seen EXCEPT !.players = room.players]
      BY <3>2 DEF RoomRec
    <3>6. /\ [seen EXCEPT !.players["X"] = u]
                = [seen EXCEPT !.players = [room.players EXCEPT !["X"] = u]]
          /\ [seen EXCEPT !.players["O"] = u]
                = [seen EXCEPT !.players = [room.players EXCEPT !["O"] = u]]
      BY <3>2, Zenon
    <3>7. QED
      BY <3>4, <3>5, <3>6, Zenon
  <2> HIDE DEF P, Q, after
  <2>4. /\ after \in RoomRec /\ after.players = P /\ after.pending = Q
        /\ OnlySeats(joined, after) /\ after.rematch = joined.rematch
        /\ after.sockets = joined.sockets
    <3>1. /\ seen \in RoomRec /\ seen.pending = Q /\ seen.rematch = joined.rematch
          /\ seen.sockets = joined.sockets /\ OnlySeats(joined, seen)
      BY <1>2, <2>1 DEF RoomRec, OnlySeats
    <3> HIDE DEF seen
    <3>2. QED
      BY <2>2, <2>3, <3>1 DEF RoomRec, OnlySeats
  <2>5. QED
    BY <1>2, <1>6, <2>1, <2>2, <2>4 DEF OnlySeats, after, u
<1>7. QED
    BY <1>5, <1>6

(* Of AssignParts, what the callers of assignPlayer need.                  *)
LEMMA AssignShape ==
    ASSUME NEW room \in RoomRec, NEW s \in Sockets, NEW late \in BOOLEAN,
           Seats(room.players, room.sockets, room.pending)
    PROVE  /\ OnlySeats(room, AssignSocket(room, s, late))
           /\ AssignSocket(room, s, late).sockets = room.sockets \union {s}
           /\ ~late => AssignSocket(room, s, late).pending[SocketUser[s]] = None
           /\ \A v \in Users : v # SocketUser[s] =>
                AssignSocket(room, s, late).pending[v] = room.pending[v]
<1> DEFINE after == AssignSocket(room, s, late)
           u == SocketUser[s]
<1>1. /\ after \in RoomRec /\ OnlySeats(room, after)
      /\ after.rematch = room.rematch
      /\ after.sockets = room.sockets \union {s}
      /\ \A v \in Users : v # u => after.pending[v] = room.pending[v]
      /\ room.pending[u] = None => after.pending[u] = None
      /\ ~late => after.pending[u] = None
      /\ room.pending[u] # None /\ late =>
           after.pending[u] = [slot |-> room.pending[u].slot, expired |-> TRUE]
      /\ \/ after.players = room.players
         \/ /\ SlotOf(room, u) = None
            /\ \E p \in Slots : /\ room.players[p] = None
                                /\ after.players = [room.players EXCEPT ![p] = u]
    BY AssignParts
<1>2. QED
    BY <1>1

(* assignSocket, for a socket whose identity has no other one in the room  *)
LEMMA AssignSound ==
    ASSUME NEW room, SoundRoom(room), NEW s \in Sockets, NEW late \in BOOLEAN,
           \A t \in room.sockets \ {s} : SocketUser[t] # SocketUser[s]
    PROVE  /\ SoundRoom(AssignSocket(room, s, late))
           /\ \A p \in Slots : room.players[p] # None =>
                AssignSocket(room, s, late).players[p] = room.players[p]
<1> DEFINE u == SocketUser[s]
           after == AssignSocket(room, s, late)
<1>1. room \in RoomRec /\ Seats(room.players, room.sockets, room.pending)
    BY DEF SoundRoom
<1>2. /\ room.players \in Seating /\ room.pending \in [Users -> Reservation \union {None}]
      /\ u \in Users /\ u # None /\ "X" \in Slots /\ "O" \in Slots
    BY <1>1, SocketUserAssumption, NoneIsNoName DEF RoomRec, Slots
<1>3. /\ after \in RoomRec /\ OnlySeats(room, after)
      /\ after.sockets = room.sockets \union {s}
      /\ \A v \in Users : v # u => after.pending[v] = room.pending[v]
      /\ \/ after.pending[u] = None
         \/ /\ room.pending[u] # None
            /\ after.pending[u] = [slot |-> room.pending[u].slot, expired |-> TRUE]
      /\ \/ after.players = room.players
         \/ /\ SlotOf(room, u) = None
            /\ \E p \in Slots : /\ room.players[p] = None
                                /\ after.players = [room.players EXCEPT ![p] = u]
    BY <1>1, AssignParts
<1> HIDE DEF after, u
<1>4. /\ \A p \in Slots : room.players[p] # None => after.players[p] = room.players[p]
      /\ \A p \in Slots : after.players[p] # room.players[p] =>
            after.players[p] = u /\ room.players["X"] # u /\ room.players["O"] # u
    BY <1>1, <1>2, <1>3, SlotOfSeat DEF Seating, Slots
<1>5. after.players["X"] # None => after.players["X"] # after.players["O"]
  <2>1. CASE after.players = room.players
    BY <1>1, <2>1 DEF Seats
  <2>2. CASE SlotOf(room, u) = None
             /\ \E p \in Slots : /\ room.players[p] = None
                                 /\ after.players = [room.players EXCEPT ![p] = u]
    <3>1. PICK p \in Slots : after.players = [room.players EXCEPT ![p] = u]
      BY <2>2
    <3>2. room.players["X"] # u /\ room.players["O"] # u
      BY <1>1, <1>2, <2>2, SlotOfSeat
    <3>3. QED
      BY <1>2, <3>1, <3>2 DEF Slots, Seating
  <2>3. QED
    BY <1>3, <2>1, <2>2
<1>6. \A t1, t2 \in after.sockets : SocketUser[t1] = SocketUser[t2] => t1 = t2
    BY <1>1, <1>3 DEF Seats, u
<1>7. ASSUME NEW v \in Users, after.pending[v] # None
      PROVE  after.players[after.pending[v].slot] = v
  <2>1. room.pending[v] # None /\ after.pending[v].slot = room.pending[v].slot
    BY <1>3, <1>7
  <2>2. room.pending[v].slot \in Slots /\ room.players[room.pending[v].slot] = v /\ v # None
    BY <1>1, <1>2, <2>1, NoneIsNoName DEF Seats, Reservation
  <2>3. QED
    BY <1>4, <2>1, <2>2
<1>8. ASSUME NEW p \in Slots, after.players[p] # None
      PROVE  \/ \E t \in after.sockets : SocketUser[t] = after.players[p]
             \/ after.pending[after.players[p]] # None
  <2>1. CASE after.players[p] = u
    BY <1>3, <2>1 DEF u
  <2>2. CASE after.players[p] # u
    <3>1. after.players[p] = room.players[p] /\ room.players[p] \in Users
      BY <1>2, <1>4, <1>8, <2>2 DEF Seating
    <3>2. QED
      BY <1>1, <1>3, <1>8, <2>2, <3>1 DEF Seats
  <2>3. QED
    BY <2>1, <2>2
<1>9. Seats(after.players, after.sockets, after.pending)
    BY <1>5, <1>6, <1>7, <1>8 DEF Seats
<1>10. SoundRoom(after)
    BY <1>3, <1>9, SoundBySeats
<1>11. QED
    BY <1>4, <1>10 DEF after

(* What the departure of a socket does to a room: with reserve its seat is *)
(* kept under a reservation, without it the seat is given up.              *)
LEMMA LeaveParts ==
    ASSUME NEW room, SoundRoom(room), NEW s \in room.sockets, NEW reserve \in BOOLEAN
    PROVE  LET after == Leave(room, s, reserve)
               u == SocketUser[s]
           IN  /\ after \in RoomRec /\ OnlySeats(room, after)
               /\ after.rematch = room.rematch
               /\ after.sockets = room.sockets \ {s}
               /\ \A v \in Users : v # u => after.pending[v] = room.pending[v]
               /\ ~reserve => /\ after.pending[u] = None
                              /\ after.players =
                                   [p \in Slots |-> IF room.players[p] = u THEN None
                                                    ELSE room.players[p]]
               /\ reserve => /\ after.players = room.players
                             /\ IF SlotOf(room, u) = None
                                THEN after.pending[u] = room.pending[u]
                                ELSE after.pending[u] = [slot |-> SlotOf(room, u), expired |-> FALSE]
<1> DEFINE u == SocketUser[s]
           left == [room EXCEPT !.sockets = @ \ {s}]
           after == Leave(room, s, reserve)
<1>1. room \in RoomRec /\ Seats(room.players, room.sockets, room.pending)
    BY DEF SoundRoom
<1>2. /\ room.players \in Seating /\ room.pending \in [Users -> Reservation \union {None}]
      /\ s \in Sockets /\ u \in Users
    BY <1>1, SocketUserAssumption DEF RoomRec
<1>3. /\ left \in RoomRec /\ OnlySeats(room, left)
      /\ left.rematch = room.rematch /\ left.players = room.players
      /\ left.pending = room.pending /\ left.sockets = room.sockets \ {s}
    BY <1>1 DEF RoomRec, OnlySeats
<1>4. ~\E t \in left.sockets : SocketUser[t] = u
    BY <1>1, <1>3 DEF Seats
<1> HIDE DEF left, u
<1>5. CASE ~reserve
  <2> DEFINE P == [p \in Slots |-> IF room.players[p] = u THEN None ELSE room.players[p]]
             Q == [room.pending EXCEPT ![u] = None]
  <2>1. after = [left EXCEPT !.players = P, !.pending = Q]
    BY <1>3, <1>4, <1>5 DEF Leave, left, u
  <2>2. /\ P \in Seating /\ Q \in [Users -> Reservation \union {None}] /\ Q[u] = None
        /\ \A v \in Users : v # u => Q[v] = room.pending[v]
    BY <1>2 DEF Seating
  <2>3. P = [p \in Slots |-> IF room.players[p] = u THEN None ELSE room.players[p]]
    OBVIOUS
  <2> HIDE DEF P, Q, after
  <2>4. /\ after \in RoomRec /\ after.players = P /\ after.pending = Q
        /\ OnlySeats(left, after) /\ after.rematch = left.rematch
        /\ after.sockets = left.sockets
    BY <1>3, <2>1, <2>2 DEF RoomRec, OnlySeats
  <2>5. /\ after \in RoomRec /\ OnlySeats(room, after)
        /\ after.rematch = room.rematch
        /\ after.sockets = room.sockets \ {s}
        /\ \A v \in Users : v # u => after.pending[v] = room.pending[v]
        /\ after.pending[u] = None
    BY <1>3, <2>2, <2>4 DEF OnlySeats
  <2>6. QED
    BY <1>5, <2>3, <2>4, <2>5 DEF after, u
<1>6. CASE reserve /\ SlotOf(room, u) = None
  <2>1. after = left
    BY <1>4, <1>6 DEF Leave, left, u
  <2>2. QED
    BY <1>3, <1>6, <2>1 DEF after, u
<1>7. CASE reserve /\ SlotOf(room, u) # None
  <2> DEFINE q == [slot |-> SlotOf(room, u), expired |-> FALSE]
             Q == [room.pending EXCEPT ![u] = q]
  <2>1. after = [left EXCEPT !.pending[u] = q]
    BY <1>4, <1>7 DEF Leave, left, u
  <2>2. q \in Reservation
    BY <1>1, <1>2, <1>7, SlotOfSeat DEF Reservation
  <2>3. q = [slot |-> SlotOf(room, u), expired |-> FALSE]
    OBVIOUS
  <2> HIDE DEF q
  <2>4. /\ Q \in [Users -> Reservation \union {None}] /\ Q[u] = q
        /\ \A v \in Users : v # u => Q[v] = room.pending[v]
    BY <1>2, <2>2
  <2>5. after = [left EXCEPT !.pending = Q]
    BY <1>3, <2>1
  <2> HIDE DEF Q, after
  <2>6. /\ after \in RoomRec /\ after.players = left.players /\ after.pending = Q
        /\ OnlySeats(left, after) /\ after.rematch = left.rematch
        /\ after.sockets = left.sockets
    BY <1>3, <2>4, <2>5 DEF RoomRec, OnlySeats
  <2>7. /\ after \in RoomRec /\ OnlySeats(room, after)
        /\ after.rematch = room.rematch
        /\ after.sockets = room.sockets \ {s} /\ after.players = room.players
        /\ \A v \in Users : v # u => after.pending[v] = room.pending[v]
        /\ after.pending[u] = q
    BY <1>3, <2>4, <2>6 DEF OnlySeats
  <2>8. QED
    BY <1>7, <2>3, <2>7 DEF after, u
<1>8. QED
    BY <1>5, <1>6, <1>7

(* Of LeaveParts, what holds of both kinds of departure.                   *)
LEMMA LeaveShape ==
    ASSUME NEW room, SoundRoom(room), NEW s \in room.sockets, NEW reserve \in BOOLEAN
    PROVE  /\ OnlySeats(room, Leave(room, s, reserve))
           /\ Leave(room, s, reserve).sockets = room.sockets \ {s}
<1> DEFINE u == SocketUser[s]
           after == Leave(room, s, reserve)
<1>1. /\ after \in RoomRec /\ OnlySeats(room, after)
      /\ after.sockets = room.sockets \ {s}
      /\ \A v \in Users : v # u => after.pending[v] = room.pending[v]
      /\ ~reserve => /\ after.pending[u] = None
                     /\ after.players = [p \in Slots |-> IF room.players[p] = u THEN None
                                                         ELSE room.players[p]]
      /\ reserve => /\ after.players = room.players
                    /\ IF SlotOf(room, u) = None
                       THEN after.pending[u] = room.pending[u]
                       ELSE after.pending[u] = [slot |-> SlotOf(room, u), expired |-> FALSE]
    BY LeaveParts
<1>2. QED
    BY <1>1

(* removeSocketFromRoom, of the room itself                                *)
LEMMA LeaveSound ==
    ASSUME NEW room, SoundRoom(room), NEW s \in room.sockets, NEW reserve \in BOOLEAN
    PROVE  SoundRoom(Leave(room, s, reserve))
<1> DEFINE u == SocketUser[s]
           after == Leave(room, s, reserve)
<1>1. room \in RoomRec /\ Seats(room.players, room.sockets, room.pending)
    BY DEF SoundRoom
<1>2. /\ room.players \in Seating /\ room.pending \in [Users -> Reservation \union {None}]
      /\ s \in Sockets /\ u \in Users /\ u # None /\ "X" \in Slots /\ "O" \in Slots
    BY <1>1, SocketUserAssumption, NoneIsNoName DEF RoomRec, Slots
<1>3. /\ after \in RoomRec /\ OnlySeats(room, after)
      /\ after.sockets = room.sockets \ {s}
      /\ \A v \in Users : v # u => after.pending[v] = room.pending[v]
      /\ ~reserve => /\ after.pending[u] = None
                     /\ after.players = [p \in Slots |-> IF room.players[p] = u THEN None
                                                         ELSE room.players[p]]
      /\ reserve => /\ after.players = room.players
                    /\ IF SlotOf(room, u) = None
                       THEN after.pending[u] = room.pending[u]
                       ELSE after.pending[u] = [slot |-> SlotOf(room, u), expired |-> FALSE]
    BY LeaveParts
<1>4. \A t \in room.sockets : SocketUser[t] # u => t \in after.sockets
    BY <1>3 DEF u
<1> HIDE DEF after, u
<1>5. \A p \in Slots : after.players[p] # None => after.players[p] = room.players[p]
    BY <1>3
<1>6. after.players["X"] # None => after.players["X"] # after.players["O"]
  <2>1. CASE after.players["X"] = None
    BY <2>1
  <2>2. CASE after.players["X"] # None /\ after.players["O"] = None
    BY <2>2
  <2>3. CASE after.players["X"] # None /\ after.players["O"] # None
    BY <1>1, <1>2, <1>5, <2>3 DEF Seats
  <2>4. QED
    BY <2>1, <2>2, <2>3
<1>7. \A t1, t2 \in after.sockets : SocketUser[t1] = SocketUser[t2] => t1 = t2
    BY <1>1, <1>3 DEF Seats
<1>8. ASSUME NEW v \in Users, after.pending[v] # None
      PROVE  after.players[after.pending[v].slot] = v
  <2>1. CASE v # u
    <3>1. room.pending[v] # None /\ after.pending[v] = room.pending[v]
      BY <1>3, <1>8, <2>1
    <3>2. room.pending[v].slot \in Slots /\ room.players[room.pending[v].slot] = v
      BY <1>1, <1>2, <3>1 DEF Seats, Reservation
    <3>3. QED
      BY <1>3, <2>1, <3>1, <3>2
  <2>2. CASE v = u /\ SlotOf(room, u) = None
    <3>1. reserve /\ room.pending[u] # None
      BY <1>3, <1>8, <2>2
    <3>2. QED
      BY <1>1, <1>3, <1>8, <2>2, <3>1 DEF Seats
  <2>3. CASE v = u /\ SlotOf(room, u) # None
    <3>1. /\ reserve /\ after.players = room.players
          /\ after.pending[u] = [slot |-> SlotOf(room, u), expired |-> FALSE]
      BY <1>3, <1>8, <2>3
    <3>2. room.players[SlotOf(room, u)] = u
      BY <1>1, <1>2, <2>3, SlotOfSeat
    <3>3. QED
      BY <2>3, <3>1, <3>2
  <2>4. QED
    BY <2>1, <2>2, <2>3
<1>9. ASSUME NEW p \in Slots, after.players[p] # None
      PROVE  \/ \E t \in after.sockets : SocketUser[t] = after.players[p]
             \/ after.pending[after.players[p]] # None
  <2>1. after.players[p] = room.players[p] /\ room.players[p] \in Users
    BY <1>2, <1>5, <1>9 DEF Seating
  <2>2. CASE room.players[p] # u
    <3>1. after.pending[room.players[p]] = room.pending[room.players[p]]
      BY <1>3, <2>1, <2>2
    <3>2. QED
      BY <1>1, <1>4, <1>9, <2>1, <2>2, <3>1 DEF Seats
  <2>3. CASE room.players[p] = u
    <3>1. reserve
      BY <1>2, <1>3, <1>9, <2>1, <2>3
    <3>2. SlotOf(room, u) # None
      BY <1>1, <1>2, <2>3, SlotOfSeat
    <3>3. after.pending[u] = [slot |-> SlotOf(room, u), expired |-> FALSE]
      BY <1>3, <3>1, <3>2
    <3>4. [slot |-> SlotOf(room, u), expired |-> FALSE] \in Reservation
      BY <1>1, <1>2, <3>2, SlotOfSeat DEF Reservation
    <3>5. QED
      BY <2>1, <2>3, <3>3, <3>4, NoneIsNoName
  <2>4. QED
    BY <2>2, <2>3
<1>10. Seats(after.players, after.sockets, after.pending)
    BY <1>6, <1>7, <1>8, <1>9 DEF Seats
<1>11. SoundRoom(after)
    BY <1>3, <1>10, SoundBySeats
<1>12. QED
    BY <1>11 DEF after

-----------------------------------------------------------------------------
(* What the seats of a room may do when nobody enters it: sockets leave,   *)
(* reservations end, and a seat is lost by a player whose socket leaves or *)
(* whose reservation has run out.                                          *)
GaveUp(a, b, u) == \E s \in a.sockets \ b.sockets : SocketUser[s] = u

Thins(a, b) ==
    /\ b.sockets \subseteq a.sockets
    /\ \A u \in Users :
          /\ b.pending[u] \in {None, a.pending[u]}
          /\ SlotOf(a, u) # None => \/ SlotOf(b, u) = SlotOf(a, u)
                                    \/ HasExpired(a, u)
                                    \/ GaveUp(a, b, u)

(* A room is a thinned form of itself.                                     *)
LEMMA ThinsOneself ==
    ASSUME NEW a PROVE Thins(a, a) /\ OnlySeats(a, a)
BY DEF Thins, OnlySeats

(* Thinning twice is thinning.                                             *)
LEMMA ThinsOn ==
    ASSUME NEW a, NEW b, NEW c, Thins(a, b), Thins(b, c)
    PROVE  Thins(a, c)
<1> SUFFICES ASSUME NEW u \in Users
             PROVE  /\ c.pending[u] \in {None, a.pending[u]}
                    /\ SlotOf(a, u) # None => \/ SlotOf(c, u) = SlotOf(a, u)
                                              \/ HasExpired(a, u)
                                              \/ GaveUp(a, c, u)
    BY DEF Thins
<1>1. c.pending[u] \in {None, a.pending[u]}
    BY DEF Thins
<1>2. GaveUp(a, b, u) \/ GaveUp(b, c, u) => GaveUp(a, c, u)
    BY DEF Thins, GaveUp
<1>3. HasExpired(b, u) => HasExpired(a, u)
    BY DEF Thins, HasExpired
<1>4. ASSUME SlotOf(a, u) # None
      PROVE  SlotOf(c, u) = SlotOf(a, u) \/ HasExpired(a, u) \/ GaveUp(a, c, u)
  <2>1. SlotOf(b, u) = SlotOf(a, u) \/ HasExpired(a, u) \/ GaveUp(a, b, u)
    BY <1>4 DEF Thins
  <2>2. SlotOf(b, u) # None =>
            SlotOf(c, u) = SlotOf(b, u) \/ HasExpired(b, u) \/ GaveUp(b, c, u)
    BY DEF Thins
  <2>3. QED
    BY <1>2, <1>3, <1>4, <2>1, <2>2
<1>5. QED
    BY <1>1, <1>4

(* cleanupExpiredReconnect only thins a room.                              *)
LEMMA CleanupThins ==
    ASSUME NEW room, SoundRoom(room)
    PROVE  Thins(room, CleanupExpiredReconnect(room))
<1> DEFINE after == CleanupExpiredReconnect(room)
<1>1. room \in RoomRec /\ Seats(room.players, room.sockets, room.pending)
    BY DEF SoundRoom
<1>2. /\ after \in RoomRec
      /\ after.players = FreedPlayers(room.players, room.pending)
      /\ after.pending = FreedPending(room.pending)
      /\ after.sockets = room.sockets
    BY <1>1, CleanupParts
<1>3. Seats(after.players, after.sockets, after.pending)
    BY CleanupSound DEF SoundRoom
<1> HIDE DEF after
<1>4. ASSUME NEW u \in Users, SlotOf(room, u) # None, ~HasExpired(room, u)
      PROVE  SlotOf(after, u) = SlotOf(room, u)
  <2>1. \A p \in Slots : room.players[p] = u => after.players[p] = u
    BY <1>2, <1>4 DEF FreedPlayers, HasExpired
  <2>2. QED
    BY <1>1, <1>2, <1>3, <1>4, <2>1, SeatsStay
<1>5. \A u \in Users : after.pending[u] \in {None, room.pending[u]}
    BY <1>2 DEF FreedPending
<1>6. Thins(room, after)
    BY <1>2, <1>4, <1>5 DEF Thins
<1>7. QED
    BY <1>6 DEF after

(* So does a departure that gives the seat up.                             *)
LEMMA LeaveThins ==
    ASSUME NEW room, SoundRoom(room), NEW s \in room.sockets,
           NEW reserve \in BOOLEAN, ~reserve
    PROVE  Thins(room, Leave(room, s, reserve))
<1> DEFINE u == SocketUser[s]
           after == Leave(room, s, reserve)
<1>1. room \in RoomRec /\ Seats(room.players, room.sockets, room.pending)
    BY DEF SoundRoom
<1>2. SoundRoom(after)
    BY LeaveSound
<1>3. /\ after \in RoomRec /\ OnlySeats(room, after)
      /\ after.sockets = room.sockets \ {s}
      /\ \A v \in Users : v # u => after.pending[v] = room.pending[v]
      /\ ~reserve => /\ after.pending[u] = None
                     /\ after.players = [p \in Slots |-> IF room.players[p] = u THEN None
                                                         ELSE room.players[p]]
      /\ reserve => /\ after.players = room.players
                    /\ IF SlotOf(room, u) = None
                       THEN after.pending[u] = room.pending[u]
                       ELSE after.pending[u] = [slot |-> SlotOf(room, u), expired |-> FALSE]
    BY LeaveParts
<1>4. /\ after.pending[u] = None
      /\ after.players = [p \in Slots |-> IF room.players[p] = u THEN None
                                          ELSE room.players[p]]
    BY <1>3
<1>5. GaveUp(room, after, u)
    BY <1>3 DEF GaveUp
<1> HIDE DEF after, u
<1>6. ASSUME NEW v \in Users, v # u, SlotOf(room, v) # None
      PROVE  SlotOf(after, v) = SlotOf(room, v)
  <2>1. \A p \in Slots : room.players[p] = v => after.players[p] = v
    BY <1>4, <1>6
  <2>2. QED
    BY <1>1, <1>2, <1>6, <2>1, SeatsStay DEF SoundRoom
<1>7. Thins(room, after)
    BY <1>3, <1>4, <1>5, <1>6 DEF Thins
<1>8. QED
    BY <1>7 DEF after

(* Nobody whose reservation runs is in the room.                           *)
Absent(room) == \A u \in Users : room.pending[u] # None => Away(room, u)

(* A socket leaves: seats may get reserved, too.                           *)
Parts(a, b) ==
    /\ \A u \in Users : SlotOf(a, u) # None => \/ SlotOf(b, u) = SlotOf(a, u)
                                               \/ HasExpired(a, u)
                                               \/ GaveUp(a, b, u)
    /\ Absent(a) => Absent(b)

(* A thinned room is one that someone may have parted from.                *)
LEMMA ThinsParts ==
    ASSUME NEW a, NEW b, Thins(a, b)
    PROVE  Parts(a, b)
BY DEF Thins, Parts, Absent, Away

(* A departure of either kind, followed by others that give up their       *)
(* seats, is a parting.                                                    *)
LEMMA LeaveParting ==
    ASSUME NEW room, SoundRoom(room), NEW s \in room.sockets, NEW reserve \in BOOLEAN,
           NEW c, Thins(Leave(room, s, reserve), c)
    PROVE  Parts(room, c)
<1> DEFINE u == SocketUser[s]
           after == Leave(room, s, reserve)
<1>1. room \in RoomRec /\ Seats(room.players, room.sockets, room.pending)
    BY DEF SoundRoom
<1>2. s \in Sockets /\ u \in Users
    BY <1>1, SocketUserAssumption DEF RoomRec
<1>3. CASE ~reserve
    BY <1>3, LeaveThins, ThinsOn, ThinsParts
<1>4. CASE reserve
  <2>1. /\ after \in RoomRec /\ OnlySeats(room, after)
        /\ after.sockets = room.sockets \ {s}
        /\ \A v \in Users : v # u => after.pending[v] = room.pending[v]
        /\ ~reserve => /\ after.pending[u] = None
                       /\ after.players = [p \in Slots |-> IF room.players[p] = u THEN None
                                                           ELSE room.players[p]]
        /\ reserve => /\ after.players = room.players
                      /\ IF SlotOf(room, u) = None
                         THEN after.pending[u] = room.pending[u]
                         ELSE after.pending[u] = [slot |-> SlotOf(room, u), expired |-> FALSE]
    BY LeaveParts
  <2>2. \A t \in after.sockets : SocketUser[t] # u
    BY <1>1, <2>1 DEF Seats
  <2>3. GaveUp(room, after, u)
    BY <2>1 DEF GaveUp
  <2>4. Thins(after, c)
    OBVIOUS
  <2> HIDE DEF after, u
  <2>5. \A v \in Users : SlotOf(after, v) = SlotOf(room, v)
    BY <1>4, <2>1 DEF SlotOf
  <2>6. SlotOf(room, u) # None => ~HasExpired(after, u)
    BY <1>4, <2>1 DEF HasExpired
  <2>7. \A v \in Users : GaveUp(after, c, v) => GaveUp(room, c, v)
    BY <2>1 DEF GaveUp
  <2>8. ASSUME NEW v \in Users, SlotOf(room, v) # None
        PROVE  SlotOf(c, v) = SlotOf(room, v) \/ HasExpired(room, v) \/ GaveUp(room, c, v)
    <3>1. SlotOf(c, v) = SlotOf(after, v) \/ HasExpired(after, v) \/ GaveUp(after, c, v)
      BY <2>4, <2>5, <2>8 DEF Thins
    <3>2. HasExpired(after, v) => HasExpired(room, v)
      BY <2>1, <2>6, <2>8 DEF HasExpired
    <3>3. QED
      BY <2>5, <2>7, <3>1, <3>2
  <2>9. ASSUME Absent(room) PROVE Absent(after)
    BY <2>1, <2>2, <2>9 DEF Absent, Away
  <2>10. Absent(after) => Absent(c)
    BY <2>4, ThinsParts DEF Parts
  <2>11. QED
    BY <2>8, <2>9, <2>10 DEF Parts
<1>5. QED
    BY <1>3, <1>4

-----------------------------------------------------------------------------
(***************************************************************************)
(* The room manager: every object in it is sound, every room has one of its*)
(* own, and a socket is in the room it is indexed under.                   *)
(***************************************************************************)
Managers ==
    [rooms: [RoomIds -> Objs \union {None}], heap: [Objs -> RoomRec \union {None}],
     index: [Sockets -> RoomIds \union {None}]]

AtHome(m) ==
    \A s \in Sockets : m.index[s] # None =>
        /\ m.rooms[m.index[s]] # None
        /\ s \in m.heap[m.rooms[m.index[s]]].sockets

SoundMgr(m) ==
    /\ m \in Managers
    /\ \A o \in Objs : m.heap[o] # None => SoundRoom(m.heap[o])
    /\ \A r \in RoomIds : m.rooms[r] # None => /\ m.heap[m.rooms[r]] # None
                                               /\ m.heap[m.rooms[r]].roomId = r
    /\ AtHome(m)

(* What a manager becomes when nobody enters a room                        *)
Shrinks(m, n) ==
    /\ \A r \in RoomIds : n.rooms[r] \in {None, m.rooms[r]}
    /\ \A o \in Objs : n.heap[o] = None <=> m.heap[o] = None
    /\ \A o \in Objs : m.heap[o] # None =>
            OnlySeats(m.heap[o], n.heap[o]) /\ Thins(m.heap[o], n.heap[o])

Departs(m, n) ==
    /\ \A r \in RoomIds : n.rooms[r] \in {None, m.rooms[r]}
    /\ \A o \in Objs : n.heap[o] = None <=> m.heap[o] = None
    /\ \A o \in Objs : m.heap[o] # None =>
            OnlySeats(m.heap[o], n.heap[o]) /\ Parts(m.heap[o], n.heap[o])

(* A room record is a room object and not null.                            *)
LEMMA RoomIsNotNone ==
    ASSUME NEW room \in RoomRec PROVE room # None /\ room \in RoomObject
<1>1. QueuedOp \subseteq Op
    BY DEF QueuedOp, Op
<1>2. room.queue \in Seq(Op)
    BY <1>1 DEF RoomRec
<1>3. room \in RoomObject
    BY <1>2 DEF RoomRec, RoomObject, Reservation
<1>4. QED
    BY <1>3, NullAssumption

(* A manager is a shrunken form of itself.                                 *)
LEMMA ShrinksOneself ==
    ASSUME NEW m PROVE Shrinks(m, m)
BY ThinsOneself DEF Shrinks

(* Shrinking twice is shrinking.                                           *)
LEMMA ShrinksOn ==
    ASSUME NEW k, NEW m, NEW n, Shrinks(k, m), Shrinks(m, n)
    PROVE  Shrinks(k, n)
<1>1. ASSUME NEW o \in Objs, k.heap[o] # None
      PROVE  OnlySeats(k.heap[o], n.heap[o]) /\ Thins(k.heap[o], n.heap[o])
  <2>1. /\ OnlySeats(k.heap[o], m.heap[o]) /\ Thins(k.heap[o], m.heap[o])
        /\ OnlySeats(m.heap[o], n.heap[o]) /\ Thins(m.heap[o], n.heap[o])
    BY <1>1 DEF Shrinks
  <2>2. QED
    BY <2>1, ThinsOn DEF OnlySeats
<1>2. QED
    BY <1>1 DEF Shrinks

(* A manager that shrank is one that sockets departed from.                *)
LEMMA ShrinksDeparts ==
    ASSUME NEW m, NEW n, Shrinks(m, n) PROVE Departs(m, n)
BY ThinsParts DEF Shrinks, Departs

(* cleanupRoom, which drops a room without sockets and reservations, keeps *)
(* the manager sound and touches no other room.                            *)
LEMMA CleanupRoomSound ==
    ASSUME NEW m, SoundMgr(m), NEW r \in RoomIds
    PROVE  /\ SoundMgr(CleanupRoom(m, r)) /\ Shrinks(m, CleanupRoom(m, r))
           /\ CleanupRoom(m, r).index = m.index
           /\ \A p \in Objs : p # m.rooms[r] => CleanupRoom(m, r).heap[p] = m.heap[p]
<1>1. CASE m.rooms[r] = None
    BY <1>1, ShrinksOneself DEF CleanupRoom
<1>2. CASE m.rooms[r] # None
  <2> DEFINE o == m.rooms[r]
             room == CleanupExpiredReconnect(m.heap[o])
             x == IF Idle(room) THEN None ELSE o
             n == CleanupRoom(m, r)
  <2>1. o \in Objs /\ m.heap[o] # None /\ SoundRoom(m.heap[o]) /\ m.heap[o].roomId = r
    BY <1>2 DEF SoundMgr, Managers
  <2>2. m.heap[o] \in RoomRec
    BY <2>1 DEF SoundRoom
  <2>3. /\ SoundRoom(room) /\ room \in RoomRec /\ OnlySeats(m.heap[o], room)
        /\ Thins(m.heap[o], room) /\ room.sockets = m.heap[o].sockets
    BY <2>1, <2>2, CleanupSound, CleanupThins, CleanupParts
  <2>4. n = [m EXCEPT !.heap[o] = room, !.rooms[r] = x]
    BY <1>2 DEF CleanupRoom
  <2>5. room.roomId = r /\ room # None
    BY <2>1, <2>3, RoomIsNotNone DEF OnlySeats
  <2>6. x \in {None, o} /\ (x = None => room.sockets = {})
    BY <2>1, NoneIsNoName DEF Idle
  <2> HIDE DEF room, x, n
  <2>7. /\ n \in Managers
        /\ n.heap[o] = room /\ \A p \in Objs : p # o => n.heap[p] = m.heap[p]
        /\ n.rooms[r] = x /\ \A q \in RoomIds : q # r => n.rooms[q] = m.rooms[q]
        /\ n.index = m.index
    BY <2>1, <2>3, <2>4, <2>6 DEF SoundMgr, Managers
  <2>8. \A q \in RoomIds : q # r /\ m.rooms[q] # None => m.rooms[q] # o
    BY <2>1 DEF SoundMgr
  <2>9. \A q \in RoomIds : n.rooms[q] # None => /\ n.heap[n.rooms[q]] # None
                                                /\ n.heap[n.rooms[q]].roomId = q
    BY <2>5, <2>6, <2>7, <2>8 DEF SoundMgr, Managers
  <2>10. AtHome(n)
    <3> SUFFICES ASSUME NEW s \in Sockets, n.index[s] # None
                 PROVE  /\ n.rooms[n.index[s]] # None
                        /\ s \in n.heap[n.rooms[n.index[s]]].sockets
      BY DEF AtHome
    <3>1. /\ m.index[s] \in RoomIds /\ m.rooms[m.index[s]] # None
          /\ s \in m.heap[m.rooms[m.index[s]]].sockets
      BY <2>7 DEF SoundMgr, AtHome, Managers
    <3>2. CASE m.index[s] = r
      BY <2>1, <2>3, <2>6, <2>7, <3>1, <3>2
    <3>3. CASE m.index[s] # r
      BY <2>7, <2>8, <3>1, <3>3 DEF SoundMgr, Managers
    <3>4. QED
      BY <3>2, <3>3
  <2>11. SoundMgr(n)
    BY <2>3, <2>7, <2>9, <2>10 DEF SoundMgr
  <2>12. Shrinks(m, n)
    <3>1. \A p \in Objs : OnlySeats(m.heap[p], n.heap[p]) /\ Thins(m.heap[p], n.heap[p])
      BY <2>3, <2>7, ThinsOneself
    <3>2. QED
      BY <2>1, <2>5, <2>6, <2>7, <3>1 DEF Shrinks
  <2>13. QED
    BY <2>7, <2>11, <2>12 DEF n
<1>3. QED
    BY <1>1, <1>2

(* removeSocketFromRoom                                                    *)
LEMMA RemoveFromRoom ==
    ASSUME NEW m, SoundMgr(m), NEW r \in RoomIds, m.rooms[r] # None,
           NEW s \in Sockets, NEW reserve \in BOOLEAN
    PROVE  LET n == RemoveSocketFromRoom(m, r, s, reserve) IN
           /\ SoundMgr(n) /\ Departs(m, n) /\ (~reserve => Shrinks(m, n))
           /\ \A p \in Objs : p # m.rooms[r] => n.heap[p] = m.heap[p]
           /\ \A t \in Sockets : t # s => n.index[t] = m.index[t]
           /\ \/ n.index[s] = None
              \/ n.index[s] = m.index[s] /\ s \notin m.heap[m.rooms[r]].sockets
<1> DEFINE o == m.rooms[r]
           left == Leave(m.heap[o], s, reserve)
           k == [m EXCEPT !.heap[o] = left, !.index[s] = None]
           n == RemoveSocketFromRoom(m, r, s, reserve)
<1>1. CASE s \notin m.heap[o].sockets
    BY <1>1, ShrinksOneself, ShrinksDeparts DEF RemoveSocketFromRoom
<1>2. CASE s \in m.heap[o].sockets
  <2>1. o \in Objs /\ m.heap[o] # None /\ SoundRoom(m.heap[o]) /\ m.heap[o].roomId = r
    BY DEF SoundMgr, Managers
  <2>2. n = CleanupRoom(k, r)
    BY <1>2 DEF RemoveSocketFromRoom
  <2>3. /\ SoundRoom(left) /\ left \in RoomRec /\ OnlySeats(m.heap[o], left)
        /\ left.sockets = m.heap[o].sockets \ {s}
        /\ ~reserve => Thins(m.heap[o], left)
    <3>1. SoundRoom(left)
      BY <1>2, <2>1, LeaveSound
    <3>2. ~reserve => Thins(m.heap[o], left)
      BY <1>2, <2>1, LeaveThins
    <3>3. OnlySeats(m.heap[o], left) /\ left.sockets = m.heap[o].sockets \ {s}
      BY <1>2, <2>1, LeaveShape
    <3>4. QED
      BY <3>1, <3>2, <3>3 DEF SoundRoom
  <2>4. left.roomId = r /\ left # None
    BY <2>1, <2>3, RoomIsNotNone DEF OnlySeats
  <2>5. \A c : Thins(left, c) => Parts(m.heap[o], c)
    BY <1>2, <2>1, LeaveParting
  <2> HIDE DEF left
  <2>6. /\ k \in Managers
        /\ k.heap[o] = left /\ \A p \in Objs : p # o => k.heap[p] = m.heap[p]
        /\ k.rooms = m.rooms
        /\ k.index[s] = None /\ \A t \in Sockets : t # s => k.index[t] = m.index[t]
    BY <2>1, <2>3 DEF SoundMgr, Managers
  <2> HIDE DEF k, n
  <2>7. \A q \in RoomIds : k.rooms[q] # None => /\ k.heap[k.rooms[q]] # None
                                                /\ k.heap[k.rooms[q]].roomId = q
    BY <2>1, <2>4, <2>6 DEF SoundMgr, Managers
  <2>8. AtHome(k)
    <3> SUFFICES ASSUME NEW t \in Sockets, k.index[t] # None
                 PROVE  /\ k.rooms[k.index[t]] # None
                        /\ t \in k.heap[k.rooms[k.index[t]]].sockets
      BY DEF AtHome
    <3>1. /\ t # s /\ k.index[t] = m.index[t] /\ m.index[t] \in RoomIds
          /\ m.rooms[m.index[t]] # None /\ t \in m.heap[m.rooms[m.index[t]]].sockets
      BY <2>6 DEF SoundMgr, AtHome, Managers
    <3>2. CASE m.rooms[m.index[t]] = o
      BY <2>3, <2>6, <3>1, <3>2
    <3>3. CASE m.rooms[m.index[t]] # o
      BY <2>6, <3>1, <3>3 DEF SoundMgr, Managers
    <3>4. QED
      BY <3>2, <3>3
  <2>9. SoundMgr(k)
    BY <2>3, <2>6, <2>7, <2>8 DEF SoundMgr
  <2>10. /\ SoundMgr(n) /\ Shrinks(k, n) /\ n.index = k.index
         /\ \A p \in Objs : p # o => n.heap[p] = k.heap[p]
    BY <2>2, <2>6, <2>9, CleanupRoomSound
  <2>11. Departs(m, n)
    <3>1. ASSUME NEW p \in Objs, m.heap[p] # None
          PROVE  OnlySeats(m.heap[p], n.heap[p]) /\ Parts(m.heap[p], n.heap[p])
      <4>1. CASE p = o
        <5>1. OnlySeats(left, n.heap[o]) /\ Thins(left, n.heap[o])
          BY <2>1, <2>4, <2>6, <2>10 DEF Shrinks
        <5>2. OnlySeats(m.heap[o], n.heap[o])
          BY <2>3, <5>1 DEF OnlySeats
        <5>3. QED
          BY <2>5, <4>1, <5>1, <5>2
      <4>2. CASE p # o
        BY <2>6, <2>10, <4>2, ThinsOneself, ThinsParts
      <4>3. QED
        BY <4>1, <4>2
    <3>2. QED
      BY <2>1, <2>4, <2>6, <2>10, <3>1 DEF Departs, Shrinks
  <2>12. ASSUME ~reserve PROVE Shrinks(m, n)
    <3>1. Shrinks(m, k)
      <4>1. \A p \in Objs : OnlySeats(m.heap[p], k.heap[p]) /\ Thins(m.heap[p], k.heap[p])
        BY <2>3, <2>6, <2>12, ThinsOneself
      <4>2. QED
        BY <2>1, <2>4, <2>6, <4>1 DEF Shrinks
    <3>2. QED
      BY <2>10, <3>1, ShrinksOn
  <2>13. QED
    BY <2>6, <2>10, <2>11, <2>12 DEF n
<1>3. QED
    BY <1>1, <1>2

(* removeSocket: a socket that is indexed leaves that room and no other.   *)
LEMMA RemoveOne ==
    ASSUME NEW m, SoundMgr(m), NEW s \in Sockets, NEW reserve \in BOOLEAN
    PROVE  LET n == RemoveSocket(m, s, reserve) IN
           /\ SoundMgr(n) /\ Departs(m, n) /\ (~reserve => Shrinks(m, n))
           /\ m.index[s] # None => \A o \in Objs : o # m.rooms[m.index[s]] => n.heap[o] = m.heap[o]
           /\ \A t \in Sockets : t # s => n.index[t] = m.index[t]
           /\ n.index[s] = None
<1> DEFINE n == RemoveSocket(m, s, reserve)
<1>1. CASE m.index[s] # None
  <2>1. /\ m.index[s] \in RoomIds /\ m.rooms[m.index[s]] # None
        /\ s \in m.heap[m.rooms[m.index[s]]].sockets
    BY <1>1 DEF SoundMgr, AtHome, Managers
  <2>2. n = RemoveSocketFromRoom(m, m.index[s], s, reserve)
    BY <1>1, <2>1 DEF RemoveSocket
  <2> HIDE DEF n
  <2>3. /\ SoundMgr(n) /\ Departs(m, n) /\ (~reserve => Shrinks(m, n))
        /\ \A o \in Objs : o # m.rooms[m.index[s]] => n.heap[o] = m.heap[o]
        /\ \A t \in Sockets : t # s => n.index[t] = m.index[t]
        /\ \/ n.index[s] = None
           \/ n.index[s] = m.index[s] /\ s \notin m.heap[m.rooms[m.index[s]]].sockets
    BY <2>1, <2>2, RemoveFromRoom
  <2>4. QED
    BY <2>1, <2>3 DEF n
<1>2. CASE m.index[s] = None
  <2> DEFINE k == [m EXCEPT !.index[s] = None]
             having == {r \in RoomIds :
                          m.rooms[r] # None /\ s \in m.heap[m.rooms[r]].sockets}
             r0 == CHOOSE r \in having : TRUE
  <2>1. k = m
    BY <1>2 DEF SoundMgr, Managers
  <2>2. n = IF having = {} THEN k ELSE RemoveSocketFromRoom(k, r0, s, reserve)
    BY <1>2 DEF RemoveSocket
  <2> HIDE DEF n, k
  <2>3. CASE having = {}
    BY <1>2, <2>1, <2>2, <2>3, ShrinksOneself, ShrinksDeparts DEF n
  <2>4. CASE having # {}
    <3>1. r0 \in RoomIds /\ m.rooms[r0] # None /\ s \in m.heap[m.rooms[r0]].sockets
      BY <2>4
    <3>2. n = RemoveSocketFromRoom(m, r0, s, reserve)
      BY <2>1, <2>2, <2>4
    <3> HIDE DEF having, r0
    <3>3. /\ SoundMgr(n) /\ Departs(m, n) /\ (~reserve => Shrinks(m, n))
          /\ \A o \in Objs : o # m.rooms[r0] => n.heap[o] = m.heap[o]
          /\ \A t \in Sockets : t # s => n.index[t] = m.index[t]
          /\ \/ n.index[s] = None
             \/ n.index[s] = m.index[s] /\ s \notin m.heap[m.rooms[r0]].sockets
      BY <3>1, <3>2, RemoveFromRoom
    <3>4. QED
      BY <1>2, <3>3 DEF n
  <2>5. QED
    BY <2>3, <2>4
<1>3. QED
    BY <1>1, <1>2

(* A set of natural numbers that is not empty has a least element.         *)
LEMMA LeastNumber ==
    ASSUME NEW N \in SUBSET Nat, N # {}
    PROVE  \E m \in N : \A k \in N : m <= k
<1> DEFINE R == {ss \in Nat \X Nat : ss[1] < ss[2]}
<1>1. IsWellFoundedOn(R, Nat)
    BY NatLessThanWellFounded DEF OpToRel
<1>2. \A k, m \in Nat : ~(<<k, m>> \in R) => m <= k
    OBVIOUS
<1> HIDE DEF R
<1>3. N \subseteq Nat
    OBVIOUS
<1>4. \E m \in N : \A k \in N : ~(<<k, m>> \in R)
    BY <1>1, <1>3, WFMin, Zenon
<1>5. QED
    BY <1>2, <1>3, <1>4, Zenon

Any(s) == CHOOSE x \in s : TRUE

(* Taking the chosen element out of a finite set makes it smaller by one.  *)
LEMMA AnySmaller ==
    ASSUME NEW S, IsFiniteSet(S), NEW s \in SUBSET S, s # {}
    PROVE  /\ Any(s) \in s /\ s \ {Any(s)} \in SUBSET S
           /\ Cardinality(s) \in Nat /\ Cardinality(s \ {Any(s)}) = Cardinality(s) - 1
<1>1. IsFiniteSet(s)
    BY FS_Subset
<1>2. Any(s) \in s
    BY DEF Any
<1>3. QED
    BY <1>1, <1>2, FS_CardinalityType, FS_RemoveElement

UpTo(S, n) == {s \in SUBSET S : Cardinality(s) <= n}

FoldsUpTo(f, n, S, R, base, F) ==
    /\ f \in [UpTo(S, n) -> R]
    /\ \A s \in UpTo(S, n) :
          f[s] = IF s = {} THEN base ELSE F[<<Any(s), f[s \ {Any(s)}]>>]

IsFold(f, S, base, F) ==
    \A s \in SUBSET S : f[s] = IF s = {} THEN base ELSE F[<<Any(s), f[s \ {Any(s)}]>>]

(* The function that folds over every subset of a finite set exists: it is *)
(* the limit of its parts on the subsets of at most n elements, and no     *)
(* recursive definition is needed to have it.                              *)
LEMMA FoldExists ==
    ASSUME NEW S, IsFiniteSet(S), NEW R, NEW base \in R, NEW F \in [S \X R -> R]
    PROVE  \E f \in [SUBSET S -> R] : IsFold(f, S, base, F)
<1> DEFINE Bad == {n \in Nat : \A f : ~FoldsUpTo(f, n, S, R, base, F)}
<1>1. \A s \in SUBSET S : Cardinality(s) \in Nat /\ IsFiniteSet(s)
    BY FS_Subset, FS_CardinalityType
<1>2. Bad = {}
  <2>1. SUFFICES ASSUME Bad # {} PROVE FALSE
    OBVIOUS
  <2>2. PICK n \in Bad : \A k \in Bad : n <= k
    BY <2>1, LeastNumber
  <2>3. n # 0
    <3>1. \A s \in UpTo(S, 0) : s = {}
      BY <1>1, FS_EmptySet DEF UpTo
    <3>2. FoldsUpTo([s \in UpTo(S, 0) |-> base], 0, S, R, base, F)
      BY <3>1 DEF FoldsUpTo
    <3>3. QED
      BY <2>2, <3>2
  <2>4. PICK f : FoldsUpTo(f, n - 1, S, R, base, F)
    <3>1. n - 1 \in Nat /\ n - 1 \notin Bad
      BY <2>2, <2>3
    <3>2. QED
      BY <3>1
  <2> DEFINE g == [s \in UpTo(S, n) |->
                      IF s = {} THEN base ELSE F[<<Any(s), f[s \ {Any(s)}]>>]]
  <2>5. \A s \in UpTo(S, n) : s # {} => /\ s \ {Any(s)} \in UpTo(S, n - 1) /\ Any(s) \in S
                                        /\ s \ {Any(s)} \in UpTo(S, n)
    BY <2>2, AnySmaller DEF UpTo
  <2>6. \A s \in UpTo(S, n) : s # {} => F[<<Any(s), f[s \ {Any(s)}]>>] \in R
    BY <2>4, <2>5 DEF FoldsUpTo
  <2>7. g \in [UpTo(S, n) -> R]
    BY <2>6
  <2>8. \A s \in UpTo(S, n - 1) : s \in UpTo(S, n) /\ g[s] = f[s]
    BY <1>1, <2>2, <2>4 DEF UpTo, FoldsUpTo
  <2>9. \A s \in UpTo(S, n) : g[s] = IF s = {} THEN base ELSE F[<<Any(s), g[s \ {Any(s)}]>>]
    BY <2>5, <2>8
  <2> HIDE DEF g
  <2>10. FoldsUpTo(g, n, S, R, base, F)
    BY <2>7, <2>9 DEF FoldsUpTo
  <2>11. QED
    BY <2>2, <2>10
<1>3. Cardinality(S) \in Nat /\ \A s \in SUBSET S : Cardinality(s) <= Cardinality(S)
    BY FS_CardinalityType, FS_Subset
<1>4. UpTo(S, Cardinality(S)) = SUBSET S
    BY <1>3 DEF UpTo
<1>5. PICK f : FoldsUpTo(f, Cardinality(S), S, R, base, F)
    BY <1>2, <1>3
<1>6. QED
    BY <1>4, <1>5 DEF FoldsUpTo, IsFold

(* What each step of a fold keeps, its result has.                         *)
LEMMA FoldStays ==
    ASSUME NEW S, IsFiniteSet(S), NEW R, NEW iter, iter[{}] \in R,
           \A s \in SUBSET S : s # {} /\ iter[s \ {Any(s)}] \in R => iter[s] \in R
    PROVE  iter[S] \in R
<1> DEFINE Bad == {n \in Nat : \E s \in SUBSET S : Cardinality(s) = n /\ iter[s] \notin R}
<1>1. ASSUME Bad # {} PROVE FALSE
  <2>1. PICK n \in Bad : \A k \in Bad : n <= k
    BY <1>1, LeastNumber
  <2>2. PICK s \in SUBSET S : Cardinality(s) = n /\ iter[s] \notin R
    BY <2>1
  <2>3. s # {}
    BY <2>2
  <2>4. IsFiniteSet(s \ {Any(s)})
    BY FS_Subset
  <2>5. /\ s \ {Any(s)} \in SUBSET S
        /\ Cardinality(s \ {Any(s)}) = n - 1 /\ Cardinality(s \ {Any(s)}) \in Nat
    BY <2>2, <2>3, <2>4, AnySmaller, FS_CardinalityType
  <2>6. iter[s \ {Any(s)}] \in R
    BY <2>1, <2>5
  <2>7. QED
    BY <2>2, <2>3, <2>6
<1>2. Cardinality(S) \in Nat
    BY FS_CardinalityType
<1>3. QED
    BY <1>1, <1>2

(* The sweep of all rooms, and the closing of one, by their steps          *)
LEMMA SweepStays ==
    ASSUME NEW R, NEW m \in R, \A n \in R, x \in RoomIds : CleanupRoom(n, x) \in R
    PROVE  SweepExpired(m) \in R
<1> DEFINE F == [y \in RoomIds \X R |-> CleanupRoom(y[2], y[1])]
           Step(g) == [s \in SUBSET RoomIds |->
                          IF s = {} THEN m ELSE CleanupRoom(g[s \ {Any(s)}], Any(s))]
           iter == CHOOSE g : g = Step(g)
<1>1. SweepExpired(m) = iter[RoomIds]
    BY DEF SweepExpired, FoldSet, MapThenFoldSet, Any
<1>2. IsFiniteSet(RoomIds)
    BY FiniteAssumption
<1>3. /\ F \in [RoomIds \X R -> R]
      /\ \A x \in RoomIds, n \in R : F[<<x, n>>] = CleanupRoom(n, x)
    OBVIOUS
<1> HIDE DEF iter, F
<1>4. \E g : g = Step(g)
  <2>1. PICK f \in [SUBSET RoomIds -> R] : IsFold(f, RoomIds, m, F)
    BY <1>2, <1>3, FoldExists
  <2>2. \A s \in SUBSET RoomIds : s # {} =>
            F[<<Any(s), f[s \ {Any(s)}]>>] = CleanupRoom(f[s \ {Any(s)}], Any(s))
    BY <1>2, <1>3, <2>1, AnySmaller
  <2>3. f = Step(f)
    BY <2>1, <2>2 DEF IsFold
  <2>4. QED
    BY <2>3
<1>5. iter = Step(iter)
    BY <1>4 DEF iter
<1>6. iter[{}] \in R
    BY <1>5
<1>7. \A s \in SUBSET RoomIds : s # {} /\ iter[s \ {Any(s)}] \in R => iter[s] \in R
  <2>1. \A s \in SUBSET RoomIds : s # {} => Any(s) \in RoomIds
    BY <1>2, AnySmaller
  <2>2. \A s \in SUBSET RoomIds : s # {} =>
            iter[s] = CleanupRoom(iter[s \ {Any(s)}], Any(s))
    BY <1>5
  <2>3. QED
    BY <2>1, <2>2
<1>8. QED
    BY <1>1, <1>2, <1>6, <1>7, FoldStays

(* What RemoveSocket keeps, closing a room socket by socket keeps.         *)
LEMMA CloseStays ==
    ASSUME NEW S \in SUBSET Sockets, NEW R, NEW m \in R, \A n \in R, x \in S : RemoveSocket(n, x, FALSE) \in R
    PROVE  CloseRoom(m, S) \in R
<1> DEFINE F == [y \in S \X R |-> RemoveSocket(y[2], y[1], FALSE)]
           Step(g) == [s \in SUBSET S |->
                          IF s = {} THEN m ELSE RemoveSocket(g[s \ {Any(s)}], Any(s), FALSE)]
           iter == CHOOSE g : g = Step(g)
<1>1. CloseRoom(m, S) = iter[S]
    BY DEF CloseRoom, FoldSet, MapThenFoldSet, Any
<1>2. IsFiniteSet(S)
    BY FiniteAssumption, FS_Subset
<1>3. /\ F \in [S \X R -> R]
      /\ \A x \in S, n \in R : F[<<x, n>>] = RemoveSocket(n, x, FALSE)
    OBVIOUS
<1> HIDE DEF iter, F
<1>4. \E g : g = Step(g)
  <2>1. PICK f \in [SUBSET S -> R] : IsFold(f, S, m, F)
    BY <1>2, <1>3, FoldExists
  <2>2. \A s \in SUBSET S : s # {} =>
            F[<<Any(s), f[s \ {Any(s)}]>>] = RemoveSocket(f[s \ {Any(s)}], Any(s), FALSE)
    BY <1>2, <1>3, <2>1, AnySmaller
  <2>3. f = Step(f)
    BY <2>1, <2>2 DEF IsFold
  <2>4. QED
    BY <2>3
<1>5. iter = Step(iter)
    BY <1>4 DEF iter
<1>6. iter[{}] \in R
    BY <1>5
<1>7. \A s \in SUBSET S : s # {} /\ iter[s \ {Any(s)}] \in R => iter[s] \in R
  <2>1. \A s \in SUBSET S : s # {} => Any(s) \in S
    BY <1>2, AnySmaller
  <2>2. \A s \in SUBSET S : s # {} =>
            iter[s] = RemoveSocket(iter[s \ {Any(s)}], Any(s), FALSE)
    BY <1>5
  <2>3. QED
    BY <2>1, <2>2
<1>8. QED
    BY <1>1, <1>2, <1>6, <1>7, FoldStays

-----------------------------------------------------------------------------
(* The sweep and the closing of a room only make the manager smaller.      *)
Unindexes(m, n) == \A s \in Sockets : n.index[s] \in {None, m.index[s]}

(* The sweep of expired reservations keeps the manager sound and only      *)
(* shrinks it.                                                             *)
LEMMA SweepShrinks ==
    ASSUME NEW m, SoundMgr(m)
    PROVE  /\ SoundMgr(SweepExpired(m)) /\ Shrinks(m, SweepExpired(m))
           /\ Unindexes(m, SweepExpired(m))
<1> DEFINE R == {n \in Managers : SoundMgr(n) /\ Shrinks(m, n) /\ Unindexes(m, n)}
<1>1. m \in R
    BY ShrinksOneself DEF SoundMgr, Unindexes
<1>2. \A n \in R, r \in RoomIds : CleanupRoom(n, r) \in R
  <2> SUFFICES ASSUME NEW n \in R, NEW r \in RoomIds PROVE CleanupRoom(n, r) \in R
    OBVIOUS
  <2>1. SoundMgr(CleanupRoom(n, r)) /\ Shrinks(n, CleanupRoom(n, r))
       /\ Unindexes(n, CleanupRoom(n, r))
    BY CleanupRoomSound DEF Unindexes
  <2>2. QED
    BY <2>1, ShrinksOn DEF SoundMgr, Unindexes
<1> HIDE DEF R
<1>3. SweepExpired(m) \in R
    BY <1>1, <1>2, SweepStays
<1>4. QED
    BY <1>3 DEF R

(* So does closing a room.                                                 *)
LEMMA CloseShrinks ==
    ASSUME NEW m, SoundMgr(m), NEW S \in SUBSET Sockets
    PROVE  /\ SoundMgr(CloseRoom(m, S)) /\ Shrinks(m, CloseRoom(m, S))
           /\ Unindexes(m, CloseRoom(m, S))
<1> DEFINE R == {n \in Managers : SoundMgr(n) /\ Shrinks(m, n) /\ Unindexes(m, n)}
<1>1. m \in R
    BY ShrinksOneself DEF SoundMgr, Unindexes
<1>2. \A n \in R, t \in S : RemoveSocket(n, t, FALSE) \in R
  <2> SUFFICES ASSUME NEW n \in R, NEW t \in S, NEW reserve \in BOOLEAN, ~reserve
               PROVE  RemoveSocket(n, t, reserve) \in R
    OBVIOUS
  <2>1. SoundMgr(RemoveSocket(n, t, reserve)) /\ Shrinks(n, RemoveSocket(n, t, reserve))
       /\ Unindexes(n, RemoveSocket(n, t, reserve))
    BY RemoveOne DEF Unindexes
  <2>2. QED
    BY <2>1, ShrinksOn DEF SoundMgr, Unindexes
<1> HIDE DEF R
<1>3. CloseRoom(m, S) \in R
    BY <1>1, <1>2, CloseStays
<1>4. QED
    BY <1>3 DEF R

-----------------------------------------------------------------------------
(***************************************************************************)
(* The handlers, on a room.                                                *)
(***************************************************************************)

(* The handlers of handler.ts leave the seats alone.                       *)
SameSeats(a, b) ==
    /\ b.roomId = a.roomId /\ b.players = a.players
    /\ b.sockets = a.sockets /\ b.pending = a.pending

(* A move leads from a board to a board.                                   *)
LEMMA BoardTyped ==
    ASSUME NEW b \in Board, NEW e \in BoardEdges, NEW c \in After(b, e)
    PROVE  c \in Board
<1>1. PICK n \in 0..2 :
          c = [taken |-> b.taken \union {e},
               turn |-> IF n > 0 THEN b.turn ELSE Opponent(b.turn),
               score |-> [b.score EXCEPT ![b.turn] = @ + n]]
    BY DEF After
<1>2. [b.score EXCEPT ![b.turn] = @ + n] \in [Slots -> Nat]
    BY DEF Board
<1>3. QED
    BY <1>1, <1>2 DEF Board, Opponent, Slots

(* A new game is a game.                                                   *)
LEMMA NewGameTyped ==
    ASSUME NEW n \in Nat PROVE NewGame(n) \in GameOf
BY DEF NewGame, GameOf, NewBoard, Board, Slots

(* A room just made is sound.                                              *)
LEMMA NewRoomSound ==
    ASSUME NEW r \in RoomIds, NEW game \in GameOf, NEW stake \in Nat
    PROVE  SoundRoom(NewRoom(r, game, stake)) /\ NewRoom(r, game, stake).roomId = r
<1> DEFINE room == NewRoom(r, game, stake)
           f == FALSE
<1>1. f \in BOOLEAN
    OBVIOUS
<1>2. <<>> \in Seq(QueuedOp) /\ [p \in Slots |-> None] \in Seating
      /\ [u \in Users |-> None] \in [Users -> Reservation \union {None}]
    BY DEF Seating
<1>3. room = [roomId |-> r, game |-> game, saved |-> f, stake |-> stake, rematch |-> None,
              players |-> [p \in Slots |-> None], sockets |-> {},
              pending |-> [u \in Users |-> None], dedupe |-> {},
              queue |-> <<>>, phase |-> "start", before |-> None]
    BY DEF NewRoom
<1> HIDE DEF f, room
<1>4. room \in RoomRec
    BY <1>1, <1>2, <1>3 DEF RoomRec
<1>5. Seats(room.players, room.sockets, room.pending)
    BY <1>3 DEF Seats, Slots
<1>6. SoundRoom(room) /\ room.roomId = r
    BY <1>3, <1>4, <1>5 DEF SoundRoom
<1>7. QED
    BY <1>6 DEF room

(* Taking the head of the queue off keeps a room sound.                    *)
LEMMA DequeuedSound ==
    ASSUME NEW room, SoundRoom(room), room.queue # <<>>
    PROVE  SoundRoom(Dequeued(room)) /\ SameSeats(room, Dequeued(room))
<1> DEFINE Q == Tail(room.queue)
           after == [room EXCEPT !.queue = Q, !.phase = "start", !.before = None]
<1>1. room \in RoomRec /\ Seats(room.players, room.sockets, room.pending)
    BY DEF SoundRoom
<1>2. Q \in Seq(QueuedOp)
    BY <1>1 DEF RoomRec
<1>3. Dequeued(room) = after
    BY <1>1 DEF Dequeued, RoomRec
<1> HIDE DEF Q
<1>4. after \in RoomRec /\ SameSeats(room, after) /\ after.phase = "start"
    BY <1>1, <1>2 DEF RoomRec, SameSeats
<1> HIDE DEF after
<1>5. SoundRoom(after)
    BY <1>1, <1>4 DEF SoundRoom, SameSeats
<1>6. QED
    BY <1>3, <1>4, <1>5

(* So does setting the saved flag.                                         *)
LEMMA SavedSound ==
    ASSUME NEW room, SoundRoom(room), NEW x \in BOOLEAN
    PROVE  /\ SoundRoom([room EXCEPT !.saved = x])
           /\ OnlySeats([room EXCEPT !.saved = room.saved], room)
           /\ SameSeats(room, [room EXCEPT !.saved = x])
BY DEF SoundRoom, RoomRec, SameSeats, OnlySeats

(* So does a rematch request, or its withdrawal.                           *)
LEMMA RematchSound ==
    ASSUME NEW room, SoundRoom(room), NEW p \in Slots \union {None}
    PROVE  /\ SoundRoom([room EXCEPT !.rematch = p])
           /\ OnlySeats(room, [room EXCEPT !.rematch = p])
           /\ SameSeats(room, [room EXCEPT !.rematch = p])
BY DEF SoundRoom, RoomRec, SameSeats, OnlySeats

(* The timer of a reservation sets its flag and frees no seat.             *)
LEMMA ExpiredSound ==
    ASSUME NEW room, SoundRoom(room), NEW u \in Users, room.pending[u] # None,
           NEW x \in BOOLEAN
    PROVE  LET after == [room EXCEPT !.pending[u].expired = x] IN
           /\ SoundRoom(after) /\ OnlySeats(room, after)
           /\ after.players = room.players /\ after.sockets = room.sockets
           /\ \A v \in Users : after.pending[v] = None <=> room.pending[v] = None
<1> DEFINE q == [room.pending[u] EXCEPT !.expired = x]
           Q == [room.pending EXCEPT ![u] = q]
           after == [room EXCEPT !.pending = Q]
<1>1. room \in RoomRec /\ Seats(room.players, room.sockets, room.pending)
    BY DEF SoundRoom
<1>2. room.pending \in [Users -> Reservation \union {None}]
    BY <1>1 DEF RoomRec
<1>3. q \in Reservation /\ q.slot = room.pending[u].slot
  <2>1. room.pending[u] \in Reservation
    BY <1>2
  <2>2. QED
    BY <2>1 DEF Reservation
<1>4. [room EXCEPT !.pending[u].expired = x] = after
    BY <1>1 DEF RoomRec
<1> HIDE DEF q
<1>5. /\ Q \in [Users -> Reservation \union {None}] /\ Q[u] = q
      /\ \A v \in Users : v # u => Q[v] = room.pending[v]
    BY <1>2, <1>3
<1> HIDE DEF Q
<1>6. /\ after \in RoomRec /\ OnlySeats(room, after) /\ after.pending = Q
      /\ after.players = room.players /\ after.sockets = room.sockets
    BY <1>1, <1>5 DEF RoomRec, OnlySeats
<1> HIDE DEF after
<1>7. \A v \in Users : Q[v] = None <=> room.pending[v] = None
    BY <1>3, <1>5, NoneIsNoName
<1>8. \A v \in Users : Q[v] # None => Q[v].slot = room.pending[v].slot
    BY <1>3, <1>5
<1>9. \A p \in Slots : room.players[p] # None => room.players[p] \in Users
    BY <1>1 DEF RoomRec, Seating
<1>10. Seats(after.players, after.sockets, after.pending)
    BY <1>1, <1>6, <1>7, <1>8, <1>9 DEF Seats
<1>11. SoundRoom(after)
    BY <1>6, <1>10, SoundBySeats
<1>12. QED
    BY <1>4, <1>6, <1>7, <1>11, Zenon

(* Forgetting action ids keeps a room sound.                               *)
LEMMA ForgottenSound ==
    ASSUME NEW room, SoundRoom(room), NEW D \in SUBSET Actions
    PROVE  /\ SoundRoom([room EXCEPT !.dedupe = D])
           /\ SameSeats(room, [room EXCEPT !.dedupe = D])
BY DEF SoundRoom, RoomRec, SameSeats

(* So does appending an operation to the queue.                            *)
LEMMA EnqueuedSound ==
    ASSUME NEW room, SoundRoom(room), NEW op \in QueuedOp
    PROVE  /\ SoundRoom([room EXCEPT !.queue = Append(@, op)])
           /\ SameSeats(room, [room EXCEPT !.queue = Append(@, op)])
<1> DEFINE Q == Append(room.queue, op)
<1>1. room.queue \in Seq(QueuedOp)
    BY DEF SoundRoom, RoomRec
<1>2. Q \in Seq(QueuedOp) /\ Q # <<>>
    BY <1>1
<1>3. [room EXCEPT !.queue = Append(@, op)] = [room EXCEPT !.queue = Q]
    BY DEF SoundRoom, RoomRec
<1> HIDE DEF Q
<1>4. QED
    BY <1>2, <1>3 DEF SoundRoom, RoomRec, SameSeats

(* So does starting the operation at the head of the queue.                *)
LEMMA StartedSound ==
    ASSUME NEW room, SoundRoom(room), room.queue # <<>>
    PROVE  /\ SoundRoom([room EXCEPT !.phase = "core", !.before = room.game])
           /\ SameSeats(room, [room EXCEPT !.phase = "core", !.before = room.game])
BY DEF SoundRoom, RoomRec, SameSeats

(* So does a new game in the room.                                         *)
LEMMA RestartedSound ==
    ASSUME NEW room, SoundRoom(room), NEW game \in GameOf, NEW D \in SUBSET Actions,
           NEW x \in BOOLEAN
    PROVE  LET after == [room EXCEPT !.game = game, !.saved = x, !.rematch = None, !.dedupe = D]
           IN  SoundRoom(after) /\ SameSeats(room, after)
BY DEF SoundRoom, RoomRec, SameSeats

(* So does a move applied to the board.                                    *)
LEMMA MovedSound ==
    ASSUME NEW room, SoundRoom(room), room.phase = "core", NEW action \in Actions,
           NEW board \in Board
    PROVE  /\ SoundRoom(Moved(room, action, board))
           /\ SameSeats(room, Moved(room, action, board))
           /\ Moved(room, action, board).queue = room.queue
<1>1. room.before \in GameOf
    BY DEF SoundRoom
<1>2. [room.before EXCEPT !.board = board] \in GameOf
    BY <1>1 DEF GameOf
<1> DEFINE g == [room.before EXCEPT !.board = board]
<1> HIDE DEF g
<1>3. /\ SoundRoom([room EXCEPT !.game = g, !.dedupe = @ \union {action}])
      /\ SameSeats(room, [room EXCEPT !.game = g, !.dedupe = @ \union {action}])
      /\ [room EXCEPT !.game = g, !.dedupe = @ \union {action}].queue = room.queue
    BY <1>2 DEF SoundRoom, RoomRec, SameSeats, g
<1>4. QED
    BY <1>3 DEF Moved, g

(* Writing a sound room of the same id, with no fewer sockets, over an     *)
(* object keeps the manager sound.                                         *)
LEMMA Rewritten ==
    ASSUME NEW m, SoundMgr(m), NEW o \in Objs, m.heap[o] # None, NEW b, SoundRoom(b),
           b.roomId = m.heap[o].roomId, m.heap[o].sockets \subseteq b.sockets
    PROVE  LET n == [m EXCEPT !.heap[o] = b] IN
           /\ SoundMgr(n) /\ n.heap[o] = b /\ b # None
           /\ n.rooms = m.rooms /\ n.index = m.index
           /\ \A p \in Objs : p # o => n.heap[p] = m.heap[p]
<1> DEFINE n == [m EXCEPT !.heap[o] = b]
<1>1. b \in RoomRec /\ b # None
    BY RoomIsNotNone DEF SoundRoom
<1>2. /\ n \in Managers /\ n.heap[o] = b
      /\ n.rooms = m.rooms /\ n.index = m.index
      /\ \A p \in Objs : p # o => n.heap[p] = m.heap[p]
    BY <1>1 DEF SoundMgr, Managers
<1> HIDE DEF n
<1>3. \A r \in RoomIds : n.rooms[r] # None => /\ n.heap[n.rooms[r]] # None
                                              /\ n.heap[n.rooms[r]].roomId = r
    BY <1>1, <1>2 DEF SoundMgr, Managers
<1>4. AtHome(n)
    BY <1>2 DEF SoundMgr, AtHome, Managers
<1>5. SoundMgr(n)
    BY <1>2, <1>3, <1>4 DEF SoundMgr
<1>6. QED
    BY <1>1, <1>2, <1>5 DEF n

-----------------------------------------------------------------------------
(***************************************************************************)
(* The saves in flight: each has a room object, and the chain it holds up  *)
(* is held up by no other.                                                 *)
(***************************************************************************)
SavesOK(m, flying) ==
    /\ flying \in [SaveIds -> SaveInFlight \union {None}]
    /\ \A i \in SaveIds : flying[i] # None => m.heap[flying[i].obj] # None
    /\ \A i \in SaveIds : flying[i] # None /\ flying[i].owner # None =>
          /\ m.heap[flying[i].owner] # None
          /\ m.heap[flying[i].owner].phase = "save"
          /\ \A j \in SaveIds :
                flying[j] # None /\ flying[j].owner = flying[i].owner => i = j

(* No room object goes away, and a save that is waited for stays so.       *)
Follows(m, n) ==
    \A o \in Objs : m.heap[o] # None =>
        /\ n.heap[o] # None
        /\ m.heap[o].phase = "save" => n.heap[o].phase = "save"

(* The saves in flight stay right when the rooms they refer to follow the  *)
(* old ones.                                                               *)
LEMMA SavesOn ==
    ASSUME NEW m, NEW n, NEW flying, SavesOK(m, flying), Follows(m, n)
    PROVE  SavesOK(n, flying)
<1>1. \A i \in SaveIds : flying[i] # None =>
        flying[i].obj \in Objs /\ flying[i].owner \in Objs \union {None}
    BY DEF SavesOK, SaveInFlight
<1>2. QED
    BY <1>1 DEF SavesOK, Follows

(* Following is transitive.                                                *)
LEMMA FollowsOn ==
    ASSUME NEW k, NEW m, NEW n, Follows(k, m), Follows(m, n)
    PROVE  Follows(k, n)
BY DEF Follows

(* A departure touches nothing that a save in flight refers to.            *)
LEMMA DepartsFollows ==
    ASSUME NEW m, NEW n, Departs(m, n) PROVE Follows(m, n)
BY DEF Departs, Follows, OnlySeats

(* The least free save id is a save id.                                    *)
LEMMA LeastSave ==
    ASSUME NEW N \in SUBSET SaveIds, N # {}
    PROVE  Min(N) \in N
<1>1. N \in SUBSET Nat
    BY ServerAssumption
<1>2. \E m \in N : \A k \in N : m <= k
    BY <1>1, LeastNumber
<1>3. QED
    BY <1>2 DEF Min

(* A save that starts marks the room it saves and changes nothing else.    *)
OnlySaved(a, b) ==
    /\ SameSeats(a, b)
    /\ b.game = a.game /\ b.stake = a.stake /\ b.rematch = a.rematch
    /\ b.dedupe = a.dedupe /\ b.queue = a.queue /\ b.phase = a.phase
    /\ b.before = a.before

Marks(m, n) ==
    /\ n.rooms = m.rooms /\ n.index = m.index
    /\ \A o \in Objs : n.heap[o] = None <=> m.heap[o] = None
    /\ \A o \in Objs : m.heap[o] # None => OnlySaved(m.heap[o], n.heap[o])

(* Setting the saved flag changes the saved flag only.                     *)
LEMMA SavedOnly ==
    ASSUME NEW room, SoundRoom(room), NEW x \in BOOLEAN
    PROVE  OnlySaved(room, [room EXCEPT !.saved = x])
BY DEF SoundRoom, RoomRec, SameSeats, OnlySaved

(* A manager marks as itself.                                              *)
LEMMA MarksOneself ==
    ASSUME NEW m PROVE Marks(m, m)
BY DEF Marks, OnlySaved, SameSeats

(* Marking rooms as saved touches nothing that a save in flight refers to. *)
LEMMA MarksFollows ==
    ASSUME NEW m, NEW n, Marks(m, n) PROVE Follows(m, n)
BY DEF Marks, OnlySaved, Follows

(* Setting the saved flag of one object keeps the manager sound.           *)
LEMMA MarkSound ==
    ASSUME NEW m, SoundMgr(m), NEW o \in Objs, m.heap[o] # None, NEW x \in BOOLEAN
    PROVE  LET n == [m EXCEPT !.heap[o].saved = x] IN
           SoundMgr(n) /\ Marks(m, n) /\ n.heap[o] = [m.heap[o] EXCEPT !.saved = x]
<1> DEFINE b == [m.heap[o] EXCEPT !.saved = x]
           n == [m EXCEPT !.heap[o] = b]
<1>1. [m EXCEPT !.heap[o].saved = x] = n
    BY DEF SoundMgr, Managers
<1>2. SoundRoom(m.heap[o])
    BY DEF SoundMgr
<1>3. SoundRoom(b) /\ SameSeats(m.heap[o], b) /\ OnlySaved(m.heap[o], b)
    BY <1>2, SavedSound, SavedOnly
<1>4. b.roomId = m.heap[o].roomId /\ m.heap[o].sockets \subseteq b.sockets
    BY <1>3 DEF SameSeats
<1> HIDE DEF b
<1>5. /\ SoundMgr(n) /\ n.heap[o] = b /\ b # None
      /\ n.rooms = m.rooms /\ n.index = m.index
      /\ \A p \in Objs : p # o => n.heap[p] = m.heap[p]
    BY <1>3, <1>4, Rewritten
<1> HIDE DEF n
<1>6. \A p \in Objs : OnlySaved(m.heap[p], n.heap[p])
    BY <1>3, <1>5 DEF OnlySaved, SameSeats
<1>7. Marks(m, n)
    BY <1>5, <1>6 DEF Marks
<1>8. QED
    BY <1>1, <1>5, <1>7 DEF b

(* A save just begun is a save, of the object the room id names.           *)
LEMMA NewSaveTyped ==
    ASSUME NEW m, SoundMgr(m), NEW r \in RoomIds, m.rooms[r] # None,
           NEW owner \in Objs \union {None}
    PROVE  /\ NewSave(m, r, owner) \in SaveInFlight
           /\ NewSave(m, r, owner).obj = m.rooms[r]
           /\ NewSave(m, r, owner).owner = owner
<1> DEFINE o == m.rooms[r]
           room == m.heap[o]
           stage == IF ChainEnabled THEN "chain" ELSE "db"
           w == IF ChainEnabled THEN None ELSE Winner(room.game.board.score)
           f == FALSE
           read == IF ChainEnabled THEN 0 ELSE room.game.id
           save == [obj |-> o, owner |-> owner, game |-> room.game.id,
                    players |-> room.players, score |-> room.game.board.score,
                    stage |-> stage, paid |-> f, winner |-> w, read |-> read]
<1>1. o \in Objs /\ room \in RoomRec
    BY DEF SoundMgr, Managers, SoundRoom
<1>2. /\ room.game.id \in Nat /\ room.players \in Seating
      /\ room.game.board.score \in [Slots -> Nat]
    BY <1>1 DEF RoomRec, GameOf, Board
<1>3. /\ f \in BOOLEAN /\ stage \in {"chain", "db"} /\ w \in {"X", "O", "DRAW", None}
      /\ read \in Nat
    BY <1>2 DEF Winner
<1>4. NewSave(m, r, owner) = save
    BY DEF NewSave
<1> HIDE DEF f, stage, w, read
<1>5. save \in SaveInFlight /\ save.obj = o /\ save.owner = owner
    BY <1>1, <1>2, <1>3 DEF SaveInFlight
<1>6. QED
    BY <1>4, <1>5

(* trySave keeps the manager sound, and the new save has an owner that     *)
(* waits for it and no other save has.                                     *)
LEMMA TrySaveSound ==
    ASSUME NEW m, SoundMgr(m), SavesOK(m, saves), NEW r \in RoomIds,
           NEW owner \in Objs \union {None}, TrySave(m, r, owner),
           CanSave(m, r) /\ owner # None =>
                /\ m.heap[owner] # None /\ m.heap[owner].phase = "save"
                /\ \A i \in SaveIds : saves[i] # None => saves[i].owner # owner
    PROVE  SoundMgr(mgr') /\ SavesOK(mgr', saves') /\ Marks(m, mgr')
<1>1. CASE ~CanSave(m, r)
    BY <1>1, MarksOneself DEF TrySave
<1>2. CASE CanSave(m, r)
  <2> DEFINE o == m.rooms[r]
             x == TRUE
             n == [m EXCEPT !.heap[o].saved = x]
             k == Min({i \in SaveIds : saves[i] = None})
             save == NewSave(m, r, owner)
  <2>1. /\ m.rooms[r] # None /\ mgr' = n /\ saves' = [saves EXCEPT ![k] = save]
        /\ {i \in SaveIds : saves[i] = None} # {}
    BY <1>2 DEF TrySave, CanSave
  <2>2. o \in Objs /\ m.heap[o] # None /\ x \in BOOLEAN
    BY <2>1 DEF SoundMgr, Managers
  <2>3. k \in SaveIds /\ saves[k] = None
    BY <2>1, LeastSave
  <2> HIDE DEF x, k
  <2>4. SoundMgr(n) /\ Marks(m, n)
    BY <2>2, MarkSound
  <2>5. save \in SaveInFlight /\ save.obj = o /\ save.owner = owner
    BY <2>1, NewSaveTyped
  <2> HIDE DEF n, save
  <2>6. SavesOK(n, saves) /\ Follows(m, n)
    BY <2>4, MarksFollows, SavesOn
  <2>7. /\ saves' \in [SaveIds -> SaveInFlight \union {None}] /\ saves'[k] = save
        /\ \A i \in SaveIds : i # k => saves'[i] = saves[i]
    BY <2>1, <2>3, <2>5, <2>6 DEF SavesOK
  <2>8. n.heap[o] # None /\ (owner # None => n.heap[owner] # None /\ n.heap[owner].phase = "save")
    BY <1>2, <2>2, <2>6 DEF Follows
  <2>9. \A i \in SaveIds : saves'[i] # None => n.heap[saves'[i].obj] # None
    BY <2>5, <2>6, <2>7, <2>8 DEF SavesOK
  <2>10. ASSUME NEW i \in SaveIds, saves'[i] # None, saves'[i].owner # None
         PROVE  /\ n.heap[saves'[i].owner] # None
                /\ n.heap[saves'[i].owner].phase = "save"
                /\ \A j \in SaveIds :
                      saves'[j] # None /\ saves'[j].owner = saves'[i].owner => i = j
    <3>1. CASE i = k
      BY <1>2, <2>5, <2>7, <2>8, <2>10, <3>1
    <3>2. CASE i # k
      <4>1. saves'[i] = saves[i]
        BY <2>7, <3>2
      <4>2. /\ n.heap[saves[i].owner] # None /\ n.heap[saves[i].owner].phase = "save"
            /\ \A j \in SaveIds :
                  saves[j] # None /\ saves[j].owner = saves[i].owner => i = j
        BY <2>6, <2>10, <4>1 DEF SavesOK
      <4>3. owner # None => saves[i].owner # owner
        BY <1>2, <2>10, <4>1
      <4>4. QED
        BY <2>5, <2>7, <2>10, <4>1, <4>2, <4>3
    <3>3. QED
      BY <3>1, <3>2
  <2>11. SavesOK(n, saves')
    BY <2>7, <2>9, <2>10 DEF SavesOK
  <2>12. QED
    BY <2>1, <2>4, <2>11
<1>3. QED
    BY <1>1, <1>2

-----------------------------------------------------------------------------
(***************************************************************************)
(* JOIN_ROOM                                                               *)
(***************************************************************************)

(* Who enters or leaves a room does not touch its game and its chain.      *)
SameGame(a, b) ==
    /\ b.roomId = a.roomId /\ b.game = a.game /\ b.stake = a.stake
    /\ b.dedupe = a.dedupe /\ b.queue = a.queue /\ b.phase = a.phase
    /\ b.before = a.before

TickFree == "clock ticks in join" \notin Faults

(* Somebody enters by s, after expired reservations went: whoever has a    *)
(* seat keeps it.                                                          *)
Admits(a, b, s) ==
    \E c : /\ Thins(a, c) /\ c.sockets = a.sockets /\ b.sockets = c.sockets \union {s}
           /\ \A u \in Users : SlotOf(c, u) # None => SlotOf(b, u) = SlotOf(c, u)
           /\ TickFree /\ Absent(c) => Absent(b)

Enters(m, n, s, r) ==
    /\ n.rooms = m.rooms
    /\ \A o \in Objs : n.heap[o] = None <=> m.heap[o] = None
    /\ \A o \in Objs : m.heap[o] # None => SameGame(m.heap[o], n.heap[o])
    /\ \A o \in Objs : m.heap[o] # None /\ o # m.rooms[r] => SameSeats(m.heap[o], n.heap[o])
    /\ \/ n.index = m.index /\ Thins(m.heap[m.rooms[r]], n.heap[m.rooms[r]])
       \/ n.index = [m.index EXCEPT ![s] = r]
          /\ Admits(m.heap[m.rooms[r]], n.heap[m.rooms[r]], s)

(* Entering a room touches nothing that a save in flight refers to.        *)
LEMMA EntersFollows ==
    ASSUME NEW m, NEW n, NEW s, NEW r, Enters(m, n, s, r)
    PROVE  Follows(m, n)
BY DEF Enters, Follows, SameGame

(* Rooms that differ in no seat agree on who sits where and on who is      *)
(* away.                                                                   *)
LEMMA SameSeatsSame ==
    ASSUME NEW a, NEW b, SameSeats(a, b)
    PROVE  /\ \A u : SlotOf(b, u) = SlotOf(a, u)
           /\ \A u : HasExpired(b, u) <=> HasExpired(a, u)
           /\ Absent(b) <=> Absent(a)
           /\ Thins(a, b)
<1>1. \A u : SlotOf(b, u) = SlotOf(a, u)
    BY DEF SameSeats, SlotOf
<1>2. \A u : HasExpired(b, u) <=> HasExpired(a, u)
    BY DEF SameSeats, HasExpired
<1>3. Absent(b) <=> Absent(a)
    BY DEF SameSeats, Absent, Away
<1>4. Thins(a, b)
    BY <1>1 DEF SameSeats, Thins
<1>5. QED
    BY <1>1, <1>2, <1>3, <1>4

(* Admission depends on the seats alone.                                   *)
LEMMA AdmitsSame ==
    ASSUME NEW a, NEW b, NEW c, NEW s, SameSeats(a, b), Admits(c, a, s)
    PROVE  Admits(c, b, s)
<1>1. \A u : SlotOf(b, u) = SlotOf(a, u)
    BY SameSeatsSame
<1>2. Absent(b) <=> Absent(a)
    BY SameSeatsSame
<1>3. QED
    BY <1>1, <1>2 DEF Admits, SameSeats

(* Whoever assignPlayer admits has no reservation left: those that remain  *)
(* are still of absent users.                                              *)
LEMMA AssignAbsent ==
    ASSUME NEW room, SoundRoom(room), NEW s \in Sockets, Absent(room),
           NEW late \in BOOLEAN, ~late
    PROVE  Absent(AssignSocket(room, s, late))
<1> DEFINE u == SocketUser[s]
           after == AssignSocket(room, s, late)
<1>1. room \in RoomRec /\ Seats(room.players, room.sockets, room.pending)
    BY DEF SoundRoom
<1>2. /\ after.sockets = room.sockets \union {s}
      /\ ~late => after.pending[u] = None
      /\ \A v \in Users : v # u => after.pending[v] = room.pending[v]
    BY <1>1, AssignShape
<1> HIDE DEF after
<1>3. Absent(after)
    BY <1>2 DEF Absent, Away
<1>4. QED
    BY <1>3 DEF after

(* assignPlayer, after expired seats were freed, is an admission.          *)
LEMMA AssignAdmits ==
    ASSUME NEW a, NEW c, SoundRoom(c), Thins(a, c), c.sockets = a.sockets, NEW s \in Sockets,
           NEW late \in BOOLEAN, TickFree => ~late,
           \A t \in c.sockets \ {s} : SocketUser[t] # SocketUser[s]
    PROVE  Admits(a, AssignSocket(c, s, late), s)
<1> DEFINE b == AssignSocket(c, s, late)
<1>1. SoundRoom(b) /\ \A p \in Slots : c.players[p] # None => b.players[p] = c.players[p]
    BY AssignSound
<1>2. c \in RoomRec /\ Seats(c.players, c.sockets, c.pending)
    BY DEF SoundRoom
<1>3. b.sockets = c.sockets \union {s}
    BY <1>2, AssignShape
<1>4. TickFree /\ Absent(c) => Absent(b)
    BY AssignAbsent
<1> HIDE DEF b
<1>5. ASSUME NEW u \in Users, SlotOf(c, u) # None PROVE SlotOf(b, u) = SlotOf(c, u)
  <2>1. b \in RoomRec /\ Seats(b.players, b.sockets, b.pending)
    BY <1>1 DEF SoundRoom
  <2>2. \A p \in Slots : c.players[p] = u => b.players[p] = u
    BY <1>1, NoneIsNoName
  <2>3. QED
    BY <1>2, <1>5, <2>1, <2>2, SeatsStay
<1>6. Admits(a, b, s)
    BY <1>3, <1>4, <1>5 DEF Admits
<1>7. QED
    BY <1>6 DEF b

Indexed(m, table) == \A s \in Sockets : m.index[s] \in {None, table[s]}

(* enterRoom keeps the manager, the saves and the socket table in          *)
(* agreement, and admits the socket to the room and to no other.           *)
LEMMA EnterSound ==
    ASSUME NEW m, SoundMgr(m), SavesOK(m, saves), NEW s \in Sockets, NEW r \in RoomIds,
           m.rooms[r] # None, NEW stake, EnterRoom(m, s, r, stake),
           socketToRoom \in [Sockets -> RoomIds \union {None}], Indexed(m, socketToRoom)
    PROVE  /\ SoundMgr(mgr') /\ SavesOK(mgr', saves') /\ Enters(m, mgr', s, r)
           /\ socketToRoom' \in [Sockets -> RoomIds \union {None}]
           /\ Indexed(mgr', socketToRoom')
<1> DEFINE o == m.rooms[r]
           room == CleanupExpiredReconnect(m.heap[o])
           active == \E t \in room.sockets \ {s} : SocketUser[t] = SocketUser[s]
<1>1. o \in Objs /\ m.heap[o] # None /\ SoundRoom(m.heap[o])
    BY DEF SoundMgr, Managers
<1>2. SoundRoom(room) /\ Thins(m.heap[o], room)
    BY <1>1, CleanupSound, CleanupThins
<1>3. OnlySeats(m.heap[o], room) /\ room.sockets = m.heap[o].sockets
    BY <1>1, CleanupParts DEF SoundRoom
<1>4. room.roomId = m.heap[o].roomId
    BY <1>3 DEF OnlySeats
<1>5. SameGame(m.heap[o], room)
    BY <1>3 DEF OnlySeats, SameGame
<1>6. \A p \in Objs : SameGame(m.heap[p], m.heap[p]) /\ SameSeats(m.heap[p], m.heap[p])
    BY DEF SameGame, SameSeats
<1>7. CASE mgr' = [m EXCEPT !.heap[o] = room] /\ UNCHANGED <<socketToRoom, saves>>
  <2> HIDE DEF room
  <2> DEFINE n == [m EXCEPT !.heap[o] = room]
  <2>1. /\ SoundMgr(n) /\ n.heap[o] = room /\ room # None
        /\ n.rooms = m.rooms /\ n.index = m.index
        /\ \A p \in Objs : p # o => n.heap[p] = m.heap[p]
    BY <1>1, <1>2, <1>3, <1>4, Rewritten
  <2> HIDE DEF n
  <2>2. Enters(m, n, s, r)
    BY <1>1, <1>2, <1>5, <1>6, <2>1 DEF Enters
  <2>3. SavesOK(n, saves)
    BY <2>2, EntersFollows, SavesOn
  <2>4. Indexed(n, socketToRoom)
    BY <2>1 DEF Indexed
  <2>5. QED
    BY <1>7, <2>1, <2>2, <2>3, <2>4 DEF n
<1>8. ASSUME ~active,
             NEW late \in BOOLEAN, TickFree => ~late,
             LET seated == AssignSocket(room, s, late)
                 entered == IF IsRoomFull(seated)
                            THEN [seated EXCEPT !.rematch = None] ELSE seated
             IN  /\ socketToRoom' = [socketToRoom EXCEPT ![s] = r]
                 /\ TrySave([m EXCEPT !.heap[o] = entered, !.index[s] = r], r, None)
      PROVE  /\ SoundMgr(mgr') /\ SavesOK(mgr', saves') /\ Enters(m, mgr', s, r)
             /\ socketToRoom' \in [Sockets -> RoomIds \union {None}]
             /\ Indexed(mgr', socketToRoom')
  <2> DEFINE seated == AssignSocket(room, s, late)
             entered == IF IsRoomFull(seated) THEN [seated EXCEPT !.rematch = None] ELSE seated
             n == [m EXCEPT !.heap[o] = entered]
             k == [m EXCEPT !.heap[o] = entered, !.index[s] = r]
  <2>1. TickFree => ~late
    BY <1>8
  <2>2. \A t \in room.sockets \ {s} : SocketUser[t] # SocketUser[s]
    BY <1>8
  <2>3. socketToRoom' = [socketToRoom EXCEPT ![s] = r] /\ TrySave(k, r, None)
    BY <1>8
  <2> HIDE DEF room
  <2>4. SoundRoom(seated) /\ Admits(m.heap[o], seated, s)
    BY <1>2, <1>3, <2>1, <2>2, AssignSound, AssignAdmits
  <2>5. OnlySeats(room, seated) /\ seated.sockets = room.sockets \union {s}
    <3>1. room \in RoomRec /\ Seats(room.players, room.sockets, room.pending)
      BY <1>2 DEF SoundRoom
    <3>2. QED
      BY <3>1, AssignShape
  <2> HIDE DEF seated
  <2>6. SoundRoom(entered) /\ SameSeats(seated, entered) /\ OnlySeats(seated, entered)
    <3>1. SameSeats(seated, seated) /\ OnlySeats(seated, seated)
      BY DEF SameSeats, OnlySeats
    <3>2. /\ SoundRoom([seated EXCEPT !.rematch = None])
          /\ OnlySeats(seated, [seated EXCEPT !.rematch = None])
          /\ SameSeats(seated, [seated EXCEPT !.rematch = None])
      BY <2>4, RematchSound
    <3>3. QED
      BY <2>4, <3>1, <3>2
  <2>7. Admits(m.heap[o], entered, s)
    BY <2>4, <2>6, AdmitsSame
  <2>8. /\ entered.roomId = m.heap[o].roomId /\ SameGame(m.heap[o], entered)
        /\ m.heap[o].sockets \subseteq entered.sockets /\ s \in entered.sockets
    BY <1>3, <2>5, <2>6 DEF OnlySeats, SameSeats, SameGame
  <2> HIDE DEF entered
  <2>9. /\ SoundMgr(n) /\ n.heap[o] = entered /\ entered # None
        /\ n.rooms = m.rooms /\ n.index = m.index
        /\ \A p \in Objs : p # o => n.heap[p] = m.heap[p]
    BY <1>1, <2>6, <2>8, Rewritten
  <2>10. k = [n EXCEPT !.index[s] = r]
    OBVIOUS
  <2> HIDE DEF n, k
  <2>11. /\ k \in Managers /\ k.heap = n.heap /\ k.rooms = n.rooms
         /\ k.index = [m.index EXCEPT ![s] = r] /\ k.index[s] = r
         /\ \A t \in Sockets : t # s => k.index[t] = n.index[t]
    BY <2>9, <2>10 DEF SoundMgr, Managers
  <2>12. AtHome(k)
    <3>1. AtHome(n)
      BY <2>9 DEF SoundMgr
    <3>2. k.rooms[r] = o /\ o # None /\ s \in k.heap[o].sockets
      BY <2>8, <2>9, <2>11
    <3>3. QED
      BY <2>11, <3>1, <3>2 DEF AtHome
  <2>13. SoundMgr(k)
    BY <2>9, <2>11, <2>12 DEF SoundMgr
  <2>14. Enters(m, k, s, r)
    BY <1>1, <1>6, <2>7, <2>8, <2>9, <2>11 DEF Enters
  <2>15. SavesOK(k, saves)
    BY <2>14, EntersFollows, SavesOn
  <2>16. SoundMgr(mgr') /\ SavesOK(mgr', saves') /\ Marks(k, mgr')
    BY <2>3, <2>13, <2>15, TrySaveSound
  <2>17. \A p \in Objs : k.heap[p] # None =>
             SameSeats(k.heap[p], mgr'.heap[p]) /\ SameGame(k.heap[p], mgr'.heap[p])
    BY <2>16 DEF Marks, OnlySaved, SameSeats, SameGame
  <2>18. Admits(m.heap[o], mgr'.heap[o], s)
    BY <1>1, <2>7, <2>9, <2>11, <2>17, AdmitsSame
  <2>19. Enters(m, mgr', s, r)
    <3>1. \A p \in Objs : mgr'.heap[p] = None <=> m.heap[p] = None
      BY <2>14, <2>16 DEF Enters, Marks
    <3>2. \A p \in Objs : m.heap[p] # None => SameGame(m.heap[p], mgr'.heap[p])
      BY <2>14, <2>17 DEF Enters, SameGame
    <3>3. \A p \in Objs : m.heap[p] # None /\ p # m.rooms[r] => SameSeats(m.heap[p], mgr'.heap[p])
      BY <2>14, <2>17 DEF Enters, SameSeats
    <3>4. mgr'.rooms = m.rooms /\ mgr'.index = [m.index EXCEPT ![s] = r]
      BY <2>9, <2>11, <2>16 DEF Marks
    <3>5. QED
      BY <2>18, <3>1, <3>2, <3>3, <3>4 DEF Enters
  <2>20. socketToRoom' \in [Sockets -> RoomIds \union {None}] /\ Indexed(mgr', socketToRoom')
    BY <2>3, <2>9, <2>11, <2>16 DEF Marks, Indexed
  <2>21. QED
    BY <2>16, <2>19, <2>20
<1>9. \A late \in IF "clock ticks in join" \in Faults THEN BOOLEAN ELSE {FALSE} :
            late \in BOOLEAN /\ (TickFree => ~late)
    BY DEF TickFree
<1>10. QED
    BY <1>7, <1>8, <1>9 DEF EnterRoom

-----------------------------------------------------------------------------
(***************************************************************************)
(* The invariant of the server, and the steps that keep it                 *)
(***************************************************************************)
ServerInv ==
    /\ conn \in [Sockets -> {"new", "live", "gone"}]
    /\ socketToRoom \in [Sockets -> RoomIds \union {None}]
    /\ SoundMgr(mgr) /\ Indexed(mgr, socketToRoom)
    /\ core \in {"cold", "ready"}
    /\ joins \subseteq [socket: Sockets, room: RoomIds, stake: Stakes]
    /\ resets \subseteq [obj: Objs, socket: Sockets]
    /\ \A x \in resets : mgr.heap[x.obj] # None
    /\ SavesOK(mgr, saves)
    /\ games \in Nat
    /\ applied \in [Objs -> [Actions -> 0..2]]

(* What every step does to the rooms, the saves and the indices            *)
Stays(m, n) == \A o \in Objs : m.heap[o] # None => n.heap[o] # None

RoomsStep ==
    /\ SoundMgr(mgr') /\ Indexed(mgr', socketToRoom')
    /\ socketToRoom' \in [Sockets -> RoomIds \union {None}]
    /\ SavesOK(mgr', saves')
    /\ Stays(mgr, mgr')

(* When saves can follow, no object goes away.                             *)
LEMMA FollowsStays ==
    ASSUME NEW m, NEW n, Follows(m, n) PROVE Stays(m, n)
BY DEF Follows, Stays

(* A step that writes neither manager nor saves nor table keeps their      *)
(* agreement.                                                              *)
LEMMA RoomsUnchanged ==
    ASSUME ServerInv, mgr' = mgr, saves' = saves, socketToRoom' = socketToRoom
    PROVE  RoomsStep
BY DEF ServerInv, RoomsStep, Stays

(* A step that writes one room, with the same sockets, keeps their         *)
(* agreement.                                                              *)
LEMMA RoomWritten ==
    ASSUME ServerInv, NEW o \in Objs, mgr.heap[o] # None, NEW b, SoundRoom(b),
           b.roomId = mgr.heap[o].roomId, b.sockets = mgr.heap[o].sockets,
           mgr.heap[o].phase = "save" => b.phase = "save",
           mgr' = [mgr EXCEPT !.heap[o] = b], saves' = saves, socketToRoom' = socketToRoom
    PROVE  /\ RoomsStep /\ mgr'.heap[o] = b /\ mgr'.rooms = mgr.rooms /\ mgr'.index = mgr.index
           /\ \A p \in Objs : p # o => mgr'.heap[p] = mgr.heap[p]
<1>1. SoundMgr(mgr) /\ SavesOK(mgr, saves)
    BY DEF ServerInv
<1>2. /\ SoundMgr(mgr') /\ mgr'.heap[o] = b /\ b # None
      /\ mgr'.rooms = mgr.rooms /\ mgr'.index = mgr.index
      /\ \A p \in Objs : p # o => mgr'.heap[p] = mgr.heap[p]
    BY <1>1, Rewritten
<1>3. Follows(mgr, mgr')
    BY <1>2 DEF Follows
<1>4. SavesOK(mgr', saves') /\ Stays(mgr, mgr')
    BY <1>1, <1>3, SavesOn, FollowsStays
<1>5. QED
    BY <1>2, <1>4 DEF RoomsStep, ServerInv, Indexed

(* Leaving the other room first, as JOIN_ROOM does, keeps the manager      *)
(* sound; the room to be joined is not touched when both exist.            *)
LEMMA LeftOther ==
    ASSUME ServerInv, NEW s \in Sockets, NEW r \in RoomIds
    PROVE  LET m == LeaveOtherRoom(s, r) IN
           /\ SoundMgr(m) /\ Shrinks(mgr, m) /\ Indexed(m, socketToRoom)
           /\ mgr.index[s] # None /\ mgr.rooms[r] # None =>
                    m.heap[mgr.rooms[r]] = mgr.heap[mgr.rooms[r]]
<1> SUFFICES ASSUME NEW reserve \in BOOLEAN, ~reserve
             PROVE  LET m == IF socketToRoom[s] \in {None, r} THEN mgr
                             ELSE RemoveSocket(mgr, s, reserve) IN
                    /\ SoundMgr(m) /\ Shrinks(mgr, m) /\ Indexed(m, socketToRoom)
                    /\ mgr.index[s] # None /\ mgr.rooms[r] # None =>
                             m.heap[mgr.rooms[r]] = mgr.heap[mgr.rooms[r]]
    BY DEF LeaveOtherRoom
<1>1. SoundMgr(mgr) /\ Indexed(mgr, socketToRoom)
    BY DEF ServerInv
<1>2. CASE socketToRoom[s] \in {None, r}
    BY <1>1, <1>2, ShrinksOneself
<1>3. CASE socketToRoom[s] \notin {None, r}
  <2> DEFINE n == RemoveSocket(mgr, s, reserve)
  <2>1. /\ SoundMgr(n) /\ Shrinks(mgr, n)
        /\ mgr.index[s] # None =>
              \A o \in Objs : o # mgr.rooms[mgr.index[s]] => n.heap[o] = mgr.heap[o]
        /\ \A t \in Sockets : t # s => n.index[t] = mgr.index[t]
        /\ n.index[s] = None
    BY <1>1, RemoveOne
  <2> HIDE DEF n
  <2>2. Indexed(n, socketToRoom)
    BY <1>1, <2>1 DEF Indexed
  <2>3. ASSUME mgr.index[s] # None, mgr.rooms[r] # None
        PROVE  n.heap[mgr.rooms[r]] = mgr.heap[mgr.rooms[r]]
    <3>1. mgr.index[s] = socketToRoom[s] /\ mgr.index[s] \in RoomIds /\ mgr.index[s] # r
      BY <1>1, <1>3, <2>3 DEF Indexed, SoundMgr, Managers
    <3>2. mgr.rooms[r] \in Objs /\ mgr.rooms[mgr.index[s]] # mgr.rooms[r]
      BY <1>1, <2>3, <3>1 DEF SoundMgr, Managers
    <3>3. QED
      BY <2>1, <2>3, <3>2
  <2>4. QED
    BY <1>3, <2>1, <2>2, <2>3 DEF n
<1>4. QED
    BY <1>2, <1>3

(* JOIN_ROOM keeps manager, saves and table in agreement.                  *)
LEMMA JoinRoomSound ==
    ASSUME ServerInv, NEW s \in Sockets, NEW r \in RoomIds, NEW stake \in Stakes,
           JoinRoom(s, r, stake)
    PROVE  RoomsStep
<1> DEFINE m == LeaveOtherRoom(s, r)
<1>1. /\ SoundMgr(m) /\ Shrinks(mgr, m) /\ Indexed(m, socketToRoom)
    BY LeftOther
<1>2. \/ m.rooms[r] # None /\ EnterRoom(m, s, r, stake)
      \/ mgr' = m /\ UNCHANGED <<socketToRoom, saves>>
    BY DEF JoinRoom
<1> HIDE DEF m
<1>3. Follows(mgr, m)
    BY <1>1, ShrinksDeparts, DepartsFollows
<1>4. SavesOK(m, saves)
    BY <1>3, SavesOn DEF ServerInv
<1>5. socketToRoom \in [Sockets -> RoomIds \union {None}]
    BY DEF ServerInv
<1>6. CASE m.rooms[r] # None /\ EnterRoom(m, s, r, stake)
  <2>1. /\ SoundMgr(mgr') /\ SavesOK(mgr', saves') /\ Enters(m, mgr', s, r)
        /\ socketToRoom' \in [Sockets -> RoomIds \union {None}]
        /\ Indexed(mgr', socketToRoom')
    BY <1>1, <1>4, <1>5, <1>6, EnterSound
  <2>2. Follows(mgr, mgr')
    BY <1>3, <2>1, EntersFollows, FollowsOn
  <2>3. QED
    BY <2>1, <2>2, FollowsStays DEF RoomsStep
<1>7. CASE mgr' = m /\ UNCHANGED <<socketToRoom, saves>>
    BY <1>1, <1>3, <1>4, <1>5, <1>7, FollowsStays DEF RoomsStep
<1>8. QED
    BY <1>2, <1>6, <1>7

(* A room object that nothing refers to any more becomes a new room.       *)
Vacant(m, o) ==
    /\ o \in Objs
    /\ m.heap[o] # None => m.heap[o].queue = <<>>
    /\ \A q \in RoomIds : m.rooms[q] # o
    /\ \A i \in SaveIds : saves[i] # None => saves[i].obj # o /\ saves[i].owner # o

Opens(m, n, r, o, b) == n = [m EXCEPT !.heap[o] = b, !.rooms[r] = o]

(* Putting a new room into a vacant object keeps the manager sound.        *)
LEMMA NewRoomPut ==
    ASSUME NEW m, SoundMgr(m), SavesOK(m, saves), NEW r \in RoomIds, m.rooms[r] = None,
           NEW o, Vacant(m, o), NEW b, SoundRoom(b), b.roomId = r,
           NEW n, Opens(m, n, r, o, b)
    PROVE  /\ SoundMgr(n) /\ SavesOK(n, saves) /\ Stays(m, n)
           /\ n.rooms[r] = o /\ n.index = m.index
           /\ \A p \in Objs : p # o => n.heap[p] = m.heap[p]
<1>0. o \in Objs /\ n = [m EXCEPT !.heap[o] = b, !.rooms[r] = o]
    BY DEF Vacant, Opens
<1>1. b \in RoomRec /\ b # None /\ o # None
    BY <1>0, RoomIsNotNone, NoneIsNoName DEF SoundRoom
<1>2. /\ n \in Managers /\ n.heap[o] = b
      /\ n.rooms[r] = o /\ n.index = m.index
      /\ \A p \in Objs : p # o => n.heap[p] = m.heap[p]
      /\ \A q \in RoomIds : q # r => n.rooms[q] = m.rooms[q]
    BY <1>0, <1>1 DEF SoundMgr, Managers
<1>3. \A q \in RoomIds : n.rooms[q] # None => /\ n.heap[n.rooms[q]] # None
                                              /\ n.heap[n.rooms[q]].roomId = q
    BY <1>0, <1>1, <1>2 DEF SoundMgr, Managers, Vacant
<1>4. AtHome(n)
  <2> SUFFICES ASSUME NEW s \in Sockets, n.index[s] # None
               PROVE  /\ n.rooms[n.index[s]] # None
                      /\ s \in n.heap[n.rooms[n.index[s]]].sockets
    BY DEF AtHome
  <2>1. /\ m.index[s] \in RoomIds /\ m.rooms[m.index[s]] # None
        /\ m.rooms[m.index[s]] \in Objs
        /\ s \in m.heap[m.rooms[m.index[s]]].sockets
    BY <1>2 DEF SoundMgr, AtHome, Managers
  <2>2. QED
    BY <1>0, <1>2, <2>1 DEF Vacant
<1>5. SoundMgr(n)
    BY <1>0, <1>2, <1>3, <1>4 DEF SoundMgr
<1>6. Stays(m, n)
    BY <1>0, <1>1, <1>2 DEF Stays
<1>7. \A i \in SaveIds : saves[i] # None =>
        saves[i].obj \in Objs /\ saves[i].owner \in Objs \union {None}
    BY DEF SavesOK, SaveInFlight
<1>8. SavesOK(n, saves)
    BY <1>0, <1>2, <1>7 DEF SavesOK, Vacant
<1>9. QED
    BY <1>2, <1>5, <1>6, <1>8

(* A free object is vacant, and no pending rematch refers to it.           *)
LEMMA FreeObj ==
    ASSUME ServerInv, NEW o \in FreeObjs
    PROVE  Vacant(mgr, o) /\ \A x \in resets : x.obj # o
BY DEF FreeObjs, InUse, Vacant

-----------------------------------------------------------------------------
(***************************************************************************)
(* What the steps do to the seats and to the games                         *)
(***************************************************************************)
Reenters(a, m, n, u) ==
    \E s \in a.sockets : SocketUser[s] = u /\ m.index[s] = None /\ n.index[s] # None

KeepsSeats(m, n) ==
    \A o \in Objs : m.heap[o] # None /\ (\E r \in RoomIds : m.rooms[r] = o) =>
        \A u \in Users : SlotOf(m.heap[o], u) # None =>
            \/ SlotOf(n.heap[o], u) = SlotOf(m.heap[o], u)
            \/ HasExpired(m.heap[o], u)
            \/ GaveUp(m.heap[o], n.heap[o], u)
            \/ Reenters(m.heap[o], m, n, u)

(* Whoever has a reservation is away.                                      *)
AllAbsent(m) == \A o \in Objs : m.heap[o] # None => Absent(m.heap[o])

NoNewRoom == \A o \in Objs : mgr'.heap[o] # None => mgr.heap[o] # None

GamesStay ==
    NoNewRoom /\ \A o \in Objs : mgr.heap[o] # None => SameGame(mgr.heap[o], mgr'.heap[o])

SeatsStep == KeepsSeats(mgr, mgr') /\ (TickFree /\ AllAbsent(mgr) => AllAbsent(mgr'))

CalmStep == RoomsStep /\ SeatsStep /\ GamesStay

(* Departures keep the seats of whoever stays, and the games.              *)
LEMMA DepartsKeeps ==
    ASSUME NEW m, NEW n, Departs(m, n)
    PROVE  /\ KeepsSeats(m, n) /\ (AllAbsent(m) => AllAbsent(n))
           /\ \A o \in Objs : m.heap[o] # None => SameGame(m.heap[o], n.heap[o])
<1>1. KeepsSeats(m, n)
    BY DEF Departs, Parts, KeepsSeats
<1>2. AllAbsent(m) => AllAbsent(n)
    BY DEF Departs, Parts, AllAbsent
<1>3. \A o \in Objs : m.heap[o] # None => SameGame(m.heap[o], n.heap[o])
    BY DEF Departs, OnlySeats, SameGame
<1>4. QED
    BY <1>1, <1>2, <1>3

(* Marking rooms as saved keeps seats and games.                           *)
LEMMA MarksKeeps ==
    ASSUME NEW m, NEW n, Marks(m, n)
    PROVE  /\ KeepsSeats(m, n) /\ (AllAbsent(m) => AllAbsent(n))
           /\ \A o \in Objs : m.heap[o] # None => SameGame(m.heap[o], n.heap[o])
<1>1. \A o \in Objs : m.heap[o] # None => SameSeats(m.heap[o], n.heap[o])
    BY DEF Marks, OnlySaved
<1>2. KeepsSeats(m, n)
    BY <1>1, SameSeatsSame DEF KeepsSeats
<1>3. AllAbsent(m) => AllAbsent(n)
    BY <1>1, SameSeatsSame DEF AllAbsent, Marks
<1>4. \A o \in Objs : m.heap[o] # None => SameGame(m.heap[o], n.heap[o])
    BY DEF Marks, OnlySaved, SameSeats, SameGame
<1>5. QED
    BY <1>2, <1>3, <1>4

(* A step that writes one room without touching its seats keeps the seats. *)
LEMMA SameSeatsWritten ==
    ASSUME ServerInv, NEW o \in Objs, mgr.heap[o] # None, NEW b, SoundRoom(b),
           SameSeats(mgr.heap[o], b), mgr.heap[o].phase = "save" => b.phase = "save",
           mgr' = [mgr EXCEPT !.heap[o] = b], saves' = saves, socketToRoom' = socketToRoom
    PROVE  /\ RoomsStep /\ SeatsStep /\ mgr'.heap[o] = b
           /\ mgr'.rooms = mgr.rooms /\ mgr'.index = mgr.index
           /\ \A p \in Objs : p # o => mgr'.heap[p] = mgr.heap[p]
<1>1. b.roomId = mgr.heap[o].roomId /\ b.sockets = mgr.heap[o].sockets
    BY DEF SameSeats
<1>2. /\ RoomsStep /\ mgr'.heap[o] = b /\ mgr'.rooms = mgr.rooms /\ mgr'.index = mgr.index
      /\ \A p \in Objs : p # o => mgr'.heap[p] = mgr.heap[p]
    BY <1>1, RoomWritten
<1>3. /\ \A u : SlotOf(b, u) = SlotOf(mgr.heap[o], u)
      /\ Absent(b) <=> Absent(mgr.heap[o])
    BY SameSeatsSame
<1>4. KeepsSeats(mgr, mgr')
    BY <1>2, <1>3 DEF KeepsSeats
<1>5. AllAbsent(mgr) => AllAbsent(mgr')
    BY <1>2, <1>3 DEF AllAbsent
<1>6. QED
    BY <1>2, <1>4, <1>5 DEF SeatsStep

(* If it does not touch the game either, it is calm.                       *)
LEMMA CalmWritten ==
    ASSUME ServerInv, NEW o \in Objs, mgr.heap[o] # None, NEW b, SoundRoom(b),
           SameSeats(mgr.heap[o], b), SameGame(mgr.heap[o], b),
           mgr' = [mgr EXCEPT !.heap[o] = b], saves' = saves, socketToRoom' = socketToRoom
    PROVE  CalmStep
<1>1. mgr.heap[o].phase = "save" => b.phase = "save"
    BY DEF SameGame
<1>2. /\ RoomsStep /\ SeatsStep /\ mgr'.heap[o] = b
      /\ \A p \in Objs : p # o => mgr'.heap[p] = mgr.heap[p]
    BY <1>1, SameSeatsWritten
<1>3. GamesStay
    BY <1>2 DEF GamesStay, NoNewRoom, SameGame
<1>4. QED
    BY <1>2, <1>3 DEF CalmStep

(* A step that leaves manager, saves and table alone is calm.              *)
LEMMA CalmUnchanged ==
    ASSUME ServerInv, mgr' = mgr, saves' = saves, socketToRoom' = socketToRoom
    PROVE  CalmStep
<1>1. RoomsStep
    BY RoomsUnchanged
<1>2. SeatsStep
    BY DEF SeatsStep, KeepsSeats, AllAbsent
<1>3. GamesStay
    BY DEF GamesStay, NoNewRoom, SameGame
<1>4. QED
    BY <1>1, <1>2, <1>3 DEF CalmStep

(* A step of departures is calm.                                           *)
LEMMA CalmDeparture ==
    ASSUME ServerInv, SoundMgr(mgr'), Departs(mgr, mgr'), saves' = saves,
           socketToRoom' \in [Sockets -> RoomIds \union {None}], Indexed(mgr', socketToRoom')
    PROVE  CalmStep
<1>1. Follows(mgr, mgr') /\ Stays(mgr, mgr')
    BY DepartsFollows, FollowsStays
<1>2. SavesOK(mgr', saves')
    BY <1>1, SavesOn DEF ServerInv
<1>3. /\ KeepsSeats(mgr, mgr') /\ (AllAbsent(mgr) => AllAbsent(mgr'))
      /\ \A o \in Objs : mgr.heap[o] # None => SameGame(mgr.heap[o], mgr'.heap[o])
    BY DepartsKeeps
<1>4. RoomsStep
    BY <1>1, <1>2 DEF RoomsStep
<1>5. QED
    BY <1>3, <1>4 DEF CalmStep, SeatsStep, GamesStay, NoNewRoom, Departs

(* The disconnect handler is calm.                                         *)
LEMMA DisconnectCalm ==
    ASSUME ServerInv, NEW s \in Sockets, Disconnect(s)
    PROVE  CalmStep
<1> SUFFICES ASSUME NEW reserve \in BOOLEAN, mgr' = RemoveSocket(mgr, s, reserve)
             PROVE  CalmStep
    BY DEF Disconnect
<1>1. SoundMgr(mgr) /\ Indexed(mgr, socketToRoom)
      /\ socketToRoom \in [Sockets -> RoomIds \union {None}]
    BY DEF ServerInv
<1> DEFINE n == RemoveSocket(mgr, s, reserve)
<1>2. /\ SoundMgr(n) /\ Departs(mgr, n)
      /\ \A t \in Sockets : t # s => n.index[t] = mgr.index[t]
      /\ n.index[s] = None
    BY <1>1, RemoveOne
<1>3. mgr' = n
    OBVIOUS
<1> HIDE DEF n
<1>4. /\ socketToRoom' = [socketToRoom EXCEPT ![s] = None] /\ saves' = saves
    BY DEF Disconnect
<1>5. /\ socketToRoom' \in [Sockets -> RoomIds \union {None}]
      /\ Indexed(mgr', socketToRoom')
    BY <1>1, <1>2, <1>3, <1>4 DEF Indexed
<1>6. QED
    BY <1>2, <1>3, <1>4, <1>5, CalmDeparture

(* The periodic sweep is calm.                                             *)
LEMMA SweepCalm ==
    ASSUME ServerInv, Sweep
    PROVE  CalmStep
<1>1. SoundMgr(mgr) /\ Indexed(mgr, socketToRoom)
      /\ socketToRoom \in [Sockets -> RoomIds \union {None}]
    BY DEF ServerInv
<1>2. mgr' = SweepExpired(mgr) /\ saves' = saves /\ socketToRoom' = socketToRoom
    BY DEF Sweep
<1>3. SoundMgr(mgr') /\ Shrinks(mgr, mgr') /\ Unindexes(mgr, mgr')
    BY <1>1, <1>2, SweepShrinks
<1>4. Departs(mgr, mgr')
    BY <1>3, ShrinksDeparts
<1>5. Indexed(mgr', socketToRoom')
    BY <1>1, <1>2, <1>3 DEF Indexed, Unindexes
<1>6. QED
    BY <1>1, <1>2, <1>3, <1>4, <1>5, CalmDeparture

(* The timer of a reservation is calm.                                     *)
LEMMA ExpireCalm ==
    ASSUME ServerInv, NEW o \in Objs, NEW u \in Users, Expire(o, u)
    PROVE  CalmStep
<1> SUFFICES ASSUME NEW x \in BOOLEAN, mgr' = [mgr EXCEPT !.heap[o].pending[u].expired = x]
             PROVE  CalmStep
    BY DEF Expire
<1> DEFINE room == mgr.heap[o]
           b == [room EXCEPT !.pending[u].expired = x]
<1>1. /\ mgr.heap[o] # None /\ room.pending[u] # None
      /\ saves' = saves /\ socketToRoom' = socketToRoom
    BY DEF Expire
<1>2. SoundMgr(mgr) /\ mgr \in Managers /\ SoundRoom(room)
    BY <1>1 DEF ServerInv, SoundMgr
<1>3. mgr' = [mgr EXCEPT !.heap[o] = b]
    OBVIOUS
<1>4. /\ SoundRoom(b) /\ OnlySeats(room, b)
      /\ b.players = room.players /\ b.sockets = room.sockets
      /\ \A v \in Users : b.pending[v] = None <=> room.pending[v] = None
    BY <1>1, <1>2, ExpiredSound
<1> HIDE DEF b
<1>5. /\ b.roomId = room.roomId
      /\ mgr.heap[o].phase = "save" => b.phase = "save"
      /\ SameGame(room, b)
    BY <1>4 DEF OnlySeats, SameGame
<1>6. /\ RoomsStep /\ mgr'.heap[o] = b /\ mgr'.rooms = mgr.rooms /\ mgr'.index = mgr.index
      /\ \A p \in Objs : p # o => mgr'.heap[p] = mgr.heap[p]
    BY <1>1, <1>3, <1>4, <1>5, RoomWritten
<1>7. KeepsSeats(mgr, mgr')
    BY <1>4, <1>6 DEF KeepsSeats, SlotOf
<1>8. AllAbsent(mgr) => AllAbsent(mgr')
    BY <1>1, <1>4, <1>6 DEF AllAbsent, Absent, Away
<1>9. GamesStay
    BY <1>1, <1>5, <1>6 DEF GamesStay, NoNewRoom, SameGame
<1>10. QED
    BY <1>6, <1>7, <1>8, <1>9 DEF CalmStep, SeatsStep

(* REMATCH_REQUEST is calm.                                                *)
LEMMA RematchRequestCalm ==
    ASSUME ServerInv, NEW s \in Sockets, NEW r \in RoomIds, RematchRequest(s, r)
    PROVE  CalmStep
<1> DEFINE o == mgr.rooms[r]
           room == mgr.heap[o]
           p == PlayerInRoom(room, s)
           b == [room EXCEPT !.rematch = p]
<1>1. /\ o # None /\ p # None /\ mgr' = [mgr EXCEPT !.heap[o] = b]
      /\ saves' = saves /\ socketToRoom' = socketToRoom
    BY DEF RematchRequest, Exists, Room
<1>2. o \in Objs /\ mgr.heap[o] # None /\ SoundRoom(room)
    BY <1>1 DEF ServerInv, SoundMgr, Managers
<1>3. p \in Slots
  <2>1. room \in RoomRec /\ Seats(room.players, room.sockets, room.pending)
        /\ SocketUser[s] \in Users
    BY <1>2, SocketUserAssumption DEF SoundRoom
  <2>2. SlotOf(room, SocketUser[s]) \in Slots \union {None}
    BY <2>1, SlotOfSeat
  <2>3. QED
    BY <1>1, <2>2 DEF PlayerInRoom
<1>4. p \in Slots \union {None}
    BY <1>3
<1> HIDE DEF p
<1>5. SoundRoom(b) /\ OnlySeats(room, b) /\ SameSeats(room, b)
    BY <1>2, <1>4, RematchSound
<1> HIDE DEF b
<1>6. SameGame(room, b)
    BY <1>5 DEF OnlySeats, SameGame
<1>7. QED
    BY <1>1, <1>2, <1>5, <1>6, CalmWritten

(* REMATCH_DECLINE, which closes the room, is calm.                        *)
LEMMA RematchDeclineCalm ==
    ASSUME ServerInv, NEW s \in Sockets, NEW r \in RoomIds, RematchDecline(s, r)
    PROVE  CalmStep
<1> SUFFICES ASSUME NEW p \in Slots \union {None},
                    mgr' = CloseRoom([mgr EXCEPT !.heap[mgr.rooms[r]].rematch = p],
                                     Room(r).sockets)
             PROVE  CalmStep
    BY DEF RematchDecline
<1> DEFINE o == mgr.rooms[r]
           room == mgr.heap[o]
           b == [room EXCEPT !.rematch = p]
           m == [mgr EXCEPT !.heap[o] = b]
<1>1. /\ o # None /\ mgr' = CloseRoom(m, room.sockets)
      /\ saves' = saves /\ socketToRoom' = socketToRoom
    BY DEF RematchDecline, MayRespond, Exists, Room
<1>2. /\ o \in Objs /\ mgr.heap[o] # None /\ SoundRoom(room) /\ SoundMgr(mgr)
      /\ Indexed(mgr, socketToRoom) /\ socketToRoom \in [Sockets -> RoomIds \union {None}]
    BY <1>1 DEF ServerInv, SoundMgr, Managers
<1>3. room.sockets \in SUBSET Sockets
    BY <1>2 DEF SoundRoom, RoomRec
<1>4. SoundRoom(b) /\ OnlySeats(room, b) /\ SameSeats(room, b)
    BY <1>2, RematchSound
<1> HIDE DEF b
<1>5. /\ SoundMgr(m) /\ m.heap[o] = b /\ b # None
      /\ m.rooms = mgr.rooms /\ m.index = mgr.index
      /\ \A q \in Objs : q # o => m.heap[q] = mgr.heap[q]
  <2>1. b.roomId = mgr.heap[o].roomId /\ mgr.heap[o].sockets \subseteq b.sockets
    BY <1>4 DEF SameSeats
  <2>2. QED
    BY <1>2, <1>4, <2>1, Rewritten
<1> HIDE DEF m
<1>6. Thins(room, b)
    BY <1>4, SameSeatsSame
<1>7. Shrinks(mgr, m)
    BY <1>2, <1>4, <1>5, <1>6, ThinsOneself DEF Shrinks
<1>8. SoundMgr(mgr') /\ Shrinks(m, mgr') /\ Unindexes(m, mgr')
    BY <1>1, <1>3, <1>5, CloseShrinks
<1>9. Departs(mgr, mgr')
    BY <1>7, <1>8, ShrinksOn, ShrinksDeparts
<1>10. Indexed(mgr', socketToRoom')
    BY <1>1, <1>2, <1>5, <1>8 DEF Indexed, Unindexes
<1>11. QED
    BY <1>1, <1>2, <1>8, <1>9, <1>10, CalmDeparture

(* SYNC_STATE is calm.                                                     *)
LEMMA SyncCalm ==
    ASSUME ServerInv, NEW s \in Sockets, NEW r \in RoomIds, SyncState(s, r)
    PROVE  CalmStep
<1> SUFFICES ASSUME NEW owner \in Objs \union {None}, owner = None, TrySave(mgr, r, owner)
             PROVE  CalmStep
    BY DEF SyncState
<1>1. /\ SoundMgr(mgr) /\ SavesOK(mgr, saves) /\ Indexed(mgr, socketToRoom)
      /\ socketToRoom \in [Sockets -> RoomIds \union {None}]
    BY DEF ServerInv
<1>2. SoundMgr(mgr') /\ SavesOK(mgr', saves') /\ Marks(mgr, mgr')
    BY <1>1, TrySaveSound
<1>3. socketToRoom' = socketToRoom
    BY DEF SyncState
<1>4. Stays(mgr, mgr')
    BY <1>2, MarksFollows, FollowsStays
<1>5. Indexed(mgr', socketToRoom')
    BY <1>1, <1>2, <1>3 DEF Indexed, Marks
<1>6. RoomsStep
    BY <1>1, <1>2, <1>3, <1>4, <1>5 DEF RoomsStep
<1>7. /\ KeepsSeats(mgr, mgr') /\ (AllAbsent(mgr) => AllAbsent(mgr'))
      /\ \A o \in Objs : mgr.heap[o] # None => SameGame(mgr.heap[o], mgr'.heap[o])
    BY <1>2, MarksKeeps
<1>8. QED
    BY <1>2, <1>6, <1>7 DEF CalmStep, SeatsStep, GamesStay, NoNewRoom, Marks

-----------------------------------------------------------------------------
(***************************************************************************)
(* The steps that change a game, or the chain of its room                  *)
(***************************************************************************)
OthersStay(o) ==
    /\ \A p \in Objs : p # o /\ mgr'.heap[p] # None => mgr.heap[p] # None
    /\ \A p \in Objs : p # o /\ mgr.heap[p] # None => SameGame(mgr.heap[p], mgr'.heap[p])

SameStake(a, b) == b.roomId = a.roomId /\ b.stake = a.stake

WrittenStep(o, b) ==
    /\ RoomsStep /\ SeatsStep /\ OthersStay(o)
    /\ mgr.heap[o] # None /\ mgr'.heap[o] = b /\ SameStake(mgr.heap[o], b)

(* A step that writes one room and keeps its seats, id and stake is a      *)
(* writing step.                                                           *)
LEMMA WrittenBy ==
    ASSUME ServerInv, NEW o \in Objs, mgr.heap[o] # None, NEW b, SoundRoom(b),
           SameSeats(mgr.heap[o], b), b.stake = mgr.heap[o].stake,
           mgr.heap[o].phase = "save" => b.phase = "save",
           mgr' = [mgr EXCEPT !.heap[o] = b], saves' = saves, socketToRoom' = socketToRoom
    PROVE  WrittenStep(o, b)
<1>1. /\ RoomsStep /\ SeatsStep /\ mgr'.heap[o] = b
      /\ \A p \in Objs : p # o => mgr'.heap[p] = mgr.heap[p]
    BY SameSeatsWritten
<1>2. OthersStay(o)
    BY <1>1 DEF OthersStay, SameGame
<1>3. QED
    BY <1>1, <1>2 DEF WrittenStep, SameStake, SameSeats

(* Forgetting an action id writes the dedupe set of one room.              *)
LEMMA ForgetStep ==
    ASSUME ServerInv, NEW o \in Objs, NEW a \in Actions, Forget(o, a)
    PROVE  WrittenStep(o, [mgr.heap[o] EXCEPT !.dedupe = @ \ {a}])
<1> DEFINE D == mgr.heap[o].dedupe \ {a}
           b == [mgr.heap[o] EXCEPT !.dedupe = D]
<1>1. /\ mgr.heap[o] # None /\ mgr' = [mgr EXCEPT !.heap[o] = b]
      /\ saves' = saves /\ socketToRoom' = socketToRoom
    BY DEF Forget
<1>2. SoundRoom(mgr.heap[o]) /\ D \in SUBSET Actions
    BY <1>1 DEF ServerInv, SoundMgr, SoundRoom, RoomRec
<1>3. b.stake = mgr.heap[o].stake /\ b.phase = mgr.heap[o].phase
    BY <1>2 DEF SoundRoom, RoomRec
<1>4. SoundRoom(b) /\ SameSeats(mgr.heap[o], b)
    BY <1>2, ForgottenSound
<1> HIDE DEF b
<1>5. WrittenStep(o, b)
    BY <1>1, <1>3, <1>4, WrittenBy
<1>6. QED
    BY <1>5 DEF b

(* MAKE_MOVE and RESET_GAME append to the queue of the room they name.     *)
LEMMA EnqueueStep ==
    ASSUME ServerInv, NEW s \in Sockets, NEW r \in RoomIds, NEW kind, NEW action,
           NEW op, op = [kind |-> kind, socket |-> s, action |-> action], op \in QueuedOp,
           Enqueue(s, r, kind, action)
    PROVE  /\ mgr.rooms[r] \in Objs
           /\ WrittenStep(mgr.rooms[r], [mgr.heap[mgr.rooms[r]] EXCEPT !.queue = Append(@, op)])
<1> DEFINE o == mgr.rooms[r]
           room == mgr.heap[o]
           b == [room EXCEPT !.queue = Append(@, op)]
<1>1. /\ o # None /\ mgr' = [mgr EXCEPT !.heap[o] = b]
      /\ saves' = saves /\ socketToRoom' = socketToRoom
    BY DEF Enqueue, Exists
<1>2. o \in Objs /\ mgr.heap[o] # None /\ SoundRoom(room)
    BY <1>1 DEF ServerInv, SoundMgr, Managers
<1>3. b.stake = mgr.heap[o].stake /\ b.phase = mgr.heap[o].phase
    BY <1>2 DEF SoundRoom, RoomRec
<1>4. SoundRoom(b) /\ SameSeats(room, b)
    BY <1>2, EnqueuedSound
<1> HIDE DEF b
<1>5. WrittenStep(o, b)
    BY <1>1, <1>2, <1>3, <1>4, WrittenBy
<1>6. QED
    BY <1>2, <1>5 DEF b

(* The chain of a room takes the head of its queue: it runs, or is         *)
(* dropped.                                                                *)
LEMMA StartStep ==
    ASSUME ServerInv, NEW o \in Objs, StartOp(o)
    PROVE  LET room == mgr.heap[o] IN
           /\ room.queue # <<>> /\ room.phase = "start"
           /\ \/ /\ MayRun(room, Head(room.queue))
                 /\ WrittenStep(o, [room EXCEPT !.phase = "core", !.before = room.game])
              \/ WrittenStep(o, Dequeued(room))
<1> DEFINE room == mgr.heap[o]
           b == [room EXCEPT !.phase = "core", !.before = room.game]
           c == Dequeued(room)
<1>1. /\ room # None /\ room.queue # <<>> /\ room.phase = "start"
      /\ saves' = saves /\ socketToRoom' = socketToRoom
    BY DEF StartOp
<1>2. SoundRoom(room)
    BY <1>1 DEF ServerInv, SoundMgr
<1>3. \/ MayRun(room, Head(room.queue)) /\ mgr' = [mgr EXCEPT !.heap[o] = b]
      \/ mgr' = [mgr EXCEPT !.heap[o] = c]
    BY DEF StartOp
<1>4. SoundRoom(b) /\ SameSeats(room, b) /\ b.stake = room.stake
    BY <1>1, <1>2, StartedSound DEF SoundRoom, RoomRec
<1>5. SoundRoom(c) /\ SameSeats(room, c) /\ c.stake = room.stake
    BY <1>1, <1>2, DequeuedSound DEF SoundRoom, RoomRec, Dequeued
<1> HIDE DEF b, c
<1>6. CASE MayRun(room, Head(room.queue)) /\ mgr' = [mgr EXCEPT !.heap[o] = b]
  <2>1. WrittenStep(o, b)
    BY <1>1, <1>4, <1>6, WrittenBy
  <2>2. QED
    BY <1>1, <1>6, <2>1 DEF b
<1>7. CASE mgr' = [mgr EXCEPT !.heap[o] = c]
  <2>1. WrittenStep(o, c)
    BY <1>1, <1>5, <1>7, WrittenBy
  <2>2. QED
    BY <1>1, <2>1 DEF c
<1>8. QED
    BY <1>3, <1>6, <1>7

(* A reset writes a new game into the room and starts its chain afresh.    *)
LEMMA ResetStep ==
    ASSUME ServerInv, NEW o \in Objs, FinishReset(o)
    PROVE  \E b : /\ WrittenStep(o, b) /\ b.game = NewGame(games + 1)
                  /\ b.phase = "start" /\ b.dedupe = mgr.heap[o].dedupe
                  /\ b.queue = Tail(mgr.heap[o].queue)
<1> SUFFICES ASSUME NEW x \in BOOLEAN,
                    mgr' = [mgr EXCEPT !.heap[o] =
                              [Dequeued(mgr.heap[o]) EXCEPT !.game = NewGame(games + 1),
                                                            !.saved = x, !.rematch = None]]
             PROVE  \E b : /\ WrittenStep(o, b) /\ b.game = NewGame(games + 1)
                           /\ b.phase = "start" /\ b.dedupe = mgr.heap[o].dedupe
                           /\ b.queue = Tail(mgr.heap[o].queue)
    BY DEF FinishReset
<1> DEFINE room == mgr.heap[o]
           c == Dequeued(room)
           b == [c EXCEPT !.game = NewGame(games + 1), !.saved = x, !.rematch = None]
           d == [c EXCEPT !.game = NewGame(games + 1), !.saved = x, !.rematch = None,
                          !.dedupe = c.dedupe]
<1>1. /\ room # None /\ room.queue # <<>> /\ room.phase = "core"
      /\ saves' = saves /\ socketToRoom' = socketToRoom
      /\ mgr' = [mgr EXCEPT !.heap[o] = b]
    BY DEF FinishReset
<1>2. SoundRoom(room) /\ games + 1 \in Nat
    BY <1>1 DEF ServerInv, SoundMgr
<1>3. /\ SoundRoom(c) /\ SameSeats(room, c) /\ c.stake = room.stake
      /\ c.dedupe = room.dedupe /\ c.dedupe \in SUBSET Actions /\ c.phase = "start"
      /\ c.queue = Tail(room.queue)
    BY <1>1, <1>2, DequeuedSound DEF SoundRoom, RoomRec, Dequeued
<1> HIDE DEF c
<1>4. SoundRoom(d) /\ SameSeats(c, d)
  <2>1. NewGame(games + 1) \in GameOf
    BY <1>2, NewGameTyped
  <2>2. QED
    BY <1>3, <2>1, RestartedSound
<1>5. /\ d = b /\ b.stake = c.stake /\ b.game = NewGame(games + 1)
      /\ b.phase = c.phase /\ b.dedupe = c.dedupe /\ b.queue = c.queue
    BY <1>3 DEF SoundRoom, RoomRec
<1> HIDE DEF b, d
<1>6. SoundRoom(b) /\ SameSeats(room, b) /\ b.stake = room.stake
    BY <1>3, <1>4, <1>5 DEF SameSeats
<1>7. WrittenStep(o, b)
    BY <1>1, <1>6, WrittenBy
<1>8. QED
    BY <1>3, <1>5, <1>7

Puts(m, n, o, a) == n = [m EXCEPT !.heap[o] = a]

(* Of two writes to one object the second stands.                          *)
LEMMA WriteTwice ==
    ASSUME NEW m \in Managers, NEW o \in Objs, NEW a, NEW b,
           NEW n, Puts(m, n, o, a), NEW k, Puts(n, k, o, b)
    PROVE  Puts(m, k, o, b) /\ k.heap[o] = b
BY DEF Managers, Puts

Restarts(m, n, o, g, y, D) ==
    n = [m EXCEPT !.heap[o].game = g, !.heap[o].saved = y, !.heap[o].rematch = None,
                  !.heap[o].dedupe = D]

(* What an accepted rematch writes, as one write.                          *)
LEMMA RematchWrite ==
    ASSUME NEW m \in Managers, NEW o \in Objs, NEW g, NEW y, NEW D,
           NEW n, Restarts(m, n, o, g, y, D)
    PROVE  Puts(m, n, o, [m.heap[o] EXCEPT !.game = g, !.saved = y, !.rematch = None,
                                           !.dedupe = D])
<1> DEFINE B == [m.heap[o] EXCEPT !.game = g, !.saved = y, !.rematch = None, !.dedupe = D]
           m1 == [m EXCEPT !.heap[o].game = g]
           m2 == [m1 EXCEPT !.heap[o].saved = y]
           m3 == [m2 EXCEPT !.heap[o].rematch = None]
           m4 == [m3 EXCEPT !.heap[o].dedupe = D]
           b1 == [m.heap[o] EXCEPT !.game = g]
           b2 == [b1 EXCEPT !.saved = y]
           b3 == [b2 EXCEPT !.rematch = None]
           b4 == [b3 EXCEPT !.dedupe = D]
<1>1. n = m4 /\ B = b4
    BY DEF Restarts
<1>2. Puts(m, m1, o, b1) /\ m1.heap[o] = b1
    BY DEF Managers, Puts
<1> HIDE DEF m1, b1
<1>3. Puts(m1, m2, o, b2)
    BY <1>2 DEF Puts
<1> HIDE DEF m2, b2
<1>4. Puts(m, m2, o, b2) /\ m2.heap[o] = b2
    BY <1>2, <1>3, WriteTwice
<1>5. Puts(m2, m3, o, b3)
    BY <1>4 DEF Puts
<1> HIDE DEF m3, b3
<1>6. Puts(m, m3, o, b3) /\ m3.heap[o] = b3
    BY <1>4, <1>5, WriteTwice
<1>7. Puts(m3, m4, o, b4)
    BY <1>6 DEF Puts
<1> HIDE DEF m4, b4
<1>8. Puts(m, m4, o, b4)
    BY <1>6, <1>7, WriteTwice
<1>9. QED
    BY <1>1, <1>8 DEF Puts

(* An accepted rematch, when the rule core answers, writes a new game and  *)
(* leaves the chain of the room where it is.                               *)
LEMMA RematchStep ==
    ASSUME ServerInv, NEW x \in resets, RematchResumes(x)
    PROVE  /\ x.obj \in Objs
           /\ \E b : /\ WrittenStep(x.obj, b) /\ b.game = NewGame(games + 1)
                     /\ b.phase = mgr.heap[x.obj].phase /\ b.queue = mgr.heap[x.obj].queue
                     /\ b.before = mgr.heap[x.obj].before
<1> SUFFICES ASSUME NEW y \in BOOLEAN,
                    mgr' = [mgr EXCEPT !.heap[x.obj].game = NewGame(games + 1),
                                       !.heap[x.obj].saved = y,
                                       !.heap[x.obj].rematch = None,
                                       !.heap[x.obj].dedupe = {}]
             PROVE  /\ x.obj \in Objs
                    /\ \E b : /\ WrittenStep(x.obj, b) /\ b.game = NewGame(games + 1)
                              /\ b.phase = mgr.heap[x.obj].phase
                              /\ b.queue = mgr.heap[x.obj].queue
                              /\ b.before = mgr.heap[x.obj].before
    BY DEF RematchResumes
<1> DEFINE D == {}
<1>0. /\ D \in SUBSET Actions
      /\ mgr' = [mgr EXCEPT !.heap[x.obj].game = NewGame(games + 1),
                            !.heap[x.obj].saved = y,
                            !.heap[x.obj].rematch = None,
                            !.heap[x.obj].dedupe = D]
    OBVIOUS
<1> HIDE DEF D
<1> DEFINE o == x.obj
           room == mgr.heap[o]
           b == [room EXCEPT !.game = NewGame(games + 1), !.saved = y, !.rematch = None,
                             !.dedupe = D]
<1>1. /\ o \in Objs /\ mgr \in Managers /\ room # None /\ SoundRoom(room) /\ games + 1 \in Nat
      /\ saves' = saves /\ socketToRoom' = socketToRoom
    BY DEF ServerInv, SoundMgr, RematchResumes
<1>2. mgr' = [mgr EXCEPT !.heap[o] = b]
  <2>1. Restarts(mgr, mgr', o, NewGame(games + 1), y, D)
    BY <1>0 DEF Restarts
  <2>2. Puts(mgr, mgr', o, b)
    BY <1>1, <2>1, RematchWrite
  <2>3. QED
    BY <2>2 DEF Puts
<1>3. SoundRoom(b) /\ SameSeats(room, b)
  <2>1. NewGame(games + 1) \in GameOf
    BY <1>1, NewGameTyped
  <2>2. QED
    BY <1>0, <1>1, <2>1, RestartedSound
<1>4. /\ b.stake = room.stake /\ b.game = NewGame(games + 1) /\ b.phase = room.phase
      /\ b.queue = room.queue /\ b.before = room.before
    BY <1>0, <1>1 DEF SoundRoom, RoomRec
<1> HIDE DEF b
<1>5. WrittenStep(o, b)
    BY <1>1, <1>2, <1>3, <1>4, WrittenBy
<1>6. QED
    BY <1>1, <1>4, <1>5

(* The head of a queue is an operation, and a move names an edge.          *)
LEMMA QueuedAction ==
    ASSUME NEW q \in Seq(QueuedOp), q # <<>>
    PROVE  /\ Head(q) \in QueuedOp
           /\ Head(q).kind = "move" => Head(q).action \in Actions /\ EdgeOf[Head(q).action] \in BoardEdges
<1>1. Head(q) \in QueuedOp
    OBVIOUS
<1>2. ASSUME NEW op \in QueuedOp, op.kind = "move"
      PROVE  op.action \in Actions /\ EdgeOf[op.action] \in BoardEdges
    BY <1>2, ServerAssumption DEF QueuedOp
<1>3. QED
    BY <1>1, <1>2

(* Moving the chain of a room to another phase keeps the room sound.       *)
LEMMA PhasedSound ==
    ASSUME NEW room, SoundRoom(room), room.queue # <<>>, NEW x \in {"start", "save"}
    PROVE  LET b == [room EXCEPT !.phase = x] IN
           /\ SoundRoom(b) /\ SameSeats(room, b) /\ b.game = room.game
           /\ b.dedupe = room.dedupe /\ b.stake = room.stake /\ b.phase = x
           /\ b.saved = room.saved /\ b.queue = room.queue
BY DEF SoundRoom, RoomRec, SameSeats

(* Whether a result can be saved does not depend on the chain of the room. *)
LEMMA CanSaveOn ==
    ASSUME NEW m, NEW n, NEW r, NEW o,
           n.rooms = m.rooms, \A p \in Objs : p # o => n.heap[p] = m.heap[p],
           m \in Managers, r \in RoomIds,
           n.heap[o].saved = m.heap[o].saved, n.heap[o].game = m.heap[o].game,
           n.heap[o].players = m.heap[o].players
    PROVE  CanSave(n, r) <=> CanSave(m, r)
<1>1. CASE m.rooms[r] = None
    BY <1>1 DEF CanSave
<1>2. CASE m.rooms[r] # None
  <2> DEFINE a == m.heap[m.rooms[r]]
             b == n.heap[m.rooms[r]]
  <2>1. m.rooms[r] \in Objs
    BY <1>2 DEF Managers
  <2>2. a.saved = b.saved /\ a.game = b.game /\ a.players = b.players
    BY <2>1
  <2>3. n.heap[n.rooms[r]] = b
    OBVIOUS
  <2> HIDE DEF a, b
  <2>4. IsRoomFull(a) <=> IsRoomFull(b)
    BY <2>2 DEF IsRoomFull
  <2>5. QED
    BY <1>2, <2>2, <2>3, <2>4 DEF CanSave, a
<1>3. QED
    BY <1>1, <1>2

(* The chain of a room after its board changed: it waits for the save of   *)
(* the result, or goes on.                                                 *)
Continued(moved, x) == IF x THEN [moved EXCEPT !.phase = "save"] ELSE Dequeued(moved)

MoveTaken(a, b, action) ==
    /\ b.dedupe = a.dedupe \union {action} /\ b.phase \in {"start", "save"}
    /\ \E e \in BoardEdges \ a.before.board.taken : \E c \in After(a.before.board, e) :
            b.game = [a.before EXCEPT !.board = c]

MoveStep(o) ==
    /\ RoomsStep /\ SeatsStep /\ OthersStay(o)
    /\ mgr.heap[o] # None /\ SameStake(mgr.heap[o], mgr'.heap[o])
    /\ LET a == mgr.heap[o]
           b == mgr'.heap[o]
           action == Head(a.queue).action
       IN  /\ a.queue # <<>> /\ a.phase = "core" /\ action \in Actions
           /\ Head(a.queue).kind = "move" /\ b.queue \in {a.queue, Tail(a.queue)}
           /\ \/ /\ b.game = a.game /\ b.phase = "start" /\ b.dedupe = a.dedupe
                 /\ applied' = applied
              \/ /\ MoveTaken(a, b, action)
                 /\ applied' = [applied EXCEPT ![o][action] = Min({@ + 1, 2})]

(* FinishMove takes a move: the action id was not known, the board before  *)
(* is the one the chain read, and afterwards the id is known.              *)
LEMMA MovedStep ==
    ASSUME ServerInv, NEW o \in Objs, FinishMove(o)
    PROVE  MoveStep(o)
<1> DEFINE room == mgr.heap[o]
           op == Head(room.queue)
           edge == EdgeOf[op.action]
<1>1. /\ room # None /\ room.queue # <<>> /\ room.phase = "core" /\ op.kind = "move"
      /\ socketToRoom' = socketToRoom
    BY DEF FinishMove
<1>2. /\ SoundRoom(room) /\ SoundMgr(mgr) /\ SavesOK(mgr, saves) /\ mgr \in Managers
      /\ Indexed(mgr, socketToRoom) /\ socketToRoom \in [Sockets -> RoomIds \union {None}]
    BY <1>1 DEF ServerInv, SoundMgr
<1>3. op.action \in Actions /\ edge \in BoardEdges /\ room.roomId \in RoomIds
  <2>1. room.queue \in Seq(QueuedOp) /\ room.roomId \in RoomIds
    BY <1>2 DEF SoundRoom, RoomRec
  <2>2. QED
    BY <1>1, <2>1, QueuedAction
<1>4. CASE /\ mgr' = [mgr EXCEPT !.heap[o] = Dequeued(room)]
           /\ UNCHANGED <<saves, applied>>
  <2> DEFINE c == Dequeued(room)
  <2>1. /\ SoundRoom(c) /\ SameSeats(room, c) /\ c.stake = room.stake /\ c.game = room.game
        /\ c.phase = "start" /\ c.dedupe = room.dedupe /\ c.queue = Tail(room.queue)
    BY <1>1, <1>2, DequeuedSound DEF SoundRoom, RoomRec, Dequeued
  <2> HIDE DEF c
  <2>2. mgr' = [mgr EXCEPT !.heap[o] = c] /\ saves' = saves /\ applied' = applied
    BY <1>4 DEF c
  <2>3. WrittenStep(o, c)
    BY <1>1, <1>2, <2>1, <2>2, WrittenBy
  <2>4. mgr'.heap[o] = c /\ RoomsStep /\ SeatsStep /\ OthersStay(o) /\ SameStake(room, c)
    BY <2>3 DEF WrittenStep
  <2>5. QED
    BY <1>1, <1>3, <2>1, <2>2, <2>4 DEF MoveStep
<1>5. ASSUME ~EdgeTaken(room.before.board, edge),
             NEW b \in After(room.before.board, edge),
             LET moved == Moved(room, op.action, b)
                 m == [mgr EXCEPT !.heap[o] = moved]
             IN  TrySave([m EXCEPT !.heap[o] =
                            IF CanSave(m, room.roomId)
                            THEN [moved EXCEPT !.phase = "save"]
                            ELSE Dequeued(moved)], room.roomId, o),
             applied' = [applied EXCEPT ![o][op.action] = Min({@ + 1, 2})]
      PROVE  MoveStep(o)
  <2> DEFINE moved == Moved(room, op.action, b)
             m == [mgr EXCEPT !.heap[o] = moved]
             x == CanSave(m, room.roomId)
             c == Continued(moved, x)
             n == [m EXCEPT !.heap[o] = c]
             r == room.roomId
  <2>1. TrySave(n, r, o)
    BY <1>5 DEF Continued
  <2>2. room.before \in GameOf /\ room.before.board \in Board /\ b \in Board
    <3>1. room.before \in GameOf /\ room.before.board \in Board
      BY <1>1, <1>2 DEF SoundRoom, GameOf
    <3>2. QED
      BY <1>3, <1>5, <3>1, BoardTyped
  <2>3. /\ SoundRoom(moved) /\ SameSeats(room, moved) /\ moved.queue = room.queue
    BY <1>1, <1>2, <1>3, <2>2, MovedSound
  <2>4. /\ moved.game = [room.before EXCEPT !.board = b] /\ moved.stake = room.stake
        /\ moved.dedupe = room.dedupe \union {op.action}
    BY <1>2 DEF SoundRoom, RoomRec, Moved
  <2>5. m \in Managers /\ m.heap[o] = moved /\ m.rooms = mgr.rooms
        /\ Puts(mgr, m, o, moved) /\ Puts(m, n, o, c)
    BY <1>2, <2>3, RoomIsNotNone DEF Managers, SoundRoom, Puts
  <2>0. r \in RoomIds /\ r = room.roomId
    BY <1>3
  <2> HIDE DEF moved, m, r, x, c, n
  <2>6. /\ SoundRoom(c) /\ SameSeats(moved, c) /\ c.game = moved.game /\ c.saved = moved.saved
        /\ c.dedupe = moved.dedupe /\ c.stake = moved.stake /\ c.phase \in {"start", "save"}
        /\ x => c.phase = "save"
        /\ c.queue \in {moved.queue, Tail(moved.queue)}
    <3>1. CASE x
      <4>1. c = [moved EXCEPT !.phase = "save"]
        BY <3>1 DEF c, Continued
      <4>2. QED
        BY <1>1, <2>3, <4>1, PhasedSound
    <3>2. CASE ~x
      <4>1. c = Dequeued(moved)
        BY <3>2 DEF c, Continued
      <4>2. SoundRoom(c) /\ SameSeats(moved, c)
        BY <1>1, <2>3, <4>1, DequeuedSound
      <4>3. /\ c.game = moved.game /\ c.saved = moved.saved /\ c.dedupe = moved.dedupe
            /\ c.stake = moved.stake /\ c.phase = "start" /\ c.queue = Tail(moved.queue)
        BY <2>3, <4>1 DEF Dequeued, SoundRoom, RoomRec
      <4>4. QED
        BY <3>2, <4>2, <4>3
    <3>3. QED
      BY <3>1, <3>2
  <2>7. Puts(mgr, n, o, c) /\ n.heap[o] = c
    BY <1>2, <2>5, WriteTwice
  <2>8. /\ SameSeats(room, c) /\ c.roomId = room.roomId /\ room.sockets \subseteq c.sockets
        /\ c.players = moved.players
    BY <2>3, <2>6 DEF SameSeats
  <2>9. /\ SoundMgr(n) /\ n.rooms = mgr.rooms /\ n.index = mgr.index
        /\ \A p \in Objs : p # o => n.heap[p] = mgr.heap[p]
    <3>1. n = [mgr EXCEPT !.heap[o] = c]
      BY <2>7 DEF Puts
    <3>2. LET k == [mgr EXCEPT !.heap[o] = c] IN
           /\ SoundMgr(k) /\ k.heap[o] = c /\ c # None
           /\ k.rooms = mgr.rooms /\ k.index = mgr.index
           /\ \A p \in Objs : p # o => k.heap[p] = mgr.heap[p]
      BY <1>1, <1>2, <2>6, <2>8, Rewritten
    <3>3. QED
      BY <3>1, <3>2
  <2>10. c # None
    BY <2>6, RoomIsNotNone DEF SoundRoom
  <2>11. Follows(mgr, n)
    BY <1>1, <2>7, <2>9, <2>10 DEF Follows
  <2>12. SavesOK(n, saves)
    BY <1>2, <2>11, SavesOn
  <2>13. CanSave(n, r) <=> x
    <3>1. \A p \in Objs : p # o => n.heap[p] = m.heap[p]
      BY <2>5, <2>9 DEF Puts, Managers
    <3>2. /\ n.rooms = m.rooms /\ n.heap[o].saved = m.heap[o].saved
          /\ n.heap[o].game = m.heap[o].game /\ n.heap[o].players = m.heap[o].players
      BY <2>5, <2>6, <2>7, <2>8, <2>9
    <3>3. m \in Managers
      BY <2>5
    <3>4. CanSave(n, r) <=> CanSave(m, r)
      BY <2>0, <3>1, <3>2, <3>3, CanSaveOn
    <3>5. QED
      BY <2>0, <3>4 DEF x
  <2>14. \A i \in SaveIds : saves[i] # None => saves[i].owner # o
    BY <1>1, <1>2, NoneIsNoName DEF SavesOK
  <2>15. SoundMgr(mgr') /\ SavesOK(mgr', saves') /\ Marks(n, mgr')
    <3>1. QED
      BY <2>0, <2>1, <2>6, <2>7, <2>9, <2>10, <2>12, <2>13, <2>14, TrySaveSound
  <2>16. RoomsStep
    <3>1. Follows(mgr, mgr')
      BY <2>11, <2>15, MarksFollows, FollowsOn
    <3>2. Indexed(mgr', socketToRoom')
      BY <1>1, <1>2, <2>9, <2>15 DEF Indexed, Marks
    <3>3. QED
      BY <1>1, <1>2, <2>15, <3>1, <3>2, FollowsStays DEF RoomsStep
  <2>17. /\ \A p \in Objs : p # o /\ mgr.heap[p] # None => OnlySaved(mgr.heap[p], mgr'.heap[p])
         /\ OnlySaved(c, mgr'.heap[o])
    BY <2>7, <2>9, <2>10, <2>15 DEF Marks
  <2>18. \A p \in Objs : mgr.heap[p] # None => SameSeats(mgr.heap[p], mgr'.heap[p])
    BY <2>8, <2>17 DEF OnlySaved, SameSeats
  <2>19. SeatsStep
    <3>1. \A p \in Objs : mgr'.heap[p] # None => mgr.heap[p] # None
      BY <1>1, <2>9, <2>15 DEF Marks
    <3>2. KeepsSeats(mgr, mgr')
      BY <2>18, SameSeatsSame DEF KeepsSeats
    <3>3. AllAbsent(mgr) => AllAbsent(mgr')
      BY <2>18, <3>1, SameSeatsSame DEF AllAbsent
    <3>4. QED
      BY <3>2, <3>3 DEF SeatsStep
  <2>20. OthersStay(o)
    BY <2>9, <2>15, <2>17 DEF Marks, OthersStay, OnlySaved, SameSeats, SameGame
  <2>21. SameStake(room, mgr'.heap[o])
    BY <2>4, <2>6, <2>8, <2>17 DEF OnlySaved, SameSeats, SameStake
  <2>22. MoveTaken(room, mgr'.heap[o], op.action)
    <3>1. edge \in BoardEdges \ room.before.board.taken
      BY <1>3, <1>5 DEF EdgeTaken
    <3>2. /\ mgr'.heap[o].game = [room.before EXCEPT !.board = b]
          /\ mgr'.heap[o].dedupe = room.dedupe \union {op.action}
          /\ mgr'.heap[o].phase \in {"start", "save"}
      BY <2>4, <2>6, <2>17 DEF OnlySaved
    <3>3. QED
      BY <1>5, <3>1, <3>2 DEF MoveTaken
  <2>23. mgr'.heap[o].queue \in {room.queue, Tail(room.queue)}
    BY <2>3, <2>6, <2>17 DEF OnlySaved
  <2>24. QED
    BY <1>1, <1>3, <1>5, <2>16, <2>19, <2>20, <2>21, <2>22, <2>23 DEF MoveStep
<1>6. QED
    BY <1>4, <1>5 DEF FinishMove

-----------------------------------------------------------------------------
(***************************************************************************)
(* Joining a room                                                          *)
(***************************************************************************)
LEMMA EntersKeeps ==
    ASSUME NEW k, NEW m, NEW n, NEW s \in Sockets, NEW r \in RoomIds,
           SoundMgr(m), Shrinks(k, m), m.rooms[r] # None, Enters(m, n, s, r),
           k.index[s] # None => m.heap[m.rooms[r]] = k.heap[m.rooms[r]]
    PROVE  /\ KeepsSeats(k, n) /\ (TickFree /\ AllAbsent(k) => AllAbsent(n))
           /\ \A o \in Objs : k.heap[o] # None => SameGame(k.heap[o], n.heap[o])
<1>1. \A o \in Objs : k.heap[o] # None =>
        /\ m.heap[o] # None /\ n.heap[o] # None
        /\ Thins(k.heap[o], m.heap[o])
        /\ OnlySeats(k.heap[o], m.heap[o]) /\ SameGame(m.heap[o], n.heap[o])
    BY DEF Shrinks, Enters
<1>2. \A o \in Objs : k.heap[o] # None => SameGame(k.heap[o], n.heap[o])
    BY <1>1 DEF OnlySeats, SameGame
<1>3. \A o \in Objs : k.heap[o] # None =>
        \/ SameSeats(m.heap[o], n.heap[o])
        \/ o = m.rooms[r] /\ Thins(m.heap[o], n.heap[o])
        \/ o = m.rooms[r] /\ n.index[s] = r /\ Admits(m.heap[o], n.heap[o], s)
  <2> SUFFICES ASSUME NEW o \in Objs, k.heap[o] # None, ~SameSeats(m.heap[o], n.heap[o])
               PROVE  \/ o = m.rooms[r] /\ Thins(m.heap[o], n.heap[o])
                      \/ o = m.rooms[r] /\ n.index[s] = r /\ Admits(m.heap[o], n.heap[o], s)
    OBVIOUS
  <2>1. o = m.rooms[r]
    BY <1>1 DEF Enters
  <2>2. m.index \in [Sockets -> RoomIds \union {None}]
    BY DEF SoundMgr, Managers
  <2>3. CASE n.index = m.index /\ Thins(m.heap[m.rooms[r]], n.heap[m.rooms[r]])
    BY <2>1, <2>3
  <2>4. CASE /\ n.index[s] = r
             /\ Admits(m.heap[m.rooms[r]], n.heap[m.rooms[r]], s)
    BY <2>1, <2>4
  <2>5. QED
    BY <2>2, <2>3, <2>4 DEF Enters
<1>4. TickFree /\ AllAbsent(k) => AllAbsent(n)
  <2> SUFFICES ASSUME TickFree, AllAbsent(k), NEW o \in Objs, n.heap[o] # None
               PROVE  Absent(n.heap[o])
    BY DEF AllAbsent
  <2>1. k.heap[o] # None
    BY DEF Shrinks, Enters
  <2>2. Absent(m.heap[o])
    BY <1>1, <2>1, ThinsParts DEF AllAbsent, Parts
  <2>3. CASE SameSeats(m.heap[o], n.heap[o])
    BY <2>2, <2>3, SameSeatsSame
  <2>4. CASE Thins(m.heap[o], n.heap[o])
    BY <2>2, <2>4, ThinsParts DEF Parts
  <2>5. CASE Admits(m.heap[o], n.heap[o], s)
    <3>1. PICK c : /\ Thins(m.heap[o], c)
                   /\ TickFree /\ Absent(c) => Absent(n.heap[o])
      BY <2>5 DEF Admits
    <3>2. QED
      BY <2>2, <3>1, ThinsParts DEF Parts
  <2>6. QED
    BY <1>3, <2>1, <2>3, <2>4, <2>5
<1>5. ASSUME NEW o \in Objs, k.heap[o] # None, \E q \in RoomIds : k.rooms[q] = o,
             NEW u \in Users, SlotOf(k.heap[o], u) # None
      PROVE  \/ SlotOf(n.heap[o], u) = SlotOf(k.heap[o], u)
             \/ HasExpired(k.heap[o], u)
             \/ GaveUp(k.heap[o], n.heap[o], u)
             \/ Reenters(k.heap[o], k, n, u)
  <2> DEFINE a == k.heap[o]
             b == m.heap[o]
             c == n.heap[o]
  <2>1. Thins(a, b)
    BY <1>1, <1>5
  <2>2. CASE SameSeats(b, c) \/ Thins(b, c)
    <3>1. Thins(b, c)
      BY <2>2, SameSeatsSame
    <3>2. Thins(a, c)
      BY <2>1, <3>1, ThinsOn
    <3>3. QED
      BY <1>5, <3>2 DEF Thins
  <2>3. CASE o = m.rooms[r] /\ n.index[s] = r /\ Admits(b, c, s)
    <3>1. PICK d : /\ Thins(b, d) /\ d.sockets = b.sockets /\ c.sockets = d.sockets \union {s}
                   /\ \A v \in Users : SlotOf(d, v) # None => SlotOf(c, v) = SlotOf(d, v)
      BY <2>3 DEF Admits
    <3> HIDE DEF a, b, c
    <3>2. Thins(a, d)
      BY <2>1, <3>1, ThinsOn
    <3>3. \/ SlotOf(d, u) = SlotOf(a, u) \/ HasExpired(a, u) \/ GaveUp(a, d, u)
      BY <1>5, <3>2 DEF Thins, a
    <3>4. CASE SlotOf(d, u) = SlotOf(a, u)
      <4>1. SlotOf(c, u) = SlotOf(a, u)
        BY <1>5, <3>1, <3>4 DEF a
      <4>2. QED
        BY <4>1 DEF a, c
    <3>5. CASE HasExpired(a, u)
      BY <3>5 DEF a
    <3>6. CASE GaveUp(a, d, u)
      <4>1. PICK t \in a.sockets \ d.sockets : SocketUser[t] = u
        BY <3>6 DEF GaveUp
      <4>2. CASE t # s
        <5>1. t \in a.sockets \ c.sockets
          BY <3>1, <4>1, <4>2
        <5>2. GaveUp(a, c, u)
          BY <4>1, <5>1 DEF GaveUp
        <5>3. QED
          BY <5>2 DEF a, c
      <4>3. CASE t = s
        <5>1. a # b
          BY <3>1, <4>1
        <5>2. k.index[s] = None
          BY <2>3, <5>1 DEF a, b
        <5>3. n.index[s] # None
          BY <2>3, NoneIsNoName
        <5>4. Reenters(a, k, n, u)
          BY <4>1, <4>3, <5>2, <5>3 DEF Reenters
        <5>5. QED
          BY <5>4 DEF a
      <4>4. QED
        BY <4>2, <4>3
    <3>7. QED
      BY <3>3, <3>4, <3>5, <3>6
  <2>4. QED
    BY <1>3, <1>5, <2>2, <2>3
<1>6. KeepsSeats(k, n)
    BY <1>5 DEF KeepsSeats
<1>7. QED
    BY <1>2, <1>4, <1>6

(* JOIN_ROOM is calm.                                                      *)
LEMMA JoinRoomCalm ==
    ASSUME ServerInv, NEW s \in Sockets, NEW r \in RoomIds, NEW stake \in Stakes,
           JoinRoom(s, r, stake)
    PROVE  CalmStep
<1> DEFINE m == LeaveOtherRoom(s, r)
<1>1. /\ SoundMgr(m) /\ Shrinks(mgr, m) /\ Indexed(m, socketToRoom)
      /\ mgr.index[s] # None /\ mgr.rooms[r] # None =>
             m.heap[mgr.rooms[r]] = mgr.heap[mgr.rooms[r]]
    BY LeftOther
<1>2. \/ m.rooms[r] # None /\ EnterRoom(m, s, r, stake)
      \/ mgr' = m /\ UNCHANGED <<socketToRoom, saves>>
    BY DEF JoinRoom
<1> HIDE DEF m
<1>3. RoomsStep
    BY JoinRoomSound
<1>4. /\ SoundMgr(mgr) /\ SavesOK(mgr, saves)
      /\ socketToRoom \in [Sockets -> RoomIds \union {None}]
    BY DEF ServerInv
<1>5. CASE m.rooms[r] # None /\ EnterRoom(m, s, r, stake)
  <2>1. Follows(mgr, m)
    BY <1>1, ShrinksDeparts, DepartsFollows
  <2>2. SavesOK(m, saves)
    BY <1>4, <2>1, SavesOn
  <2>3. Enters(m, mgr', s, r)
    BY <1>1, <1>4, <1>5, <2>2, EnterSound
  <2>4. m.rooms[r] = mgr.rooms[r]
    BY <1>1, <1>5 DEF Shrinks
  <2>5. mgr.index[s] # None => m.heap[m.rooms[r]] = mgr.heap[m.rooms[r]]
    BY <1>1, <1>5, <2>4
  <2>6. /\ KeepsSeats(mgr, mgr') /\ (TickFree /\ AllAbsent(mgr) => AllAbsent(mgr'))
        /\ \A o \in Objs : mgr.heap[o] # None => SameGame(mgr.heap[o], mgr'.heap[o])
    BY <1>1, <1>4, <1>5, <2>3, <2>5, EntersKeeps
  <2>7. NoNewRoom
    BY <1>1, <2>3 DEF NoNewRoom, Shrinks, Enters
  <2>8. QED
    BY <1>3, <2>6, <2>7 DEF CalmStep, SeatsStep, GamesStay
<1>6. CASE mgr' = m /\ UNCHANGED <<socketToRoom, saves>>
  <2>1. Departs(mgr, mgr')
    BY <1>1, <1>6, ShrinksDeparts
  <2>2. /\ KeepsSeats(mgr, mgr') /\ (AllAbsent(mgr) => AllAbsent(mgr'))
        /\ \A o \in Objs : mgr.heap[o] # None => SameGame(mgr.heap[o], mgr'.heap[o])
    BY <2>1, DepartsKeeps
  <2>3. NoNewRoom
    BY <2>1 DEF NoNewRoom, Departs
  <2>4. QED
    BY <1>3, <2>2, <2>3 DEF CalmStep, SeatsStep, GamesStay
<1>7. QED
    BY <1>2, <1>5, <1>6

(* Reservations stay reservations of absent users when a room is thinned   *)
(* or admits a socket.                                                     *)
LEMMA AbsentOn ==
    ASSUME NEW a, NEW b, NEW s, TickFree, Absent(a), Thins(a, b) \/ Admits(a, b, s)
    PROVE  Absent(b)
<1>1. CASE Thins(a, b)
    BY <1>1, ThinsParts DEF Parts
<1>2. CASE Admits(a, b, s)
  <2>1. PICK c : Thins(a, c) /\ (TickFree /\ Absent(c) => Absent(b))
    BY <1>2 DEF Admits
  <2>2. QED
    BY <2>1, ThinsParts DEF Parts
<1>3. QED
    BY <1>1, <1>2

(* A room object for a new room                                            *)
OpenStep(o) ==
    /\ OthersStay(o)
    /\ mgr'.heap[o] # None /\ mgr'.heap[o].phase = "start" /\ mgr'.heap[o].queue = <<>>
    /\ mgr'.heap[o].game = NewGame(games + 1)
    /\ applied' = [applied EXCEPT ![o] = [a \in Actions |-> 0]] /\ games' = games + 1

(* JOIN_ROOM that waited for the chain and the rule core is calm, or opens *)
(* a room.                                                                 *)
LEMMA JoinResumesStep ==
    ASSUME ServerInv, NEW j \in joins, JoinResumes(j)
    PROVE  /\ RoomsStep /\ SeatsStep
           /\ \/ GamesStay /\ UNCHANGED history
              \/ \E o \in FreeObjs : OpenStep(o)
<1>1. j.socket \in Sockets /\ j.room \in RoomIds /\ j.stake \in Stakes
    BY DEF ServerInv
<1>2. /\ SoundMgr(mgr) /\ Indexed(mgr, socketToRoom) /\ SavesOK(mgr, saves) /\ games \in Nat
      /\ socketToRoom \in [Sockets -> RoomIds \union {None}]
    BY DEF ServerInv
<1>3. CASE Exists(j.room) /\ EnterRoom(mgr, j.socket, j.room, j.stake) /\ UNCHANGED history
  <2>1. /\ SoundMgr(mgr') /\ SavesOK(mgr', saves') /\ Enters(mgr, mgr', j.socket, j.room)
        /\ socketToRoom' \in [Sockets -> RoomIds \union {None}]
        /\ Indexed(mgr', socketToRoom')
    BY <1>1, <1>2, <1>3, EnterSound DEF Exists
  <2>2. RoomsStep
    BY <2>1, EntersFollows, FollowsStays DEF RoomsStep
  <2>3. /\ KeepsSeats(mgr, mgr') /\ (TickFree /\ AllAbsent(mgr) => AllAbsent(mgr'))
        /\ \A o \in Objs : mgr.heap[o] # None => SameGame(mgr.heap[o], mgr'.heap[o])
    BY <1>1, <1>2, <1>3, <2>1, ShrinksOneself, EntersKeeps DEF Exists
  <2>4. NoNewRoom
    BY <2>1 DEF NoNewRoom, Enters
  <2>5. QED
    BY <1>3, <2>2, <2>3, <2>4 DEF SeatsStep, GamesStay
<1>4. ASSUME ~Exists(j.room), NEW o \in FreeObjs,
             EnterRoom([mgr EXCEPT
                        !.heap[o] = NewRoom(j.room, NewGame(games + 1),
                                            IF j.stake = None THEN 0 ELSE j.stake),
                        !.rooms[j.room] = o], j.socket, j.room, j.stake),
             applied' = [applied EXCEPT ![o] = [a \in Actions |-> 0]],
             games' = games + 1
      PROVE  RoomsStep /\ SeatsStep /\ OpenStep(o)
  <2> DEFINE stake == IF j.stake = None THEN 0 ELSE j.stake
             b == NewRoom(j.room, NewGame(games + 1), stake)
             n == [mgr EXCEPT !.heap[o] = b, !.rooms[j.room] = o]
             s == j.socket
             r == j.room
  <2>1. stake \in Nat
    BY <1>1, ServerAssumption
  <2>2. NewGame(games + 1) \in GameOf
    BY <1>2, NewGameTyped
  <2>3. EnterRoom(n, s, r, j.stake) /\ s \in Sockets
    BY <1>1, <1>4
  <2> HIDE DEF stake, s
  <2>4. SoundRoom(b) /\ b.roomId = j.room
    BY <1>1, <2>1, <2>2, NewRoomSound
  <2>5. Absent(b) /\ b.phase = "start" /\ b.queue = <<>> /\ b.game = NewGame(games + 1)
    BY DEF NewRoom, Absent
  <2> HIDE DEF b
  <2>6. Vacant(mgr, o) /\ o \in Objs
    BY FreeObj DEF Vacant
  <2>7. mgr.rooms[r] = None /\ r \in RoomIds /\ b.roomId = r /\ Opens(mgr, n, r, o, b)
    BY <1>1, <1>4, <2>4 DEF Exists, Opens
  <2> HIDE DEF n, r
  <2>8. /\ SoundMgr(n) /\ SavesOK(n, saves) /\ Stays(mgr, n)
        /\ n.rooms[r] = o /\ n.index = mgr.index
        /\ \A p \in Objs : p # o => n.heap[p] = mgr.heap[p]
    BY <1>2, <2>4, <2>6, <2>7, NewRoomPut
  <2>9. n.heap[o] = b /\ b # None
    <3>1. n.heap[o] = b
      BY <1>2, <2>6, <2>7 DEF Opens, SoundMgr, Managers
    <3>2. QED
      BY <2>4, <3>1, RoomIsNotNone DEF SoundRoom
  <2>10. n.rooms[r] # None /\ Indexed(n, socketToRoom)
    BY <1>2, <2>6, <2>8, NoneIsNoName DEF Indexed
  <2>11. /\ SoundMgr(mgr') /\ SavesOK(mgr', saves') /\ Enters(n, mgr', s, r)
         /\ socketToRoom' \in [Sockets -> RoomIds \union {None}]
         /\ Indexed(mgr', socketToRoom')
    BY <1>2, <2>3, <2>7, <2>8, <2>10, EnterSound
  <2>12. Stays(mgr, mgr')
    BY <2>8, <2>11 DEF Stays, Enters
  <2>13. RoomsStep
    BY <2>11, <2>12 DEF RoomsStep
  <2>14. \A p \in Objs : p # o /\ mgr.heap[p] # None =>
            SameSeats(mgr.heap[p], mgr'.heap[p]) /\ SameGame(mgr.heap[p], mgr'.heap[p])
    BY <2>8, <2>11 DEF Enters
  <2>15. \A p \in Objs : p # o /\ mgr'.heap[p] # None => mgr.heap[p] # None
    BY <2>8, <2>11 DEF Enters
  <2>16. /\ mgr'.heap[o] # None /\ SameGame(b, mgr'.heap[o])
         /\ Thins(b, mgr'.heap[o]) \/ Admits(b, mgr'.heap[o], s)
    BY <2>6, <2>8, <2>9, <2>11 DEF Enters
  <2>17. KeepsSeats(mgr, mgr')
    BY <2>6, <2>14, SameSeatsSame DEF KeepsSeats, Vacant
  <2>18. TickFree /\ AllAbsent(mgr) => AllAbsent(mgr')
    <3> SUFFICES ASSUME TickFree, AllAbsent(mgr), NEW p \in Objs, mgr'.heap[p] # None
                 PROVE  Absent(mgr'.heap[p])
      BY DEF AllAbsent
    <3>1. CASE p = o
      BY <2>5, <2>16, <3>1, AbsentOn
    <3>2. CASE p # o
      BY <2>14, <2>15, <3>2, SameSeatsSame DEF AllAbsent
    <3>3. QED
      BY <3>1, <3>2
  <2>19. OpenStep(o)
    BY <1>4, <2>5, <2>14, <2>15, <2>16 DEF OpenStep, OthersStay, SameGame
  <2>20. QED
    BY <2>13, <2>17, <2>18, <2>19 DEF SeatsStep
<1>5. QED
    BY <1>3, <1>4 DEF JoinResumes

-----------------------------------------------------------------------------
(***************************************************************************)
(* The end of a save                                                       *)
(***************************************************************************)
(* The chain of the room that waited for a save goes on.                   *)
ReleaseStep(o) ==
    /\ RoomsStep /\ SeatsStep /\ OthersStay(o)
    /\ mgr.heap[o] # None /\ mgr'.heap[o] # None /\ SameStake(mgr.heap[o], mgr'.heap[o])
    /\ mgr'.heap[o].game = mgr.heap[o].game /\ mgr'.heap[o].dedupe = mgr.heap[o].dedupe
    /\ mgr'.heap[o].phase = "start" /\ mgr.heap[o].queue # <<>>
    /\ mgr'.heap[o].queue = Tail(mgr.heap[o].queue)

(* Only p stops waiting.                                                   *)
Frees(m, n, p) ==
    \A o \in Objs : m.heap[o] # None =>
        /\ n.heap[o] # None
        /\ o # p /\ m.heap[o].phase = "save" => n.heap[o].phase = "save"

Ends(flying, less, i) == less = [flying EXCEPT ![i] = None]

(* Ending a save, with its owner freed, leaves the others in order.        *)
LEMMA SavesLess ==
    ASSUME NEW m, NEW n, NEW flying, SavesOK(m, flying), NEW i \in SaveIds, flying[i] # None,
           NEW less, Ends(flying, less, i), Frees(m, n, flying[i].owner)
    PROVE  SavesOK(n, less)
<1>1. /\ less \in [SaveIds -> SaveInFlight \union {None}] /\ less[i] = None
      /\ \A j \in SaveIds : less[j] # None => less[j] = flying[j] /\ j # i
    BY DEF SavesOK, Ends
<1>2. \A j \in SaveIds : flying[j] # None =>
        flying[j].obj \in Objs /\ flying[j].owner \in Objs \union {None}
    BY DEF SavesOK, SaveInFlight
<1>3. \A j \in SaveIds : less[j] # None => n.heap[less[j].obj] # None
    BY <1>1, <1>2 DEF SavesOK, Frees
<1>4. ASSUME NEW j \in SaveIds, less[j] # None, less[j].owner # None
      PROVE  /\ n.heap[less[j].owner] # None
             /\ n.heap[less[j].owner].phase = "save"
             /\ \A k \in SaveIds :
                   less[k] # None /\ less[k].owner = less[j].owner => j = k
  <2>1. less[j] = flying[j] /\ j # i
    BY <1>1, <1>4
  <2>2. /\ m.heap[flying[j].owner] # None /\ m.heap[flying[j].owner].phase = "save"
        /\ \A k \in SaveIds :
              flying[k] # None /\ flying[k].owner = flying[j].owner => j = k
    BY <1>4, <2>1 DEF SavesOK
  <2>3. flying[j].owner # flying[i].owner
    BY <2>1, <2>2
  <2>4. flying[j].owner \in Objs
    BY <1>2, <1>4, <2>1
  <2>5. QED
    BY <1>1, <2>1, <2>2, <2>3, <2>4 DEF Frees
<1>5. QED
    BY <1>1, <1>3, <1>4 DEF SavesOK

(* The end of a save releases the chain that waited for it.                *)
LEMMA Released ==
    ASSUME ServerInv, NEW i \in SaveIds, saves[i] # None,
           NEW m, SoundMgr(m), Marks(mgr, m), mgr' = Release(m, saves[i]),
           Ends(saves, saves', i), socketToRoom' = socketToRoom
    PROVE  /\ RoomsStep /\ SeatsStep
           /\ GamesStay \/ \E o \in Objs : ReleaseStep(o)
<1> DEFINE o == saves[i].owner
<1>1. /\ SoundMgr(mgr) /\ SavesOK(mgr, saves) /\ Indexed(mgr, socketToRoom)
      /\ socketToRoom \in [Sockets -> RoomIds \union {None}]
    BY DEF ServerInv
<1>2. \A p \in Objs : mgr.heap[p] # None =>
        /\ m.heap[p] # None /\ OnlySaved(mgr.heap[p], m.heap[p])
        /\ m.heap[p].phase = mgr.heap[p].phase
    BY DEF Marks, OnlySaved
<1>3. CASE o = None
  <2>1. mgr' = m
    BY <1>3 DEF Release
  <2>2. SavesOK(mgr', saves')
    <3>1. Frees(mgr, mgr', o)
      BY <1>2, <2>1 DEF Frees
    <3>2. QED
      BY <1>1, <3>1, SavesLess
  <2>3. Stays(mgr, mgr') /\ Indexed(mgr', socketToRoom')
    BY <1>1, <1>2, <2>1 DEF Stays, Indexed, Marks
  <2>4. RoomsStep
    BY <1>1, <2>1, <2>2, <2>3 DEF RoomsStep
  <2>5. /\ KeepsSeats(mgr, m) /\ (AllAbsent(mgr) => AllAbsent(m))
        /\ \A p \in Objs : mgr.heap[p] # None => SameGame(mgr.heap[p], m.heap[p])
    BY MarksKeeps
  <2>6. NoNewRoom
    BY <2>1 DEF NoNewRoom, Marks
  <2>7. QED
    BY <2>1, <2>4, <2>5, <2>6 DEF SeatsStep, GamesStay
<1>4. CASE o # None
  <2> DEFINE b == m.heap[o]
             c == Dequeued(b)
  <2>1. o \in Objs /\ mgr.heap[o] # None /\ mgr.heap[o].phase = "save"
    BY <1>1, <1>4 DEF SavesOK, SaveInFlight
  <2>2. b # None /\ SoundRoom(b) /\ b.phase = "save" /\ b.queue # <<>>
    <3>1. b # None /\ SoundRoom(b) /\ b.phase = "save"
      BY <1>2, <2>1 DEF SoundMgr
    <3>2. QED
      BY <3>1 DEF SoundRoom
  <2>3. Puts(m, mgr', o, c)
    BY <1>4 DEF Release, Puts
  <2>4. SoundRoom(c) /\ SameSeats(b, c) /\ c.stake = b.stake /\ c.game = b.game
        /\ c.phase = "start" /\ c.dedupe = b.dedupe /\ c.queue = Tail(b.queue)
    BY <2>2, DequeuedSound DEF SoundRoom, RoomRec, Dequeued
  <2> HIDE DEF c
  <2>5. /\ SoundMgr(mgr') /\ mgr'.heap[o] = c /\ c # None
        /\ mgr'.rooms = m.rooms /\ mgr'.index = m.index
        /\ \A p \in Objs : p # o => mgr'.heap[p] = m.heap[p]
    <3>1. c.roomId = b.roomId /\ b.sockets \subseteq c.sockets
      BY <2>4 DEF SameSeats
    <3>2. LET k == [m EXCEPT !.heap[o] = c] IN
           /\ SoundMgr(k) /\ k.heap[o] = c /\ c # None
           /\ k.rooms = m.rooms /\ k.index = m.index
           /\ \A p \in Objs : p # o => k.heap[p] = m.heap[p]
      BY <2>1, <2>2, <2>4, <3>1, Rewritten
    <3>3. QED
      BY <2>3, <3>2 DEF Puts
  <2> HIDE DEF b
  <2>6. \A p \in Objs : mgr.heap[p] # None =>
           /\ mgr'.heap[p] # None
           /\ p # o /\ mgr.heap[p].phase = "save" => mgr'.heap[p].phase = "save"
    BY <1>2, <2>5
  <2>7. SavesOK(mgr', saves')
    <3>1. Frees(mgr, mgr', o)
      BY <2>6 DEF Frees
    <3>2. QED
      BY <1>1, <3>1, SavesLess
  <2>8. Stays(mgr, mgr') /\ Indexed(mgr', socketToRoom')
    BY <1>1, <2>5, <2>6 DEF Stays, Indexed, Marks
  <2>9. RoomsStep
    BY <1>1, <2>5, <2>7, <2>8 DEF RoomsStep
  <2>10. NoNewRoom
    BY <2>1, <2>5 DEF NoNewRoom, Marks
  <2>11. OnlySaved(mgr.heap[o], b)
    BY <1>2, <2>1 DEF b
  <2>12. \A p \in Objs : mgr.heap[p] # None => SameSeats(mgr.heap[p], mgr'.heap[p])
    BY <1>2, <2>4, <2>5, <2>11 DEF OnlySaved, SameSeats
  <2>13. SeatsStep
    <3>1. KeepsSeats(mgr, mgr')
      BY <2>12, SameSeatsSame DEF KeepsSeats
    <3>2. AllAbsent(mgr) => AllAbsent(mgr')
      BY <2>10, <2>12, SameSeatsSame DEF AllAbsent, NoNewRoom
    <3>3. QED
      BY <3>1, <3>2 DEF SeatsStep
  <2>14. OthersStay(o)
    BY <1>2, <2>5, <2>10 DEF OthersStay, OnlySaved, SameSeats, SameGame, NoNewRoom
  <2>15. /\ SameStake(mgr.heap[o], c) /\ c.game = mgr.heap[o].game
         /\ c.dedupe = mgr.heap[o].dedupe /\ mgr.heap[o].queue # <<>>
         /\ c.queue = Tail(mgr.heap[o].queue)
    BY <2>2, <2>4, <2>11 DEF OnlySaved, SameSeats, SameStake
  <2>16. ReleaseStep(o)
    BY <2>1, <2>4, <2>5, <2>9, <2>13, <2>14, <2>15 DEF ReleaseStep
  <2>17. QED
    BY <2>1, <2>9, <2>13, <2>16
<1>5. QED
    BY <1>3, <1>4

(* A save that fails releases its chain.                                   *)
LEMMA FailedStep ==
    ASSUME ServerInv, NEW i \in SaveIds, saves[i] # None, FailSave(i),
           socketToRoom' = socketToRoom
    PROVE  /\ RoomsStep /\ SeatsStep
           /\ GamesStay \/ \E o \in Objs : ReleaseStep(o)
<1> SUFFICES ASSUME NEW x \in BOOLEAN,
                    mgr' = Release([mgr EXCEPT !.heap[saves[i].obj].saved = x], saves[i])
             PROVE  /\ RoomsStep /\ SeatsStep
                    /\ GamesStay \/ \E o \in Objs : ReleaseStep(o)
    BY DEF FailSave
<1> DEFINE o == saves[i].obj
           m == [mgr EXCEPT !.heap[o].saved = x]
<1>1. /\ SoundMgr(mgr) /\ o \in Objs /\ mgr.heap[o] # None
    BY DEF ServerInv, SavesOK, SaveInFlight
<1>2. SoundMgr(m) /\ Marks(mgr, m)
    BY <1>1, MarkSound
<1>3. Ends(saves, saves', i) /\ mgr' = Release(m, saves[i])
    BY DEF FailSave, Ends
<1> HIDE DEF m
<1>4. QED
    BY <1>2, <1>3, Released

(* An answer of the chain advances the save, or ends it and releases its   *)
(* chain.                                                                  *)
LEMMA AnsweredStep ==
    ASSUME ServerInv, NEW i \in SaveIds, saves[i] # None, NEW submitted \in BOOLEAN,
           ChainAnswered(i, submitted), socketToRoom' = socketToRoom
    PROVE  /\ RoomsStep /\ SeatsStep
           /\ GamesStay \/ \E o \in Objs : ReleaseStep(o)
<1>1. CASE FailSave(i)
    BY <1>1, FailedStep
<1>2. CASE /\ saves' = [saves EXCEPT ![i].stage = "db", ![i].paid = submitted,
                           ![i].winner = Winner(mgr.heap[saves[i].obj].game.board.score),
                           ![i].read = mgr.heap[saves[i].obj].game.id]
           /\ mgr' = mgr
  <2> DEFINE w == Winner(mgr.heap[saves[i].obj].game.board.score)
             n == mgr.heap[saves[i].obj].game.id
             save == [saves[i] EXCEPT !.stage = "db", !.paid = submitted, !.winner = w,
                                      !.read = n]
  <2>1. SavesOK(mgr, saves) /\ saves \in [SaveIds -> SaveInFlight \union {None}]
        /\ saves[i] \in SaveInFlight
    BY DEF ServerInv, SavesOK
  <2>2. w \in {"X", "O", "DRAW", None} /\ n \in Nat
    <3>1. mgr.heap[saves[i].obj] \in RoomRec
      BY <2>1 DEF SavesOK, SaveInFlight, ServerInv, SoundMgr, SoundRoom
    <3>2. QED
      BY <3>1 DEF Winner, RoomRec, GameOf
  <2> HIDE DEF w, n
  <2>3. save \in SaveInFlight /\ save.obj = saves[i].obj /\ save.owner = saves[i].owner
    BY <2>1, <2>2 DEF SaveInFlight
  <2>4. saves' = [saves EXCEPT ![i] = save]
    BY <1>2, <2>1 DEF w, n
  <2> HIDE DEF save
  <2>5. /\ saves' \in [SaveIds -> SaveInFlight \union {None}] /\ saves'[i] = save
        /\ \A j \in SaveIds : j # i => saves'[j] = saves[j]
    BY <2>1, <2>3, <2>4
  <2>6. ASSUME NEW j \in SaveIds, saves'[j] # None
        PROVE  /\ saves[j] # None
               /\ saves'[j].obj = saves[j].obj /\ saves'[j].owner = saves[j].owner
    <3>1. CASE j = i
      BY <2>3, <2>5, <3>1
    <3>2. CASE j # i
      BY <2>5, <2>6, <3>2
    <3>3. QED
      BY <3>1, <3>2
  <2>7. SavesOK(mgr', saves')
    <3>1. \A j \in SaveIds : saves'[j] # None => mgr'.heap[saves'[j].obj] # None
      <4>1. mgr' = mgr
        BY <1>2
      <4>2. \A j \in SaveIds : saves[j] # None => mgr.heap[saves[j].obj] # None
        BY <2>1 DEF SavesOK
      <4>3. QED
        BY <2>6, <4>1, <4>2
    <3>2. ASSUME NEW j \in SaveIds, saves'[j] # None, saves'[j].owner # None
          PROVE  /\ mgr'.heap[saves'[j].owner] # None
                 /\ mgr'.heap[saves'[j].owner].phase = "save"
                 /\ \A k \in SaveIds :
                       saves'[k] # None /\ saves'[k].owner = saves'[j].owner => j = k
      <4>1. saves[j] # None /\ saves'[j].owner = saves[j].owner /\ saves[j].owner # None
        BY <2>6, <3>2
      <4>2. /\ mgr.heap[saves[j].owner] # None /\ mgr.heap[saves[j].owner].phase = "save"
            /\ \A k \in SaveIds :
                  saves[k] # None /\ saves[k].owner = saves[j].owner => j = k
        BY <2>1, <4>1 DEF SavesOK
      <4>3. QED
        BY <1>2, <2>6, <4>1, <4>2
    <3>3. QED
      BY <2>5, <3>1, <3>2 DEF SavesOK
  <2>8. RoomsStep
    BY <1>2, <2>7 DEF RoomsStep, ServerInv, Stays
  <2>9. SeatsStep
    BY <1>2 DEF SeatsStep, KeepsSeats, AllAbsent
  <2>10. GamesStay
    BY <1>2 DEF GamesStay, NoNewRoom, SameGame
  <2>11. QED
    BY <2>8, <2>9, <2>10
<1>3. QED
    BY <1>1, <1>2 DEF ChainAnswered

(* Submitting a result keeps everything in agreement and releases at most  *)
(* one chain.                                                              *)
LEMMA SubmitStep ==
    ASSUME ServerInv, NEW i \in SaveIds, SubmitResult(i)
    PROVE  /\ RoomsStep /\ SeatsStep
           /\ GamesStay \/ \E o \in Objs : ReleaseStep(o)
<1>1. saves[i] # None /\ socketToRoom' = socketToRoom
    BY DEF SubmitResult
<1>2. \E submitted \in BOOLEAN : ChainAnswered(i, submitted)
    BY DEF SubmitResult, NotSubmitted, Submitted, SubmittedLate
<1>3. QED
    BY <1>1, <1>2, AnsweredStep

(* So does writing a result to the database.                               *)
LEMMA SaveStep ==
    ASSUME ServerInv, NEW i \in SaveIds, SaveResult(i)
    PROVE  /\ RoomsStep /\ SeatsStep
           /\ GamesStay \/ \E o \in Objs : ReleaseStep(o)
<1>1. saves[i] # None /\ socketToRoom' = socketToRoom
    BY DEF SaveResult, Saved, SavedUnawares, NotSaved, Storing
<1>2. CASE Saved(i)
  <2>1. SoundMgr(mgr) /\ Marks(mgr, mgr) /\ Ends(saves, saves', i) /\ mgr' = Release(mgr, saves[i])
    BY <1>2, MarksOneself DEF ServerInv, Saved, Ends
  <2>2. QED
    BY <1>1, <2>1, Released
<1>3. CASE FailSave(i)
    BY <1>1, <1>3, FailedStep
<1>4. QED
    BY <1>2, <1>3 DEF SaveResult, SavedUnawares, NotSaved

-----------------------------------------------------------------------------
(***************************************************************************)
(* Every step                                                              *)
(***************************************************************************)
Forgets(o) ==
    /\ "forget" \in Requests /\ UNCHANGED history
    /\ \E a \in Actions : WrittenStep(o, [mgr.heap[o] EXCEPT !.dedupe = @ \ {a}])

(* No handler is about to resume, but those of a batch of packets.         *)
Quiet == \E s \in Sockets : Busy \subseteq IF Batched THEN {s} ELSE {}

Queues(o) ==
    /\ Quiet /\ UNCHANGED history
    /\ \E op \in QueuedOp :
          /\ op.kind = "reset" => "reset" \in Requests /\ MayStartGame
          /\ WrittenStep(o, [mgr.heap[o] EXCEPT !.queue = Append(@, op)])

Begins(o) ==
    LET room == mgr.heap[o] IN
    /\ UNCHANGED history
    /\ room.queue # <<>> /\ room.phase = "start"
    /\ \/ /\ MayRun(room, Head(room.queue))
          /\ WrittenStep(o, [room EXCEPT !.phase = "core", !.before = room.game])
       \/ WrittenStep(o, Dequeued(room))

StartsOver(o) ==
    /\ games' = games + 1 /\ applied' = applied
    /\ mgr.heap[o].queue # <<>> /\ mgr.heap[o].phase = "core"
    /\ Head(mgr.heap[o].queue).kind = "reset"
    /\ \E b : /\ WrittenStep(o, b) /\ b.game = NewGame(games + 1)
              /\ b.phase = "start" /\ b.dedupe = mgr.heap[o].dedupe
              /\ b.queue = Tail(mgr.heap[o].queue)

Rematches(o) ==
    /\ games' = games + 1 /\ applied' = applied
    /\ \E x \in resets : x.obj = o
    /\ \E b : /\ WrittenStep(o, b) /\ b.game = NewGame(games + 1)
              /\ b.phase = mgr.heap[o].phase /\ b.queue = mgr.heap[o].queue
              /\ b.before = mgr.heap[o].before

GameStep ==
    \/ GamesStay /\ UNCHANGED history
    \/ \E o \in Objs :
          \/ ReleaseStep(o) /\ EventLoopIdle /\ UNCHANGED history
          \/ Forgets(o)
          \/ Queues(o)
          \/ Begins(o)
          \/ StartsOver(o)
          \/ MoveStep(o) /\ games' = games
          \/ Rematches(o)
          \/ o \in FreeObjs /\ OpenStep(o)

ServerStep == RoomsStep /\ SeatsStep /\ GameStep

(* A calm step is a step of the server.                                    *)
LEMMA CalmServer ==
    ASSUME CalmStep, UNCHANGED history PROVE ServerStep
BY DEF CalmStep, ServerStep, GameStep

(* Every packet is a step of the server.                                   *)
LEMMA PacketSteps ==
    ASSUME ServerInv, NEW s \in Sockets, NEW r \in RoomIds, Packet(s, r)
    PROVE  ServerStep
<1>1. CASE \E stake \in Stakes : JoinRoom(s, r, stake)
  <2>1. UNCHANGED history
    BY <1>1 DEF JoinRoom
  <2>2. CalmStep
    BY <1>1, JoinRoomCalm
  <2>3. QED
    BY <2>1, <2>2, CalmServer
<1>2. ASSUME NEW kind, NEW action, Receives(s, "move") \/ Receives(s, "reset"),
             kind = "reset" => "reset" \in Requests /\ MayStartGame,
             [kind |-> kind, socket |-> s, action |-> action] \in QueuedOp,
             Enqueue(s, r, kind, action)
      PROVE  ServerStep
  <2> DEFINE op == [kind |-> kind, socket |-> s, action |-> action]
             o == mgr.rooms[r]
  <2>1. op \in QueuedOp /\ (op.kind = "reset" => "reset" \in Requests /\ MayStartGame)
    BY <1>2
  <2>2. /\ o \in Objs
        /\ WrittenStep(o, [mgr.heap[o] EXCEPT !.queue = Append(@, op)])
    BY <1>2, <2>1, EnqueueStep
  <2>3. Quiet /\ UNCHANGED history
    BY <1>2 DEF Receives, Quiet, Enqueue
  <2> HIDE DEF op, o
  <2>4. Queues(o)
    BY <2>1, <2>2, <2>3 DEF Queues
  <2>5. RoomsStep /\ SeatsStep
    BY <2>2 DEF WrittenStep
  <2>6. QED
    BY <2>2, <2>4, <2>5 DEF ServerStep, GameStep
<1>3. CASE \E a \in Actions : MakeMove(s, r, a)
  <2>1. PICK a \in Actions : Receives(s, "move") /\ Enqueue(s, r, "move", a)
    BY <1>3 DEF MakeMove
  <2>2. [kind |-> "move", socket |-> s, action |-> a] \in QueuedOp
    BY DEF QueuedOp
  <2>3. QED
    BY <1>2, <2>1, <2>2
<1>4. CASE ResetGame(s, r)
  <2>1. Receives(s, "reset") /\ MayStartGame /\ Enqueue(s, r, "reset", None)
    BY <1>4 DEF ResetGame
  <2>2. [kind |-> "reset", socket |-> s, action |-> None] \in QueuedOp
    BY DEF QueuedOp
  <2>3. "reset" \in Requests /\ MayStartGame
    BY <2>1 DEF Receives
  <2>4. QED
    BY <1>2, <2>1, <2>2, <2>3
<1>5. CASE SyncState(s, r)
  <2>1. UNCHANGED history
    BY <1>5 DEF SyncState
  <2>2. QED
    BY <1>5, <2>1, SyncCalm, CalmServer
<1>6. CASE RematchRequest(s, r)
  <2>1. UNCHANGED history
    BY <1>6 DEF RematchRequest
  <2>2. QED
    BY <1>6, <2>1, RematchRequestCalm, CalmServer
<1>7. CASE RematchAccept(s, r)
  <2>1. UNCHANGED history /\ mgr' = mgr /\ saves' = saves /\ socketToRoom' = socketToRoom
    BY <1>7 DEF RematchAccept
  <2>2. QED
    BY <2>1, CalmUnchanged, CalmServer
<1>8. CASE RematchDecline(s, r)
  <2>1. UNCHANGED history
    BY <1>8 DEF RematchDecline
  <2>2. QED
    BY <1>8, <2>1, RematchDeclineCalm, CalmServer
<1>9. QED
    BY <1>1, <1>3, <1>4, <1>5, <1>6, <1>7, <1>8 DEF Packet

(* Every continuation of a handler is a step of the server.                *)
LEMMA ResumptionSteps ==
    ASSUME ServerInv, Resumption
    PROVE  ServerStep
<1>1. CASE \E j \in joins : JoinResumes(j)
  <2>1. /\ RoomsStep /\ SeatsStep
        /\ \/ GamesStay /\ UNCHANGED history
           \/ \E o \in FreeObjs : OpenStep(o)
    BY <1>1, JoinResumesStep
  <2>2. FreeObjs \subseteq Objs
    BY DEF FreeObjs
  <2>3. QED
    BY <2>1, <2>2 DEF ServerStep, GameStep
<1>2. CASE \E x \in resets : RematchResumes(x)
  <2>1. PICK x \in resets : RematchResumes(x)
    BY <1>2
  <2>2. games' = games + 1 /\ applied' = applied
    BY <2>1 DEF RematchResumes
  <2>3. /\ x.obj \in Objs
        /\ \E b : /\ WrittenStep(x.obj, b) /\ b.game = NewGame(games + 1)
                  /\ b.phase = mgr.heap[x.obj].phase /\ b.queue = mgr.heap[x.obj].queue
                  /\ b.before = mgr.heap[x.obj].before
    BY <2>1, RematchStep
  <2>4. Rematches(x.obj)
    BY <2>2, <2>3 DEF Rematches
  <2>5. RoomsStep /\ SeatsStep
    BY <2>3 DEF WrittenStep
  <2>6. QED
    BY <2>3, <2>4, <2>5 DEF ServerStep, GameStep
<1>3. ASSUME NEW o \in Objs, StartOp(o) PROVE ServerStep
  <2>1. UNCHANGED history
    BY <1>3 DEF StartOp
  <2>2. LET room == mgr.heap[o] IN
           /\ room.queue # <<>> /\ room.phase = "start"
           /\ \/ /\ MayRun(room, Head(room.queue))
                 /\ WrittenStep(o, [room EXCEPT !.phase = "core", !.before = room.game])
              \/ WrittenStep(o, Dequeued(room))
    BY <1>3, StartStep
  <2>3. Begins(o) /\ RoomsStep /\ SeatsStep
    BY <2>1, <2>2 DEF Begins, WrittenStep
  <2>4. QED
    BY <2>3 DEF ServerStep, GameStep
<1>4. ASSUME NEW o \in Objs, FinishMove(o) PROVE ServerStep
  <2>1. games' = games
    BY <1>4 DEF FinishMove
  <2>2. MoveStep(o)
    BY <1>4, MovedStep
  <2>3. RoomsStep /\ SeatsStep
    BY <2>2 DEF MoveStep
  <2>4. QED
    BY <2>1, <2>2, <2>3 DEF ServerStep, GameStep
<1>5. ASSUME NEW o \in Objs, FinishReset(o) PROVE ServerStep
  <2>1. /\ games' = games + 1 /\ applied' = applied
        /\ mgr.heap[o].queue # <<>> /\ mgr.heap[o].phase = "core"
        /\ Head(mgr.heap[o].queue).kind = "reset"
    BY <1>5 DEF FinishReset
  <2>2. \E b : /\ WrittenStep(o, b) /\ b.game = NewGame(games + 1)
               /\ b.phase = "start" /\ b.dedupe = mgr.heap[o].dedupe
               /\ b.queue = Tail(mgr.heap[o].queue)
    BY <1>5, ResetStep
  <2>3. StartsOver(o) /\ RoomsStep /\ SeatsStep
    BY <2>1, <2>2 DEF StartsOver, WrittenStep
  <2>4. QED
    BY <2>3 DEF ServerStep, GameStep
<1>6. QED
    BY <1>1, <1>2, <1>3, <1>4, <1>5 DEF Resumption

(* Every step of the settlement is a step of the server.                   *)
LEMMA SettlingSteps ==
    ASSUME ServerInv, NEW i \in SaveIds, SubmitResult(i) \/ SaveResult(i)
    PROVE  ServerStep
<1>1. EventLoopIdle /\ UNCHANGED history
    BY DEF SubmitResult, SaveResult, Saved, SavedUnawares, NotSaved, Storing
<1>2. /\ RoomsStep /\ SeatsStep
      /\ GamesStay \/ \E o \in Objs : ReleaseStep(o)
    BY SubmitStep, SaveStep
<1>3. QED
    BY <1>1, <1>2 DEF ServerStep, GameStep

(* Every step of the specification is a step of the server: the frames of  *)
(* all later proofs.                                                       *)
LEMMA Steps ==
    ASSUME ServerInv, [Next]_vars
    PROVE  ServerStep
<1>1. ASSUME UNCHANGED history, mgr' = mgr, saves' = saves, socketToRoom' = socketToRoom
      PROVE  ServerStep
    BY <1>1, CalmUnchanged, CalmServer
<1>2. ASSUME NEW s \in Sockets, Connect(s) \/ Disconnect(s) PROVE ServerStep
  <2>1. CASE Connect(s)
    BY <1>1, <2>1 DEF Connect
  <2>2. CASE Disconnect(s)
    <3>1. UNCHANGED history
      BY <2>2 DEF Disconnect
    <3>2. QED
      BY <2>2, <3>1, DisconnectCalm, CalmServer
  <2>3. QED
    BY <1>2, <2>1, <2>2
<1>3. CASE \E s \in Sockets, r \in RoomIds : Packet(s, r)
    BY <1>3, PacketSteps
<1>4. CASE Resumption
    BY <1>4, ResumptionSteps
<1>5. CASE LoadCore
    BY <1>1, <1>5 DEF LoadCore
<1>6. CASE Sweep
  <2>1. UNCHANGED history
    BY <1>6 DEF Sweep
  <2>2. QED
    BY <1>6, <2>1, SweepCalm, CalmServer
<1>7. ASSUME NEW o \in Objs, NEW u \in Users, Expire(o, u) PROVE ServerStep
  <2>1. UNCHANGED history
    BY <1>7 DEF Expire
  <2>2. QED
    BY <1>7, <2>1, ExpireCalm, CalmServer
<1>8. ASSUME NEW o \in Objs, NEW a \in Actions, Forget(o, a) PROVE ServerStep
  <2>1. UNCHANGED history /\ "forget" \in Requests
    BY <1>8 DEF Forget
  <2>2. WrittenStep(o, [mgr.heap[o] EXCEPT !.dedupe = @ \ {a}])
    BY <1>8, ForgetStep
  <2>3. Forgets(o) /\ RoomsStep /\ SeatsStep
    BY <2>1, <2>2 DEF Forgets, WrittenStep
  <2>4. QED
    BY <2>3 DEF ServerStep, GameStep
<1>9. CASE \E r \in RoomIds, u \in Users : Stake(r, u)
    BY <1>1, <1>9 DEF Stake
<1>10. CASE \E r \in RoomIds : ForceDraw(r)
    BY <1>1, <1>10 DEF ForceDraw
<1>11. CASE \E tx \in mempool : Mine(tx)
    BY <1>1, <1>11 DEF Mine
<1>12. CASE \E i \in SaveIds : SubmitResult(i) \/ SaveResult(i)
    BY <1>12, SettlingSteps
<1>13. CASE UNCHANGED vars
    BY <1>1, <1>13 DEF vars, history
<1>14. QED
    BY <1>2, <1>3, <1>4, <1>5, <1>6, <1>7, <1>8, <1>9, <1>10, <1>11, <1>12, <1>13 DEF Next

-----------------------------------------------------------------------------
(***************************************************************************)
(* The invariant holds                                                     *)
(***************************************************************************)
LEMMA Twice ==
    ASSUME NEW n \in 0..2
    PROVE  Min({n + 1, 2}) \in 0..2 /\ (n = 0 => Min({n + 1, 2}) = 1)
<1> DEFINE S == {n + 1, 2}
           m == IF n + 1 <= 2 THEN n + 1 ELSE 2
<1>1. m \in S /\ \A y \in S : m <= y
    OBVIOUS
<1>2. Min(S) = CHOOSE x \in S : \A y \in S : x <= y
    BY DEF Min
<1>3. Min(S) \in S /\ \A y \in S : Min(S) <= y
    BY <1>1, <1>2
<1>4. QED
    BY <1>3

(* An answer to a rematch that waits for its game                          *)
Accepts(s, r) ==
    /\ "accept" \in Requests /\ Busy \subseteq IF Batched THEN {s} ELSE {}
    /\ Exists(r) /\ mgr' = mgr
    /\ resets' = resets \union {[obj |-> mgr.rooms[r], socket |-> s]}

(* A pending rematch appears by an accept and by nothing else.             *)
LEMMA ResetsStep ==
    ASSUME [Next]_vars
    PROVE  \/ resets' \subseteq resets
           \/ \E s \in Sockets, r \in RoomIds : Accepts(s, r)
<1>1. ASSUME NEW s \in Sockets, NEW r \in RoomIds, Packet(s, r)
      PROVE  resets' \subseteq resets \/ Accepts(s, r)
  <2>1. CASE \E stake \in Stakes : JoinRoom(s, r, stake)
    BY <2>1 DEF JoinRoom
  <2>2. CASE \E a \in Actions : MakeMove(s, r, a)
    BY <2>2 DEF MakeMove, Enqueue, handling
  <2>3. CASE ResetGame(s, r)
    BY <2>3 DEF ResetGame, Enqueue, handling
  <2>4. CASE SyncState(s, r)
    BY <2>4 DEF SyncState, handling
  <2>5. CASE RematchRequest(s, r)
    BY <2>5 DEF RematchRequest, handling
  <2>6. CASE RematchAccept(s, r)
    BY <2>6 DEF RematchAccept, Receives, MayRespond, Accepts
  <2>7. CASE RematchDecline(s, r)
    BY <2>7 DEF RematchDecline, handling
  <2>8. QED
    BY <1>1, <2>1, <2>2, <2>3, <2>4, <2>5, <2>6, <2>7 DEF Packet
<1>2. CASE Resumption
  <2>1. CASE \E j \in joins : JoinResumes(j)
    BY <2>1 DEF JoinResumes
  <2>2. CASE \E x \in resets : RematchResumes(x)
    BY <2>2 DEF RematchResumes
  <2>3. CASE \E o \in Objs : StartOp(o) \/ FinishMove(o) \/ FinishReset(o)
    BY <2>3 DEF StartOp, FinishMove, FinishReset, handling
  <2>4. QED
    BY <1>2, <2>1, <2>2, <2>3 DEF Resumption
<1>3. CASE \/ \E s \in Sockets : Connect(s) \/ Disconnect(s)
           \/ LoadCore
           \/ Sweep
           \/ \E o \in Objs, u \in Users : Expire(o, u)
           \/ \E o \in Objs, a \in Actions : Forget(o, a)
    BY <1>3 DEF Connect, Disconnect, LoadCore, Sweep, Expire, Forget, handling
<1>4. CASE \/ \E r \in RoomIds, u \in Users : Stake(r, u)
           \/ \E r \in RoomIds : ForceDraw(r)
           \/ \E tx \in mempool : Mine(tx)
           \/ \E i \in SaveIds : SubmitResult(i) \/ SaveResult(i)
           \/ UNCHANGED vars
    BY <1>4 DEF Stake, ForceDraw, Mine, SubmitResult, SaveResult, handling, vars
<1>5. QED
    BY <1>1, <1>2, <1>3, <1>4 DEF Next

(* Connections, the state of the rule core and the waiting joins keep      *)
(* their types.                                                            *)
LEMMA HandlersStep ==
    ASSUME ServerInv, [Next]_vars
    PROVE  /\ conn' \in [Sockets -> {"new", "live", "gone"}]
           /\ core' \in {"cold", "ready"}
           /\ joins' \subseteq [socket: Sockets, room: RoomIds, stake: Stakes]
<1>1. /\ conn \in [Sockets -> {"new", "live", "gone"}]
      /\ core \in {"cold", "ready"}
      /\ joins \subseteq [socket: Sockets, room: RoomIds, stake: Stakes]
    BY DEF ServerInv
<1>2. ASSUME NEW s \in Sockets, NEW r \in RoomIds, Packet(s, r)
      PROVE  /\ UNCHANGED <<conn, core>>
             /\ joins' \subseteq [socket: Sockets, room: RoomIds, stake: Stakes]
  <2>1. CASE \E stake \in Stakes : JoinRoom(s, r, stake)
    BY <1>1, <2>1 DEF JoinRoom
  <2>2. CASE \E a \in Actions : MakeMove(s, r, a)
    BY <1>1, <2>2 DEF MakeMove, Enqueue, handling
  <2>3. CASE ResetGame(s, r)
    BY <1>1, <2>3 DEF ResetGame, Enqueue, handling
  <2>4. CASE SyncState(s, r)
    BY <1>1, <2>4 DEF SyncState, handling
  <2>5. CASE RematchRequest(s, r)
    BY <1>1, <2>5 DEF RematchRequest, handling
  <2>6. CASE RematchAccept(s, r)
    BY <1>1, <2>6 DEF RematchAccept
  <2>7. CASE RematchDecline(s, r)
    BY <1>1, <2>7 DEF RematchDecline, handling
  <2>8. QED
    BY <1>2, <2>1, <2>2, <2>3, <2>4, <2>5, <2>6, <2>7 DEF Packet
<1>3. CASE Resumption
  <2>1. CASE \E j \in joins : JoinResumes(j)
    BY <1>1, <2>1 DEF JoinResumes
  <2>2. CASE \E x \in resets : RematchResumes(x)
    BY <1>1, <2>2 DEF RematchResumes
  <2>3. CASE \E o \in Objs : StartOp(o) \/ FinishMove(o) \/ FinishReset(o)
    BY <1>1, <2>3 DEF StartOp, FinishMove, FinishReset, handling
  <2>4. QED
    BY <1>3, <2>1, <2>2, <2>3 DEF Resumption
<1>4. CASE \/ \E s \in Sockets : Connect(s) \/ Disconnect(s)
           \/ LoadCore
           \/ Sweep
           \/ \E o \in Objs, u \in Users : Expire(o, u)
           \/ \E o \in Objs, a \in Actions : Forget(o, a)
    BY <1>1, <1>4 DEF Connect, Disconnect, LoadCore, Sweep, Expire, Forget, handling
<1>5. CASE \/ \E r \in RoomIds, u \in Users : Stake(r, u)
           \/ \E r \in RoomIds : ForceDraw(r)
           \/ \E tx \in mempool : Mine(tx)
           \/ \E i \in SaveIds : SubmitResult(i) \/ SaveResult(i)
           \/ UNCHANGED vars
    BY <1>1, <1>5 DEF Stake, ForceDraw, Mine, SubmitResult, SaveResult, handling, vars
<1>6. QED
    BY <1>1, <1>2, <1>3, <1>4, <1>5 DEF Next

(* So do the games counter and the applied counts.                         *)
LEMMA HistoryStep ==
    ASSUME ServerInv, GameStep
    PROVE  games' \in Nat /\ applied' \in [Objs -> [Actions -> 0..2]]
<1>1. games \in Nat /\ applied \in [Objs -> [Actions -> 0..2]]
    BY DEF ServerInv
<1>2. ASSUME NEW o \in Objs, MoveStep(o)
      PROVE  applied' \in [Objs -> [Actions -> 0..2]]
  <2> DEFINE a == Head(mgr.heap[o].queue).action
  <2>1. a \in Actions /\ \/ applied' = applied
                         \/ applied' = [applied EXCEPT ![o][a] = Min({@ + 1, 2})]
    BY <1>2 DEF MoveStep
  <2> HIDE DEF a
  <2>2. applied[o][a] \in 0..2
    BY <1>1, <2>1
  <2> DEFINE n == Min({applied[o][a] + 1, 2})
  <2>3. n \in 0..2
    BY <2>2, Twice
  <2>4. applied' = applied \/ applied' = [applied EXCEPT ![o][a] = n]
    BY <2>1
  <2> HIDE DEF n
  <2>5. QED
    BY <1>1, <2>1, <2>3, <2>4
<1>3. ASSUME NEW o \in Objs, OpenStep(o)
      PROVE  games' \in Nat /\ applied' \in [Objs -> [Actions -> 0..2]]
    BY <1>1, <1>3 DEF OpenStep
<1>4. CASE UNCHANGED history
    BY <1>1, <1>4 DEF history
<1>5. CASE games' = games + 1 /\ applied' = applied
    BY <1>1, <1>5
<1>6. QED
    BY <1>1, <1>2, <1>3, <1>4, <1>5 DEF GameStep, Forgets, Queues, Begins, StartsOver, Rematches

(* The invariant holds initially.                                          *)
LEMMA ServerInit ==
    ASSUME Init PROVE ServerInv
<1>1. SoundMgr(mgr)
  <2>1. mgr \in Managers
    BY DEF Init, Managers
  <2>2. QED
    BY <2>1 DEF Init, SoundMgr, AtHome
<1>2. SavesOK(mgr, saves)
    BY DEF Init, SavesOK
<1>3. Indexed(mgr, socketToRoom) /\ socketToRoom \in [Sockets -> RoomIds \union {None}]
    BY DEF Init, Indexed
<1>4. /\ conn \in [Sockets -> {"new", "live", "gone"}]
      /\ core \in {"cold", "ready"}
      /\ joins \subseteq [socket: Sockets, room: RoomIds, stake: Stakes]
      /\ resets = {} /\ games \in Nat
      /\ applied \in [Objs -> [Actions -> 0..2]]
    BY DEF Init
<1>5. QED
    BY <1>1, <1>2, <1>3, <1>4 DEF ServerInv

(* Every step keeps it.                                                    *)
LEMMA ServerNext ==
    ASSUME ServerInv, [Next]_vars PROVE ServerInv'
<1>1. ServerStep
    BY Steps
<1>2. /\ SoundMgr(mgr') /\ Indexed(mgr', socketToRoom')
      /\ socketToRoom' \in [Sockets -> RoomIds \union {None}]
      /\ SavesOK(mgr', saves') /\ Stays(mgr, mgr')
    BY <1>1 DEF ServerStep, RoomsStep
<1>3. games' \in Nat /\ applied' \in [Objs -> [Actions -> 0..2]]
    BY <1>1, HistoryStep DEF ServerStep
<1>4. /\ conn' \in [Sockets -> {"new", "live", "gone"}]
      /\ core' \in {"cold", "ready"}
      /\ joins' \subseteq [socket: Sockets, room: RoomIds, stake: Stakes]
    BY HandlersStep
<1>5. /\ resets' \subseteq [obj: Objs, socket: Sockets]
      /\ \A x \in resets' : mgr'.heap[x.obj] # None
  <2>1. /\ resets \subseteq [obj: Objs, socket: Sockets]
        /\ \A x \in resets : mgr.heap[x.obj] # None
        /\ SoundMgr(mgr)
    BY DEF ServerInv
  <2>2. CASE resets' \subseteq resets
    BY <1>2, <2>1, <2>2 DEF Stays
  <2>3. ASSUME NEW s \in Sockets, NEW r \in RoomIds, Accepts(s, r)
        PROVE  /\ resets' \subseteq [obj: Objs, socket: Sockets]
               /\ \A x \in resets' : mgr'.heap[x.obj] # None
    <3>1. /\ resets' = resets \union {[obj |-> mgr.rooms[r], socket |-> s]}
          /\ mgr' = mgr /\ mgr.rooms[r] # None
      BY <2>3 DEF Accepts, Exists
    <3>2. mgr.rooms[r] \in Objs /\ mgr.heap[mgr.rooms[r]] # None
      BY <2>1, <3>1 DEF SoundMgr, Managers
    <3>3. QED
      BY <2>1, <3>1, <3>2
  <2>4. QED
    BY <2>2, <2>3, ResetsStep
<1>6. QED
    BY <1>2, <1>3, <1>4, <1>5 DEF ServerInv

(* The server's invariant: rooms are sound, the tables of the manager      *)
(* agree, every save in flight has its room object, and a chain waits for  *)
(* at most one save.                                                       *)
THEOREM ServerInvariance == Spec => []ServerInv
<1>1. QED
    BY ServerInit, ServerNext, PTL DEF Spec

(* Every variable keeps its type (TypeOK, but for the bound MaxGames).     *)
THEOREM ServerTypes == Spec => []Typed
<1>1. ASSUME ServerInv PROVE Typed
  <2>1. /\ conn \in [Sockets -> {"new", "live", "gone"}]
        /\ socketToRoom \in [Sockets -> RoomIds \union {None}]
        /\ core \in {"cold", "ready"}
        /\ joins \subseteq [socket: Sockets, room: RoomIds, stake: Stakes]
        /\ resets \subseteq [obj: Objs, socket: Sockets]
        /\ games \in Nat
    BY <1>1 DEF ServerInv
  <2>2. /\ mgr.rooms \in [RoomIds -> Objs \union {None}]
        /\ mgr.index \in [Sockets -> RoomIds \union {None}]
    BY <1>1 DEF ServerInv, SoundMgr, Managers
  <2>3. \A o \in Objs : mgr.heap[o] = None \/ mgr.heap[o] \in RoomObject
    BY <1>1, RoomIsNotNone DEF ServerInv, SoundMgr, SoundRoom
  <2>4. \A i \in SaveIds : saves[i] = None \/ saves[i] \in SaveInFlight
    BY <1>1 DEF ServerInv, SavesOK
  <2>5. QED
    BY <2>1, <2>2, <2>3, <2>4 DEF Typed
<1>2. QED
    BY <1>1, ServerInvariance, PTL

(* Seats make sense and are held, by a socket or a reservation, in every   *)
(* room of the server.                                                     *)
THEOREM SeatsHeld == Spec => []SeatsAreHeld
<1>1. ASSUME ServerInv PROVE SeatsAreHeld
  <2> SUFFICES ASSUME NEW r \in LiveRooms
               PROVE  LET room == Room(r) IN
                      /\ IsRoomFull(room) => room.players["X"] # room.players["O"]
                      /\ \A s, t \in room.sockets : SocketUser[s] = SocketUser[t] => s = t
                      /\ \A u \in Users : room.pending[u] # None
                                              => room.players[room.pending[u].slot] = u
                      /\ \A p \in Slots : room.players[p] # None =>
                              \/ \E s \in room.sockets : SocketUser[s] = room.players[p]
                              \/ room.pending[room.players[p]] # None
    BY DEF SeatsAreHeld
  <2>1. SoundRoom(Room(r))
    BY <1>1 DEF ServerInv, SoundMgr, Managers, LiveRooms, Exists, Room
  <2>2. Seats(Room(r).players, Room(r).sockets, Room(r).pending)
    BY <2>1 DEF SoundRoom
  <2>3. QED
    BY <2>2 DEF Seats, IsRoomFull, Slots
<1>2. QED
    BY <1>1, ServerInvariance, PTL

(* While no clock ticks between the two checks of a join, whoever has a    *)
(* reservation is away.                                                    *)
THEOREM ReservedAreAway == TickFree => (Spec => []AllAbsent(mgr))
<1> SUFFICES ASSUME TickFree PROVE Spec => []AllAbsent(mgr)
    OBVIOUS
<1>1. Init => AllAbsent(mgr)
    BY DEF Init, AllAbsent
<1>2. ServerInv /\ AllAbsent(mgr) /\ [Next]_vars => AllAbsent(mgr)'
  <2> SUFFICES ASSUME ServerInv, AllAbsent(mgr), [Next]_vars PROVE AllAbsent(mgr')
    OBVIOUS
  <2>1. QED
    BY Steps DEF ServerStep, SeatsStep
<1>3. QED
    BY <1>1, <1>2, ServerInvariance, PTL DEF Spec

(* A player keeps the seat until it leaves or stays away too long.         *)
THEOREM SeatsKept == TickFree => (Spec => SeatIsKept)
<1> SUFFICES ASSUME TickFree PROVE Spec => SeatIsKept
    OBVIOUS
<1> DEFINE Kept == \A o \in Objs, u \in Users : Loses(o, u) =>
                      \/ \E s \in mgr.heap[o].sockets \ mgr'.heap[o].sockets : SocketUser[s] = u
                      \/ Away(mgr.heap[o], u) /\ HasExpired(mgr.heap[o], u)
                      \/ Returns(o, u)
<1>1. ASSUME ServerInv, AllAbsent(mgr), [Next]_vars PROVE Kept
  <2> SUFFICES ASSUME NEW o \in Objs, NEW u \in Users, Loses(o, u)
               PROVE  \/ GaveUp(mgr.heap[o], mgr'.heap[o], u)
                      \/ Away(mgr.heap[o], u) /\ HasExpired(mgr.heap[o], u)
                      \/ Returns(o, u)
    BY DEF GaveUp
  <2>1. KeepsSeats(mgr, mgr')
    BY <1>1, Steps DEF ServerStep, SeatsStep
  <2>2. \/ HasExpired(mgr.heap[o], u)
        \/ GaveUp(mgr.heap[o], mgr'.heap[o], u)
        \/ Reenters(mgr.heap[o], mgr, mgr', u)
    BY <2>1 DEF KeepsSeats, Loses
  <2>3. HasExpired(mgr.heap[o], u) => Away(mgr.heap[o], u)
    BY <1>1 DEF AllAbsent, Absent, HasExpired, Loses
  <2>4. QED
    BY <2>2, <2>3 DEF Reenters, Returns
<1>2. QED
    BY <1>1, ServerInvariance, ReservedAreAway, PTL DEF Spec, SeatIsKept

-----------------------------------------------------------------------------
(***************************************************************************)
(* The games                                                               *)
(***************************************************************************)
(* A rematch can only be accepted while no handler is on its way.          *)
OneAtATime == "accept" \notin Requests \/ ~Batched

(* The board that a handler goes on with is the board of the room.         *)
BoardsKept(m) ==
    \A o \in Objs : m.heap[o] # None /\ m.heap[o].phase = "core" =>
        m.heap[o].before = m.heap[o].game

(* While a rematch waits for its game, every chain waits for a save.       *)
ChainsWait(m) ==
    \A o \in Objs : m.heap[o] # None /\ m.heap[o].queue # <<>> => m.heap[o].phase = "save"

RaceInv ==
    /\ "accept" \notin Requests => resets = {}
    /\ resets # {} => ChainsWait(mgr)
    /\ BoardsKept(mgr)

(* A pending rematch keeps the process busy.                               *)
LEMMA BusyResets ==
    resets # {} => Busy # {}
BY DEF Busy

(* With nothing pending every chain waits.                                 *)
LEMMA IdleChains ==
    ASSUME Busy = {} PROVE ChainsWait(mgr)
BY DEF Busy, ChainsWait

(* What a step makes of the room object o                                  *)
ObjectStep(o) ==
    LET a == mgr.heap[o]
        b == mgr'.heap[o]
    IN  \/ a # None /\ SameGame(a, b)
        \/ a # None /\ Busy = {} /\ b.phase = "start" /\ b.game = a.game /\ b.dedupe = a.dedupe
        \/ /\ a # None /\ "forget" \in Requests
           /\ b.phase = a.phase /\ b.game = a.game /\ b.before = a.before /\ b.queue = a.queue
        \/ /\ a # None /\ Quiet
           /\ b.phase = a.phase /\ b.game = a.game /\ b.before = a.before
           /\ b.dedupe = a.dedupe /\ (a.queue # <<>> => Head(b.queue) = Head(a.queue))
        \/ /\ a # None /\ a.queue # <<>> /\ a.phase = "start" /\ b.dedupe = a.dedupe
           /\ b.game = a.game
           /\ \/ /\ MayRun(a, Head(a.queue)) /\ b.queue = a.queue
                 /\ b.phase = "core" /\ b.before = a.game
              \/ b.phase = "start"
        \/ /\ a # None /\ a.queue # <<>> /\ a.phase = "core" /\ Head(a.queue).kind = "reset"
           /\ b.game = NewGame(games + 1) /\ b.phase = "start" /\ b.dedupe = a.dedupe
           /\ games' = games + 1
        \/ MoveStep(o)
        \/ /\ a # None /\ \E x \in resets : x.obj = o
           /\ b.game = NewGame(games + 1) /\ b.phase = a.phase /\ b.queue = a.queue
           /\ b.before = a.before /\ games' = games + 1
        \/ /\ o \in FreeObjs /\ b.phase = "start" /\ b.queue = <<>>
           /\ b.game = NewGame(games + 1) /\ games' = games + 1
           /\ \A x \in Actions : applied'[o][x] = 0

(* What a step may do to one room object, by cases.                        *)
LEMMA ObjectSteps ==
    ASSUME ServerInv, [Next]_vars, NEW p \in Objs, mgr.heap[p] # None \/ mgr'.heap[p] # None
    PROVE  ObjectStep(p)
<1>1. GameStep /\ SoundMgr(mgr)
    BY Steps DEF ServerStep, ServerInv
<1> DEFINE a == mgr.heap[p]
           b == mgr'.heap[p]
<1>2. ASSUME a # None, SameGame(a, b) PROVE ObjectStep(p)
    BY <1>2 DEF ObjectStep
<1>3. CASE GamesStay
    BY <1>2, <1>3 DEF GamesStay, NoNewRoom
<1>4. ASSUME NEW o \in Objs, o # p, OthersStay(o) PROVE ObjectStep(p)
    BY <1>2, <1>4 DEF OthersStay
<1>5. CASE ReleaseStep(p) /\ EventLoopIdle
    BY <1>5 DEF ReleaseStep, EventLoopIdle, ObjectStep
<1>6. a # None => a \in RoomRec
    BY <1>1 DEF SoundMgr, SoundRoom
<1>7. CASE Forgets(p)
  <2>1. PICK x \in Actions : WrittenStep(p, [a EXCEPT !.dedupe = @ \ {x}])
    BY <1>7 DEF Forgets
  <2>2. a # None /\ b = [a EXCEPT !.dedupe = @ \ {x}]
    BY <2>1 DEF WrittenStep
  <2>3. /\ b.phase = a.phase /\ b.game = a.game /\ b.before = a.before /\ b.queue = a.queue
    BY <1>6, <2>2 DEF RoomRec
  <2>4. QED
    BY <1>7, <2>2, <2>3 DEF ObjectStep, Forgets
<1>8. CASE Queues(p)
  <2>1. PICK op \in QueuedOp : WrittenStep(p, [a EXCEPT !.queue = Append(@, op)])
    BY <1>8 DEF Queues
  <2>2. a # None /\ b = [a EXCEPT !.queue = Append(@, op)]
    BY <2>1 DEF WrittenStep
  <2>3. /\ b.phase = a.phase /\ b.game = a.game /\ b.before = a.before
        /\ b.dedupe = a.dedupe /\ b.queue = Append(a.queue, op) /\ a.queue \in Seq(QueuedOp)
    BY <1>6, <2>2 DEF RoomRec
  <2>4. a.queue # <<>> => Head(b.queue) = Head(a.queue)
    BY <2>3
  <2>5. QED
    BY <1>8, <2>2, <2>3, <2>4 DEF ObjectStep, Queues
<1>9. CASE Begins(p)
  <2>1. /\ a.queue # <<>> /\ a.phase = "start"
        /\ \/ /\ MayRun(a, Head(a.queue))
              /\ WrittenStep(p, [a EXCEPT !.phase = "core", !.before = a.game])
           \/ WrittenStep(p, Dequeued(a))
    BY <1>9 DEF Begins
  <2>2. CASE /\ MayRun(a, Head(a.queue))
             /\ WrittenStep(p, [a EXCEPT !.phase = "core", !.before = a.game])
    <3>1. a # None /\ b = [a EXCEPT !.phase = "core", !.before = a.game]
      BY <2>2 DEF WrittenStep
    <3>2. /\ b.phase = "core" /\ b.before = a.game /\ b.game = a.game
          /\ b.queue = a.queue /\ b.dedupe = a.dedupe
      BY <1>6, <3>1 DEF RoomRec
    <3>3. QED
      BY <2>1, <2>2, <3>1, <3>2 DEF ObjectStep
  <2>3. CASE WrittenStep(p, Dequeued(a))
    <3>1. a # None /\ b = Dequeued(a)
      BY <2>3 DEF WrittenStep
    <3>2. b.phase = "start" /\ b.game = a.game /\ b.dedupe = a.dedupe
      BY <1>6, <3>1 DEF RoomRec, Dequeued
    <3>3. QED
      BY <2>1, <3>1, <3>2 DEF ObjectStep
  <2>4. QED
    BY <2>1, <2>2, <2>3
<1>10. CASE StartsOver(p)
  <2>1. /\ a.queue # <<>> /\ a.phase = "core" /\ Head(a.queue).kind = "reset" /\ a # None
        /\ b.game = NewGame(games + 1) /\ b.phase = "start" /\ b.dedupe = a.dedupe
        /\ games' = games + 1
    BY <1>10 DEF StartsOver, WrittenStep
  <2>2. QED
    BY <2>1 DEF ObjectStep
<1>11. CASE Rematches(p)
  <2>1. /\ a # None /\ \E x \in resets : x.obj = p
        /\ b.game = NewGame(games + 1) /\ b.phase = a.phase /\ b.queue = a.queue
        /\ b.before = a.before /\ games' = games + 1
    BY <1>11 DEF Rematches, WrittenStep
  <2>2. QED
    BY <2>1 DEF ObjectStep
<1>12. CASE p \in FreeObjs /\ OpenStep(p)
  <2>1. applied \in [Objs -> [Actions -> 0..2]]
    BY DEF ServerInv
  <2>2. \A x \in Actions : applied'[p][x] = 0
    BY <1>12, <2>1 DEF OpenStep
  <2>3. QED
    BY <1>12, <2>2 DEF ObjectStep, OpenStep
<1>13. CASE MoveStep(p)
    BY <1>13 DEF ObjectStep
<1>14. ASSUME NEW o \in Objs, o # p,
              \/ ReleaseStep(o) \/ Forgets(o) \/ Queues(o) \/ Begins(o) \/ StartsOver(o)
              \/ MoveStep(o) \/ Rematches(o) \/ OpenStep(o)
       PROVE  OthersStay(o)
    BY <1>14 DEF ReleaseStep, Forgets, Queues, Begins, StartsOver, MoveStep, Rematches,
                 OpenStep, WrittenStep
<1>15. QED
    BY <1>1, <1>3, <1>4, <1>5, <1>7, <1>8, <1>9, <1>10, <1>11, <1>12, <1>13, <1>14 DEF GameStep

(* The invariant of the race holds initially.                              *)
LEMMA RaceInit ==
    ASSUME Init PROVE RaceInv
BY DEF Init, RaceInv, BoardsKept, ChainsWait

(* While a rematch is pending no chain starts.                             *)
LEMMA WaitingStep ==
    ASSUME OneAtATime, ServerInv, RaceInv, [Next]_vars, resets' # {}
    PROVE  ChainsWait(mgr')
<1>1. CASE \E s \in Sockets, r \in RoomIds : Accepts(s, r)
  <2>1. PICK s \in Sockets, r \in RoomIds : Accepts(s, r)
    BY <1>1
  <2>2. Busy = {} /\ mgr' = mgr
    BY <2>1 DEF Accepts, OneAtATime
  <2>3. QED
    BY <2>2, IdleChains
<1>2. CASE resets' \subseteq resets
  <2>1. /\ resets # {} /\ ChainsWait(mgr) /\ "accept" \in Requests /\ ~Batched /\ Busy # {}
    BY <1>2, BusyResets DEF RaceInv, OneAtATime
  <2>2. ~Quiet
    BY <2>1 DEF Quiet
  <2> SUFFICES ASSUME NEW o \in Objs, mgr'.heap[o] # None, mgr'.heap[o].queue # <<>>
               PROVE  mgr'.heap[o].phase = "save"
    BY DEF ChainsWait
  <2>3. ObjectStep(o)
    BY ObjectSteps
  <2>4. mgr.heap[o] # None /\ mgr.heap[o].queue # <<>> => mgr.heap[o].phase = "save"
    BY <2>1 DEF ChainsWait
  <2>5. ~MoveStep(o)
    BY <2>4 DEF MoveStep
  <2>6. QED
    BY <2>1, <2>2, <2>3, <2>4, <2>5 DEF ObjectStep, SameGame
<1>3. QED
    BY <1>1, <1>2, ResetsStep

(* Every step keeps it.                                                    *)
LEMMA RaceNext ==
    ASSUME OneAtATime, ServerInv, RaceInv, [Next]_vars
    PROVE  RaceInv'
<1>1. "accept" \notin Requests => resets' = {}
    BY ResetsStep DEF RaceInv, Accepts
<1>2. BoardsKept(mgr')
  <2> SUFFICES ASSUME NEW o \in Objs, mgr'.heap[o] # None, mgr'.heap[o].phase = "core"
               PROVE  mgr'.heap[o].before = mgr'.heap[o].game
    BY DEF BoardsKept
  <2>1. ObjectStep(o)
    BY ObjectSteps
  <2>2. mgr.heap[o] # None /\ mgr.heap[o].phase = "core" => mgr.heap[o].before = mgr.heap[o].game
    BY DEF RaceInv, BoardsKept
  <2>3. mgr.heap[o] # None /\ mgr.heap[o].phase = "core" => mgr.heap[o].queue # <<>>
    BY DEF ServerInv, SoundMgr, SoundRoom
  <2>4. resets # {} /\ mgr.heap[o] # None => mgr.heap[o].phase # "core"
    BY <2>3 DEF RaceInv, ChainsWait
  <2>5. ~MoveStep(o)
    BY DEF MoveStep, MoveTaken
  <2>6. QED
    BY <2>1, <2>2, <2>4, <2>5 DEF ObjectStep, SameGame
<1>3. QED
    BY <1>1, <1>2, WaitingStep DEF RaceInv

(* With OneAtATime, a chain that reads a board finds the same board when   *)
(* it writes.                                                              *)
THEOREM RaceInvariance == OneAtATime => (Spec => []RaceInv)
<1> SUFFICES ASSUME OneAtATime PROVE Spec => []RaceInv
    OBVIOUS
<1>1. Init => RaceInv
    BY RaceInit
<1>2. ServerInv /\ RaceInv /\ [Next]_vars => RaceInv'
    BY RaceNext
<1>3. QED
    BY <1>1, <1>2, ServerInvariance, PTL DEF Spec

(* A board changes by one legal move at a time, from the board the move    *)
(* was checked against.                                                    *)
THEOREM MovesKept == OneAtATime => (Spec => MovesAreKept)
<1> SUFFICES ASSUME OneAtATime PROVE Spec => MovesAreKept
    OBVIOUS
<1> DEFINE Legal(g, h) ==
               \/ h = g
               \/ h = NewGame(games + 1)
               \/ /\ h.id = g.id
                  /\ \E e \in BoardEdges \ g.board.taken : h.board \in After(g.board, e)
           Kept == \A o \in Objs : mgr.heap[o] # None /\ InUse(o) =>
                      Legal(mgr.heap[o].game, mgr'.heap[o].game)
<1>1. ASSUME ServerInv, RaceInv, [Next]_vars PROVE Kept
  <2> SUFFICES ASSUME NEW o \in Objs, mgr.heap[o] # None, InUse(o)
               PROVE  Legal(mgr.heap[o].game, mgr'.heap[o].game)
    OBVIOUS
  <2> DEFINE a == mgr.heap[o]
             b == mgr'.heap[o]
  <2>1. ObjectStep(o) /\ o \notin FreeObjs
    BY <1>1, ObjectSteps DEF FreeObjs
  <2>2. CASE MoveStep(o)
    <3>1. b.game = a.game \/ MoveTaken(a, b, Head(a.queue).action)
      BY <2>2 DEF MoveStep
    <3>2. a.before = a.game /\ a.game \in GameOf
      <4>1. a.phase = "core" /\ SoundRoom(a)
        BY <1>1, <2>2 DEF MoveStep, ServerInv, SoundMgr
      <4>2. QED
        BY <1>1, <4>1 DEF RaceInv, BoardsKept, SoundRoom, RoomRec
    <3>3. ASSUME NEW e \in BoardEdges \ a.before.board.taken,
                 NEW c \in After(a.before.board, e), b.game = [a.before EXCEPT !.board = c]
          PROVE  Legal(a.game, b.game)
      <4>1. b.game.id = a.game.id /\ b.game.board = c
        BY <3>2, <3>3 DEF GameOf
      <4>2. e \in BoardEdges \ a.game.board.taken /\ c \in After(a.game.board, e)
        BY <3>2
      <4>3. QED
        BY <4>1, <4>2
    <3>4. QED
      BY <3>1, <3>3 DEF MoveTaken
  <2>3. QED
    BY <2>1, <2>2 DEF ObjectStep, SameGame
<1>2. QED
    BY <1>1, ServerInvariance, RaceInvariance, PTL DEF Spec, MovesAreKept

-----------------------------------------------------------------------------
(* The actionIds are kept.                                                 *)
Remembering == "forget" \notin Requests /\ "accept" \notin Requests

NotedInv ==
    /\ resets = {}
    /\ \A o \in Objs, a \in Actions : applied[o][a] <= 1
    /\ \A o \in Objs : mgr.heap[o] # None =>
          /\ \A a \in Actions : applied[o][a] # 0 => a \in mgr.heap[o].dedupe
          /\ mgr.heap[o].phase = "core" /\ Head(mgr.heap[o].queue).kind = "move"
                => Head(mgr.heap[o].queue).action \notin mgr.heap[o].dedupe

(* Initially no action was applied.                                        *)
LEMMA NotedInit ==
    ASSUME Init PROVE NotedInv
BY DEF Init, NotedInv

(* Only a move that is applied counts, and a new room starts from nothing. *)
LEMMA AppliedStep ==
    ASSUME ServerInv, [Next]_vars, NEW p \in Objs
    PROVE  \/ applied'[p] = applied[p]
           \/ MoveStep(p)
           \/ \A a \in Actions : applied'[p][a] = 0
<1>1. GameStep /\ applied \in [Objs -> [Actions -> 0..2]]
    BY Steps DEF ServerStep, ServerInv
<1>2. ASSUME NEW o \in Objs, o # p, MoveStep(o) PROVE applied'[p] = applied[p]
    BY <1>1, <1>2 DEF MoveStep
<1>3. ASSUME NEW o \in Objs, OpenStep(o)
      PROVE  applied'[p] = applied[p] \/ \A a \in Actions : applied'[p][a] = 0
    BY <1>1, <1>3 DEF OpenStep
<1>4. CASE UNCHANGED history \/ applied' = applied
    BY <1>4 DEF history
<1>5. QED
    BY <1>1, <1>2, <1>3, <1>4 DEF GameStep, Forgets, Queues, Begins, StartsOver, Rematches

(* A move that is applied was not applied before.                          *)
LEMMA AppliedMove ==
    ASSUME ServerInv, NotedInv, NEW o \in Objs, MoveStep(o), NEW x \in Actions
    PROVE  /\ applied'[o][x] <= 1
           /\ applied'[o][x] # 0 => x \in mgr'.heap[o].dedupe
<1> DEFINE a == mgr.heap[o]
           b == mgr'.heap[o]
           action == Head(a.queue).action
<1>1. /\ action \in Actions /\ action \notin a.dedupe
      /\ applied \in [Objs -> [Actions -> 0..2]]
    BY DEF MoveStep, NotedInv, ServerInv
<1>2. applied[o][action] = 0 /\ applied[o][x] <= 1 /\ (applied[o][x] # 0 => x \in a.dedupe)
    BY <1>1 DEF MoveStep, NotedInv
<1>3. CASE b.dedupe = a.dedupe /\ applied' = applied
    BY <1>2, <1>3
<1>4. CASE /\ MoveTaken(a, b, action)
           /\ applied' = [applied EXCEPT ![o][action] = Min({@ + 1, 2})]
  <2>1. b.dedupe = a.dedupe \union {action}
    BY <1>4 DEF MoveTaken
  <2>2. Min({applied[o][action] + 1, 2}) = 1
    BY <1>2, Twice
  <2> DEFINE n == Min({applied[o][action] + 1, 2})
  <2>3. applied' = [applied EXCEPT ![o][action] = n] /\ n = 1
    BY <1>4, <2>2
  <2> HIDE DEF n, action, b
  <2>4. applied'[o][x] = IF x = action THEN 1 ELSE applied[o][x]
    BY <1>1, <2>3
  <2>5. QED
    BY <1>2, <2>1, <2>4 DEF b
<1>5. QED
    BY <1>3, <1>4 DEF MoveStep

(* Every step keeps NotedInv.                                              *)
LEMMA NotedNext ==
    ASSUME Remembering, ServerInv, NotedInv, [Next]_vars
    PROVE  NotedInv'
<1>1. resets' = {}
    BY ResetsStep DEF NotedInv, Accepts, Remembering
<1>2. ASSUME NEW o \in Objs, NEW x \in Actions PROVE applied'[o][x] <= 1
  <2>1. applied[o][x] <= 1
    BY <1>2 DEF NotedInv
  <2>2. QED
    BY <1>2, <2>1, AppliedStep, AppliedMove
<1>3. ASSUME NEW o \in Objs, mgr'.heap[o] # None, NEW x \in Actions, applied'[o][x] # 0
      PROVE  x \in mgr'.heap[o].dedupe
  <2>1. ObjectStep(o)
    BY <1>3, ObjectSteps
  <2>2. CASE MoveStep(o)
    BY <1>3, <2>2, AppliedMove
  <2>3. CASE ~MoveStep(o) /\ applied'[o] = applied[o]
    <3>1. mgr.heap[o] # None => x \in mgr.heap[o].dedupe
      BY <1>3, <2>3 DEF NotedInv
    <3>2. resets = {} /\ "forget" \notin Requests
      BY DEF NotedInv, Remembering
    <3>3. QED
      BY <1>3, <2>1, <2>3, <3>1, <3>2 DEF ObjectStep, SameGame
  <2>4. QED
    BY <1>3, <2>2, <2>3, AppliedStep
<1>4. ASSUME NEW o \in Objs, mgr'.heap[o] # None, mgr'.heap[o].phase = "core",
             Head(mgr'.heap[o].queue).kind = "move"
      PROVE  Head(mgr'.heap[o].queue).action \notin mgr'.heap[o].dedupe
  <2>1. ObjectStep(o)
    BY <1>4, ObjectSteps
  <2>2. ~MoveStep(o)
    BY <1>4 DEF MoveStep, MoveTaken
  <2>3. resets = {} /\ "forget" \notin Requests
    BY DEF NotedInv, Remembering
  <2>4. mgr.heap[o] # None /\ mgr.heap[o].phase = "core" /\ Head(mgr.heap[o].queue).kind = "move"
            => Head(mgr.heap[o].queue).action \notin mgr.heap[o].dedupe
    BY DEF NotedInv
  <2>5. mgr.heap[o] # None /\ mgr.heap[o].phase = "core" => mgr.heap[o].queue # <<>>
    BY DEF ServerInv, SoundMgr, SoundRoom
  <2>6. QED
    BY <1>4, <2>1, <2>2, <2>3, <2>4, <2>5 DEF ObjectStep, SameGame, MayRun
<1>5. QED
    BY <1>1, <1>2, <1>3, <1>4 DEF NotedInv

(* While no actionId is forgotten, each changes a board at most once.      *)
THEOREM AppliedOnce == Remembering => (Spec => []AppliedAtMostOnce)
<1> SUFFICES ASSUME Remembering PROVE Spec => []AppliedAtMostOnce
    OBVIOUS
<1>1. Init => NotedInv
    BY NotedInit
<1>2. ServerInv /\ NotedInv /\ [Next]_vars => NotedInv'
    BY NotedNext
<1>3. NotedInv => AppliedAtMostOnce
    BY DEF NotedInv, AppliedAtMostOnce
<1>4. QED
    BY <1>1, <1>2, <1>3, ServerInvariance, PTL DEF Spec

-----------------------------------------------------------------------------
(***************************************************************************)
(* The stakes                                                              *)
(***************************************************************************)
EscrowOf ==
    [status: {"None", "WaitingForOpponent", "Active", "Cancelled", "Resolved"},
     parties: SUBSET Users, winner: Users \union {Draw, None}]

RowOf ==
    [room: RoomIds, staked: BOOLEAN, game: Nat, players: Seating,
     winner: {"X", "O", "DRAW", None}, read: Nat, played: {"X", "O", "DRAW"}, paid: BOOLEAN]

(* A save of a staked game that has the chain behind it                    *)
Due(m, flying, i) ==
    flying[i] # None /\ flying[i].stage = "db" /\ m.heap[flying[i].obj].stake > 0

RoomOf(m, flying, i) == m.heap[flying[i].obj].roomId

ResolvedFor(e, r, winner) == e[r].status = "Resolved" /\ e[r].winner = winner

(* The escrow of a staked game that is about to be stored is resolved for  *)
(* the winner of that game, and no other game of the room is stored so.    *)
DueOK ==
    /\ \A i \in SaveIds : Due(mgr, saves, i) =>
          saves[i].paid /\ ResolvedFor(escrow, RoomOf(mgr, saves, i), WinnerUser(saves[i]))
    /\ \A i, j \in SaveIds :
          /\ Due(mgr, saves, i) /\ Due(mgr, saves, j)
          /\ RoomOf(mgr, saves, i) = RoomOf(mgr, saves, j)
          => i = j
    /\ \A i \in SaveIds, k \in DOMAIN db :
          Due(mgr, saves, i) /\ db[k].staked => db[k].room # RoomOf(mgr, saves, i)

(* RowsAreSettled, as far as it is about the escrow                        *)
RowsArePaid ==
    \A i \in DOMAIN db : ChainEnabled /\ db[i].staked =>
        /\ db[i].paid
        /\ PaidTo(db[i], db[i].played)
        /\ \A j \in DOMAIN db : db[j].room = db[i].room /\ db[j].staked => i = j

StakesInv ==
    /\ escrow \in [RoomIds -> EscrowOf]
    /\ db \in Seq(RowOf)
    /\ ChainEnabled => DueOK
    /\ RowsArePaid

(* What a resolved escrow says stays said.                                 *)
EscrowStays ==
    /\ escrow' \in [RoomIds -> EscrowOf]
    /\ \A r \in RoomIds : escrow[r].status = "Resolved" => escrow'[r] = escrow[r]

(* No save comes nearer to the database but those that were as near before.*)
NoneDue ==
    ChainEnabled =>
        \A i \in SaveIds : Due(mgr', saves', i) => saves'[i] = saves[i]

(* A stake in the contract leaves resolved escrows alone.                  *)
LEMMA StakeEscrow ==
    ASSUME escrow \in [RoomIds -> EscrowOf], NEW r \in RoomIds, NEW u \in Users,
           Chain!Stake(r, u)
    PROVE  EscrowStays
<1> DEFINE e == escrow[r]
           f == [e EXCEPT !.parties = @ \union {u},
                          !.status = IF @ = "None" THEN "WaitingForOpponent" ELSE "Active"]
<1>1. e \in EscrowOf /\ e.status # "Resolved"
    BY DEF Chain!Stake
<1>2. f \in EscrowOf
    BY <1>1 DEF EscrowOf
<1>3. escrow' = [escrow EXCEPT ![r] = f]
    BY DEF Chain!Stake
<1> HIDE DEF f
<1>4. QED
    BY <1>1, <1>2, <1>3 DEF EscrowStays

(* So does a resolution, which needs an active escrow and names the        *)
(* winner.                                                                 *)
LEMMA ResolveEscrow ==
    ASSUME escrow \in [RoomIds -> EscrowOf], NEW r, NEW w, Chain!Resolve(r, w)
    PROVE  /\ EscrowStays
           /\ r \in RoomIds => /\ escrow[r].status = "Active"
                               /\ ResolvedFor(escrow', r, w)
<1>1. CASE r \notin RoomIds
  <2>1. escrow' = escrow
    BY <1>1 DEF Chain!Resolve
  <2>2. QED
    BY <1>1, <2>1 DEF EscrowStays
<1>2. CASE r \in RoomIds
  <2> DEFINE e == escrow[r]
             f == [e EXCEPT !.status = "Resolved", !.winner = w]
  <2>1. e \in EscrowOf /\ e.status = "Active" /\ w \in e.parties \union {Draw}
    BY <1>2 DEF Chain!Resolve, Chain!Accepts
  <2>2. f \in EscrowOf /\ f.status = "Resolved" /\ f.winner = w
    BY <2>1 DEF EscrowOf
  <2>3. escrow' = [escrow EXCEPT ![r] = f]
    BY <1>2 DEF Chain!Resolve
  <2> HIDE DEF f
  <2>4. escrow'[r] = f
    BY <1>2, <2>3
  <2>5. EscrowStays
    BY <1>2, <2>1, <2>2, <2>3 DEF EscrowStays
  <2>6. QED
    BY <2>1, <2>2, <2>4, <2>5 DEF ResolvedFor
<1>3. QED
    BY <1>1, <1>2

(* A resolved escrow stays as it is, whatever the step.                    *)
LEMMA EscrowStep ==
    ASSUME escrow \in [RoomIds -> EscrowOf], [Next]_vars
    PROVE  EscrowStays
<1>1. escrow' = escrow => EscrowStays
    BY DEF EscrowStays
<1>2. ASSUME NEW s \in Sockets, NEW r \in RoomIds, Packet(s, r) PROVE escrow' = escrow
    BY <1>2 DEF Packet, JoinRoom, MakeMove, Enqueue, ResetGame, SyncState, RematchRequest,
                RematchAccept, RematchDecline, settling
<1>3. CASE Resumption
    BY <1>1, <1>3 DEF Resumption, JoinResumes, RematchResumes, StartOp, FinishMove, FinishReset,
                      settling
<1>4. CASE \/ \E s \in Sockets : Connect(s) \/ Disconnect(s)
           \/ LoadCore
           \/ Sweep
           \/ \E o \in Objs, u \in Users : Expire(o, u)
           \/ \E o \in Objs, a \in Actions : Forget(o, a)
           \/ UNCHANGED vars
    BY <1>1, <1>4 DEF Connect, Disconnect, LoadCore, Sweep, Expire, Forget, settling, vars
<1>5. CASE \E r \in RoomIds, u \in Users : Stake(r, u)
    BY <1>5, StakeEscrow DEF Stake
<1>6. CASE \E r \in RoomIds : ForceDraw(r)
    BY <1>6, ResolveEscrow DEF ForceDraw
<1>7. CASE \E tx \in mempool : Mine(tx)
    BY <1>1, <1>7, ResolveEscrow DEF Mine
<1>8. CASE \E i \in SaveIds : SubmitResult(i)
    BY <1>1, <1>8, ResolveEscrow DEF SubmitResult, NotSubmitted, Submitted, SubmittedLate
<1>9. CASE \E i \in SaveIds : SaveResult(i)
    BY <1>1, <1>9 DEF SaveResult
<1>10. QED
    BY <1>1, <1>2, <1>3, <1>4, <1>5, <1>6, <1>7, <1>8, <1>9 DEF Next

(* A save that starts has the chain before it, if there is one.            *)
LEMMA TriedDue ==
    ASSUME saves \in [SaveIds -> SaveInFlight \union {None}],
           NEW m, NEW r, NEW owner, TrySave(m, r, owner)
    PROVE  NoneDue
<1>1. CASE saves' = saves
    BY <1>1 DEF NoneDue
<1>2. ASSUME NEW j, saves' = [saves EXCEPT ![j] = NewSave(m, r, owner)] PROVE NoneDue
  <2> SUFFICES ASSUME ChainEnabled, NEW i \in SaveIds, Due(mgr', saves', i)
               PROVE  saves'[i] = saves[i]
    BY DEF NoneDue
  <2> DEFINE save == NewSave(m, r, owner)
  <2>1. save.stage = "chain" /\ saves' = [saves EXCEPT ![j] = save]
    BY <1>2 DEF NewSave
  <2> HIDE DEF save
  <2>2. saves'[i] = save \/ saves'[i] = saves[i]
    BY <2>1
  <2>3. saves'[i].stage = "db"
    BY DEF Due
  <2>4. QED
    BY <2>1, <2>2, <2>3
<1>3. QED
    BY <1>1, <1>2 DEF TrySave

(* Entering a room makes no save due for its row.                          *)
LEMMA EntersDue ==
    ASSUME saves \in [SaveIds -> SaveInFlight \union {None}],
           NEW m, NEW s, NEW r, NEW stake, EnterRoom(m, s, r, stake)
    PROVE  NoneDue
<1>1. CASE saves' = saves
    BY <1>1 DEF NoneDue
<1>2. ASSUME NEW k, NEW owner, TrySave(k, r, owner) PROVE NoneDue
    BY <1>2, TriedDue
<1>3. CASE saves' # saves
  <2>1. \E k : TrySave(k, r, None)
    BY <1>3 DEF EnterRoom
  <2>2. QED
    BY <1>2, <2>1
<1>4. QED
    BY <1>1, <1>3

(* The same game has the same stake.                                       *)
LEMMA SameGameStake ==
    ASSUME NEW a, NEW b, SameGame(a, b) PROVE SameStake(a, b)
BY DEF SameGame, SameStake

(* A room object that is in use keeps its id and its stake.                *)
LEMMA StakeKept ==
    ASSUME ServerInv, [Next]_vars, NEW o \in Objs \ FreeObjs, mgr.heap[o] # None
    PROVE  mgr'.heap[o] # None /\ SameStake(mgr.heap[o], mgr'.heap[o])
<1>1. RoomsStep /\ GameStep
    BY Steps DEF ServerStep
<1>2. mgr'.heap[o] # None
    BY <1>1 DEF RoomsStep, Stays
<1>3. ASSUME NEW p \in Objs, p # o, OthersStay(p)
      PROVE  SameStake(mgr.heap[o], mgr'.heap[o])
  <2>1. SameGame(mgr.heap[o], mgr'.heap[o])
    BY <1>3 DEF OthersStay
  <2>2. QED
    BY <2>1, SameGameStake
<1>4. CASE GamesStay
  <2>1. SameGame(mgr.heap[o], mgr'.heap[o])
    BY <1>4 DEF GamesStay
  <2>2. QED
    BY <1>2, <2>1, SameGameStake
<1>5. ASSUME NEW p \in Objs,
             \/ ReleaseStep(p) \/ Forgets(p) \/ Queues(p) \/ Begins(p) \/ StartsOver(p)
             \/ MoveStep(p) \/ Rematches(p)
      PROVE  OthersStay(p) /\ SameStake(mgr.heap[p], mgr'.heap[p])
  <2>1. CASE ReleaseStep(p)
    BY <2>1 DEF ReleaseStep
  <2>2. CASE MoveStep(p)
    BY <2>2 DEF MoveStep
  <2>3. ASSUME NEW b, WrittenStep(p, b)
        PROVE  OthersStay(p) /\ SameStake(mgr.heap[p], mgr'.heap[p])
    BY <2>3 DEF WrittenStep
  <2>4. CASE \E b : WrittenStep(p, b)
    BY <2>3, <2>4
  <2>5. CASE Forgets(p)
    BY <2>4, <2>5 DEF Forgets
  <2>6. CASE Queues(p)
    BY <2>4, <2>6 DEF Queues
  <2>7. CASE Begins(p)
    BY <2>4, <2>7 DEF Begins
  <2>8. CASE StartsOver(p)
    BY <2>4, <2>8 DEF StartsOver
  <2>9. CASE Rematches(p)
    BY <2>4, <2>9 DEF Rematches
  <2>10. QED
    BY <1>5, <2>1, <2>2, <2>5, <2>6, <2>7, <2>8, <2>9
<1>6. ASSUME NEW p \in FreeObjs, OpenStep(p) PROVE p # o /\ OthersStay(p)
    BY <1>6 DEF OpenStep
<1>7. QED
    BY <1>1, <1>2, <1>3, <1>4, <1>5, <1>6 DEF GameStep

(* A step that leaves the saves alone makes none due.                      *)
LEMMA NotDue ==
    ASSUME saves' = saves PROVE NoneDue
BY DEF NoneDue

(* Outside the settlement nothing reaches the database.                    *)
LEMMA PacketsDue ==
    ASSUME ServerInv, NEW s \in Sockets, NEW r \in RoomIds, Packet(s, r)
    PROVE  NoneDue /\ db' = db
<1>1. saves \in [SaveIds -> SaveInFlight \union {None}]
    BY DEF ServerInv, SavesOK
<1>2. CASE \E stake \in Stakes : JoinRoom(s, r, stake)
    BY <1>1, <1>2, EntersDue, NotDue DEF JoinRoom, settling
<1>3. CASE SyncState(s, r)
    BY <1>1, <1>3, TriedDue DEF SyncState, settling
<1>4. CASE \/ \E a \in Actions : MakeMove(s, r, a)
           \/ ResetGame(s, r)
    BY <1>4, NotDue DEF MakeMove, ResetGame, Enqueue, settling
<1>5. CASE \/ RematchRequest(s, r)
           \/ RematchAccept(s, r)
           \/ RematchDecline(s, r)
    BY <1>5, NotDue DEF RematchRequest, RematchAccept, RematchDecline, settling
<1>6. QED
    BY <1>2, <1>3, <1>4, <1>5 DEF Packet

(* A continuation makes no save due and writes no row.                     *)
LEMMA ResumptionDue ==
    ASSUME ServerInv, Resumption
    PROVE  NoneDue /\ db' = db
<1>1. saves \in [SaveIds -> SaveInFlight \union {None}]
    BY DEF ServerInv, SavesOK
<1>2. ASSUME NEW j \in joins, JoinResumes(j) PROVE NoneDue /\ db' = db
  <2>1. db' = db
    BY <1>2 DEF JoinResumes, settling
  <2>2. \E m : EnterRoom(m, j.socket, j.room, j.stake)
    BY <1>2 DEF JoinResumes
  <2>3. QED
    BY <1>1, <2>1, <2>2, EntersDue
<1>3. CASE \E x \in resets : RematchResumes(x)
    BY <1>3, NotDue DEF RematchResumes, settling
<1>4. ASSUME NEW o \in Objs, FinishMove(o) PROVE NoneDue /\ db' = db
  <2>1. db' = db
    BY <1>4 DEF FinishMove, settling
  <2>2. saves' = saves \/ \E m, r : TrySave(m, r, o)
    BY <1>4 DEF FinishMove
  <2>3. QED
    BY <1>1, <2>1, <2>2, TriedDue, NotDue
<1>5. CASE \E o \in Objs : StartOp(o) \/ FinishReset(o)
    BY <1>5, NotDue DEF StartOp, FinishReset, settling
<1>6. QED
    BY <1>2, <1>3, <1>4, <1>5 DEF Resumption

(* A save that ends is not due any more.                                   *)
LEMMA FailedDue ==
    ASSUME ServerInv, NEW i \in SaveIds, saves' = [saves EXCEPT ![i] = None]
    PROVE  NoneDue /\ ~Due(mgr', saves', i)
<1>1. saves \in [SaveIds -> SaveInFlight \union {None}]
    BY DEF ServerInv, SavesOK
<1>2. saves'[i] = None /\ \A j \in SaveIds : j # i => saves'[j] = saves[j]
    BY <1>1
<1>3. QED
    BY <1>2 DEF NoneDue, Due

(* The result of a staked game goes on to the database with the result in  *)
(* the escrow.                                                             *)
Submits(i) ==
    /\ mgr' = mgr /\ saves[i] # None
    /\ Chain!Resolve(RoomOf(mgr, saves, i), WinnerUser(saves[i]))
    /\ saves'[i].paid /\ saves'[i].obj = saves[i].obj
    /\ WinnerUser(saves'[i]) = WinnerUser(saves[i])
    /\ \A j \in SaveIds : j # i => saves'[j] = saves[j]

(* A save becomes due by the chain's answer that the result is submitted.  *)
LEMMA AnsweredDue ==
    ASSUME ServerInv, NEW i \in SaveIds, saves[i] # None, NEW submitted \in BOOLEAN,
           ChainAnswered(i, submitted)
    PROVE  \/ NoneDue
           \/ /\ submitted /\ mgr' = mgr
              /\ saves'[i].paid /\ saves'[i].obj = saves[i].obj
              /\ WinnerUser(saves'[i]) = WinnerUser(saves[i])
              /\ \A j \in SaveIds : j # i => saves'[j] = saves[j]
<1> DEFINE room == mgr.heap[saves[i].obj]
           w == Winner(room.game.board.score)
           n == room.game.id
           save == [saves[i] EXCEPT !.stage = "db", !.paid = submitted, !.winner = w,
                                    !.read = n]
<1>1. CASE FailSave(i)
    BY <1>1, FailedDue DEF FailSave
<1>2. CASE /\ ~NeedsSettlement(room) \/ submitted
           /\ mgr' = mgr
           /\ saves' = [saves EXCEPT ![i].stage = "db", ![i].paid = submitted, ![i].winner = w,
                                     ![i].read = n]
  <2> HIDE DEF w, n
  <2>1. saves \in [SaveIds -> SaveInFlight \union {None}] /\ saves[i] \in SaveInFlight
    BY DEF ServerInv, SavesOK
  <2>2. saves' = [saves EXCEPT ![i] = save]
    BY <1>2, <2>1
  <2>3. /\ save.obj = saves[i].obj /\ save.score = saves[i].score
        /\ save.players = saves[i].players /\ save.paid = submitted
    BY <2>1 DEF SaveInFlight
  <2> HIDE DEF save
  <2>4. saves'[i] = save /\ \A j \in SaveIds : j # i => saves'[j] = saves[j]
    BY <2>1, <2>2
  <2>5. WinnerUser(saves'[i]) = WinnerUser(saves[i])
    BY <2>3, <2>4 DEF WinnerUser
  <2>6. CASE submitted
    BY <1>2, <2>3, <2>4, <2>5, <2>6
  <2>7. CASE ~NeedsSettlement(room)
    <3>1. ~Due(mgr', saves', i)
      BY <1>2, <2>3, <2>4, <2>7 DEF Due, NeedsSettlement
    <3>2. QED
      BY <2>4, <3>1 DEF NoneDue
  <2>8. QED
    BY <1>2, <2>6, <2>7
<1>3. QED
    BY <1>1, <1>2 DEF ChainAnswered

(* SubmitResult writes no row; it makes a save due only by submitting its  *)
(* result.                                                                 *)
LEMMA SubmitDue ==
    ASSUME ServerInv, NEW i \in SaveIds, SubmitResult(i)
    PROVE  db' = db /\ (NoneDue \/ Submits(i))
<1>1. db' = db /\ saves[i] # None
    BY DEF SubmitResult
<1> DEFINE yes == TRUE
           no == FALSE
<1>2. CASE ChainAnswered(i, no)
  <2>1. no \in BOOLEAN /\ ~no
    OBVIOUS
  <2> HIDE DEF no
  <2>2. QED
    BY <1>1, <1>2, <2>1, AnsweredDue
<1>3. CASE /\ ChainAnswered(i, yes)
           /\ Chain!Resolve(mgr.heap[saves[i].obj].roomId, WinnerUser(saves[i]))
  <2>1. yes \in BOOLEAN
    OBVIOUS
  <2> HIDE DEF yes
  <2>2. QED
    BY <1>1, <1>3, <2>1, AnsweredDue DEF Submits, RoomOf
<1>4. QED
    BY <1>2, <1>3 DEF SubmitResult, NotSubmitted, Submitted, SubmittedLate

(* SaveResult writes the row of the save it ends, or none.                 *)
LEMMA SaveDue ==
    ASSUME ServerInv, NEW i \in SaveIds, SaveResult(i)
    PROVE  /\ NoneDue /\ ~Due(mgr', saves', i)
           /\ saves[i] # None /\ saves[i].stage = "db"
           /\ db' = db \/ db' = Append(db, Row(saves[i]))
<1>1. saves' = [saves EXCEPT ![i] = None]
    BY DEF SaveResult, Saved, SavedUnawares, NotSaved, FailSave
<1>2. /\ saves[i] # None /\ saves[i].stage = "db"
      /\ db' = db \/ db' = Append(db, Row(saves[i]))
    BY DEF SaveResult, Saved, SavedUnawares, NotSaved, Storing, Commit
<1>3. QED
    BY <1>1, <1>2, FailedDue

(* So a step makes no save due, or submits one, or turns a save into its   *)
(* row.                                                                    *)
LEMMA DueStep ==
    ASSUME ServerInv, [Next]_vars
    PROVE  \/ NoneDue /\ db' = db
           \/ \E i \in SaveIds : Submits(i) /\ db' = db
           \/ \E i \in SaveIds :
                 /\ NoneDue /\ ~Due(mgr', saves', i)
                 /\ saves[i] # None /\ saves[i].stage = "db"
                 /\ db' = Append(db, Row(saves[i]))
<1>1. CASE \E s \in Sockets, r \in RoomIds : Packet(s, r)
    BY <1>1, PacketsDue
<1>2. CASE Resumption
    BY <1>2, ResumptionDue
<1>3. CASE \/ \E s \in Sockets : Connect(s) \/ Disconnect(s)
           \/ LoadCore
           \/ Sweep
           \/ \E o \in Objs, u \in Users : Expire(o, u)
           \/ \E o \in Objs, a \in Actions : Forget(o, a)
    BY <1>3, NotDue DEF Connect, Disconnect, LoadCore, Sweep, Expire, Forget, settling
<1>4. CASE \/ \E r \in RoomIds, u \in Users : Stake(r, u)
           \/ \E r \in RoomIds : ForceDraw(r)
           \/ \E tx \in mempool : Mine(tx)
           \/ UNCHANGED vars
    BY <1>4, NotDue DEF Stake, ForceDraw, Mine, vars
<1>5. CASE \E i \in SaveIds : SubmitResult(i)
    BY <1>5, SubmitDue
<1>6. CASE \E i \in SaveIds : SaveResult(i)
    BY <1>6, SaveDue
<1>7. QED
    BY <1>1, <1>2, <1>3, <1>4, <1>5, <1>6 DEF Next

(* The winner of a score is X, O or nobody.                                *)
LEMMA WinnerNamed ==
    ASSUME NEW score PROVE Winner(score) \in {"X", "O", "DRAW"}
BY DEF Winner

(* The row of a save is a row, of the room of the save and with its        *)
(* winner.                                                                 *)
LEMMA RowTyped ==
    ASSUME ServerInv, NEW i \in SaveIds, saves[i] # None
    PROVE  /\ Row(saves[i]) \in RowOf
           /\ Row(saves[i]).room = RoomOf(mgr, saves, i)
           /\ Row(saves[i]).staked <=> mgr.heap[saves[i].obj].stake > 0
           /\ Row(saves[i]).paid = saves[i].paid
           /\ (IF Row(saves[i]).played = Draw THEN Draw
               ELSE Row(saves[i]).players[Row(saves[i]).played]) = WinnerUser(saves[i])
<1> DEFINE save == saves[i]
           room == mgr.heap[save.obj]
           x == room.stake > 0
           w == Winner(save.score)
           row == [room |-> room.roomId, staked |-> x, game |-> save.game,
                   players |-> save.players, winner |-> save.winner, read |-> save.read,
                   played |-> w, paid |-> save.paid]
<1>1. save \in SaveInFlight /\ room \in RoomRec
    BY DEF ServerInv, SavesOK, SaveInFlight, SoundMgr, SoundRoom
<1>2. x \in BOOLEAN /\ w \in {"X", "O", "DRAW"}
    BY WinnerNamed
<1>3. Row(save) = row
    BY DEF Row
<1>4. WinnerUser(save) = IF w = Draw THEN Draw ELSE save.players[w]
    BY DEF WinnerUser
<1>5. (room.stake > 0) <=> x
    OBVIOUS
<1> HIDE DEF x, w
<1>6. /\ row \in RowOf /\ row.room = room.roomId /\ (row.staked <=> x)
      /\ row.paid = save.paid /\ row.played = w /\ row.players = save.players
    BY <1>1, <1>2 DEF RowOf, RoomRec, SaveInFlight
<1> HIDE DEF row
<1>7. QED
    BY <1>3, <1>4, <1>5, <1>6 DEF RoomOf

(* A save that is due stays what it is, with its room.                     *)
LEMMA DueKept ==
    ASSUME ServerInv, [Next]_vars, NEW i \in SaveIds, saves[i] # None, saves'[i] = saves[i]
    PROVE  /\ RoomOf(mgr', saves', i) = RoomOf(mgr, saves, i)
           /\ Due(mgr', saves', i) <=> Due(mgr, saves, i)
<1> DEFINE o == saves[i].obj
<1>1. o \in Objs /\ mgr.heap[o] # None
    BY DEF ServerInv, SavesOK, SaveInFlight
<1>2. o \notin FreeObjs
    BY <1>1 DEF FreeObjs, InUse
<1>3. SameStake(mgr.heap[o], mgr'.heap[o])
    BY <1>1, <1>2, StakeKept
<1>4. QED
    BY <1>3 DEF RoomOf, Due, SameStake

(* A save in flight has a room.                                            *)
LEMMA RoomOfTyped ==
    ASSUME ServerInv, NEW i \in SaveIds, saves[i] # None
    PROVE  RoomOf(mgr, saves, i) \in RoomIds
BY DEF RoomOf, ServerInv, SavesOK, SaveInFlight, SoundMgr, SoundRoom, RoomRec

(* An escrow resolved for a winner stays so.                               *)
LEMMA ResolvedKept ==
    ASSUME EscrowStays, NEW r \in RoomIds, NEW w, ResolvedFor(escrow, r, w)
    PROVE  ResolvedFor(escrow', r, w)
BY DEF EscrowStays, ResolvedFor

(* Nothing more is due: what is was so before, and keeps its escrow.       *)
LEMMA DueBefore ==
    ASSUME ServerInv, ChainEnabled, DueOK, EscrowStays, [Next]_vars, NoneDue,
           NEW i \in SaveIds, Due(mgr', saves', i)
    PROVE  /\ Due(mgr, saves, i) /\ saves'[i] = saves[i]
           /\ RoomOf(mgr', saves', i) = RoomOf(mgr, saves, i)
           /\ RoomOf(mgr, saves, i) \in RoomIds
           /\ saves'[i].paid
           /\ ResolvedFor(escrow', RoomOf(mgr', saves', i), WinnerUser(saves'[i]))
<1>1. saves'[i] = saves[i] /\ saves[i] # None
    BY DEF NoneDue, Due
<1>2. /\ Due(mgr, saves, i) /\ RoomOf(mgr, saves, i) \in RoomIds
      /\ RoomOf(mgr', saves', i) = RoomOf(mgr, saves, i)
    BY <1>1, DueKept, RoomOfTyped
<1>3. saves[i].paid /\ ResolvedFor(escrow, RoomOf(mgr, saves, i), WinnerUser(saves[i]))
    BY <1>2 DEF DueOK
<1>4. ResolvedFor(escrow', RoomOf(mgr, saves, i), WinnerUser(saves[i]))
    BY <1>2, <1>3, ResolvedKept
<1>5. QED
    BY <1>1, <1>2, <1>3, <1>4

(* A step that makes no save due and writes no row keeps DueOK.            *)
LEMMA NoneDueOK ==
    ASSUME ServerInv, ChainEnabled, DueOK, EscrowStays, [Next]_vars, NoneDue, db' = db
    PROVE  DueOK'
BY DueBefore DEF DueOK

(* The save of i goes on to the database: its escrow was still open, so    *)
(* no other save or row of the room can be a staked one.                   *)
LEMMA SubmitsOK ==
    ASSUME ServerInv, StakesInv, ChainEnabled, EscrowStays, NEW i \in SaveIds, Submits(i),
           [Next]_vars, db' = db
    PROVE  DueOK'
<1> DEFINE room == RoomOf(mgr, saves, i)
<1>1. /\ DueOK /\ RowsArePaid /\ escrow \in [RoomIds -> EscrowOf]
      /\ mgr' = mgr /\ saves[i] # None /\ saves'[i].paid
    BY DEF StakesInv, Submits
<1>2. room \in RoomIds
    BY <1>1, RoomOfTyped
<1>3. RoomOf(mgr', saves', i) = room
    BY DEF RoomOf, Submits
<1>4. escrow[room].status = "Active" /\ ResolvedFor(escrow', room, WinnerUser(saves'[i]))
    BY <1>1, <1>2, ResolveEscrow DEF Submits
<1>5. ASSUME NEW j \in SaveIds, j # i, Due(mgr', saves', j)
      PROVE  /\ saves'[j] = saves[j] /\ Due(mgr, saves, j)
             /\ RoomOf(mgr', saves', j) = RoomOf(mgr, saves, j)
             /\ RoomOf(mgr, saves, j) \in RoomIds /\ RoomOf(mgr, saves, j) # room
  <2>1. saves'[j] = saves[j]
    BY <1>5 DEF Submits
  <2>2. /\ Due(mgr, saves, j) /\ RoomOf(mgr', saves', j) = RoomOf(mgr, saves, j)
        /\ saves[j] # None
    BY <1>1, <1>5, <2>1 DEF Due, RoomOf
  <2>3. ResolvedFor(escrow, RoomOf(mgr, saves, j), WinnerUser(saves[j])) /\ saves[j].paid
    BY <1>1, <2>2 DEF DueOK
  <2>4. RoomOf(mgr, saves, j) # room
    BY <1>4, <2>3 DEF ResolvedFor
  <2>5. QED
    BY <2>1, <2>2, <2>4, RoomOfTyped
<1> HIDE DEF room
<1>6. ASSUME NEW j \in SaveIds, Due(mgr', saves', j)
      PROVE  /\ saves'[j].paid
             /\ ResolvedFor(escrow', RoomOf(mgr', saves', j), WinnerUser(saves'[j]))
  <2>1. CASE j = i
    BY <1>1, <1>3, <1>4, <2>1
  <2>2. CASE j # i
    <3>1. saves[j].paid /\ ResolvedFor(escrow, RoomOf(mgr, saves, j), WinnerUser(saves[j]))
      BY <1>1, <1>5, <1>6, <2>2 DEF DueOK
    <3>2. ResolvedFor(escrow', RoomOf(mgr, saves, j), WinnerUser(saves[j]))
      BY <1>5, <1>6, <2>2, <3>1, ResolvedKept
    <3>3. QED
      BY <1>5, <1>6, <2>2, <3>1, <3>2
  <2>3. QED
    BY <2>1, <2>2
<1>7. ASSUME NEW j \in SaveIds, NEW k \in SaveIds, Due(mgr', saves', j), Due(mgr', saves', k),
             RoomOf(mgr', saves', j) = RoomOf(mgr', saves', k)
      PROVE  j = k
  <2>1. CASE j = i \/ k = i
    BY <1>3, <1>5, <1>7, <2>1
  <2>2. CASE j # i /\ k # i
    BY <1>1, <1>5, <1>7, <2>2 DEF DueOK
  <2>3. QED
    BY <2>1, <2>2
<1>8. ASSUME NEW j \in SaveIds, NEW k \in DOMAIN db, Due(mgr', saves', j), db[k].staked
      PROVE  db[k].room # RoomOf(mgr', saves', j)
  <2>1. CASE j = i
    <3>1. escrow[db[k].room].status = "Resolved"
      BY <1>1, <1>8 DEF RowsArePaid, PaidTo, StakesInv
    <3>2. QED
      BY <1>3, <1>4, <2>1, <3>1
  <2>2. CASE j # i
    BY <1>1, <1>5, <1>8, <2>2 DEF DueOK
  <2>3. QED
    BY <2>1, <2>2
<1>9. QED
    BY <1>6, <1>7, <1>8 DEF DueOK

(* What RowsArePaid says of one row                                        *)
RowSettled(e, row) ==
    /\ row.paid
    /\ ResolvedFor(e, row.room, IF row.played = Draw THEN Draw ELSE row.players[row.played])

(* The property, in the terms of the proof.                                *)
LEMMA RowsBySettled ==
    RowsArePaid <=>
        (ChainEnabled =>
            /\ \A k \in DOMAIN db : db[k].staked => RowSettled(escrow, db[k])
            /\ \A j, k \in DOMAIN db :
                  db[j].staked /\ db[k].staked /\ db[j].room = db[k].room => j = k)
BY DEF RowsArePaid, PaidTo, RowSettled, ResolvedFor

(* The same after a step.                                                  *)
LEMMA RowsBySettledNext ==
    RowsArePaid' <=>
        (ChainEnabled =>
            /\ \A k \in DOMAIN db' : db'[k].staked => RowSettled(escrow', db'[k])
            /\ \A j, k \in DOMAIN db' :
                  db'[j].staked /\ db'[k].staked /\ db'[j].room = db'[k].room => j = k)
BY DEF RowsArePaid, PaidTo, RowSettled, ResolvedFor

(* A row that is settled stays settled.                                    *)
LEMMA RowStays ==
    ASSUME EscrowStays, NEW row \in RowOf, RowSettled(escrow, row)
    PROVE  RowSettled(escrow', row)
<1>1. row.room \in RoomIds
    BY DEF RowOf
<1>2. QED
    BY <1>1, ResolvedKept DEF RowSettled

(* A step that writes no row keeps the property.                           *)
LEMMA OldRows ==
    ASSUME StakesInv, EscrowStays, db' = db
    PROVE  RowsArePaid'
<1>1. \A k \in DOMAIN db : db[k] \in RowOf
    BY DEF StakesInv
<1>2. RowsArePaid
    BY DEF StakesInv
<1>3. QED
    BY <1>1, <1>2, RowsBySettled, RowsBySettledNext, RowStays

(* A row is added for a save that was due.                                 *)
LEMMA NewRow ==
    ASSUME ServerInv, StakesInv, EscrowStays, [Next]_vars, NoneDue,
           NEW i \in SaveIds, ~Due(mgr', saves', i), saves[i] # None, saves[i].stage = "db",
           db' = Append(db, Row(saves[i]))
    PROVE  StakesInv'
<1> DEFINE row == Row(saves[i])
           room == RoomOf(mgr, saves, i)
           n == Len(db)
<1>1. /\ row \in RowOf /\ row.room = room
      /\ row.staked <=> Due(mgr, saves, i)
      /\ row.paid = saves[i].paid
      /\ (IF row.played = Draw THEN Draw ELSE row.players[row.played]) = WinnerUser(saves[i])
    BY RowTyped DEF Due
<1>2. db \in Seq(RowOf) /\ db' = Append(db, row) /\ room \in RoomIds
    BY RoomOfTyped DEF StakesInv
<1> HIDE DEF row, room
<1>3. /\ db' \in Seq(RowOf) /\ n \in Nat /\ DOMAIN db = 1..n /\ DOMAIN db' = 1..(n + 1)
      /\ db'[n + 1] = row /\ \A k \in 1..n : db'[k] = db[k] /\ db[k] \in RowOf
    BY <1>1, <1>2
<1> HIDE DEF n
<1>4. ASSUME ChainEnabled, Due(mgr, saves, i)
      PROVE  /\ RowSettled(escrow', row)
             /\ \A k \in 1..n : db[k].staked => db[k].room # room
  <2>1. /\ saves[i].paid /\ ResolvedFor(escrow, room, WinnerUser(saves[i]))
        /\ \A k \in 1..n : db[k].staked => db[k].room # room
    BY <1>3, <1>4 DEF StakesInv, DueOK, room
  <2>2. RowSettled(escrow, row)
    BY <1>1, <2>1 DEF RowSettled
  <2>3. QED
    BY <1>1, <2>1, <2>2, RowStays
<1>5. ASSUME ChainEnabled PROVE DueOK'
  <2>1. DueOK
    BY <1>5 DEF StakesInv
  <2>2. ASSUME NEW j \in SaveIds, NEW k \in DOMAIN db', Due(mgr', saves', j), db'[k].staked
        PROVE  db'[k].room # RoomOf(mgr', saves', j)
    <3>1. /\ Due(mgr, saves, j) /\ j # i
          /\ RoomOf(mgr', saves', j) = RoomOf(mgr, saves, j)
      BY <1>5, <2>1, <2>2, DueBefore
    <3>2. CASE k \in 1..n
      BY <1>3, <2>1, <2>2, <3>1, <3>2 DEF DueOK
    <3>3. CASE k = n + 1
      <4>1. Due(mgr, saves, i) /\ db'[k].room = room
        BY <1>1, <1>3, <2>2, <3>3
      <4>2. RoomOf(mgr, saves, j) # room
        BY <2>1, <3>1, <4>1 DEF DueOK, room
      <4>3. QED
        BY <3>1, <4>1, <4>2
    <3>4. QED
      BY <1>3, <3>2, <3>3
  <2>3. ASSUME NEW j \in SaveIds, Due(mgr', saves', j)
        PROVE  /\ saves'[j].paid
               /\ ResolvedFor(escrow', RoomOf(mgr', saves', j), WinnerUser(saves'[j]))
    BY <1>5, <2>1, <2>3, DueBefore
  <2>4. ASSUME NEW j \in SaveIds, NEW k \in SaveIds, Due(mgr', saves', j), Due(mgr', saves', k),
               RoomOf(mgr', saves', j) = RoomOf(mgr', saves', k)
        PROVE  j = k
    BY <1>5, <2>1, <2>4, DueBefore DEF DueOK
  <2>5. QED
    BY <2>2, <2>3, <2>4 DEF DueOK
<1>6. RowsArePaid'
  <2> SUFFICES ASSUME ChainEnabled
               PROVE  /\ \A k \in DOMAIN db' : db'[k].staked => RowSettled(escrow', db'[k])
                      /\ \A j, k \in DOMAIN db' :
                            db'[j].staked /\ db'[k].staked /\ db'[j].room = db'[k].room => j = k
    BY RowsBySettledNext
  <2>1. /\ \A k \in DOMAIN db : db[k].staked => RowSettled(escrow, db[k])
        /\ \A j, k \in DOMAIN db :
              db[j].staked /\ db[k].staked /\ db[j].room = db[k].room => j = k
    BY RowsBySettled DEF StakesInv
  <2>2. ASSUME NEW k \in DOMAIN db', db'[k].staked PROVE RowSettled(escrow', db'[k])
    <3>1. CASE k \in 1..n
      BY <1>3, <2>1, <2>2, <3>1, RowStays
    <3>2. CASE k = n + 1
      BY <1>1, <1>3, <1>4, <2>2, <3>2
    <3>3. QED
      BY <1>3, <3>1, <3>2
  <2>3. ASSUME NEW j \in DOMAIN db', NEW k \in DOMAIN db', db'[j].staked, db'[k].staked,
               db'[j].room = db'[k].room
        PROVE  j = k
    <3>1. CASE j \in 1..n /\ k \in 1..n
      BY <1>3, <2>1, <2>3, <3>1
    <3>2. CASE j = n + 1 /\ k \in 1..n
      BY <1>1, <1>3, <1>4, <2>3, <3>2
    <3>3. CASE k = n + 1 /\ j \in 1..n
      BY <1>1, <1>3, <1>4, <2>3, <3>3
    <3>4. QED
      BY <1>3, <3>1, <3>2, <3>3
  <2>4. QED
    BY <2>2, <2>3
<1>7. QED
    BY <1>3, <1>5, <1>6 DEF StakesInv, EscrowStays

(* The invariant of the stakes holds initially.                            *)
LEMMA StakesInit ==
    ASSUME Init PROVE StakesInv
<1>1. escrow \in [RoomIds -> EscrowOf] /\ db = <<>>
    BY DEF Init, Chain!Init, Chain!NoEscrow, EscrowOf
<1>2. ~\E i \in SaveIds : Due(mgr, saves, i)
    BY DEF Init, Due
<1>3. QED
    BY <1>1, <1>2 DEF StakesInv, DueOK, RowsArePaid

(* Every step keeps it.                                                    *)
LEMMA StakesNext ==
    ASSUME ServerInv, StakesInv, [Next]_vars PROVE StakesInv'
<1>1. EscrowStays
    BY EscrowStep DEF StakesInv
<1>2. CASE NoneDue /\ db' = db
  <2>1. ChainEnabled => DueOK'
    BY <1>1, <1>2, NoneDueOK DEF StakesInv
  <2>2. QED
    BY <1>1, <1>2, <2>1, OldRows DEF StakesInv, EscrowStays
<1>3. ASSUME NEW i \in SaveIds, Submits(i), db' = db PROVE StakesInv'
  <2>1. ChainEnabled => DueOK'
    BY <1>1, <1>3, SubmitsOK
  <2>2. QED
    BY <1>1, <1>3, <2>1, OldRows DEF StakesInv, EscrowStays
<1>4. ASSUME NEW i \in SaveIds, NoneDue, ~Due(mgr', saves', i),
             saves[i] # None, saves[i].stage = "db", db' = Append(db, Row(saves[i]))
      PROVE  StakesInv'
    BY <1>1, <1>4, NewRow
<1>5. QED
    BY <1>2, <1>3, <1>4, DueStep

-----------------------------------------------------------------------------
(***************************************************************************)
(* The score that a row is written from                                    *)
(***************************************************************************)
(* The games a room object may have after its next step: the one it has,   *)
(* and the one its chain goes on with.                                     *)
Held(room) == IF room.phase = "core" THEN {room.game, room.before} ELSE {room.game}

(* They are of the first g games, and one game has one board.              *)
GamesHeld(room, g) ==
    \A x \in Held(room) : x.id \in 0..g /\ \A y \in Held(room) : x.id = y.id => x = y

(* While a room has the game of a save, its board is the one that was full.*)
ScoreKept(room, save) ==
    \A x \in Held(room) : x.id = save.game => Full(x.board) /\ x.board.score = save.score

(* The winner that was read from the game of a save is the one it has.     *)
WinnerRead(save) ==
    save.stage = "db" /\ save.read = save.game => save.winner = Winner(save.score)

ScoresInv ==
    /\ \A o \in Objs : mgr.heap[o] # None => GamesHeld(mgr.heap[o], games)
    /\ \A i \in SaveIds : saves[i] # None =>
          /\ saves[i].game \in 0..games
          /\ ScoreKept(mgr.heap[saves[i].obj], saves[i])
          /\ WinnerRead(saves[i])
    /\ \A k \in DOMAIN db : db[k].read = db[k].game => db[k].winner = db[k].played

(* A save that starts, of the full board its room has                      *)
StartsSave(save, room) ==
    /\ save.game = room.game.id /\ Full(room.game.board)
    /\ save.score = room.game.board.score /\ WinnerRead(save)

(* A save goes on to the database with the score its room has by then.     *)
ReadsScore(i) ==
    /\ mgr' = mgr /\ saves[i] # None
    /\ saves'[i].obj = saves[i].obj /\ saves'[i].game = saves[i].game
    /\ saves'[i].score = saves[i].score
    /\ saves'[i].read = mgr.heap[saves[i].obj].game.id
    /\ saves'[i].winner = Winner(mgr.heap[saves[i].obj].game.board.score)

(* What a step may make of the saves                                       *)
SavesGoOn ==
    \A i \in SaveIds : saves'[i] # None =>
        \/ saves'[i] = saves[i]
        \/ StartsSave(saves'[i], mgr'.heap[saves'[i].obj])
        \/ ReadsScore(i)

(* A step that leaves the saves alone, or ends one                         *)
LEMMA EndedGoOn ==
    ASSUME saves \in [SaveIds -> SaveInFlight \union {None}], NEW i,
           saves' = saves \/ saves' = [saves EXCEPT ![i] = None]
    PROVE  SavesGoOn
BY DEF SavesGoOn

(* A save that starts takes its score from the full board of its room.     *)
LEMMA TriedGoOn ==
    ASSUME saves \in [SaveIds -> SaveInFlight \union {None}],
           SoundMgr(mgr'), SavesOK(mgr', saves'),
           NEW m, NEW r, NEW owner, TrySave(m, r, owner)
    PROVE  SavesGoOn
<1>1. CASE saves' = saves
    BY <1>1 DEF SavesGoOn
<1>2. ASSUME CanSave(m, r), mgr' = [m EXCEPT !.heap[m.rooms[r]].saved = TRUE],
             NEW j, saves' = [saves EXCEPT ![j] = NewSave(m, r, owner)]
      PROVE  SavesGoOn
  <2> SUFFICES ASSUME NEW i \in SaveIds, saves'[i] # None, saves'[i] # saves[i]
               PROVE  StartsSave(saves'[i], mgr'.heap[saves'[i].obj])
    BY DEF SavesGoOn
  <2> DEFINE save == NewSave(m, r, owner)
             o == m.rooms[r]
             a == m.heap[o]
             x == TRUE
             c == [a EXCEPT !.saved = x]
  <2>1. saves' = [saves EXCEPT ![j] = save]
    BY <1>2
  <2>2. /\ save.obj = o /\ save.game = a.game.id /\ save.score = a.game.board.score
        /\ WinnerRead(save)
    BY DEF NewSave, WinnerRead
  <2>3. Full(a.game.board)
    BY <1>2 DEF CanSave
  <2> HIDE DEF save
  <2>4. saves'[i] = save
    BY <2>1
  <2>5. o \in Objs /\ mgr'.heap[o] \in RoomRec /\ mgr' \in Managers
    BY <2>2, <2>4 DEF SavesOK, SaveInFlight, SoundMgr, SoundRoom
  <2>6. mgr'.heap[o] = c
    <3> DEFINE h == [m.heap EXCEPT ![o] = c]
    <3>1. mgr' = [m EXCEPT !.heap = h]
      BY <1>2
    <3> HIDE DEF c
    <3>2. DOMAIN mgr' = DOMAIN m
      BY <3>1
    <3>3. "heap" \in DOMAIN mgr' /\ DOMAIN mgr'.heap = Objs
      BY <2>5 DEF Managers
    <3> HIDE DEF h
    <3>4. mgr'.heap = h
      BY <3>1, <3>2, <3>3
    <3>5. DOMAIN m.heap = Objs
      BY <3>3, <3>4 DEF h
    <3>6. QED
      BY <2>5, <3>4, <3>5 DEF h
  <2>7. mgr'.heap[o].game = a.game
    <3> HIDE DEF a, x
    <3>1. DOMAIN c = DOMAIN a
      OBVIOUS
    <3>2. "game" \in DOMAIN c
      BY <2>5, <2>6 DEF RoomRec
    <3>3. QED
      BY <2>6, <3>1, <3>2
  <2>8. QED
    BY <2>2, <2>3, <2>4, <2>7 DEF StartsSave
<1>3. QED
    BY <1>1, <1>2 DEF TrySave

(* So it is when somebody enters a room.                                   *)
LEMMA EntersGoOn ==
    ASSUME saves \in [SaveIds -> SaveInFlight \union {None}],
           SoundMgr(mgr'), SavesOK(mgr', saves'),
           NEW m, NEW s, NEW r, NEW stake, EnterRoom(m, s, r, stake)
    PROVE  SavesGoOn
<1>1. CASE saves' = saves
    BY <1>1 DEF SavesGoOn
<1>2. ASSUME NEW k, NEW owner, TrySave(k, r, owner) PROVE SavesGoOn
    BY <1>2, TriedGoOn
<1>3. CASE saves' # saves
  <2>1. \E k : TrySave(k, r, None)
    BY <1>3 DEF EnterRoom
  <2>2. QED
    BY <1>2, <2>1
<1>4. QED
    BY <1>1, <1>3

(* A save goes on with what its room has when the chain answers.           *)
LEMMA AnsweredGoOn ==
    ASSUME ServerInv, NEW i \in SaveIds, saves[i] # None, NEW submitted,
           ChainAnswered(i, submitted)
    PROVE  SavesGoOn
<1>1. saves \in [SaveIds -> SaveInFlight \union {None}] /\ saves[i] \in SaveInFlight
    BY DEF ServerInv, SavesOK
<1>2. CASE FailSave(i)
    BY <1>1, <1>2, EndedGoOn DEF FailSave
<1> DEFINE w == Winner(mgr.heap[saves[i].obj].game.board.score)
           n == mgr.heap[saves[i].obj].game.id
           save == [saves[i] EXCEPT !.stage = "db", !.paid = submitted, !.winner = w,
                                    !.read = n]
<1>3. CASE /\ saves' = [saves EXCEPT ![i].stage = "db", ![i].paid = submitted, ![i].winner = w,
                                     ![i].read = n]
           /\ mgr' = mgr
  <2> HIDE DEF w, n
  <2>1. saves' = [saves EXCEPT ![i] = save]
    BY <1>1, <1>3
  <2>2. /\ save.obj = saves[i].obj /\ save.score = saves[i].score
        /\ save.game = saves[i].game /\ save.winner = w /\ save.read = n
    BY <1>1 DEF SaveInFlight
  <2> HIDE DEF save
  <2>3. saves'[i] = save /\ \A j \in SaveIds : j # i => saves'[j] = saves[j]
    BY <1>1, <2>1
  <2>4. ReadsScore(i)
    <3>1. /\ mgr' = mgr /\ saves'[i].obj = saves[i].obj /\ saves'[i].game = saves[i].game
          /\ saves'[i].score = saves[i].score /\ saves'[i].read = n /\ saves'[i].winner = w
      BY <1>3, <2>2, <2>3
    <3>2. QED
      BY ONLY saves[i] # None, <3>1 DEF ReadsScore, w, n
  <2>5. QED
    BY <2>3, <2>4 DEF SavesGoOn
<1>4. QED
    BY <1>2, <1>3 DEF ChainAnswered

(* A step that leaves the saves alone                                      *)
LEMMA SameGoOn ==
    ASSUME saves' = saves PROVE SavesGoOn
BY DEF SavesGoOn

(* A packet starts a save from a full board, or none.                      *)
LEMMA PacketsGoOn ==
    ASSUME ServerInv, SoundMgr(mgr'), SavesOK(mgr', saves'),
           NEW s \in Sockets, NEW r \in RoomIds, Packet(s, r)
    PROVE  SavesGoOn
<1>1. saves \in [SaveIds -> SaveInFlight \union {None}]
    BY DEF ServerInv, SavesOK
<1>2. CASE \E stake \in Stakes : JoinRoom(s, r, stake)
    BY <1>1, <1>2, EntersGoOn, SameGoOn DEF JoinRoom
<1>3. CASE SyncState(s, r)
    BY <1>1, <1>3, TriedGoOn DEF SyncState
<1>4. CASE \/ \E a \in Actions : MakeMove(s, r, a)
           \/ ResetGame(s, r)
    BY <1>4, SameGoOn DEF MakeMove, ResetGame, Enqueue
<1>5. CASE \/ RematchRequest(s, r)
           \/ RematchAccept(s, r)
           \/ RematchDecline(s, r)
    BY <1>5, SameGoOn DEF RematchRequest, RematchAccept, RematchDecline
<1>6. QED
    BY <1>2, <1>3, <1>4, <1>5 DEF Packet

(* So does a continuation.                                                 *)
LEMMA ResumptionGoOn ==
    ASSUME ServerInv, SoundMgr(mgr'), SavesOK(mgr', saves'), Resumption
    PROVE  SavesGoOn
<1>1. saves \in [SaveIds -> SaveInFlight \union {None}]
    BY DEF ServerInv, SavesOK
<1>2. ASSUME NEW j \in joins, JoinResumes(j) PROVE SavesGoOn
  <2>1. \E m : EnterRoom(m, j.socket, j.room, j.stake)
    BY <1>2 DEF JoinResumes
  <2>2. QED
    BY <1>1, <2>1, EntersGoOn
<1>3. CASE \E x \in resets : RematchResumes(x)
    BY <1>3, SameGoOn DEF RematchResumes
<1>4. ASSUME NEW o \in Objs, FinishMove(o) PROVE SavesGoOn
  <2>1. saves' = saves \/ \E m, r : TrySave(m, r, o)
    BY <1>4 DEF FinishMove
  <2>2. QED
    BY <1>1, <2>1, TriedGoOn, SameGoOn
<1>5. CASE \E o \in Objs : StartOp(o) \/ FinishReset(o)
    BY <1>5, SameGoOn DEF StartOp, FinishReset
<1>6. QED
    BY <1>2, <1>3, <1>4, <1>5 DEF Resumption

(* So does the settlement, which reads scores from the rooms.              *)
LEMMA SettlingGoOn ==
    ASSUME ServerInv, NEW i \in SaveIds, SubmitResult(i) \/ SaveResult(i)
    PROVE  SavesGoOn
<1>1. saves \in [SaveIds -> SaveInFlight \union {None}]
    BY DEF ServerInv, SavesOK
<1>2. CASE SubmitResult(i)
  <2>1. saves[i] # None
    BY <1>2 DEF SubmitResult
  <2>2. \E submitted \in BOOLEAN : ChainAnswered(i, submitted)
    BY <1>2 DEF SubmitResult, NotSubmitted, Submitted, SubmittedLate
  <2>3. QED
    BY <2>1, <2>2, AnsweredGoOn
<1>3. CASE SaveResult(i)
  <2>1. saves' = [saves EXCEPT ![i] = None]
    BY <1>3 DEF SaveResult, Saved, SavedUnawares, NotSaved, FailSave
  <2>2. QED
    BY <1>1, <2>1, EndedGoOn
<1>4. QED
    BY <1>2, <1>3

(* Every step starts saves from full boards, and reads scores from the     *)
(* rooms.                                                                  *)
LEMMA GoOnStep ==
    ASSUME ServerInv, [Next]_vars PROVE SavesGoOn
<1>1. SoundMgr(mgr') /\ SavesOK(mgr', saves')
    BY Steps DEF ServerStep, RoomsStep
<1>2. CASE \E s \in Sockets, r \in RoomIds : Packet(s, r)
    BY <1>1, <1>2, PacketsGoOn
<1>3. CASE Resumption
    BY <1>1, <1>3, ResumptionGoOn
<1>4. CASE \/ \E s \in Sockets : Connect(s) \/ Disconnect(s)
           \/ LoadCore
           \/ Sweep
           \/ \E o \in Objs, u \in Users : Expire(o, u)
           \/ \E o \in Objs, a \in Actions : Forget(o, a)
    BY <1>4, SameGoOn DEF Connect, Disconnect, LoadCore, Sweep, Expire, Forget
<1>5. CASE \/ \E r \in RoomIds, u \in Users : Stake(r, u)
           \/ \E r \in RoomIds : ForceDraw(r)
           \/ \E tx \in mempool : Mine(tx)
           \/ UNCHANGED vars
    BY <1>5, SameGoOn DEF Stake, ForceDraw, Mine, vars
<1>6. CASE \E i \in SaveIds : SubmitResult(i) \/ SaveResult(i)
    BY <1>6, SettlingGoOn
<1>7. QED
    BY <1>2, <1>3, <1>4, <1>5, <1>6 DEF Next

(* What a step makes of the games that a room holds                        *)
HeldStep(o) ==
    LET a == mgr.heap[o]
        b == mgr'.heap[o]
    IN  \/ a # None /\ Held(b) \subseteq Held(a)
        \/ /\ a # None /\ a.before \in Held(a) /\ ~Full(a.before.board)
           /\ Held(b) = {b.game} /\ b.game.id = a.before.id
        \/ /\ a # None \/ o \in FreeObjs
           /\ games' = games + 1 /\ b.game.id = games + 1
           /\ \A x \in Held(b) : x = b.game \/ (a # None /\ x \in Held(a))

(* A room goes on with its games, makes a move in one of them, which was   *)
(* not over, or gets a new one.                                            *)
LEMMA HeldSteps ==
    ASSUME ServerInv, [Next]_vars, NEW o \in Objs, mgr'.heap[o] # None
    PROVE  HeldStep(o)
<1> DEFINE a == mgr.heap[o]
           b == mgr'.heap[o]
<1>1. ObjectStep(o)
    BY ObjectSteps
<1>2. CASE a # None /\ SameGame(a, b)
  <2>1. Held(b) = Held(a)
    BY <1>2 DEF SameGame, Held
  <2>2. QED
    BY <1>2, <2>1 DEF HeldStep
<1>3. CASE a # None /\ b.phase = "start" /\ b.game = a.game
  <2>1. Held(b) \subseteq Held(a)
    BY <1>3 DEF Held
  <2>2. QED
    BY <1>3, <2>1 DEF HeldStep
<1>4. CASE a # None /\ b.phase = a.phase /\ b.game = a.game /\ b.before = a.before
  <2>1. Held(b) = Held(a)
    BY <1>4 DEF Held
  <2>2. QED
    BY <1>4, <2>1 DEF HeldStep
<1>5. CASE a # None /\ b.game = a.game /\ b.phase = "core" /\ b.before = a.game
  <2>1. Held(b) \subseteq Held(a)
    BY <1>5 DEF Held
  <2>2. QED
    BY <1>5, <2>1 DEF HeldStep
<1>6. CASE /\ a # None /\ games' = games + 1 /\ b.game = NewGame(games + 1)
           /\ b.phase = "start" \/ (b.phase = a.phase /\ b.before = a.before)
  <2>1. b.game.id = games + 1
    BY <1>6 DEF NewGame
  <2>2. \A x \in Held(b) : x = b.game \/ x \in Held(a)
    BY <1>6 DEF Held
  <2>3. QED
    BY <1>6, <2>1, <2>2 DEF HeldStep
<1>7. CASE /\ o \in FreeObjs /\ games' = games + 1 /\ b.game = NewGame(games + 1)
           /\ b.phase = "start"
  <2>1. b.game.id = games + 1 /\ Held(b) = {b.game}
    BY <1>7 DEF NewGame, Held
  <2>2. QED
    BY <1>7, <2>1 DEF HeldStep
<1>8. CASE MoveStep(o)
  <2>1. a # None /\ a.phase = "core" /\ SoundRoom(a)
    BY <1>8 DEF MoveStep, ServerInv, SoundMgr
  <2>2. a.before \in GameOf /\ a.before \in Held(a)
    BY <2>1 DEF SoundRoom, Held
  <2>3. CASE MoveTaken(a, b, Head(a.queue).action)
    <3>1. /\ \E e \in BoardEdges : e \notin a.before.board.taken
          /\ \E c : b.game = [a.before EXCEPT !.board = c]
      BY <2>3 DEF MoveTaken
    <3>2. ~Full(a.before.board) /\ b.game.id = a.before.id
      BY <2>2, <3>1 DEF Full, GameOf
    <3>3. Held(b) = {b.game}
      BY <2>3 DEF MoveTaken, Held
    <3>4. QED
      BY <2>1, <2>2, <3>2, <3>3 DEF HeldStep
  <2>4. QED
    BY <1>3, <1>8, <2>1, <2>3 DEF MoveStep
<1>9. QED
    BY <1>1, <1>2, <1>3, <1>4, <1>5, <1>6, <1>7, <1>8 DEF ObjectStep

(* The invariant of the scores holds initially.                            *)
LEMMA ScoresInit ==
    ASSUME Init PROVE ScoresInv
BY DEF Init, ScoresInv

(* A step leaves the games of a room distinct.                             *)
LEMMA HeldNext ==
    ASSUME ServerInv, ScoresInv, games' \in {games, games + 1},
           NEW o \in Objs, mgr'.heap[o] # None, HeldStep(o)
    PROVE  GamesHeld(mgr'.heap[o], games')
<1> DEFINE a == mgr.heap[o]
           b == mgr'.heap[o]
<1>1. /\ games \in Nat /\ \A z \in 0..games : z \in 0..games' /\ z # games + 1
      /\ games' = games + 1 => games + 1 \in 0..games'
    BY DEF ServerInv
<1>2. a # None => GamesHeld(a, games)
    BY DEF ScoresInv
<1>3. CASE a # None /\ Held(b) \subseteq Held(a)
    BY <1>1, <1>2, <1>3 DEF GamesHeld
<1>4. CASE /\ a # None /\ a.before \in Held(a)
           /\ Held(b) = {b.game} /\ b.game.id = a.before.id
    BY <1>1, <1>2, <1>4 DEF GamesHeld
<1>5. CASE /\ games' = games + 1 /\ b.game.id = games + 1
           /\ \A x \in Held(b) : x = b.game \/ (a # None /\ x \in Held(a))
    BY <1>1, <1>2, <1>5 DEF GamesHeld
<1>6. QED
    BY <1>3, <1>4, <1>5 DEF HeldStep

(* A board that a save is of stays full, as it is.                         *)
LEMMA ScoreNext ==
    ASSUME ServerInv, ScoresInv, NEW i \in SaveIds, saves[i] # None,
           HeldStep(saves[i].obj)
    PROVE  ScoreKept(mgr'.heap[saves[i].obj], saves[i])
<1> DEFINE save == saves[i]
           a == mgr.heap[save.obj]
           b == mgr'.heap[save.obj]
<1>1. save.obj \in Objs /\ a # None /\ save.obj \notin FreeObjs
    BY DEF ServerInv, SavesOK, SaveInFlight, FreeObjs, InUse
<1>2. /\ games \in Nat /\ save.game \in 0..games /\ save.game # games + 1
      /\ ScoreKept(a, save)
    BY DEF ServerInv, ScoresInv
<1>3. CASE Held(b) \subseteq Held(a)
    BY <1>2, <1>3 DEF ScoreKept
<1>4. CASE /\ a.before \in Held(a) /\ ~Full(a.before.board)
           /\ Held(b) = {b.game} /\ b.game.id = a.before.id
    BY <1>2, <1>4 DEF ScoreKept
<1>5. CASE /\ b.game.id = games + 1
           /\ \A x \in Held(b) : x = b.game \/ (a # None /\ x \in Held(a))
    BY <1>2, <1>5 DEF ScoreKept
<1>6. QED
    BY <1>3, <1>4, <1>5 DEF HeldStep

(* Every step keeps what a row is written from.                            *)
LEMMA ScoresNext ==
    ASSUME ServerInv, StakesInv, ScoresInv, [Next]_vars PROVE ScoresInv'
<1>1. /\ games \in Nat /\ games' \in {games, games + 1}
      /\ SavesOK(mgr', saves') /\ Stays(mgr, mgr')
  <2>1. GameStep /\ RoomsStep
    BY Steps DEF ServerStep
  <2>2. games' = games \/ games' = games + 1
    BY <2>1 DEF GameStep, Forgets, Queues, Begins, StartsOver, Rematches, OpenStep, history
  <2>3. QED
    BY <2>1, <2>2 DEF ServerInv, RoomsStep
<1>2. \A o \in Objs : mgr'.heap[o] # None => GamesHeld(mgr'.heap[o], games')
    BY <1>1, HeldSteps, HeldNext
<1>3. ASSUME NEW i \in SaveIds, saves'[i] # None
      PROVE  /\ saves'[i].game \in 0..games'
             /\ ScoreKept(mgr'.heap[saves'[i].obj], saves'[i])
             /\ WinnerRead(saves'[i])
  <2> DEFINE room == mgr'.heap[saves'[i].obj]
  <2>1. saves'[i].obj \in Objs /\ room # None /\ GamesHeld(room, games')
    BY <1>1, <1>2, <1>3 DEF SavesOK, SaveInFlight
  <2>2. room.game \in Held(room)
    BY DEF Held
  <2>3. CASE saves'[i] = saves[i]
    <3>1. saves[i].game \in 0..games /\ WinnerRead(saves[i])
      BY <1>3, <2>3 DEF ScoresInv
    <3>2. ScoreKept(room, saves[i])
      BY <1>3, <2>1, <2>3, HeldSteps, ScoreNext
    <3>3. QED
      BY <1>1, <2>3, <3>1, <3>2
  <2>4. CASE StartsSave(saves'[i], room)
    BY <2>1, <2>2, <2>4 DEF StartsSave, GamesHeld, ScoreKept
  <2>5. CASE ReadsScore(i)
    <3>1. saves[i].game \in 0..games /\ ScoreKept(mgr.heap[saves[i].obj], saves[i])
      BY <2>5 DEF ScoresInv, ReadsScore
    <3>2. room = mgr.heap[saves[i].obj] /\ ScoreKept(room, saves'[i])
      BY <2>5, <3>1 DEF ReadsScore, ScoreKept
    <3>3. WinnerRead(saves'[i])
      BY <2>2, <2>5, <3>2 DEF ReadsScore, ScoreKept, WinnerRead
    <3>4. QED
      BY <1>1, <2>5, <3>1, <3>2, <3>3 DEF ReadsScore
  <2>6. QED
    BY <1>3, <2>3, <2>4, <2>5, GoOnStep DEF SavesGoOn
<1>4. \A k \in DOMAIN db' : db'[k].read = db'[k].game => db'[k].winner = db'[k].played
  <2>1. \A k \in DOMAIN db : db[k].read = db[k].game => db[k].winner = db[k].played
    BY DEF ScoresInv
  <2>2. ASSUME NEW i \in SaveIds, saves[i] # None, saves[i].stage = "db",
               db' = Append(db, Row(saves[i])), NEW k \in DOMAIN db'
        PROVE  db'[k].read = db'[k].game => db'[k].winner = db'[k].played
    <3> DEFINE row == Row(saves[i])
    <3>1. /\ row.read = saves[i].read /\ row.game = saves[i].game
          /\ row.winner = saves[i].winner /\ row.played = Winner(saves[i].score)
      BY DEF Row
    <3>2. row.read = row.game => row.winner = row.played
      BY <2>2, <3>1 DEF ScoresInv, WinnerRead
    <3>3. db \in Seq(RowOf) /\ row \in RowOf /\ db' = Append(db, row)
      BY <2>2, RowTyped DEF StakesInv
    <3> HIDE DEF row
    <3>4. (k \in DOMAIN db /\ db'[k] = db[k]) \/ db'[k] = row
      BY <2>2, <3>3
    <3>5. QED
      BY <2>1, <3>2, <3>4
  <2>3. QED
    BY <2>1, <2>2, DueStep
<1>5. QED
    BY <1>2, <1>3, <1>4 DEF ScoresInv

(* A staked room has one row at most, written when its escrow had been     *)
(* resolved for the winner of the saved game; and the row names that       *)
(* winner, unless its score was read from a later game.                    *)
THEOREM RowsSettled == Spec => []RowsAreSettled
<1>1. Init => StakesInv /\ ScoresInv
    BY StakesInit, ScoresInit
<1>2. ServerInv /\ StakesInv /\ ScoresInv /\ [Next]_vars => StakesInv' /\ ScoresInv'
    BY StakesNext, ScoresNext
<1>3. StakesInv /\ ScoresInv => RowsAreSettled
    BY DEF StakesInv, ScoresInv, RowsArePaid, RowsAreSettled
<1>4. QED
    BY <1>1, <1>2, <1>3, ServerInvariance, PTL DEF Spec

-----------------------------------------------------------------------------
(***************************************************************************)
(* The rows of games                                                       *)
(***************************************************************************)
(* A row of game n is there, or on its way.                                *)
IsRecorded(n, flying, rows) ==
    \/ \E i \in SaveIds : flying[i] # None /\ flying[i].game = n
    \/ \E k \in DOMAIN rows : rows[k].game = n

(* An id is of one game, of one room object, and of the first g.           *)
GamesApart(m, g) ==
    /\ \A o \in Objs : m.heap[o] # None => \A x \in Held(m.heap[o]) : x.id \in 0..g
    /\ \A o, p \in Objs : m.heap[o] # None /\ m.heap[p] # None =>
          \A x \in Held(m.heap[o]), y \in Held(m.heap[p]) :
              x.id = y.id => o = p /\ x = y

(* A game is recorded once.                                                *)
RecordsApart(flying, rows, g) ==
    /\ rows \in Seq(RowOf)
    /\ \A n : IsRecorded(n, flying, rows) => n \in 0..g
    /\ \A i, j \in SaveIds :
          flying[i] # None /\ flying[j] # None /\ flying[i].game = flying[j].game => i = j
    /\ \A j, k \in DOMAIN rows : rows[j].game = rows[k].game => j = k
    /\ \A i \in SaveIds, k \in DOMAIN rows : flying[i] # None => flying[i].game # rows[k].game

(* A room knows when its game is recorded, and that game is over.          *)
RecordKnown(room, flying, rows) ==
    /\ \A x \in Held(room) : IsRecorded(x.id, flying, rows) => Full(x.board)
    /\ IsRecorded(room.game.id, flying, rows) => room.saved

RecordsKnown(m, flying, rows) ==
    \A o \in Objs : m.heap[o] # None => RecordKnown(m.heap[o], flying, rows)

Records(m, flying, rows, g) ==
    GamesApart(m, g) /\ RecordsApart(flying, rows, g) /\ RecordsKnown(m, flying, rows)

(* A room object before and after a step that neither starts a game nor    *)
(* takes the mark of a saved one back                                      *)
GoesOn(a, b) ==
    /\ b.game.id = a.game.id /\ Held(b) \subseteq Held(a)
    /\ a.saved => b.saved

AllGoOn(m, n) ==
    \A o \in Objs : n.heap[o] # None => m.heap[o] # None /\ GoesOn(m.heap[o], n.heap[o])

(* A save that is new is of the game that its room has by then.            *)
NewSaves(flying, next, n) ==
    \A i \in SaveIds : next[i] # None =>
        \/ /\ flying[i] # None
           /\ next[i].obj = flying[i].obj /\ next[i].game = flying[i].game
        \/ next[i].game = n.heap[next[i].obj].game.id

(* The games in rooms that go on stay apart, and known.                    *)
LEMMA GoOnRecords ==
    ASSUME NEW m, NEW n, AllGoOn(m, n), NEW flying, NEW rows, NEW g,
           Records(m, flying, rows, g)
    PROVE  Records(n, flying, rows, g)
<1>0. \A o \in Objs : n.heap[o] # None =>
          m.heap[o] # None /\ Held(n.heap[o]) \subseteq Held(m.heap[o])
    BY DEF AllGoOn, GoesOn
<1>1. GamesApart(n, g)
  <2>1. \A o \in Objs : n.heap[o] # None => \A x \in Held(n.heap[o]) : x.id \in 0..g
    BY <1>0 DEF Records, GamesApart
  <2>2. ASSUME NEW o \in Objs, NEW p \in Objs, n.heap[o] # None, n.heap[p] # None,
               NEW x \in Held(n.heap[o]), NEW y \in Held(n.heap[p]), x.id = y.id
        PROVE  o = p /\ x = y
    <3>1. x \in Held(m.heap[o]) /\ y \in Held(m.heap[p]) /\ m.heap[o] # None /\ m.heap[p] # None
      BY <1>0, <2>2
    <3>2. QED
      BY <2>2, <3>1 DEF Records, GamesApart
  <2>3. QED
    BY <2>1, <2>2 DEF GamesApart
<1>2. RecordsKnown(n, flying, rows)
    BY DEF Records, RecordsKnown, RecordKnown, AllGoOn, GoesOn
<1>3. QED
    BY <1>1, <1>2 DEF Records

(* A room whose seats alone changed goes on.                               *)
LEMMA SeatsGoOn ==
    ASSUME NEW a, NEW b, OnlySeats(a, b) PROVE GoesOn(a, b)
BY DEF OnlySeats, GoesOn, Held

(* So does every room when sockets depart.                                 *)
LEMMA DepartsGoOn ==
    ASSUME NEW m, NEW n, Departs(m, n) PROVE AllGoOn(m, n)
BY SeatsGoOn DEF Departs, AllGoOn

(* Nothing goes on for the worse.                                          *)
LEMMA GoOnOneself ==
    ASSUME NEW m PROVE AllGoOn(m, m)
BY DEF AllGoOn, GoesOn

(* Going on twice is going on.                                             *)
LEMMA GoOnOn ==
    ASSUME NEW k, NEW m, NEW n, AllGoOn(k, m), AllGoOn(m, n) PROVE AllGoOn(k, n)
BY DEF AllGoOn, GoesOn

(* One room is written and goes on.                                        *)
LEMMA WrittenGoesOn ==
    ASSUME NEW m \in Managers, NEW o \in Objs, m.heap[o] # None, NEW b,
           GoesOn(m.heap[o], b), NEW n, Puts(m, n, o, b)
    PROVE  AllGoOn(m, n)
<1>1. n.heap[o] = b /\ \A p \in Objs : p # o => n.heap[p] = m.heap[p]
    BY DEF Managers, Puts
<1>2. QED
    BY <1>1 DEF AllGoOn, GoesOn

(* A room whose chain moves on goes on with its game.                      *)
LEMMA DequeuedGoesOn ==
    ASSUME NEW room \in RoomRec PROVE GoesOn(room, Dequeued(room))
BY DEF RoomRec, Dequeued, GoesOn, Held

(* So does one that begins an operation on it.                             *)
LEMMA StartedGoesOn ==
    ASSUME NEW room \in RoomRec
    PROVE  GoesOn(room, [room EXCEPT !.phase = "core", !.before = room.game])
BY DEF RoomRec, GoesOn, Held

(* A save that starts is of a game that was not recorded.                  *)
LEMMA TriedRecords ==
    ASSUME NEW m, SoundMgr(m), SavesOK(m, saves), NEW r \in RoomIds, NEW owner, NEW g,
           Records(m, saves, db, g), TrySave(m, r, owner)
    PROVE  Records(mgr', saves', db, g) /\ NewSaves(saves, saves', mgr')
<1>1. CASE ~CanSave(m, r)
    BY <1>1 DEF TrySave, NewSaves
<1>2. CASE CanSave(m, r)
  <2> DEFINE o == m.rooms[r]
             a == m.heap[o]
             x == TRUE
             n == [m EXCEPT !.heap[o].saved = x]
             k == Min({i \in SaveIds : saves[i] = None})
             save == NewSave(m, r, owner)
             id == a.game.id
  <2>1. /\ o # None /\ mgr' = n /\ saves' = [saves EXCEPT ![k] = save]
        /\ {i \in SaveIds : saves[i] = None} # {} /\ ~a.saved /\ Full(a.game.board)
    BY <1>2 DEF TrySave, CanSave
  <2>2. o \in Objs /\ a # None /\ a \in RoomRec
    BY <2>1 DEF SoundMgr, Managers, SoundRoom
  <2>3. x \in BOOLEAN
    OBVIOUS
  <2>18. x
    OBVIOUS
  <2>4. k \in SaveIds /\ saves[k] = None
    BY <2>1, LeastSave
  <2>5. save.game = id /\ save.obj = o
    BY DEF NewSave
  <2> HIDE DEF x, k, save
  <2>6. SoundMgr(n) /\ n.heap[o] = [a EXCEPT !.saved = x]
    BY <2>2, <2>3, MarkSound
  <2>7. n.heap[o].game = a.game /\ Held(n.heap[o]) = Held(a) /\ n.heap[o].saved = x
    <3>1. /\ n.heap[o].game = a.game /\ n.heap[o].saved = x
          /\ n.heap[o].phase = a.phase /\ n.heap[o].before = a.before
      BY <2>2, <2>6, <2>3 DEF RoomRec
    <3>2. QED
      BY <3>1 DEF Held
  <2>19. n.heap[o].saved
    BY <2>7, <2>18
  <2>8. \A p \in Objs : p # o => n.heap[p] = m.heap[p]
    BY <2>2 DEF SoundMgr, Managers
  <2> HIDE DEF n
  <2>9. /\ \A i \in SaveIds : i # k => saves'[i] = saves[i]
        /\ saves'[k] = save
    BY <2>1, <2>4 DEF SavesOK
  <2>10. ~IsRecorded(id, saves, db)
    BY <2>1, <2>2 DEF Records, RecordsKnown, RecordKnown
  <2>11. \A z : IsRecorded(z, saves', db) => z = id \/ IsRecorded(z, saves, db)
    BY <2>4, <2>5, <2>9 DEF IsRecorded
  <2>12. a.game \in Held(a) /\ id \in 0..g
    BY <2>2 DEF Held, Records, GamesApart
  <2>13. AllGoOn(m, n)
    BY <2>2, <2>7, <2>19, <2>8 DEF AllGoOn, GoesOn
  <2>14. GamesApart(n, g)
    BY <2>13, GoOnRecords DEF Records
  <2>15. RecordsApart(saves', db, g)
    <3>1. \A i \in SaveIds : saves[i] # None => saves[i].game # id
      BY <2>10 DEF IsRecorded
    <3>2. \A j \in DOMAIN db : db[j].game # id
      BY <2>10 DEF IsRecorded
    <3>3. QED
      BY <2>5, <2>9, <2>11, <2>12, <3>1, <3>2 DEF Records, RecordsApart
  <2>16. ASSUME NEW p \in Objs, n.heap[p] # None PROVE RecordKnown(n.heap[p], saves', db)
    <3>1. m.heap[p] # None /\ RecordKnown(m.heap[p], saves, db)
      BY <2>2, <2>8, <2>16 DEF Records, RecordsKnown
    <3>2. CASE p = o
      <4>1. \A y \in Held(a) : y.id = id => y = a.game
        BY <2>2, <2>12 DEF Records, GamesApart
      <4>2. QED
        BY <2>1, <2>7, <2>11, <2>19, <3>1, <3>2, <4>1 DEF RecordKnown
    <3>3. CASE p # o
      <4>1. \A y \in Held(m.heap[p]) : y.id # id
        BY <2>2, <2>12, <3>1, <3>3 DEF Records, GamesApart
      <4>2. m.heap[p].game \in Held(m.heap[p])
        BY DEF Held
      <4>3. QED
        BY <2>8, <2>11, <3>1, <3>3, <4>1, <4>2 DEF RecordKnown
    <3>4. QED
      BY <3>2, <3>3
  <2>17. NewSaves(saves, saves', n)
    BY <2>5, <2>7, <2>9 DEF NewSaves
  <2>20. QED
    BY <2>1, <2>14, <2>15, <2>16, <2>17 DEF Records, RecordsKnown
<1>3. QED
    BY <1>1, <1>2

(* One room gets a new game, of which nothing is recorded.                 *)
LEMMA NewGameRecords ==
    ASSUME NEW m \in Managers, NEW o \in Objs, NEW b, NEW n,
           \A p \in Objs : p # o => n.heap[p] = m.heap[p],
           n.heap[o] = b, NEW flying, NEW rows, NEW g \in Nat,
           Records(m, flying, rows, g), b.game = NewGame(g + 1),
           \A x \in Held(b) : x = b.game \/ (m.heap[o] # None /\ x \in Held(m.heap[o]))
    PROVE  Records(n, flying, rows, g + 1)
<1>1. b.game.id = g + 1 /\ b.game \in Held(b)
    BY DEF NewGame, Held
<1>2. \A z \in 0..g : z \in 0..g + 1 /\ z # g + 1
    OBVIOUS
<1>3. g + 1 \in 0..g + 1
    OBVIOUS
<1>4. \A p \in Objs : n.heap[p] # None => \A x \in Held(n.heap[p]) :
        \/ p = o /\ x = b.game
        \/ m.heap[p] # None /\ x \in Held(m.heap[p]) /\ x.id \in 0..g
    BY DEF Records, GamesApart
<1>5. GamesApart(n, g + 1)
  <2>1. ASSUME NEW p \in Objs, n.heap[p] # None, NEW x \in Held(n.heap[p])
        PROVE  x.id \in 0..g + 1
    BY <1>1, <1>2, <1>3, <1>4, <2>1
  <2>2. ASSUME NEW p \in Objs, NEW q \in Objs, n.heap[p] # None, n.heap[q] # None,
               NEW x \in Held(n.heap[p]), NEW y \in Held(n.heap[q]), x.id = y.id
        PROVE  p = q /\ x = y
    <3>1. CASE p = o /\ x = b.game
      BY <1>1, <1>2, <1>4, <2>2, <3>1
    <3>2. CASE q = o /\ y = b.game
      BY <1>1, <1>2, <1>4, <2>2, <3>2
    <3>3. CASE ~(p = o /\ x = b.game) /\ ~(q = o /\ y = b.game)
      BY <1>4, <2>2, <3>3 DEF Records, GamesApart
    <3>4. QED
      BY <3>1, <3>2, <3>3
  <2>3. QED
    BY <2>1, <2>2 DEF GamesApart
<1>6. ~IsRecorded(g + 1, flying, rows)
    BY <1>2 DEF Records, RecordsApart
<1>7. RecordsApart(flying, rows, g + 1)
    BY <1>2 DEF Records, RecordsApart
<1>8. ASSUME NEW p \in Objs, n.heap[p] # None PROVE RecordKnown(n.heap[p], flying, rows)
  <2>1. CASE p = o
    BY <1>1, <1>4, <1>6, <1>8, <2>1 DEF RecordKnown, Records, RecordsKnown
  <2>2. CASE p # o
    BY <1>8, <2>2 DEF Records, RecordsKnown
  <2>3. QED
    BY <2>1, <2>2
<1>9. QED
    BY <1>5, <1>7, <1>8 DEF Records, RecordsKnown

(* A game goes on by a move: it was not full, so nothing was recorded of   *)
(* it.                                                                     *)
LEMMA MoveRecords ==
    ASSUME NEW m \in Managers, NEW o \in Objs, m.heap[o] # None, m.heap[o].phase = "core",
           ~Full(m.heap[o].before.board), NEW b, NEW n, Puts(m, n, o, b),
           b.game.id = m.heap[o].before.id, Held(b) = {b.game},
           NEW flying, NEW rows, NEW g, Records(m, flying, rows, g)
    PROVE  Records(n, flying, rows, g)
<1> DEFINE y == m.heap[o].before
<1>1. n.heap[o] = b /\ \A p \in Objs : p # o => n.heap[p] = m.heap[p]
    BY DEF Managers, Puts
<1>2. y \in Held(m.heap[o]) /\ b.game.id = y.id
    BY DEF Held
<1>3. ~IsRecorded(y.id, flying, rows)
    BY <1>2 DEF Records, RecordsKnown, RecordKnown
<1> HIDE DEF y
<1>4. GamesApart(n, g)
  <2>1. \A p \in Objs : n.heap[p] # None => m.heap[p] # None /\
           \A x \in Held(n.heap[p]) :
              \/ p = o /\ x = b.game
              \/ p # o /\ x \in Held(m.heap[p])
    BY <1>1
  <2>2. \A p \in Objs : n.heap[p] # None =>
           \A x \in Held(n.heap[p]) : \E z \in Held(m.heap[p]) : z.id = x.id
    BY <1>2, <2>1
  <2>3. \A p \in Objs : n.heap[p] # None => \A x \in Held(n.heap[p]) : x.id \in 0..g
    BY <2>1, <2>2 DEF Records, GamesApart
  <2>4. ASSUME NEW p \in Objs, NEW q \in Objs, n.heap[p] # None, n.heap[q] # None,
               NEW x \in Held(n.heap[p]), NEW z \in Held(n.heap[q]), x.id = z.id
        PROVE  p = q /\ x = z
    <3>1. p = q
      BY <2>1, <2>2, <2>4 DEF Records, GamesApart
    <3>2. QED
      BY <2>1, <2>4, <3>1 DEF Records, GamesApart
  <2>5. QED
    BY <2>3, <2>4 DEF GamesApart
<1>5. RecordsKnown(n, flying, rows)
    BY <1>1, <1>2, <1>3 DEF Records, RecordsKnown, RecordKnown
<1>6. QED
    BY <1>4, <1>5 DEF Records

(* Saves that move on, or end, are of the games they were of.              *)
Moves(flying, less) ==
    \A i \in SaveIds : less[i] # None => flying[i] # None /\ less[i].game = flying[i].game

(* Nothing more is recorded when saves move on.                            *)
LEMMA MovesRecords ==
    ASSUME NEW m, NEW flying, NEW less, Moves(flying, less), NEW rows, NEW g,
           Records(m, flying, rows, g)
    PROVE  Records(m, less, rows, g)
<1>1. \A n : IsRecorded(n, less, rows) => IsRecorded(n, flying, rows)
    BY DEF Moves, IsRecorded
<1>2. RecordsApart(less, rows, g)
    BY <1>1 DEF Moves, Records, RecordsApart
<1>3. RecordsKnown(m, less, rows)
    BY <1>1 DEF Records, RecordsKnown, RecordKnown
<1>4. QED
    BY <1>2, <1>3 DEF Records

(* A room takes the mark of a saved game back only when it is this one.    *)
AllGoOnBut(m, n, lost) ==
    \A o \in Objs : n.heap[o] # None =>
        /\ m.heap[o] # None
        /\ n.heap[o].game.id = m.heap[o].game.id /\ Held(n.heap[o]) \subseteq Held(m.heap[o])
        /\ m.heap[o].saved => n.heap[o].saved \/ m.heap[o].game.id = lost

(* A save fails: its game is not recorded any more.                        *)
LEMMA FailedRecords ==
    ASSUME NEW m, NEW n, NEW flying \in [SaveIds -> SaveInFlight \union {None}],
           NEW i \in SaveIds, flying[i] # None, NEW less, Ends(flying, less, i),
           AllGoOnBut(m, n, flying[i].game), NEW rows, NEW g, Records(m, flying, rows, g)
    PROVE  Records(n, less, rows, g)
<1>1. less[i] = None /\ \A j \in SaveIds : j # i => less[j] = flying[j]
    BY DEF Ends
<1>2. Moves(flying, less)
    BY <1>1 DEF Moves
<1>3. Records(m, less, rows, g)
    BY <1>2, MovesRecords
<1>4. ~IsRecorded(flying[i].game, less, rows)
    BY <1>1 DEF Records, RecordsApart, IsRecorded
<1>5. GamesApart(n, g)
  <2>1. \A o \in Objs : n.heap[o] # None =>
            m.heap[o] # None /\ Held(n.heap[o]) \subseteq Held(m.heap[o])
    BY DEF AllGoOnBut
  <2>2. \A o \in Objs : n.heap[o] # None => \A x \in Held(n.heap[o]) : x.id \in 0..g
    BY <2>1 DEF Records, GamesApart
  <2>3. ASSUME NEW o \in Objs, NEW p \in Objs, n.heap[o] # None, n.heap[p] # None,
               NEW x \in Held(n.heap[o]), NEW y \in Held(n.heap[p]), x.id = y.id
        PROVE  o = p /\ x = y
    <3>1. x \in Held(m.heap[o]) /\ y \in Held(m.heap[p]) /\ m.heap[o] # None /\ m.heap[p] # None
      BY <2>1, <2>3
    <3>2. QED
      BY <2>3, <3>1 DEF Records, GamesApart
  <2>4. QED
    BY <2>2, <2>3 DEF GamesApart
<1>6. ASSUME NEW o \in Objs, n.heap[o] # None PROVE RecordKnown(n.heap[o], less, rows)
    BY <1>3, <1>4, <1>6 DEF AllGoOnBut, Records, RecordsKnown, RecordKnown
<1>7. QED
    BY <1>3, <1>5, <1>6 DEF Records, RecordsKnown

(* A save becomes its row.                                                 *)
LEMMA StoredRecords ==
    ASSUME NEW m, NEW flying \in [SaveIds -> SaveInFlight \union {None}],
           NEW i \in SaveIds, flying[i] # None, NEW less, Ends(flying, less, i),
           NEW rows, NEW row \in RowOf, row.game = flying[i].game,
           NEW g, Records(m, flying, rows, g)
    PROVE  Records(m, less, Append(rows, row), g)
<1> DEFINE more == Append(rows, row)
           l == Len(rows)
<1>1. less[i] = None /\ \A j \in SaveIds : j # i => less[j] = flying[j]
    BY DEF Ends
<1>2. /\ rows \in Seq(RowOf) /\ l \in Nat /\ DOMAIN rows = 1..l
      /\ more \in Seq(RowOf) /\ DOMAIN more = 1..l + 1 /\ more[l + 1] = row
      /\ \A k \in 1..l : more[k] = rows[k] /\ k \in 1..l + 1
      /\ \A k \in 1..l + 1 : k \in 1..l \/ k = l + 1
    BY DEF Records, RecordsApart
<1> HIDE DEF more, l
<1>3. \A n : IsRecorded(n, less, more) <=> IsRecorded(n, flying, rows)
  <2>1. l + 1 \in 1..l + 1
    BY <1>2
  <2>2. QED
    BY <1>1, <1>2, <2>1 DEF IsRecorded
<1>4. \A k \in DOMAIN rows : rows[k].game # row.game
    BY DEF Records, RecordsApart
<1>5. RecordsApart(less, more, g)
  <2>1. \A n : IsRecorded(n, less, more) => n \in 0..g
    BY <1>3 DEF Records, RecordsApart
  <2>2. \A j, k \in SaveIds :
          less[j] # None /\ less[k] # None /\ less[j].game = less[k].game => j = k
    BY <1>1 DEF Records, RecordsApart
  <2>3. ASSUME NEW j \in DOMAIN more, NEW k \in DOMAIN more, more[j].game = more[k].game
        PROVE  j = k
    <3>1. CASE j \in 1..l /\ k \in 1..l
      BY <1>2, <2>3, <3>1 DEF Records, RecordsApart
    <3>2. CASE j = l + 1 \/ k = l + 1
      BY <1>2, <1>4, <2>3, <3>2
    <3>3. QED
      BY <1>2, <3>1, <3>2
  <2>4. ASSUME NEW j \in SaveIds, NEW k \in DOMAIN more, less[j] # None
        PROVE  less[j].game # more[k].game
    <3>1. j # i /\ less[j] = flying[j]
      BY <1>1, <2>4
    <3>2. CASE k \in 1..l
      BY <1>2, <2>4, <3>1, <3>2 DEF Records, RecordsApart
    <3>3. CASE k = l + 1
      BY <1>2, <2>4, <3>1, <3>3 DEF Records, RecordsApart
    <3>4. QED
      BY <1>2, <3>2, <3>3
  <2>5. QED
    BY <1>2, <2>1, <2>2, <2>3, <2>4 DEF RecordsApart
<1>6. RecordsKnown(m, less, more)
    BY <1>3 DEF Records, RecordsKnown, RecordKnown
<1>7. QED
    BY <1>5, <1>6 DEF Records, more

(* Whoever enters a room brings no new game; a save that starts is of a    *)
(* game that was not recorded.                                             *)
LEMMA EnterRecords ==
    ASSUME NEW m, SoundMgr(m), SavesOK(m, saves), NEW s \in Sockets, NEW r \in RoomIds,
           m.rooms[r] # None, NEW stake, EnterRoom(m, s, r, stake),
           NEW g, Records(m, saves, db, g)
    PROVE  Records(mgr', saves', db, g) /\ NewSaves(saves, saves', mgr')
<1> DEFINE o == m.rooms[r]
           room == CleanupExpiredReconnect(m.heap[o])
<1>1. o \in Objs /\ m.heap[o] # None /\ SoundRoom(m.heap[o]) /\ m \in Managers
    BY DEF SoundMgr, Managers
<1>2. SoundRoom(room)
    BY <1>1, CleanupSound
<1>3. OnlySeats(m.heap[o], room) /\ room.sockets = m.heap[o].sockets
    BY <1>1, CleanupParts DEF SoundRoom
<1>4. CASE mgr' = [m EXCEPT !.heap[o] = room] /\ UNCHANGED <<socketToRoom, saves>>
  <2> HIDE DEF room
  <2>1. AllGoOn(m, mgr')
    BY <1>1, <1>3, <1>4, SeatsGoOn, WrittenGoesOn DEF Puts
  <2>2. QED
    BY <1>4, <2>1, GoOnRecords DEF NewSaves
<1>5. ASSUME ~\E t \in room.sockets \ {s} : SocketUser[t] = SocketUser[s],
             NEW late \in BOOLEAN,
             LET seated == AssignSocket(room, s, late)
                 entered == IF IsRoomFull(seated)
                            THEN [seated EXCEPT !.rematch = None] ELSE seated
             IN  /\ socketToRoom' = [socketToRoom EXCEPT ![s] = r]
                 /\ TrySave([m EXCEPT !.heap[o] = entered, !.index[s] = r], r, None)
      PROVE  Records(mgr', saves', db, g) /\ NewSaves(saves, saves', mgr')
  <2> DEFINE seated == AssignSocket(room, s, late)
             entered == IF IsRoomFull(seated) THEN [seated EXCEPT !.rematch = None] ELSE seated
             n == [m EXCEPT !.heap[o] = entered]
             k == [m EXCEPT !.heap[o] = entered, !.index[s] = r]
  <2>1. TrySave(k, r, None)
    BY <1>5
  <2>2. \A t \in room.sockets \ {s} : SocketUser[t] # SocketUser[s]
    BY <1>5
  <2> HIDE DEF room
  <2>3. SoundRoom(seated)
    BY <1>2, <2>2, AssignSound
  <2>4. OnlySeats(room, seated) /\ seated.sockets = room.sockets \union {s}
    <3>1. room \in RoomRec /\ Seats(room.players, room.sockets, room.pending)
      BY <1>2 DEF SoundRoom
    <3>2. QED
      BY <3>1, AssignShape
  <2> HIDE DEF seated
  <2>5. SoundRoom(entered) /\ SameSeats(seated, entered) /\ OnlySeats(seated, entered)
    <3>1. SameSeats(seated, seated) /\ OnlySeats(seated, seated)
      BY DEF SameSeats, OnlySeats
    <3>2. /\ SoundRoom([seated EXCEPT !.rematch = None])
          /\ OnlySeats(seated, [seated EXCEPT !.rematch = None])
          /\ SameSeats(seated, [seated EXCEPT !.rematch = None])
      BY <2>3, RematchSound
    <3>3. QED
      BY <2>3, <3>1, <3>2
  <2>6. /\ OnlySeats(m.heap[o], entered) /\ entered.roomId = m.heap[o].roomId
        /\ m.heap[o].sockets \subseteq entered.sockets /\ s \in entered.sockets
    BY <1>3, <2>4, <2>5 DEF OnlySeats, SameSeats
  <2> HIDE DEF entered
  <2>7. /\ SoundMgr(n) /\ n.heap[o] = entered /\ entered # None
        /\ n.rooms = m.rooms /\ n.index = m.index
        /\ \A p \in Objs : p # o => n.heap[p] = m.heap[p]
    BY <1>1, <2>5, <2>6, Rewritten
  <2>8. k = [n EXCEPT !.index[s] = r]
    OBVIOUS
  <2>9. AllGoOn(m, n)
    BY <1>1, <2>6, SeatsGoOn, WrittenGoesOn DEF Puts
  <2> HIDE DEF n, k
  <2>10. /\ k \in Managers /\ k.heap = n.heap /\ k.rooms = n.rooms
         /\ k.index = [m.index EXCEPT ![s] = r] /\ k.index[s] = r
         /\ \A t \in Sockets : t # s => k.index[t] = n.index[t]
    BY <2>7, <2>8 DEF SoundMgr, Managers
  <2>11. AtHome(k)
    <3>1. AtHome(n)
      BY <2>7 DEF SoundMgr
    <3>2. k.rooms[r] = o /\ o # None /\ s \in k.heap[o].sockets
      BY <2>6, <2>7, <2>10
    <3>3. QED
      BY <2>10, <3>1, <3>2 DEF AtHome
  <2>12. SoundMgr(k)
    BY <2>7, <2>10, <2>11 DEF SoundMgr
  <2>13. Follows(m, k)
    BY <2>6, <2>7, <2>10 DEF Follows, OnlySeats
  <2>14. SavesOK(k, saves)
    BY <2>13, SavesOn
  <2>15. AllGoOn(m, k)
    BY <2>9, <2>10 DEF AllGoOn
  <2>16. Records(k, saves, db, g)
    BY <2>15, GoOnRecords
  <2>17. QED
    BY <2>1, <2>12, <2>14, <2>16, TriedRecords
<1>6. \A late \in IF "clock ticks in join" \in Faults THEN BOOLEAN ELSE {FALSE} :
            late \in BOOLEAN
    OBVIOUS
<1>7. QED
    BY <1>4, <1>5, <1>6 DEF EnterRoom

(* JOIN_ROOM of a room that is there, or is yet to be made                 *)
LEMMA JoinRecords ==
    ASSUME ServerInv, NEW s \in Sockets, NEW r \in RoomIds, NEW stake \in Stakes,
           JoinRoom(s, r, stake), Records(mgr, saves, db, games)
    PROVE  Records(mgr', saves', db', games') /\ NewSaves(saves, saves', mgr')
<1> DEFINE m == LeaveOtherRoom(s, r)
<1>1. SoundMgr(m) /\ Shrinks(mgr, m)
    BY LeftOther
<1>2. /\ \/ m.rooms[r] # None /\ EnterRoom(m, s, r, stake)
         \/ mgr' = m /\ saves' = saves
      /\ db' = db /\ games' = games
    BY DEF JoinRoom, settling, history
<1> HIDE DEF m
<1>3. Departs(mgr, m)
    BY <1>1, ShrinksDeparts
<1>4. SavesOK(m, saves)
    BY <1>3, DepartsFollows, SavesOn DEF ServerInv
<1>5. Records(m, saves, db, games)
    BY <1>3, DepartsGoOn, GoOnRecords
<1>6. QED
    BY <1>1, <1>2, <1>4, <1>5, EnterRecords DEF NewSaves

(* JOIN_ROOM after its await: the room it makes has a game of its own.     *)
LEMMA JoinResumesRecords ==
    ASSUME ServerInv, NEW j \in joins, JoinResumes(j), Records(mgr, saves, db, games)
    PROVE  Records(mgr', saves', db', games') /\ NewSaves(saves, saves', mgr')
<1>1. j.socket \in Sockets /\ j.room \in RoomIds /\ j.stake \in Stakes
    BY DEF ServerInv
<1>2. SoundMgr(mgr) /\ SavesOK(mgr, saves) /\ games \in Nat
    BY DEF ServerInv
<1>3. db' = db
    BY DEF JoinResumes, settling
<1>4. CASE Exists(j.room) /\ EnterRoom(mgr, j.socket, j.room, j.stake) /\ UNCHANGED history
    BY <1>1, <1>2, <1>3, <1>4, EnterRecords DEF Exists, history
<1>5. ASSUME ~Exists(j.room), NEW o \in FreeObjs,
             EnterRoom([mgr EXCEPT
                        !.heap[o] = NewRoom(j.room, NewGame(games + 1),
                                            IF j.stake = None THEN 0 ELSE j.stake),
                        !.rooms[j.room] = o], j.socket, j.room, j.stake),
             games' = games + 1
      PROVE  Records(mgr', saves', db', games') /\ NewSaves(saves, saves', mgr')
  <2> DEFINE stake == IF j.stake = None THEN 0 ELSE j.stake
             b == NewRoom(j.room, NewGame(games + 1), stake)
             n == [mgr EXCEPT !.heap[o] = b, !.rooms[j.room] = o]
             r == j.room
  <2>1. stake \in Nat
    BY <1>1, ServerAssumption
  <2>2. NewGame(games + 1) \in GameOf
    BY <1>2, NewGameTyped
  <2>3. EnterRoom(n, j.socket, r, j.stake)
    BY <1>5
  <2> HIDE DEF stake
  <2>4. SoundRoom(b) /\ b.roomId = j.room
    BY <1>1, <2>1, <2>2, NewRoomSound
  <2>5. b.game = NewGame(games + 1) /\ Held(b) = {b.game}
    BY DEF NewRoom, Held
  <2> HIDE DEF b
  <2>6. Vacant(mgr, o) /\ o \in Objs
    BY FreeObj DEF Vacant
  <2>7. mgr.rooms[r] = None /\ r \in RoomIds /\ b.roomId = r /\ Opens(mgr, n, r, o, b)
    BY <1>1, <1>5, <2>4 DEF Exists, Opens
  <2> HIDE DEF n, r
  <2>8. /\ SoundMgr(n) /\ SavesOK(n, saves)
        /\ n.rooms[r] = o
        /\ \A p \in Objs : p # o => n.heap[p] = mgr.heap[p]
    BY <1>2, <2>4, <2>6, <2>7, NewRoomPut
  <2>9. n.heap[o] = b /\ mgr \in Managers
    BY <1>2, <2>6, <2>7 DEF Opens, SoundMgr, Managers
  <2>10. n.rooms[r] # None
    BY <2>6, <2>8, NoneIsNoName
  <2>11. Records(n, saves, db, games + 1)
    BY <1>2, <2>5, <2>6, <2>8, <2>9, NewGameRecords
  <2>12. QED
    BY <1>1, <1>3, <1>5, <2>3, <2>7, <2>8, <2>10, <2>11, EnterRecords
<1>6. QED
    BY <1>4, <1>5 DEF JoinResumes

(* A step that writes one room, and lets its game go on                    *)
LEMMA WrittenRecords ==
    ASSUME ServerInv, NEW o \in Objs, mgr.heap[o] # None, NEW b, GoesOn(mgr.heap[o], b),
           Puts(mgr, mgr', o, b), saves' = saves, db' = db, games' = games,
           Records(mgr, saves, db, games)
    PROVE  Records(mgr', saves', db', games')
<1>1. mgr \in Managers
    BY DEF ServerInv, SoundMgr
<1>2. AllGoOn(mgr, mgr')
    BY <1>1, WrittenGoesOn
<1>3. QED
    BY <1>2, GoOnRecords

(* A step by which sockets depart                                          *)
LEMMA DepartureRecords ==
    ASSUME Departs(mgr, mgr'), saves' = saves, db' = db, games' = games,
           Records(mgr, saves, db, games)
    PROVE  Records(mgr', saves', db', games')
BY DepartsGoOn, GoOnRecords

(* A disconnect records nothing and starts no game.                        *)
LEMMA DisconnectRecords ==
    ASSUME ServerInv, NEW s \in Sockets, Disconnect(s), Records(mgr, saves, db, games)
    PROVE  Records(mgr', saves', db', games')
<1> SUFFICES ASSUME NEW reserve \in BOOLEAN, mgr' = RemoveSocket(mgr, s, reserve)
             PROVE  Records(mgr', saves', db', games')
    BY DEF Disconnect
<1>1. SoundMgr(mgr)
    BY DEF ServerInv
<1>2. Departs(mgr, mgr')
    BY <1>1, RemoveOne
<1>3. saves' = saves /\ db' = db /\ games' = games
    BY DEF Disconnect, settling, history
<1>4. QED
    BY <1>2, <1>3, DepartureRecords

(* Nor does the sweep.                                                     *)
LEMMA SweepRecords ==
    ASSUME ServerInv, Sweep, Records(mgr, saves, db, games)
    PROVE  Records(mgr', saves', db', games')
<1>1. SoundMgr(mgr)
    BY DEF ServerInv
<1>2. mgr' = SweepExpired(mgr) /\ saves' = saves /\ db' = db /\ games' = games
    BY DEF Sweep, settling, history
<1>3. Departs(mgr, mgr')
    BY <1>1, <1>2, SweepShrinks, ShrinksDeparts
<1>4. QED
    BY <1>2, <1>3, DepartureRecords

(* Nor does the timer of a reservation, or that of the moves remembered.   *)
LEMMA TimerRecords ==
    ASSUME ServerInv, NEW o \in Objs, Records(mgr, saves, db, games),
           \/ \E u \in Users : Expire(o, u)
           \/ \E a \in Actions : Forget(o, a)
    PROVE  Records(mgr', saves', db', games')
<1> DEFINE room == mgr.heap[o]
<1>1. room # None /\ saves' = saves /\ db' = db /\ games' = games
    BY DEF Expire, Forget, settling, history
<1>2. room \in RoomRec /\ mgr \in Managers
    BY <1>1 DEF ServerInv, SoundMgr, SoundRoom
<1>3. ASSUME NEW u \in Users, Expire(o, u) PROVE Records(mgr', saves', db', games')
  <2> SUFFICES ASSUME NEW x \in BOOLEAN, mgr' = [mgr EXCEPT !.heap[o].pending[u].expired = x]
               PROVE  Records(mgr', saves', db', games')
    BY <1>3 DEF Expire
  <2> DEFINE b == [room EXCEPT !.pending[u].expired = x]
  <2>1. GoesOn(room, b)
    BY <1>2 DEF RoomRec, GoesOn, Held
  <2>2. Puts(mgr, mgr', o, b)
    BY DEF Puts
  <2> HIDE DEF b
  <2>3. QED
    BY <1>1, <2>1, <2>2, WrittenRecords
<1>4. ASSUME NEW a \in Actions, Forget(o, a) PROVE Records(mgr', saves', db', games')
  <2> DEFINE b == [room EXCEPT !.dedupe = @ \ {a}]
  <2>1. GoesOn(room, b)
    BY <1>2 DEF RoomRec, GoesOn, Held
  <2>2. Puts(mgr, mgr', o, b)
    BY <1>4 DEF Forget, Puts
  <2> HIDE DEF b
  <2>3. QED
    BY <1>1, <2>1, <2>2, WrittenRecords
<1>5. QED
    BY <1>3, <1>4

(* Nor does a packet that waits in a queue.                                *)
LEMMA EnqueueRecords ==
    ASSUME ServerInv, NEW s \in Sockets, NEW r \in RoomIds, NEW kind, NEW action,
           Enqueue(s, r, kind, action), Records(mgr, saves, db, games)
    PROVE  Records(mgr', saves', db', games')
<1> DEFINE o == mgr.rooms[r]
           room == mgr.heap[o]
           op == [kind |-> kind, socket |-> s, action |-> action]
           b == [room EXCEPT !.queue = Append(@, op)]
<1>1. o # None /\ saves' = saves /\ db' = db /\ games' = games /\ Puts(mgr, mgr', o, b)
    BY DEF Enqueue, Exists, settling, history, Puts
<1>2. o \in Objs /\ room # None /\ room \in RoomRec
    BY <1>1 DEF ServerInv, SoundMgr, Managers, SoundRoom
<1>3. GoesOn(room, b)
    BY <1>2 DEF RoomRec, GoesOn, Held
<1> HIDE DEF b
<1>4. QED
    BY <1>1, <1>2, <1>3, WrittenRecords

(* Nor does the head of a queue that begins.                               *)
LEMMA StartRecords ==
    ASSUME ServerInv, NEW o \in Objs, StartOp(o), Records(mgr, saves, db, games)
    PROVE  Records(mgr', saves', db', games')
<1> DEFINE room == mgr.heap[o]
           b == [room EXCEPT !.phase = "core", !.before = room.game]
           c == Dequeued(room)
<1>1. /\ room # None /\ saves' = saves /\ db' = db /\ games' = games
      /\ Puts(mgr, mgr', o, b) \/ Puts(mgr, mgr', o, c)
    BY DEF StartOp, settling, history, Puts
<1>2. room \in RoomRec
    BY <1>1 DEF ServerInv, SoundMgr, SoundRoom
<1>3. GoesOn(room, b) /\ GoesOn(room, c)
    BY <1>2, StartedGoesOn, DequeuedGoesOn
<1> HIDE DEF b, c
<1>4. QED
    BY <1>1, <1>3, WrittenRecords

(* A player who asks for a rematch changes no game.                        *)
LEMMA RequestRecords ==
    ASSUME ServerInv, NEW s \in Sockets, NEW r \in RoomIds, RematchRequest(s, r),
           Records(mgr, saves, db, games)
    PROVE  Records(mgr', saves', db', games')
<1> DEFINE o == mgr.rooms[r]
           room == mgr.heap[o]
           p == PlayerInRoom(room, s)
           b == [room EXCEPT !.rematch = p]
<1>1. o # None /\ saves' = saves /\ db' = db /\ games' = games /\ Puts(mgr, mgr', o, b)
    BY DEF RematchRequest, Exists, Room, settling, history, Puts
<1>2. o \in Objs /\ room # None /\ room \in RoomRec
    BY <1>1 DEF ServerInv, SoundMgr, Managers, SoundRoom
<1> HIDE DEF p
<1>3. GoesOn(room, b)
    BY <1>2 DEF RoomRec, GoesOn, Held
<1> HIDE DEF b
<1>4. QED
    BY <1>1, <1>2, <1>3, WrittenRecords

(* One who declines empties the room and changes no game.                  *)
LEMMA DeclineRecords ==
    ASSUME ServerInv, NEW s \in Sockets, NEW r \in RoomIds, RematchDecline(s, r),
           Records(mgr, saves, db, games)
    PROVE  Records(mgr', saves', db', games')
<1> SUFFICES ASSUME NEW p \in Slots \union {None},
                    mgr' = CloseRoom([mgr EXCEPT !.heap[mgr.rooms[r]].rematch = p],
                                     Room(r).sockets)
             PROVE  Records(mgr', saves', db', games')
    BY DEF RematchDecline
<1> DEFINE o == mgr.rooms[r]
           room == mgr.heap[o]
           b == [room EXCEPT !.rematch = p]
           m == [mgr EXCEPT !.heap[o] = b]
<1>1. /\ o # None /\ mgr' = CloseRoom(m, room.sockets)
      /\ saves' = saves /\ db' = db /\ games' = games
    BY DEF RematchDecline, MayRespond, Exists, Room, settling, history
<1>2. o \in Objs /\ mgr.heap[o] # None /\ SoundRoom(room) /\ SoundMgr(mgr) /\ mgr \in Managers
    BY <1>1 DEF ServerInv, SoundMgr, Managers
<1>3. room.sockets \in SUBSET Sockets
    BY <1>2 DEF SoundRoom, RoomRec
<1>4. SoundRoom(b) /\ OnlySeats(room, b) /\ SameSeats(room, b)
    BY <1>2, RematchSound
<1> HIDE DEF b
<1>5. SoundMgr(m)
  <2>1. b.roomId = mgr.heap[o].roomId /\ mgr.heap[o].sockets \subseteq b.sockets
    BY <1>4 DEF SameSeats
  <2>2. QED
    BY <1>2, <1>4, <2>1, Rewritten
<1>6. AllGoOn(mgr, m)
    BY <1>2, <1>4, SeatsGoOn, WrittenGoesOn DEF Puts
<1> HIDE DEF m
<1>7. AllGoOn(m, mgr')
    BY <1>1, <1>3, <1>5, CloseShrinks, ShrinksDeparts, DepartsGoOn
<1>8. QED
    BY <1>1, <1>6, <1>7, GoOnOn, GoOnRecords

(* SYNC_STATE may start a save.                                            *)
LEMMA SyncRecords ==
    ASSUME ServerInv, NEW s \in Sockets, NEW r \in RoomIds, SyncState(s, r),
           Records(mgr, saves, db, games)
    PROVE  Records(mgr', saves', db', games') /\ NewSaves(saves, saves', mgr')
<1>1. SoundMgr(mgr) /\ SavesOK(mgr, saves)
    BY DEF ServerInv
<1>2. TrySave(mgr, r, None) /\ db' = db /\ games' = games
    BY DEF SyncState, settling, history
<1>3. QED
    BY <1>1, <1>2, TriedRecords

(* A move is made of a game that is not full, so that nothing was recorded *)
(* of it; when it ends the game, its save is the first.                    *)
LEMMA MoveFinishRecords ==
    ASSUME ServerInv, NEW o \in Objs, FinishMove(o), Records(mgr, saves, db, games)
    PROVE  Records(mgr', saves', db', games') /\ NewSaves(saves, saves', mgr')
<1> DEFINE room == mgr.heap[o]
           op == Head(room.queue)
           edge == EdgeOf[op.action]
<1>1. /\ room # None /\ room.queue # <<>> /\ room.phase = "core" /\ op.kind = "move"
      /\ db' = db /\ games' = games
    BY DEF FinishMove, settling
<1>2. SoundRoom(room) /\ SoundMgr(mgr) /\ SavesOK(mgr, saves) /\ mgr \in Managers
    BY <1>1 DEF ServerInv, SoundMgr
<1>3. op.action \in Actions /\ edge \in BoardEdges /\ room.roomId \in RoomIds
  <2>1. room.queue \in Seq(QueuedOp) /\ room.roomId \in RoomIds
    BY <1>2 DEF SoundRoom, RoomRec
  <2>2. QED
    BY <1>1, <2>1, QueuedAction
<1>4. CASE mgr' = [mgr EXCEPT !.heap[o] = Dequeued(room)] /\ UNCHANGED <<saves, applied>>
  <2>1. GoesOn(room, Dequeued(room))
    BY <1>2, DequeuedGoesOn DEF SoundRoom
  <2>2. Puts(mgr, mgr', o, Dequeued(room))
    BY <1>4 DEF Puts
  <2>3. QED
    BY <1>1, <1>4, <2>1, <2>2, WrittenRecords DEF NewSaves
<1>5. ASSUME ~EdgeTaken(room.before.board, edge),
             NEW b \in After(room.before.board, edge),
             LET moved == Moved(room, op.action, b)
                 m == [mgr EXCEPT !.heap[o] = moved]
             IN  TrySave([m EXCEPT !.heap[o] =
                            IF CanSave(m, room.roomId)
                            THEN [moved EXCEPT !.phase = "save"]
                            ELSE Dequeued(moved)], room.roomId, o)
      PROVE  Records(mgr', saves', db, games) /\ NewSaves(saves, saves', mgr')
  <2> DEFINE moved == Moved(room, op.action, b)
             m == [mgr EXCEPT !.heap[o] = moved]
             x == CanSave(m, room.roomId)
             c == Continued(moved, x)
             n == [m EXCEPT !.heap[o] = c]
             r == room.roomId
  <2>1. TrySave(n, r, o)
    BY <1>5 DEF Continued
  <2>2. room.before \in GameOf /\ room.before.board \in Board /\ b \in Board
    <3>1. room.before \in GameOf /\ room.before.board \in Board
      BY <1>1, <1>2 DEF SoundRoom, GameOf
    <3>2. QED
      BY <1>3, <1>5, <3>1, BoardTyped
  <2>3. ~Full(room.before.board)
    BY <1>3, <1>5 DEF EdgeTaken, Full
  <2>4. SoundRoom(moved) /\ SameSeats(room, moved) /\ moved.queue = room.queue
    BY <1>1, <1>2, <1>3, <2>2, MovedSound
  <2>5. moved.game = [room.before EXCEPT !.board = b]
    BY <1>2 DEF SoundRoom, RoomRec, Moved
  <2>6. moved.game.id = room.before.id
    BY <2>2, <2>5 DEF GameOf
  <2>7. m.heap[o] = moved /\ Puts(mgr, m, o, moved) /\ Puts(m, n, o, c)
    BY <1>2 DEF Managers, Puts
  <2>8. r \in RoomIds
    BY <1>3
  <2> HIDE DEF moved, m, r, x, c, n
  <2>9. /\ SoundRoom(c) /\ SameSeats(moved, c) /\ c.game = moved.game
        /\ c.phase \in {"start", "save"}
    <3>1. CASE x
      <4>1. c = [moved EXCEPT !.phase = "save"]
        BY <3>1 DEF c, Continued
      <4>2. QED
        BY <1>1, <2>4, <4>1, PhasedSound
    <3>2. CASE ~x
      <4>1. c = Dequeued(moved)
        BY <3>2 DEF c, Continued
      <4>2. SoundRoom(c) /\ SameSeats(moved, c)
        BY <1>1, <2>4, <4>1, DequeuedSound
      <4>3. c.game = moved.game /\ c.phase = "start"
        BY <2>4, <4>1 DEF Dequeued, SoundRoom, RoomRec
      <4>4. QED
        BY <4>2, <4>3
    <3>3. QED
      BY <3>1, <3>2
  <2>10. Puts(mgr, n, o, c)
    BY <1>2, <2>7, WriteTwice
  <2>11. c.roomId = room.roomId /\ room.sockets \subseteq c.sockets
    BY <2>4, <2>9 DEF SameSeats
  <2>12. /\ SoundMgr(n) /\ c # None /\ n.heap[o] = c
         /\ \A p \in Objs : p # o => n.heap[p] = mgr.heap[p]
    <3>1. n = [mgr EXCEPT !.heap[o] = c]
      BY <2>10 DEF Puts
    <3>2. LET k == [mgr EXCEPT !.heap[o] = c] IN
           /\ SoundMgr(k) /\ k.heap[o] = c /\ c # None
           /\ k.rooms = mgr.rooms /\ k.index = mgr.index
           /\ \A p \in Objs : p # o => k.heap[p] = mgr.heap[p]
      BY <1>1, <1>2, <2>9, <2>11, Rewritten
    <3>3. QED
      BY <3>1, <3>2
  <2>13. Follows(mgr, n)
    BY <1>1, <2>12 DEF Follows
  <2>14. SavesOK(n, saves)
    BY <1>2, <2>13, SavesOn
  <2>15. Held(c) = {c.game} /\ c.game.id = room.before.id
    BY <2>6, <2>9 DEF Held
  <2>16. Records(n, saves, db, games)
    BY <1>1, <1>2, <2>3, <2>10, <2>15, MoveRecords
  <2>17. QED
    BY <2>1, <2>8, <2>12, <2>14, <2>16, TriedRecords
<1>6. QED
    BY <1>1, <1>4, <1>5 DEF FinishMove

(* A game that starts in a room that is there                              *)
LEMMA NewGamePut ==
    ASSUME NEW m \in Managers, NEW o \in Objs, m.heap[o] # None, NEW b, NEW n,
           Puts(m, n, o, b), NEW flying, NEW rows, NEW g \in Nat,
           Records(m, flying, rows, g), b.game = NewGame(g + 1),
           \A x \in Held(b) : x = b.game \/ x \in Held(m.heap[o])
    PROVE  Records(n, flying, rows, g + 1)
<1>1. n.heap[o] = b /\ \A p \in Objs : p # o => n.heap[p] = m.heap[p]
    BY DEF Managers, Puts
<1>2. QED
    BY <1>1, NewGameRecords

(* A reset starts a game that nothing was recorded of.                     *)
LEMMA ResetRecords ==
    ASSUME ServerInv, NEW o \in Objs, FinishReset(o), Records(mgr, saves, db, games)
    PROVE  Records(mgr', saves', db', games')
<1> SUFFICES ASSUME NEW x \in BOOLEAN,
                    mgr' = [mgr EXCEPT !.heap[o] =
                              [Dequeued(mgr.heap[o]) EXCEPT !.game = NewGame(games + 1),
                                                            !.saved = x, !.rematch = None]]
             PROVE  Records(mgr', saves', db', games')
    BY DEF FinishReset
<1> DEFINE room == mgr.heap[o]
           c == Dequeued(room)
           b == [c EXCEPT !.game = NewGame(games + 1), !.saved = x, !.rematch = None]
<1>1. /\ room # None /\ saves' = saves /\ db' = db /\ games' = games + 1
      /\ Puts(mgr, mgr', o, b)
    BY DEF FinishReset, settling, Puts
<1>2. SoundRoom(room) /\ room \in RoomRec /\ games \in Nat /\ mgr \in Managers
    BY <1>1 DEF ServerInv, SoundMgr, SoundRoom
<1>3. b.game = NewGame(games + 1) /\ b.phase = "start"
    BY <1>2 DEF RoomRec, Dequeued
<1> HIDE DEF b
<1>4. Held(b) = {b.game}
    BY <1>3 DEF Held
<1>5. QED
    BY <1>1, <1>2, <1>3, <1>4, NewGamePut

(* So does an accepted rematch; an operation under way keeps the board it  *)
(* read.                                                                   *)
LEMMA RematchRecords ==
    ASSUME ServerInv, NEW x \in resets, RematchResumes(x), Records(mgr, saves, db, games)
    PROVE  Records(mgr', saves', db', games')
<1> SUFFICES ASSUME NEW y \in BOOLEAN,
                    mgr' = [mgr EXCEPT !.heap[x.obj].game = NewGame(games + 1),
                                       !.heap[x.obj].saved = y,
                                       !.heap[x.obj].rematch = None,
                                       !.heap[x.obj].dedupe = {}]
             PROVE  Records(mgr', saves', db', games')
    BY DEF RematchResumes
<1> DEFINE D == {}
<1>0. mgr' = [mgr EXCEPT !.heap[x.obj].game = NewGame(games + 1),
                         !.heap[x.obj].saved = y,
                         !.heap[x.obj].rematch = None,
                         !.heap[x.obj].dedupe = D]
    OBVIOUS
<1> HIDE DEF D
<1> DEFINE o == x.obj
           room == mgr.heap[o]
           b == [room EXCEPT !.game = NewGame(games + 1), !.saved = y, !.rematch = None,
                             !.dedupe = D]
<1>1. /\ o \in Objs /\ mgr \in Managers /\ room # None /\ room \in RoomRec /\ games \in Nat
      /\ saves' = saves /\ db' = db /\ games' = games + 1
    BY DEF ServerInv, SoundMgr, SoundRoom, RematchResumes, settling
<1>2. Puts(mgr, mgr', o, b)
  <2>1. Restarts(mgr, mgr', o, NewGame(games + 1), y, D)
    BY <1>0 DEF Restarts
  <2>2. QED
    BY <1>1, <2>1, RematchWrite
<1>3. b.game = NewGame(games + 1) /\ b.phase = room.phase /\ b.before = room.before
    BY <1>1 DEF RoomRec
<1> HIDE DEF b
<1>4. \A z \in Held(b) : z = b.game \/ z \in Held(room)
    BY <1>3 DEF Held
<1>5. QED
    BY <1>1, <1>2, <1>3, <1>4, NewGamePut

(* A chain that no longer waits for its save goes on with its game.        *)
LEMMA ReleaseGoesOn ==
    ASSUME NEW m, SoundMgr(m), NEW save, NEW n, n = Release(m, save),
           save.owner # None => save.owner \in Objs /\ m.heap[save.owner] # None
    PROVE  AllGoOn(m, n)
<1>1. CASE save.owner = None
    BY <1>1, GoOnOneself DEF Release
<1>2. CASE save.owner # None
  <2> DEFINE o == save.owner
             c == Dequeued(m.heap[o])
  <2>1. o \in Objs /\ m.heap[o] # None /\ m.heap[o] \in RoomRec /\ m \in Managers
    BY <1>2 DEF SoundMgr, SoundRoom
  <2>2. GoesOn(m.heap[o], c)
    BY <2>1, DequeuedGoesOn
  <2>3. Puts(m, n, o, c)
    BY <1>2 DEF Release, Puts
  <2>4. QED
    BY <2>1, <2>2, <2>3, WrittenGoesOn
<1>3. QED
    BY <1>1, <1>2

(* A save that fails while its room still has its game: the game is not    *)
(* recorded, and the room knows.                                           *)
LEMMA FailRecords ==
    ASSUME ServerInv, NEW i \in SaveIds, saves[i] # None, FailSave(i),
           mgr.heap[saves[i].obj].game.id = saves[i].game, db' = db, games' = games,
           Records(mgr, saves, db, games)
    PROVE  Records(mgr', saves', db', games')
<1> SUFFICES ASSUME NEW x \in BOOLEAN,
                    mgr' = Release([mgr EXCEPT !.heap[saves[i].obj].saved = x], saves[i])
             PROVE  Records(mgr', saves', db', games')
    BY DEF FailSave
<1> DEFINE o == saves[i].obj
           a == mgr.heap[o]
           m == [mgr EXCEPT !.heap[o].saved = x]
           lost == saves[i].game
<1>1. /\ SoundMgr(mgr) /\ mgr \in Managers /\ o \in Objs /\ a # None /\ a \in RoomRec
      /\ saves[i].owner # None =>
            saves[i].owner \in Objs /\ mgr.heap[saves[i].owner] # None
      /\ saves \in [SaveIds -> SaveInFlight \union {None}]
    BY DEF ServerInv, SavesOK, SaveInFlight, SoundMgr, SoundRoom
<1>2. SoundMgr(m) /\ Marks(mgr, m) /\ m.heap[o] = [a EXCEPT !.saved = x]
    BY <1>1, MarkSound
<1>3. \A p \in Objs : p # o => m.heap[p] = mgr.heap[p]
    BY <1>1 DEF Managers
<1>4. Ends(saves, saves', i) /\ mgr' = Release(m, saves[i])
    BY DEF FailSave, Ends
<1> HIDE DEF m
<1>5. m.heap[o].game = a.game /\ Held(m.heap[o]) = Held(a)
  <2>1. /\ m.heap[o].game = a.game /\ m.heap[o].phase = a.phase
        /\ m.heap[o].before = a.before
    BY <1>1, <1>2 DEF RoomRec
  <2>2. QED
    BY <2>1 DEF Held
<1>6. AllGoOnBut(mgr, m, lost)
    BY <1>1, <1>3, <1>5 DEF AllGoOnBut
<1>7. saves[i].owner # None => saves[i].owner \in Objs /\ m.heap[saves[i].owner] # None
    BY <1>1, <1>2 DEF Marks
<1>8. AllGoOn(m, mgr')
    BY <1>2, <1>4, <1>7, ReleaseGoesOn
<1>9. AllGoOnBut(mgr, mgr', lost)
    BY <1>6, <1>8 DEF AllGoOn, GoesOn, AllGoOnBut
<1>10. Records(mgr', saves', db, games)
    BY <1>1, <1>4, <1>9, FailedRecords
<1>11. QED
    BY <1>10

(* No save fails after its room has gone on to another game.               *)
InTime ==
    \A i \in SaveIds : saves[i] # None /\ saves'[i] = None /\ db' = db =>
        mgr.heap[saves[i].obj].game.id = saves[i].game

(* A save that fails is one that ends without a row.                       *)
LEMMA FailsInTime ==
    ASSUME ServerInv, InTime, NEW i \in SaveIds, saves[i] # None, FailSave(i), db' = db
    PROVE  mgr.heap[saves[i].obj].game.id = saves[i].game
<1>1. saves'[i] = None
    BY DEF FailSave, ServerInv, SavesOK
<1>2. QED
    BY <1>1 DEF InTime

(* An answer of the chain records nothing.                                 *)
LEMMA SubmitRecords ==
    ASSUME ServerInv, InTime, NEW i \in SaveIds, SubmitResult(i),
           Records(mgr, saves, db, games)
    PROVE  Records(mgr', saves', db', games')
<1>1. saves[i] # None /\ db' = db /\ games' = games
    BY DEF SubmitResult, history
<1>2. \E submitted \in BOOLEAN : ChainAnswered(i, submitted)
    BY DEF SubmitResult, NotSubmitted, Submitted, SubmittedLate
<1>3. CASE FailSave(i)
    BY <1>1, <1>3, FailsInTime, FailRecords
<1>4. ASSUME NEW submitted \in BOOLEAN,
             saves' = [saves EXCEPT ![i].stage = "db", ![i].paid = submitted,
                          ![i].winner = Winner(mgr.heap[saves[i].obj].game.board.score),
                          ![i].read = mgr.heap[saves[i].obj].game.id],
             mgr' = mgr
      PROVE  Records(mgr', saves', db', games')
  <2> DEFINE w == Winner(mgr.heap[saves[i].obj].game.board.score)
             n == mgr.heap[saves[i].obj].game.id
             save == [saves[i] EXCEPT !.stage = "db", !.paid = submitted, !.winner = w,
                                      !.read = n]
  <2>1. saves \in [SaveIds -> SaveInFlight \union {None}] /\ saves[i] \in SaveInFlight
    BY <1>1 DEF ServerInv, SavesOK
  <2> HIDE DEF w, n
  <2>2. save.game = saves[i].game
    BY <2>1 DEF SaveInFlight
  <2>3. saves' = [saves EXCEPT ![i] = save]
    BY <1>4, <2>1 DEF w, n
  <2> HIDE DEF save
  <2>4. saves'[i] = save /\ \A j \in SaveIds : j # i => saves'[j] = saves[j]
    BY <2>1, <2>3
  <2>5. Moves(saves, saves')
    BY <1>1, <2>2, <2>4 DEF Moves
  <2>6. Records(mgr, saves, db, games)
    BY <1>1
  <2>7. Records(mgr, saves', db, games)
    BY <2>5, <2>6, MovesRecords
  <2>8. mgr' = mgr /\ db' = db /\ games' = games
    BY <1>1, <1>4
  <2>9. QED
    BY ONLY <2>7, <2>8
<1>5. QED
    BY <1>2, <1>3, <1>4 DEF ChainAnswered

(* A row that is written is the save it was.                               *)
LEMMA SavedRecords ==
    ASSUME ServerInv, NEW i \in SaveIds, Saved(i), games' = games,
           Records(mgr, saves, db, games)
    PROVE  Records(mgr', saves', db', games')
<1> DEFINE row == Row(saves[i])
<1>1. /\ saves[i] # None /\ Ends(saves, saves', i) /\ mgr' = Release(mgr, saves[i])
      /\ db' = Append(db, row)
    BY DEF Saved, Storing, Commit, Ends
<1>2. /\ SoundMgr(mgr) /\ saves \in [SaveIds -> SaveInFlight \union {None}]
      /\ saves[i].owner # None =>
            saves[i].owner \in Objs /\ mgr.heap[saves[i].owner] # None
    BY <1>1 DEF ServerInv, SavesOK, SaveInFlight
<1>3. row \in RowOf
    BY <1>1, RowTyped
<1>4. row.game = saves[i].game
    BY DEF Row
<1> HIDE DEF row
<1>5. Records(mgr, saves', db', games)
    BY <1>1, <1>2, <1>3, <1>4, StoredRecords
<1>6. AllGoOn(mgr, mgr')
    BY <1>1, <1>2, ReleaseGoesOn
<1>7. QED
    BY <1>5, <1>6, GoOnRecords

(* An answer of the database that arrives writes the row or ends a save    *)
(* without one.                                                            *)
LEMMA StoreRecords ==
    ASSUME "db ack lost" \notin Faults, ServerInv, InTime, NEW i \in SaveIds,
           SaveResult(i), Records(mgr, saves, db, games)
    PROVE  Records(mgr', saves', db', games')
<1>1. games' = games
    BY DEF SaveResult, history
<1>2. CASE Saved(i)
    BY <1>1, <1>2, SavedRecords
<1>3. CASE NotSaved(i)
  <2>1. saves[i] # None /\ FailSave(i) /\ db' = db
    BY <1>3 DEF NotSaved, Storing
  <2>2. QED
    BY <1>1, <2>1, FailsInTime, FailRecords
<1>4. QED
    BY <1>2, <1>3 DEF SaveResult, SavedUnawares

(* A packet starts a save of a game that was not recorded, or none.        *)
LEMMA PacketRecords ==
    ASSUME ServerInv, NEW s \in Sockets, NEW r \in RoomIds, Packet(s, r),
           Records(mgr, saves, db, games)
    PROVE  Records(mgr', saves', db', games')
<1>1. ASSUME NEW a \in Actions, MakeMove(s, r, a) PROVE Records(mgr', saves', db', games')
    BY <1>1, EnqueueRecords DEF MakeMove
<1>2. CASE ResetGame(s, r)
    BY <1>2, EnqueueRecords DEF ResetGame
<1>3. CASE RematchAccept(s, r)
    BY <1>3 DEF RematchAccept, settling, history
<1>4. QED
    BY <1>1, <1>2, <1>3, JoinRecords, SyncRecords, RequestRecords, DeclineRecords DEF Packet

(* At the start nothing is recorded.                                       *)
LEMMA RecordsInit ==
    ASSUME Init PROVE Records(mgr, saves, db, games)
BY DEF Init, Records, GamesApart, RecordsApart, RecordsKnown, IsRecorded

(* Every step but a save that fails too late keeps games recorded once.    *)
LEMMA RecordsNext ==
    ASSUME "db ack lost" \notin Faults, ServerInv, Records(mgr, saves, db, games),
           [Next]_vars, InTime
    PROVE  Records(mgr', saves', db', games')
<1>1. ASSUME mgr' = mgr, saves' = saves, db' = db, games' = games
      PROVE  Records(mgr', saves', db', games')
    BY <1>1
<1>2. ASSUME NEW s \in Sockets, Connect(s) \/ Disconnect(s)
      PROVE  Records(mgr', saves', db', games')
    BY <1>1, <1>2, DisconnectRecords DEF Connect, settling, history
<1>3. CASE \E s \in Sockets, r \in RoomIds : Packet(s, r)
    BY <1>3, PacketRecords
<1>4. CASE Resumption
    BY <1>4, JoinResumesRecords, RematchRecords, StartRecords, MoveFinishRecords, ResetRecords
       DEF Resumption
<1>5. CASE LoadCore
    BY <1>1, <1>5 DEF LoadCore, settling, history
<1>6. CASE Sweep
    BY <1>6, SweepRecords
<1>7. ASSUME NEW o \in Objs,
             (\E u \in Users : Expire(o, u)) \/ \E a \in Actions : Forget(o, a)
      PROVE  Records(mgr', saves', db', games')
    BY <1>7, TimerRecords
<1>8. ASSUME NEW r \in RoomIds, (\E u \in Users : Stake(r, u)) \/ ForceDraw(r)
      PROVE  Records(mgr', saves', db', games')
    BY <1>1, <1>8 DEF Stake, ForceDraw, history
<1>9. ASSUME NEW tx \in mempool, Mine(tx) PROVE Records(mgr', saves', db', games')
    BY <1>1, <1>9 DEF Mine, history
<1>10. ASSUME NEW i \in SaveIds, SubmitResult(i) \/ SaveResult(i)
       PROVE  Records(mgr', saves', db', games')
    BY <1>10, SubmitRecords, StoreRecords
<1>11. CASE UNCHANGED vars
    BY <1>1, <1>11 DEF vars, settling, history
<1>12. QED
    BY <1>2, <1>3, <1>4, <1>5, <1>6, <1>7, <1>8, <1>9, <1>10, <1>11 DEF Next

(* A game is recorded at most once, whatever is sent and whoever comes and *)
(* goes, as long as no answer of the database is lost and no save fails    *)
(* after its room has gone on to another game (which is how a game is      *)
(* recorded twice: the failure marks the other game as not saved).         *)
THEOREM RecordedOnce ==
    ASSUME "db ack lost" \notin Faults
    PROVE  Spec /\ [][InTime]_vars => []RecordedAtMostOnce
<1>1. Init => Records(mgr, saves, db, games)
    BY RecordsInit
<1>2. ServerInv /\ Records(mgr, saves, db, games) /\ [Next]_vars /\ [InTime]_vars =>
            Records(mgr, saves, db, games)'
  <2>1. CASE UNCHANGED vars
    BY <2>1 DEF vars, settling, history
  <2>2. QED
    BY <2>1, RecordsNext
<1>3. Records(mgr, saves, db, games) => RecordedAtMostOnce
    BY DEF Records, RecordsApart, RecordedAtMostOnce
<1>4. QED
    BY <1>1, <1>2, <1>3, ServerInvariance, PTL DEF Spec

(* In a behaviour in which no save in flight is of a game that its room    *)
(* has left behind, no save fails too late, so a game is recorded at most  *)
(* once, unless an answer of the database is lost.                         *)
THEOREM RacesExplainDoubles ==
    ASSUME "db ack lost" \notin Faults
    PROVE  Spec => DoubleSavesNeedRaces
<1>1. SavesAreCurrent => InTime
    BY DEF SavesAreCurrent, InTime
<1>2. Spec /\ [][InTime]_vars => []RecordedAtMostOnce
    BY RecordedOnce
<1>3. QED
    BY <1>1, <1>2, PTL DEF DoubleSavesNeedRaces

-----------------------------------------------------------------------------
(***************************************************************************)
(* The queues                                                              *)
(***************************************************************************)
QueueShortens(a, b) ==
    \/ b.queue = a.queue
    \/ a.queue # <<>> /\ b.queue = Tail(a.queue)

QueuesLess(m, n) ==
    \A o \in Objs : n.heap[o] # None /\ n.heap[o].queue # <<>> =>
        m.heap[o] # None /\ QueueShortens(m.heap[o], n.heap[o])

(* A queue that stays                                                      *)
LEMMA SameShortens ==
    ASSUME NEW a, NEW b, SameGame(a, b) PROVE QueueShortens(a, b)
BY DEF SameGame, QueueShortens

(* Others keep their queues.                                               *)
LEMMA OtherQueues ==
    ASSUME NEW o \in Objs, OthersStay(o),
           mgr'.heap[o] # None /\ mgr'.heap[o].queue # <<>> =>
               mgr.heap[o] # None /\ QueueShortens(mgr.heap[o], mgr'.heap[o])
    PROVE  QueuesLess(mgr, mgr')
<1> SUFFICES ASSUME NEW p \in Objs, p # o, mgr'.heap[p] # None
             PROVE  mgr.heap[p] # None /\ QueueShortens(mgr.heap[p], mgr'.heap[p])
    BY DEF QueuesLess
<1>1. mgr.heap[p] # None /\ SameGame(mgr.heap[p], mgr'.heap[p])
    BY DEF OthersStay
<1>2. QED
    BY <1>1, SameShortens

(* What is written into a room with a shorter queue                        *)
LEMMA WrittenQueue ==
    ASSUME NEW o \in Objs, NEW b, WrittenStep(o, b), QueueShortens(mgr.heap[o], b)
    PROVE  QueuesLess(mgr, mgr')
BY OtherQueues DEF WrittenStep

(* A step shortens queues, or adds one packet to one of them.              *)
LEMMA QueuesStep ==
    ASSUME ServerInv, [Next]_vars
    PROVE  QueuesLess(mgr, mgr') \/ \E o \in Objs : Queues(o)
<1>1. GameStep /\ SoundMgr(mgr)
    BY Steps DEF ServerStep, ServerInv
<1>2. CASE GamesStay
    BY <1>2, SameShortens DEF GamesStay, NoNewRoom, QueuesLess
<1> SUFFICES ASSUME NEW o \in Objs,
                    \/ ReleaseStep(o) \/ Forgets(o) \/ Begins(o) \/ StartsOver(o)
                    \/ MoveStep(o) \/ Rematches(o) \/ OpenStep(o)
             PROVE  QueuesLess(mgr, mgr')
    BY <1>1, <1>2 DEF GameStep
<1> DEFINE a == mgr.heap[o]
           b == mgr'.heap[o]
<1>3. a # None => a \in RoomRec
    BY <1>1 DEF SoundMgr, SoundRoom
<1>4. CASE ReleaseStep(o)
    BY <1>4, OtherQueues DEF ReleaseStep, QueueShortens
<1>5. CASE Forgets(o)
  <2>1. PICK x \in Actions : WrittenStep(o, [a EXCEPT !.dedupe = @ \ {x}])
    BY <1>5 DEF Forgets
  <2>2. QueueShortens(a, [a EXCEPT !.dedupe = @ \ {x}])
    BY <1>3, <2>1 DEF WrittenStep, RoomRec, QueueShortens
  <2>3. QED
    BY <2>1, <2>2, WrittenQueue
<1>6. CASE Begins(o)
  <2>1. a.queue # <<>>
    BY <1>6 DEF Begins
  <2>2. ASSUME WrittenStep(o, [a EXCEPT !.phase = "core", !.before = a.game])
        PROVE  QueuesLess(mgr, mgr')
    <3>1. QueueShortens(a, [a EXCEPT !.phase = "core", !.before = a.game])
      BY <1>3, <2>2 DEF WrittenStep, RoomRec, QueueShortens
    <3>2. QED
      BY <2>2, <3>1, WrittenQueue
  <2>3. ASSUME WrittenStep(o, Dequeued(a))
        PROVE  QueuesLess(mgr, mgr')
    <3>1. QueueShortens(a, Dequeued(a))
      BY <1>3, <2>1, <2>3 DEF WrittenStep, RoomRec, QueueShortens, Dequeued
    <3>2. QED
      BY <2>3, <3>1, WrittenQueue
  <2>4. QED
    BY <1>6, <2>2, <2>3 DEF Begins
<1>7. CASE StartsOver(o)
    BY <1>7, WrittenQueue DEF StartsOver, QueueShortens
<1>8. CASE MoveStep(o)
    BY <1>8, OtherQueues DEF MoveStep, QueueShortens
<1>9. CASE Rematches(o)
    BY <1>9, WrittenQueue DEF Rematches, QueueShortens
<1>10. CASE OpenStep(o)
    BY <1>10, OtherQueues DEF OpenStep
<1>11. QED
    BY <1>4, <1>5, <1>6, <1>7, <1>8, <1>9, <1>10

-----------------------------------------------------------------------------
(***************************************************************************)
(* Rooms that play one game                                                *)
(***************************************************************************)
OneGame == "reset" \notin Requests /\ "accept" \notin Requests

NoResets(m) ==
    \A o \in Objs : m.heap[o] # None =>
        \A k \in DOMAIN m.heap[o].queue : m.heap[o].queue[k].kind # "reset"

(* A save belongs to the game its room plays.                              *)
OneGameInv ==
    /\ NoResets(mgr)
    /\ \A i \in SaveIds : saves[i] # None => mgr.heap[saves[i].obj].game.id = saves[i].game

(* No reset gets into a queue.                                             *)
LEMMA NoResetsStep ==
    ASSUME "reset" \notin Requests, ServerInv, NoResets(mgr), [Next]_vars
    PROVE  NoResets(mgr')
<1>1. \A o \in Objs : mgr.heap[o] # None => mgr.heap[o] \in RoomRec
    BY DEF ServerInv, SoundMgr, SoundRoom
<1>2. CASE QueuesLess(mgr, mgr')
  <2> SUFFICES ASSUME NEW o \in Objs, mgr'.heap[o] # None, NEW k \in DOMAIN mgr'.heap[o].queue
               PROVE  mgr'.heap[o].queue[k].kind # "reset"
    BY DEF NoResets
  <2> DEFINE p == mgr.heap[o].queue
             q == mgr'.heap[o].queue
  <2>1. mgr'.heap[o] \in RoomRec
    BY Steps DEF ServerStep, RoomsStep, SoundMgr, SoundRoom
  <2>2. q \in Seq(QueuedOp) /\ q # <<>>
    BY <2>1 DEF RoomRec
  <2>3. /\ mgr.heap[o] # None /\ p \in Seq(QueuedOp)
        /\ \A j \in DOMAIN p : p[j].kind # "reset"
        /\ q = p \/ (p # <<>> /\ q = Tail(p))
    BY <1>1, <1>2, <2>2 DEF QueuesLess, QueueShortens, RoomRec, NoResets
  <2> HIDE DEF p, q
  <2>4. CASE p # <<>> /\ q = Tail(p)
    BY <2>2, <2>3, <2>4 DEF q
  <2>5. QED
    BY <2>3, <2>4 DEF q
<1>3. CASE \E o \in Objs : Queues(o)
  <2>1. PICK o \in Objs, op \in QueuedOp :
            /\ op.kind # "reset"
            /\ WrittenStep(o, [mgr.heap[o] EXCEPT !.queue = Append(@, op)])
    BY <1>3 DEF Queues
  <2>2. /\ OthersStay(o) /\ mgr.heap[o] # None
        /\ mgr'.heap[o] = [mgr.heap[o] EXCEPT !.queue = Append(@, op)]
    BY <2>1 DEF WrittenStep
  <2>3. mgr.heap[o].queue \in Seq(QueuedOp) /\ mgr'.heap[o].queue = Append(mgr.heap[o].queue, op)
    BY <1>1, <2>2 DEF RoomRec
  <2>4. \A k \in DOMAIN mgr'.heap[o].queue : mgr'.heap[o].queue[k].kind # "reset"
    BY <2>1, <2>2, <2>3 DEF NoResets
  <2>5. QED
    <3> SUFFICES ASSUME NEW p \in Objs, p # o, mgr'.heap[p] # None
                 PROVE  \A k \in DOMAIN mgr'.heap[p].queue : mgr'.heap[p].queue[k].kind # "reset"
      BY <2>4 DEF NoResets
    <3>1. mgr.heap[p] # None /\ mgr'.heap[p].queue = mgr.heap[p].queue
      BY <2>2 DEF OthersStay, SameGame
    <3>2. QED
      BY <3>1 DEF NoResets
<1>4. QED
    BY <1>2, <1>3, QueuesStep

(* A room that somebody refers to plays the same game on.                  *)
LEMMA SameGameStep ==
    ASSUME OneGame, ServerInv, RaceInv, NoResets(mgr), [Next]_vars,
           NEW o \in Objs, mgr.heap[o] # None, InUse(o)
    PROVE  mgr'.heap[o].game.id = mgr.heap[o].game.id
<1> DEFINE a == mgr.heap[o]
           b == mgr'.heap[o]
<1>1. ObjectStep(o) /\ o \notin FreeObjs /\ resets = {}
    BY ObjectSteps DEF FreeObjs, RaceInv, OneGame
<1>2. a \in RoomRec /\ SoundRoom(a)
    BY DEF ServerInv, SoundMgr, SoundRoom
<1>3. a.queue # <<>> => Head(a.queue).kind # "reset"
    BY <1>2 DEF NoResets, RoomRec
<1>4. CASE MoveStep(o)
  <2>1. b.game = a.game \/ MoveTaken(a, b, Head(a.queue).action)
    BY <1>4 DEF MoveStep
  <2>2. a.before = a.game /\ a.game \in GameOf
    BY <1>2, <1>4 DEF MoveStep, RaceInv, BoardsKept, RoomRec
  <2>3. ASSUME NEW c, b.game = [a.before EXCEPT !.board = c] PROVE b.game.id = a.game.id
    BY <2>2, <2>3 DEF GameOf
  <2>4. QED
    BY <2>1, <2>3 DEF MoveTaken
<1>5. QED
    BY <1>1, <1>3, <1>4 DEF ObjectStep, SameGame

(* No packet makes a save of another game than that of its room.           *)
LEMMA PacketSaves ==
    ASSUME ServerInv, Records(mgr, saves, db, games),
           NEW s \in Sockets, NEW r \in RoomIds, Packet(s, r)
    PROVE  NewSaves(saves, saves', mgr')
<1>1. CASE \E stake \in Stakes : JoinRoom(s, r, stake)
    BY <1>1, JoinRecords
<1>2. CASE SyncState(s, r)
    BY <1>2, SyncRecords
<1>3. CASE \/ \E a \in Actions : MakeMove(s, r, a)
           \/ ResetGame(s, r)
    BY <1>3 DEF MakeMove, ResetGame, Enqueue, NewSaves
<1>4. CASE \/ RematchRequest(s, r)
           \/ RematchAccept(s, r)
           \/ RematchDecline(s, r)
    BY <1>4 DEF RematchRequest, RematchAccept, RematchDecline, NewSaves
<1>5. QED
    BY <1>1, <1>2, <1>3, <1>4 DEF Packet

(* Nor does what is resumed.                                               *)
LEMMA ResumptionSaves ==
    ASSUME ServerInv, Records(mgr, saves, db, games), Resumption
    PROVE  NewSaves(saves, saves', mgr')
<1>1. CASE \E j \in joins : JoinResumes(j)
    BY <1>1, JoinResumesRecords
<1>2. CASE \E x \in resets : RematchResumes(x)
    BY <1>2 DEF RematchResumes, NewSaves
<1>3. CASE \E o \in Objs : FinishMove(o)
    BY <1>3, MoveFinishRecords
<1>4. CASE \E o \in Objs : StartOp(o) \/ FinishReset(o)
    BY <1>4 DEF StartOp, FinishReset, NewSaves
<1>5. QED
    BY <1>1, <1>2, <1>3, <1>4 DEF Resumption

(* An answer to a save leaves its game as it was.                          *)
LEMMA AnswerSaves ==
    ASSUME ServerInv, NEW i \in SaveIds, SubmitResult(i) \/ SaveResult(i)
    PROVE  NewSaves(saves, saves', mgr')
<1>1. saves \in [SaveIds -> SaveInFlight \union {None}]
    BY DEF ServerInv, SavesOK
<1>2. CASE saves' = [saves EXCEPT ![i] = None]
    BY <1>1, <1>2 DEF NewSaves
<1>3. CASE SaveResult(i)
    BY <1>2, <1>3 DEF SaveResult, Saved, SavedUnawares, NotSaved, FailSave
<1>4. ASSUME NEW submitted,
             saves' = [saves EXCEPT ![i].stage = "db", ![i].paid = submitted,
                          ![i].winner = Winner(mgr.heap[saves[i].obj].game.board.score),
                          ![i].read = mgr.heap[saves[i].obj].game.id]
      PROVE  NewSaves(saves, saves', mgr')
  <2> DEFINE w == Winner(mgr.heap[saves[i].obj].game.board.score)
             n == mgr.heap[saves[i].obj].game.id
             save == [saves[i] EXCEPT !.stage = "db", !.paid = submitted, !.winner = w,
                                      !.read = n]
  <2>1. saves' = [saves EXCEPT ![i] = save]
    BY <1>1, <1>4
  <2>2. saves[i] # None => save.obj = saves[i].obj /\ save.game = saves[i].game
    BY <1>1 DEF SaveInFlight
  <2> HIDE DEF save
  <2>3. \A j \in SaveIds : saves'[j] = IF j = i THEN save ELSE saves[j]
    BY <1>1, <2>1
  <2>4. CASE saves[i] # None
    BY <2>2, <2>3, <2>4 DEF NewSaves
  <2>5. QED
    BY <2>4 DEF SubmitResult, SaveResult, Saved, SavedUnawares, NotSaved, Storing
<1>5. CASE SubmitResult(i)
  <2>1. \E submitted \in BOOLEAN : ChainAnswered(i, submitted)
    BY <1>5 DEF SubmitResult, NotSubmitted, Submitted, SubmittedLate
  <2>2. QED
    BY <1>2, <1>4, <2>1 DEF ChainAnswered, FailSave
<1>6. QED
    BY <1>3, <1>5

(* Saves are of the game that their room plays when they begin.            *)
LEMMA SavesStep ==
    ASSUME ServerInv, Records(mgr, saves, db, games), [Next]_vars
    PROVE  NewSaves(saves, saves', mgr')
<1>1. CASE saves' = saves
    BY <1>1 DEF NewSaves
<1>2. CASE \/ \E s \in Sockets : Connect(s) \/ Disconnect(s)
           \/ LoadCore
           \/ Sweep
           \/ \E o \in Objs, u \in Users : Expire(o, u)
           \/ \E o \in Objs, a \in Actions : Forget(o, a)
    BY <1>1, <1>2 DEF Connect, Disconnect, LoadCore, Sweep, Expire, Forget
<1>3. CASE \/ \E r \in RoomIds, u \in Users : Stake(r, u)
           \/ \E r \in RoomIds : ForceDraw(r)
           \/ \E tx \in mempool : Mine(tx)
           \/ UNCHANGED vars
    BY <1>1, <1>3 DEF Stake, ForceDraw, Mine, vars
<1>4. QED
    BY <1>2, <1>3, PacketSaves, ResumptionSaves, AnswerSaves DEF Next

(* Every step keeps a save with its game.                                  *)
LEMMA OneGameNext ==
    ASSUME OneGame, ServerInv, RaceInv, Records(mgr, saves, db, games), OneGameInv,
           [Next]_vars
    PROVE  OneGameInv'
<1>1. NoResets(mgr')
    BY NoResetsStep DEF OneGame, OneGameInv
<1>2. ASSUME NEW i \in SaveIds, saves'[i] # None, saves[i] # None,
             saves'[i].obj = saves[i].obj, saves'[i].game = saves[i].game
      PROVE  mgr'.heap[saves'[i].obj].game.id = saves'[i].game
  <2>1. saves[i].obj \in Objs /\ mgr.heap[saves[i].obj] # None
    BY <1>2 DEF ServerInv, SavesOK, SaveInFlight
  <2>2. InUse(saves[i].obj)
    BY <1>2 DEF InUse
  <2>3. mgr'.heap[saves[i].obj].game.id = mgr.heap[saves[i].obj].game.id
    BY <2>1, <2>2, SameGameStep DEF OneGameInv
  <2>4. QED
    BY <1>2, <2>3 DEF OneGameInv
<1>3. \A i \in SaveIds : saves'[i] # None => mgr'.heap[saves'[i].obj].game.id = saves'[i].game
    BY <1>2, SavesStep DEF NewSaves
<1>4. QED
    BY <1>1, <1>3 DEF OneGameInv

(* Where no room starts a second game, no save fails too late, so a game   *)
(* is recorded at most once, unless an answer of the database is lost.     *)
THEOREM OneGameRecorded ==
    ASSUME "db ack lost" \notin Faults, OneGame
    PROVE  Spec => []RecordedAtMostOnce
<1> DEFINE I == Records(mgr, saves, db, games) /\ OneGameInv
<1>1. ASSUME Init PROVE I
  <2>1. NoResets(mgr) /\ \A i \in SaveIds : saves[i] = None
    BY <1>1 DEF Init, NoResets
  <2>2. QED
    BY <1>1, <2>1, RecordsInit DEF OneGameInv
<1>2. ServerInv /\ RaceInv /\ I /\ [Next]_vars => I'
  <2> SUFFICES ASSUME ServerInv, RaceInv, I, [Next]_vars PROVE I'
    OBVIOUS
  <2>1. InTime
    BY DEF InTime, OneGameInv
  <2>2. Records(mgr', saves', db', games')
    BY <2>1, RecordsNext
  <2>3. OneGameInv'
    BY OneGameNext
  <2>4. QED
    BY <2>2, <2>3
<1>3. I => RecordedAtMostOnce
    BY DEF Records, RecordsApart, RecordedAtMostOnce
<1>4. Spec => []RaceInv
    BY RaceInvariance DEF OneAtATime, OneGame
<1>5. QED
    BY <1>1, <1>2, <1>3, <1>4, ServerInvariance, PTL DEF Spec

-----------------------------------------------------------------------------
(***************************************************************************)
(* The games that are started                                              *)
(***************************************************************************)
(* Places in queues                                                        *)
LEMMA QueuedResetsAre ==
    ASSUME NEW m, NEW o \in Objs, NEW k
    PROVE  <<o, k>> \in QueuedResets(m) <=>
               /\ m.heap[o] # None /\ k \in DOMAIN m.heap[o].queue
               /\ m.heap[o].queue[k].kind = "reset"
BY DEF QueuedResets

(* And it is one of a queue and a place in it.                             *)
LEMMA QueuedResetsOnly ==
    ASSUME NEW m, NEW x \in QueuedResets(m)
    PROVE  \E o \in Objs : \E k \in DOMAIN m.heap[o].queue : x = <<o, k>>
BY DEF QueuedResets

(* Where a place in a queue was before the step                            *)
PlaceBefore(m, n, x) ==
    IF n.heap[x[1]].queue = m.heap[x[1]].queue THEN x ELSE <<x[1], x[2] + 1>>

(* Each reset that waits after a step that queues none waited before it.   *)
LEMMA PlacedBefore ==
    ASSUME NEW m, NEW n, SoundMgr(m), SoundMgr(n), QueuesLess(m, n),
           NEW x \in QueuedResets(n)
    PROVE  /\ PlaceBefore(m, n, x) \in QueuedResets(m)
           /\ x[1] \in Objs /\ x[2] \in Nat \ {0} /\ x = <<x[1], x[2]>>
<1>0. PICK o \in Objs : \E k \in DOMAIN n.heap[o].queue : x = <<o, k>>
    BY QueuedResetsOnly
<1>1. PICK k \in DOMAIN n.heap[o].queue : x = <<o, k>>
    BY <1>0
<1> DEFINE p == m.heap[o].queue
           q == n.heap[o].queue
<1>2. n.heap[o] # None /\ k \in DOMAIN q /\ q[k].kind = "reset"
    BY <1>1, QueuedResetsAre
<1>3. q \in Seq(QueuedOp)
    BY <1>2 DEF SoundMgr, SoundRoom, RoomRec
<1>4. k \in 1..Len(q) /\ q # <<>>
    BY <1>2, <1>3
<1>5. /\ m.heap[o] # None
      /\ \/ q = p
         \/ p # <<>> /\ q = Tail(p)
    BY <1>2, <1>4 DEF QueuesLess, QueueShortens
<1>6. p \in Seq(QueuedOp)
    BY <1>5 DEF SoundMgr, SoundRoom, RoomRec
<1>7. CASE q = p
  <2>1. PlaceBefore(m, n, x) = <<o, k>>
    BY <1>1, <1>7 DEF PlaceBefore
  <2>2. QED
    BY <1>1, <1>2, <1>4, <1>5, <1>7, <2>1, QueuedResetsAre
<1>8. CASE q # p
  <2>1. PlaceBefore(m, n, x) = <<o, k + 1>>
    BY <1>1, <1>8 DEF PlaceBefore
  <2>2. k + 1 \in DOMAIN p /\ p[k + 1] = q[k]
    <3> HIDE DEF p, q
    <3>1. q = Tail(p) /\ p # <<>>
      BY <1>5, <1>8
    <3>2. QED
      BY <1>4, <1>6, <3>1
  <2>3. <<o, k + 1>> \in QueuedResets(m)
    BY <1>2, <1>5, <2>2, QueuedResetsAre
  <2>4. QED
    BY <1>1, <1>4, <2>1, <2>3
<1>9. QED
    BY <1>7, <1>8

(* Shorter queues hold no more resets, and fewer if a reset was taken.     *)
LEMMA FewerResets ==
    ASSUME NEW m, NEW n, SoundMgr(m), SoundMgr(n), QueuesLess(m, n),
           IsFiniteSet(QueuedResets(m)), NEW G \in SUBSET QueuedResets(m),
           \A x \in QueuedResets(n) : PlaceBefore(m, n, x) \notin G
    PROVE  /\ IsFiniteSet(QueuedResets(n))
           /\ Cardinality(QueuedResets(n)) <= Cardinality(QueuedResets(m) \ G)
<1> DEFINE S == QueuedResets(n)
           T == QueuedResets(m) \ G
           f == [x \in S |-> PlaceBefore(m, n, x)]
<1>1. f \in [S -> T]
    BY PlacedBefore
<1>2. ASSUME NEW x \in S, NEW y \in S, f[x] = f[y] PROVE x = y
  <2>1. PlaceBefore(m, n, x) = PlaceBefore(m, n, y)
    BY <1>2
  <2>2. /\ x[1] \in Objs /\ x[2] \in Nat /\ x = <<x[1], x[2]>>
        /\ y[1] \in Objs /\ y[2] \in Nat /\ y = <<y[1], y[2]>>
    BY PlacedBefore
  <2>3. x[1] = y[1]
    BY <2>1, <2>2 DEF PlaceBefore
  <2>4. x[2] = y[2]
    BY <2>1, <2>2, <2>3 DEF PlaceBefore
  <2>5. QED
    BY <2>2, <2>3, <2>4
<1>3. f \in Injection(S, T)
    BY <1>1, <1>2 DEF Injection, IsInjective
<1>4. IsFiniteSet(T)
    BY FS_Subset
<1>5. QED
    BY <1>3, <1>4, FS_Injection

(* They hold no more of them in any case.                                  *)
LEMMA NoMoreResets ==
    ASSUME NEW m, NEW n, SoundMgr(m), SoundMgr(n), QueuesLess(m, n),
           IsFiniteSet(QueuedResets(m))
    PROVE  /\ IsFiniteSet(QueuedResets(n))
           /\ Cardinality(QueuedResets(n)) <= Cardinality(QueuedResets(m))
<1> DEFINE G == {}
<1>1. G \in SUBSET QueuedResets(m) /\ \A y : y \notin G
    OBVIOUS
<1>2. QueuedResets(m) \ G = QueuedResets(m)
    OBVIOUS
<1> HIDE DEF G
<1>3. QED
    BY <1>1, <1>2, FewerResets

(* One less waits when a chain has taken a reset.                          *)
LEMMA OneResetLess ==
    ASSUME NEW m, NEW n, SoundMgr(m), SoundMgr(n), QueuesLess(m, n),
           IsFiniteSet(QueuedResets(m)),
           NEW o \in Objs, m.heap[o] # None, n.heap[o] # None, m.heap[o].queue # <<>>,
           Head(m.heap[o].queue).kind = "reset", n.heap[o].queue = Tail(m.heap[o].queue)
    PROVE  /\ IsFiniteSet(QueuedResets(n))
           /\ Cardinality(QueuedResets(n)) <= Cardinality(QueuedResets(m)) - 1
<1> DEFINE q == m.heap[o].queue
           x == <<o, 1>>
           G == {x}
<1>1. q \in Seq(QueuedOp) /\ q # <<>>
    BY DEF SoundMgr, SoundRoom, RoomRec
<1>2. 1 \in DOMAIN q /\ q[1].kind = "reset" /\ Tail(q) # q
  <2> HIDE DEF q
  <2>1. Head(q).kind = "reset"
    BY DEF q
  <2>2. Len(Tail(q)) = Len(q) - 1 /\ Len(q) \in Nat \ {0} /\ DOMAIN q = 1..Len(q)
    BY <1>1
  <2>3. Tail(q) # q /\ 1 \in DOMAIN q
    <3>1. \A k \in Nat \ {0} : 1 \in 1..k /\ k - 1 # k
      OBVIOUS
    <3>2. 1 \in 1..Len(q) /\ Len(q) - 1 # Len(q)
      BY <2>2, <3>1, Zenon
    <3>3. QED
      BY <2>2, <3>2
  <2>4. q[1] = Head(q)
    BY <1>1
  <2>5. QED
    BY <2>1, <2>3, <2>4
<1>3. x \in QueuedResets(m)
    BY <1>2, QueuedResetsAre
<1>4. ASSUME NEW y \in QueuedResets(n) PROVE PlaceBefore(m, n, y) # x
  <2>1. y[1] \in Objs /\ y[2] \in Nat \ {0} /\ y = <<y[1], y[2]>>
    BY PlacedBefore
  <2>2. CASE y[1] = o
    <3>1. PlaceBefore(m, n, y) = <<o, y[2] + 1>>
      BY <1>2, <2>2 DEF PlaceBefore
    <3>2. QED
      BY <2>1, <3>1
  <2>3. CASE y[1] # o
    <3>1. PlaceBefore(m, n, y)[1] = y[1]
      BY <2>1 DEF PlaceBefore
    <3>2. QED
      BY <2>3, <3>1
  <2>4. QED
    BY <2>2, <2>3
<1> HIDE DEF x
<1>5. G \in SUBSET QueuedResets(m)
    BY <1>3
<1>6. \A y \in QueuedResets(n) : PlaceBefore(m, n, y) \notin G
    BY <1>4
<1>7. /\ IsFiniteSet(QueuedResets(n))
      /\ Cardinality(QueuedResets(n)) <= Cardinality(QueuedResets(m) \ G)
  <2> HIDE DEF G
  <2>1. QED
    BY <1>5, <1>6, FewerResets
<1>8. Cardinality(QueuedResets(m) \ G) = Cardinality(QueuedResets(m)) - 1
    BY <1>3, FS_RemoveElement
<1>9. QED
    BY <1>7, <1>8

(* A packet that is added counts if it is a reset.                         *)
LEMMA OneResetMore ==
    ASSUME NEW m, NEW n, SoundMgr(m), SoundMgr(n), IsFiniteSet(QueuedResets(m)),
           NEW o \in Objs, m.heap[o] # None, n.heap[o] # None, NEW op \in QueuedOp,
           n.heap[o].queue = Append(m.heap[o].queue, op),
           \A p \in Objs : p # o /\ n.heap[p] # None =>
               m.heap[p] # None /\ n.heap[p].queue = m.heap[p].queue
    PROVE  /\ IsFiniteSet(QueuedResets(n))
           /\ Cardinality(QueuedResets(n)) <= Cardinality(QueuedResets(m)) + 1
           /\ op.kind # "reset" =>
                 Cardinality(QueuedResets(n)) <= Cardinality(QueuedResets(m))
<1> DEFINE q == m.heap[o].queue
           x == <<o, Len(q) + 1>>
<1>1. q \in Seq(QueuedOp)
    BY DEF SoundMgr, SoundRoom, RoomRec
<1>2. /\ DOMAIN Append(q, op) = DOMAIN q \union {Len(q) + 1}
      /\ \A k \in DOMAIN q : Append(q, op)[k] = q[k]
      /\ Append(q, op)[Len(q) + 1] = op
  <2> HIDE DEF q
  <2>1. DOMAIN q = 1..Len(q) /\ Len(q) \in Nat
    BY <1>1
  <2>2. /\ DOMAIN Append(q, op) = 1..(Len(q) + 1) /\ Append(q, op)[Len(q) + 1] = op
        /\ \A k \in 1..Len(q) : Append(q, op)[k] = q[k]
    BY <1>1
  <2>3. 1..(Len(q) + 1) = (1..Len(q)) \union {Len(q) + 1}
    BY <2>1
  <2>4. QED
    BY <2>1, <2>2, <2>3
<1>3. ASSUME NEW y \in QueuedResets(n), y # x \/ op.kind # "reset"
      PROVE  y \in QueuedResets(m)
  <2>0. PICK p \in Objs : \E k \in DOMAIN n.heap[p].queue : y = <<p, k>>
    BY QueuedResetsOnly
  <2>1. PICK k \in DOMAIN n.heap[p].queue : y = <<p, k>>
    BY <2>0
  <2>2. n.heap[p] # None /\ k \in DOMAIN n.heap[p].queue /\ n.heap[p].queue[k].kind = "reset"
    BY <2>1, QueuedResetsAre
  <2>3. CASE p = o
    BY <1>2, <1>3, <2>1, <2>2, <2>3, QueuedResetsAre
  <2>4. CASE p # o
    BY <2>1, <2>2, <2>4, QueuedResetsAre
  <2>5. QED
    BY <2>3, <2>4
<1>4. /\ IsFiniteSet(QueuedResets(m) \union {x})
      /\ Cardinality(QueuedResets(m) \union {x}) <= Cardinality(QueuedResets(m)) + 1
  <2>1. Cardinality(QueuedResets(m)) \in Nat
    BY FS_CardinalityType
  <2> HIDE DEF x
  <2>2. /\ IsFiniteSet(QueuedResets(m) \union {x})
        /\ Cardinality(QueuedResets(m) \union {x}) =
              IF x \in QueuedResets(m) THEN Cardinality(QueuedResets(m))
              ELSE Cardinality(QueuedResets(m)) + 1
    BY FS_AddElement
  <2>3. QED
    BY <2>1, <2>2
<1>5. QueuedResets(n) \in SUBSET (QueuedResets(m) \union {x})
    BY <1>3
<1>6. op.kind # "reset" => QueuedResets(n) \in SUBSET QueuedResets(m)
    BY <1>3
<1>7. IsFiniteSet(QueuedResets(n)) /\ Cardinality(QueuedResets(n)) \in Nat
    BY <1>4, <1>5, FS_Subset, FS_CardinalityType
<1>8. Cardinality(QueuedResets(n)) <= Cardinality(QueuedResets(m)) + 1
  <2>1. Cardinality(QueuedResets(n)) <= Cardinality(QueuedResets(m) \union {x})
    BY <1>4, <1>5, FS_Subset
  <2>2. /\ Cardinality(QueuedResets(m)) \in Nat
        /\ Cardinality(QueuedResets(m) \union {x}) \in Nat
    BY <1>4, FS_CardinalityType
  <2>3. QED
    BY <1>4, <1>7, <2>1, <2>2
<1>9. QED
    BY <1>6, <1>7, <1>8, FS_Subset

(* The games that were started, and those that are on their way, are       *)
(* within the bound.                                                       *)
GamesFit(m, j, x, g) ==
    /\ IsFiniteSet(j) /\ IsFiniteSet(x) /\ IsFiniteSet(QueuedResets(m))
    /\ g + Cardinality(j) + Cardinality(x) + Cardinality(QueuedResets(m)) <= MaxGames

(* What fits and gives a place for a place it takes fits again.            *)
LEMMA FitsOn ==
    ASSUME NEW m, NEW n, NEW j, NEW k, NEW x, NEW y, NEW g \in Nat, NEW h \in Nat,
           GamesFit(m, j, x, g),
           IsFiniteSet(k), IsFiniteSet(y), IsFiniteSet(QueuedResets(n)),
           \/ h + Cardinality(k) + Cardinality(y) + Cardinality(QueuedResets(n))
                  <= g + Cardinality(j) + Cardinality(x) + Cardinality(QueuedResets(m))
           \/ /\ g + Cardinality(j) + Cardinality(x) + Cardinality(QueuedResets(m)) < MaxGames
              /\ h + Cardinality(k) + Cardinality(y) + Cardinality(QueuedResets(n))
                     <= g + Cardinality(j) + Cardinality(x) + Cardinality(QueuedResets(m)) + 1
    PROVE  GamesFit(n, k, y, h)
<1>1. /\ Cardinality(k) \in Nat /\ Cardinality(y) \in Nat /\ Cardinality(QueuedResets(n)) \in Nat
      /\ Cardinality(j) \in Nat /\ Cardinality(x) \in Nat /\ Cardinality(QueuedResets(m)) \in Nat
    BY FS_CardinalityType DEF GamesFit
<1>2. MaxGames \in Nat
    BY ServerAssumption
<1>3. QED
    BY <1>1, <1>2 DEF GamesFit

(* Taking a handler off the list of those that wait                        *)
LEMMA OneLess ==
    ASSUME NEW S, IsFiniteSet(S), NEW x \in S
    PROVE  IsFiniteSet(S \ {x}) /\ Cardinality(S \ {x}) = Cardinality(S) - 1
BY FS_RemoveElement

(* Putting one on it                                                       *)
LEMMA OneMore ==
    ASSUME NEW S, IsFiniteSet(S), NEW x
    PROVE  /\ IsFiniteSet(S \union {x}) /\ Cardinality(S) \in Nat
           /\ Cardinality(S \union {x}) \in Nat
           /\ Cardinality(S \union {x}) <= Cardinality(S) + 1
<1>1. IsFiniteSet(S \union {x}) /\ Cardinality(S) \in Nat
    BY FS_AddElement, FS_CardinalityType
<1>2. Cardinality(S \union {x}) \in Nat
    BY <1>1, FS_CardinalityType
<1>3. Cardinality(S \union {x}) = IF x \in S THEN Cardinality(S) ELSE Cardinality(S) + 1
    BY FS_AddElement
<1>4. QED
    BY <1>1, <1>2, <1>3

(* A calm step adds no packet.                                             *)
LEMMA CalmQueues ==
    ASSUME GamesStay PROVE QueuesLess(mgr, mgr')
BY SameShortens DEF GamesStay, NoNewRoom, QueuesLess

(* Waiting handlers and queues, where none is added                        *)
LEMMA ResetsLess ==
    ASSUME ServerInv, [Next]_vars, GamesFit(mgr, joins, resets, games), QueuesLess(mgr, mgr')
    PROVE  /\ IsFiniteSet(QueuedResets(mgr')) /\ Cardinality(QueuedResets(mgr)) \in Nat
           /\ Cardinality(QueuedResets(mgr')) \in Nat
           /\ Cardinality(QueuedResets(mgr')) <= Cardinality(QueuedResets(mgr))
<1>1. SoundMgr(mgr) /\ SoundMgr(mgr') /\ IsFiniteSet(QueuedResets(mgr))
    BY Steps DEF ServerInv, ServerStep, RoomsStep, GamesFit
<1>2. /\ IsFiniteSet(QueuedResets(mgr'))
      /\ Cardinality(QueuedResets(mgr')) <= Cardinality(QueuedResets(mgr))
    BY <1>1, NoMoreResets
<1>3. QED
    BY <1>1, <1>2, FS_CardinalityType

(* A step that starts nothing may add a packet, if there is room for it.   *)
LEMMA PacketFits ==
    ASSUME ServerInv, [Next]_vars, GamesFit(mgr, joins, resets, games),
           joins' = joins, resets' = resets, games' = games
    PROVE  GamesFit(mgr', joins', resets', games')
<1>1. /\ IsFiniteSet(joins) /\ IsFiniteSet(resets) /\ IsFiniteSet(QueuedResets(mgr))
      /\ Cardinality(joins) \in Nat /\ Cardinality(resets) \in Nat /\ games \in Nat
      /\ Cardinality(QueuedResets(mgr)) \in Nat
    BY FS_CardinalityType DEF GamesFit, ServerInv
<1>2. CASE QueuesLess(mgr, mgr')
  <2>1. /\ IsFiniteSet(QueuedResets(mgr')) /\ Cardinality(QueuedResets(mgr')) \in Nat
        /\ Cardinality(QueuedResets(mgr')) <= Cardinality(QueuedResets(mgr))
    BY <1>2, ResetsLess
  <2>2. games + Cardinality(joins) + Cardinality(resets) + Cardinality(QueuedResets(mgr'))
            <= games + Cardinality(joins) + Cardinality(resets) + Cardinality(QueuedResets(mgr))
    BY <1>1, <2>1
  <2>3. QED
    BY <1>1, <2>1, <2>2, FitsOn
<1>3. ASSUME NEW o \in Objs, Queues(o) PROVE GamesFit(mgr', joins', resets', games')
  <2>1. PICK op \in QueuedOp :
            /\ op.kind = "reset" => MayStartGame
            /\ WrittenStep(o, [mgr.heap[o] EXCEPT !.queue = Append(@, op)])
    BY <1>3 DEF Queues
  <2>2. /\ OthersStay(o) /\ mgr.heap[o] # None /\ SoundMgr(mgr) /\ SoundMgr(mgr')
        /\ mgr'.heap[o] = [mgr.heap[o] EXCEPT !.queue = Append(@, op)] /\ mgr'.heap[o] # None
    BY <2>1 DEF WrittenStep, ServerInv, RoomsStep, Stays
  <2>3. mgr'.heap[o].queue = Append(mgr.heap[o].queue, op)
    BY <2>2 DEF SoundMgr, SoundRoom, RoomRec
  <2>4. \A p \in Objs : p # o /\ mgr'.heap[p] # None =>
            mgr.heap[p] # None /\ mgr'.heap[p].queue = mgr.heap[p].queue
    BY <2>2 DEF OthersStay, SameGame
  <2>5. /\ IsFiniteSet(QueuedResets(mgr'))
        /\ Cardinality(QueuedResets(mgr')) <= Cardinality(QueuedResets(mgr)) + 1
        /\ op.kind # "reset" =>
              Cardinality(QueuedResets(mgr')) <= Cardinality(QueuedResets(mgr))
    BY <1>1, <2>2, <2>3, <2>4, OneResetMore
  <2>6. Cardinality(QueuedResets(mgr')) \in Nat
    BY <2>5, FS_CardinalityType
  <2>7. \/ games + Cardinality(joins) + Cardinality(resets) + Cardinality(QueuedResets(mgr'))
              <= games + Cardinality(joins) + Cardinality(resets)
                     + Cardinality(QueuedResets(mgr))
        \/ /\ games + Cardinality(joins) + Cardinality(resets)
                  + Cardinality(QueuedResets(mgr)) < MaxGames
           /\ games + Cardinality(joins) + Cardinality(resets)
                  + Cardinality(QueuedResets(mgr'))
                <= games + Cardinality(joins) + Cardinality(resets)
                       + Cardinality(QueuedResets(mgr)) + 1
    <3>1. CASE op.kind # "reset"
      BY <1>1, <2>5, <2>6, <3>1
    <3>2. CASE op.kind = "reset"
      BY <1>1, <2>1, <2>5, <2>6, <3>2 DEF MayStartGame
    <3>3. QED
      BY <3>1, <3>2
  <2>8. QED
    BY <1>1, <2>5, <2>7, FitsOn
<1>4. QED
    BY <1>2, <1>3, QueuesStep

(* JOIN_ROOM of a room that is yet to be made                              *)
LEMMA JoinFits ==
    ASSUME ServerInv, [Next]_vars, GamesFit(mgr, joins, resets, games),
           NEW s \in Sockets, NEW r \in RoomIds, NEW stake \in Stakes, JoinRoom(s, r, stake)
    PROVE  GamesFit(mgr', joins', resets', games')
<1>1. games' = games /\ resets' = resets /\ games \in Nat
    BY DEF JoinRoom, history, ServerInv
<1>2. CASE joins' = joins
    BY <1>1, <1>2, PacketFits
<1>3. ASSUME NEW j, MayStartGame, joins' = joins \union {j}
      PROVE  GamesFit(mgr', joins', resets', games')
  <2>1. QueuesLess(mgr, mgr')
    BY JoinRoomCalm, CalmQueues DEF CalmStep
  <2>2. /\ IsFiniteSet(QueuedResets(mgr')) /\ Cardinality(QueuedResets(mgr)) \in Nat
        /\ Cardinality(QueuedResets(mgr')) \in Nat
        /\ Cardinality(QueuedResets(mgr')) <= Cardinality(QueuedResets(mgr))
    BY <2>1, ResetsLess
  <2>3. IsFiniteSet(joins) /\ IsFiniteSet(resets) /\ Cardinality(resets) \in Nat
    BY FS_CardinalityType DEF GamesFit
  <2>4. /\ IsFiniteSet(joins \union {j}) /\ Cardinality(joins) \in Nat
        /\ Cardinality(joins \union {j}) \in Nat
        /\ Cardinality(joins \union {j}) <= Cardinality(joins) + 1
    BY <2>3, OneMore
  <2>5. games + Cardinality(joins \union {j}) + Cardinality(resets)
            + Cardinality(QueuedResets(mgr'))
          <= games + Cardinality(joins) + Cardinality(resets)
                 + Cardinality(QueuedResets(mgr)) + 1
    BY <1>1, <2>2, <2>3, <2>4
  <2>6. games + Cardinality(joins) + Cardinality(resets)
            + Cardinality(QueuedResets(mgr)) < MaxGames
    BY <1>3 DEF MayStartGame
  <2>7. QED
    BY <1>1, <1>3, <2>2, <2>3, <2>4, <2>5, <2>6, FitsOn
<1>4. QED
    BY <1>2, <1>3 DEF JoinRoom

(* A rematch that is accepted                                              *)
LEMMA AcceptFits ==
    ASSUME ServerInv, GamesFit(mgr, joins, resets, games),
           NEW s \in Sockets, NEW r \in RoomIds, RematchAccept(s, r)
    PROVE  GamesFit(mgr', joins', resets', games')
<1>1. games' = games /\ joins' = joins /\ mgr' = mgr /\ games \in Nat
    BY DEF RematchAccept, history, ServerInv
<1>2. PICK x : resets' = resets \union {x}
    BY DEF RematchAccept
<1>3. /\ IsFiniteSet(joins) /\ IsFiniteSet(resets) /\ IsFiniteSet(QueuedResets(mgr))
      /\ Cardinality(joins) \in Nat /\ Cardinality(QueuedResets(mgr)) \in Nat
    BY FS_CardinalityType DEF GamesFit
<1>4. /\ IsFiniteSet(resets \union {x}) /\ Cardinality(resets) \in Nat
      /\ Cardinality(resets \union {x}) \in Nat
      /\ Cardinality(resets \union {x}) <= Cardinality(resets) + 1
    BY <1>3, OneMore
<1>5. games + Cardinality(joins) + Cardinality(resets \union {x})
          + Cardinality(QueuedResets(mgr))
        <= games + Cardinality(joins) + Cardinality(resets)
               + Cardinality(QueuedResets(mgr)) + 1
    BY <1>1, <1>3, <1>4
<1>6. games + Cardinality(joins) + Cardinality(resets)
          + Cardinality(QueuedResets(mgr)) < MaxGames
    BY DEF RematchAccept, MayStartGame
<1>7. GamesFit(mgr, joins, resets \union {x}, games)
    BY <1>1, <1>3, <1>4, <1>5, <1>6, FitsOn
<1>8. QED
    BY <1>1, <1>2, <1>7

(* JOIN_ROOM after its await makes a room, or finds one.                   *)
LEMMA JoinedFits ==
    ASSUME ServerInv, [Next]_vars, GamesFit(mgr, joins, resets, games),
           NEW j \in joins, JoinResumes(j)
    PROVE  GamesFit(mgr', joins', resets', games')
<1>1. /\ games' \in {games, games + 1} /\ resets' = resets /\ games \in Nat
      /\ joins' = joins \ {j}
    BY DEF JoinResumes, history, ServerInv
<1>2. QueuesLess(mgr, mgr')
    BY JoinResumesStep, CalmQueues, OtherQueues DEF OpenStep, FreeObjs
<1>3. /\ IsFiniteSet(QueuedResets(mgr')) /\ Cardinality(QueuedResets(mgr)) \in Nat
      /\ Cardinality(QueuedResets(mgr')) \in Nat
      /\ Cardinality(QueuedResets(mgr')) <= Cardinality(QueuedResets(mgr))
    BY <1>2, ResetsLess
<1>4. /\ IsFiniteSet(joins) /\ IsFiniteSet(resets)
      /\ Cardinality(joins) \in Nat /\ Cardinality(resets) \in Nat
    BY FS_CardinalityType DEF GamesFit
<1>5. IsFiniteSet(joins \ {j}) /\ Cardinality(joins \ {j}) = Cardinality(joins) - 1
    BY <1>4, OneLess
<1>6. ASSUME NEW h \in {games, games + 1}
      PROVE  h + Cardinality(joins \ {j}) + Cardinality(resets) + Cardinality(QueuedResets(mgr'))
                <= games + Cardinality(joins) + Cardinality(resets)
                       + Cardinality(QueuedResets(mgr))
    BY <1>1, <1>3, <1>4, <1>5
<1>7. ASSUME NEW h \in {games, games + 1}
      PROVE  GamesFit(mgr', joins \ {j}, resets, h)
    BY <1>1, <1>3, <1>4, <1>5, <1>6, FitsOn
<1>8. QED
    BY <1>1, <1>7

(* The new game of a rematch                                               *)
LEMMA RematchFits ==
    ASSUME ServerInv, [Next]_vars, GamesFit(mgr, joins, resets, games),
           NEW x \in resets, RematchResumes(x)
    PROVE  GamesFit(mgr', joins', resets', games')
<1>1. games' = games + 1 /\ resets' = resets \ {x} /\ games \in Nat /\ joins' = joins
    BY DEF RematchResumes, ServerInv
<1>2. QueuesLess(mgr, mgr')
    BY RematchStep, WrittenQueue DEF QueueShortens
<1>3. /\ IsFiniteSet(QueuedResets(mgr')) /\ Cardinality(QueuedResets(mgr)) \in Nat
      /\ Cardinality(QueuedResets(mgr')) \in Nat
      /\ Cardinality(QueuedResets(mgr')) <= Cardinality(QueuedResets(mgr))
    BY <1>2, ResetsLess
<1>4. /\ IsFiniteSet(joins) /\ IsFiniteSet(resets)
      /\ Cardinality(joins) \in Nat /\ Cardinality(resets) \in Nat
    BY FS_CardinalityType DEF GamesFit
<1>5. IsFiniteSet(resets \ {x}) /\ Cardinality(resets \ {x}) = Cardinality(resets) - 1
    BY <1>4, OneLess
<1>6. games + 1 + Cardinality(joins) + Cardinality(resets \ {x})
          + Cardinality(QueuedResets(mgr'))
        <= games + Cardinality(joins) + Cardinality(resets) + Cardinality(QueuedResets(mgr))
    BY <1>1, <1>3, <1>4, <1>5
<1>7. GamesFit(mgr', joins, resets \ {x}, games + 1)
    BY <1>1, <1>3, <1>4, <1>5, <1>6, FitsOn
<1>8. QED
    BY <1>1, <1>7

(* The new game of a reset                                                 *)
LEMMA ResetFits ==
    ASSUME ServerInv, [Next]_vars, GamesFit(mgr, joins, resets, games),
           NEW o \in Objs, FinishReset(o)
    PROVE  GamesFit(mgr', joins', resets', games')
<1>1. games' = games + 1 /\ resets' = resets /\ games \in Nat /\ joins' = joins
    BY DEF FinishReset, ServerInv, handling
<1>2. /\ mgr.heap[o] # None /\ mgr.heap[o].queue # <<>>
      /\ Head(mgr.heap[o].queue).kind = "reset"
    BY DEF FinishReset
<1>3. PICK b : WrittenStep(o, b) /\ b.queue = Tail(mgr.heap[o].queue)
    BY ResetStep
<1>4. QueuesLess(mgr, mgr')
    BY <1>2, <1>3, WrittenQueue DEF QueueShortens
<1>5. /\ SoundMgr(mgr) /\ SoundMgr(mgr')
      /\ mgr'.heap[o] # None /\ mgr'.heap[o].queue = Tail(mgr.heap[o].queue)
    BY <1>3 DEF WrittenStep, ServerInv, RoomsStep, Stays
<1>6. /\ IsFiniteSet(joins) /\ IsFiniteSet(resets) /\ IsFiniteSet(QueuedResets(mgr))
      /\ Cardinality(joins) \in Nat /\ Cardinality(resets) \in Nat
      /\ Cardinality(QueuedResets(mgr)) \in Nat
    BY FS_CardinalityType DEF GamesFit
<1>7. /\ IsFiniteSet(QueuedResets(mgr'))
      /\ Cardinality(QueuedResets(mgr')) <= Cardinality(QueuedResets(mgr)) - 1
    BY <1>2, <1>4, <1>5, <1>6, OneResetLess
<1>8. Cardinality(QueuedResets(mgr')) \in Nat
    BY <1>7, FS_CardinalityType
<1>9. games + 1 + Cardinality(joins) + Cardinality(resets) + Cardinality(QueuedResets(mgr'))
        <= games + Cardinality(joins) + Cardinality(resets) + Cardinality(QueuedResets(mgr))
    BY <1>1, <1>6, <1>7, <1>8
<1>10. GamesFit(mgr', joins, resets, games + 1)
    BY <1>1, <1>6, <1>7, <1>9, FitsOn
<1>11. QED
    BY <1>1, <1>10

(* Every step keeps the games within the bound.                            *)
LEMMA GamesFitNext ==
    ASSUME ServerInv, GamesFit(mgr, joins, resets, games), [Next]_vars
    PROVE  GamesFit(mgr', joins', resets', games')
<1>1. ASSUME UNCHANGED <<joins, resets, games>>
      PROVE  GamesFit(mgr', joins', resets', games')
    BY <1>1, PacketFits
<1>2. ASSUME NEW s \in Sockets, NEW r \in RoomIds, Packet(s, r)
      PROVE  GamesFit(mgr', joins', resets', games')
  <2>1. CASE \/ \E a \in Actions : MakeMove(s, r, a)
             \/ ResetGame(s, r)
             \/ SyncState(s, r)
             \/ RematchRequest(s, r)
             \/ RematchDecline(s, r)
    BY <1>1, <2>1 DEF MakeMove, ResetGame, Enqueue, SyncState, RematchRequest, RematchDecline,
                      handling, history
  <2>2. QED
    BY <1>2, <2>1, JoinFits, AcceptFits DEF Packet
<1>3. CASE Resumption
  <2>1. CASE \E o \in Objs : StartOp(o) \/ FinishMove(o)
    BY <1>1, <2>1 DEF StartOp, FinishMove, handling, history
  <2>2. QED
    BY <1>3, <2>1, JoinedFits, RematchFits, ResetFits DEF Resumption
<1>4. CASE \/ \E s \in Sockets : Connect(s) \/ Disconnect(s)
           \/ LoadCore
           \/ Sweep
           \/ \E o \in Objs, u \in Users : Expire(o, u)
           \/ \E o \in Objs, a \in Actions : Forget(o, a)
    BY <1>1, <1>4 DEF Connect, Disconnect, LoadCore, Sweep, Expire, Forget, handling, history
<1>5. CASE \/ \E r \in RoomIds, u \in Users : Stake(r, u)
           \/ \E r \in RoomIds : ForceDraw(r)
           \/ \E tx \in mempool : Mine(tx)
           \/ \E i \in SaveIds : SubmitResult(i) \/ SaveResult(i)
           \/ UNCHANGED vars
    BY <1>1, <1>5 DEF Stake, ForceDraw, Mine, SubmitResult, SaveResult, handling, history, vars
<1>6. QED
    BY <1>2, <1>3, <1>4, <1>5 DEF Next

(* Every variable keeps its type, the number of games that are started     *)
(* included: each one had a place when its packet was taken.               *)
THEOREM ServerTypeOK == Spec => []TypeOK
<1>1. ASSUME Init PROVE GamesFit(mgr, joins, resets, games)
  <2>1. joins = {} /\ resets = {} /\ games = 0 /\ QueuedResets(mgr) = {}
    BY <1>1 DEF Init, QueuedResets
  <2>2. QED
    BY <2>1, FS_EmptySet, ServerAssumption DEF GamesFit
<1>2. ServerInv /\ GamesFit(mgr, joins, resets, games) /\ [Next]_vars =>
          GamesFit(mgr, joins, resets, games)'
    BY GamesFitNext
<1>3. ServerInv /\ GamesFit(mgr, joins, resets, games) => games <= MaxGames
  <2> SUFFICES ASSUME ServerInv, GamesFit(mgr, joins, resets, games)
               PROVE  games <= MaxGames
    OBVIOUS
  <2>1. /\ Cardinality(joins) \in Nat /\ Cardinality(resets) \in Nat
        /\ Cardinality(QueuedResets(mgr)) \in Nat /\ games \in Nat
    BY FS_CardinalityType DEF GamesFit, ServerInv
  <2>2. QED
    BY <2>1, ServerAssumption DEF GamesFit
<1>4. Typed /\ games <= MaxGames => TypeOK
    BY DEF TypeOK
<1>5. QED
    BY <1>1, <1>2, <1>3, <1>4, ServerInvariance, ServerTypes, PTL DEF Spec

=============================================================================
