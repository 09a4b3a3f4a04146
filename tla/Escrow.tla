------------------------------- MODULE Escrow ------------------------------
(***************************************************************************)
(* What the backend and its players rely on when they use the escrow: two  *)
(* different users stake on a room, and one of them, or nobody, is named   *)
(* the winner, once; a room that only one has staked on may be cancelled.  *)
(* Amounts, deadlines and withdrawals are left out.  SquarexoMatch is shown*)
(* to implement this module, and GameServer settles its games with it.     *)
(***************************************************************************)
EXTENDS FiniteSets

CONSTANTS
    Rooms,      \* rooms that can be staked on
    Users,      \* who can stake
    Draw,       \* the winner of a draw, not a user
    None        \* no winner yet

VARIABLE escrow

NoEscrow == [status |-> "None", parties |-> {}, winner |-> None]

Init == escrow = [r \in Rooms |-> NoEscrow]

Stake(r, u) ==
    /\ escrow[r].status \in {"None", "WaitingForOpponent"}
    /\ u \notin escrow[r].parties
    /\ escrow' = [escrow EXCEPT
            ![r].parties = @ \union {u},
            ![r].status = IF @ = "None" THEN "WaitingForOpponent" ELSE "Active"]

Cancel(r) ==
    /\ escrow[r].status = "WaitingForOpponent"
    /\ escrow' = [escrow EXCEPT ![r].status = "Cancelled"]

(* A result, or the draw that either player may force after the deadline   *)
Accepts(r, winner) ==
    escrow[r].status = "Active" /\ winner \in escrow[r].parties \union {Draw}

Resolve(r, winner) ==
    /\ Accepts(r, winner)
    /\ escrow' = [escrow EXCEPT ![r].status = "Resolved", ![r].winner = winner]

Next ==
    \E r \in Rooms :
        \/ \E u \in Users : Stake(r, u)
        \/ Cancel(r)
        \/ \E winner \in Users \union {Draw} : Resolve(r, winner)

Spec == Init /\ [][Next]_escrow
=============================================================================
