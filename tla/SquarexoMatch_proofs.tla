------------------------ MODULE SquarexoMatch_proofs ------------------------
(***************************************************************************)
(* What the escrow contract guarantees for every set of rooms and wallets, *)
(* every stake and every pair of timeouts.  The inductive invariant is     *)
(* Inv: the typing, the life cycle of a room's record (who is in, what the *)
(* pot holds, who may have claimed), and the statements that rest on it,   *)
(* ExactPayout and that matches are decided in time.  Solvent, a sum over  *)
(* all rooms and wallets, is inductive together with Inv.                  *)
(***************************************************************************)
EXTENDS SquarexoMatch, FiniteSetTheorems, NaturalsInduction, WellFoundedInduction,
        TLAPS

RoomInv(r) == LifeCycleOf(r) /\ PayoutOf(r) /\ DecidedInTime(r)

Inv == TypeOK /\ \A r \in Rooms : RoomInv(r)

-----------------------------------------------------------------------------
(* A transfer keeps the purse and the history of receipts well typed.      *)
LEMMA PayType ==
    ASSUME NEW r \in Rooms, NEW w \in Wallets, NEW amount \in Nat,
           TypeOK, Pay(r, w, amount)
    PROVE  /\ balance' \in Nat
           /\ received' \in [Rooms -> [Wallets -> Nat]]
           /\ \A q \in Rooms, x \in Wallets :
                received'[q][x] = IF q = r /\ x = w THEN received[q][x] + amount
                                                   ELSE received[q][x]
    BY DEF TypeOK, Pay

(* What cancelUnjoinedMatch writes is a record of a match.                 *)
LEMMA CancelledIsMatch ==
    ASSUME NEW m \in Match
    PROVE  [m EXCEPT !.status = "Cancelled", !.totalPot = 0] \in Match
    BY DEF Match, Status

(* The constructor's state is well typed.                                  *)
LEMMA InitType == Init => TypeOK
<1> USE ContractConstants DEF ContractConstants
<1>1. NoMatch \in Match
    BY DEF NoMatch, Match, Address, Status
<1>2. 0 \in 0..MaxTime
    OBVIOUS
<1>3. Init => matchesByRoom \in [Rooms -> Match]
    BY <1>1 DEF Init
<1>4. Init => received \in [Rooms -> [Wallets -> Nat]]
    BY DEF Init
<1>5. Init => rewardClaimed \in [Rooms -> SUBSET Wallets]
    BY DEF Init
<1>6. Init => now \in 0..MaxTime
    BY <1>2 DEF Init
<1>7. Init => balance \in Nat
    BY DEF Init
<1>8. Init => paused \in BOOLEAN
    BY DEF Init
<1>9. QED
    BY <1>2, <1>3, <1>4, <1>5, <1>6, <1>7, <1>8 DEF TypeOK

(* The record of a room stays a record whatever a call writes.             *)
LEMMA NextType == TypeOK /\ [Next]_vars => TypeOK'
<1> USE ContractConstants DEF ContractConstants
<1> SUFFICES ASSUME TypeOK, [Next]_vars PROVE TypeOK'
    OBVIOUS
<1> USE DEF TypeOK, Match, Address, Status
<1>1. ASSUME NEW r \in Rooms, NEW w \in Wallets,
             NEW bet \in Amounts, NEW value \in Amounts,
             CreateMatch(r, w, bet, value)
      PROVE  TypeOK'
    BY <1>1 DEF CreateMatch
<1>2. ASSUME NEW r \in Rooms, NEW w \in Wallets, NEW value \in Amounts,
             JoinMatch(r, w, value)
      PROVE  TypeOK'
    BY <1>2 DEF JoinMatch, CanJoin
<1>3. ASSUME NEW r \in Rooms, NEW w \in Wallets, ClaimReward(r, w)
      PROVE  TypeOK'
    BY <1>3 DEF ClaimReward, ClaimDrawRefund, ClaimPot, Pay
<1>4. ASSUME NEW r \in Rooms, NEW w \in Wallets, CancelUnjoinedMatch(r, w)
      PROVE  TypeOK'
    <2>1. matchesByRoom[r].totalPot \in Nat /\ Pay(r, w, matchesByRoom[r].totalPot)
        BY <1>4 DEF CancelUnjoinedMatch, CanCancel
    <2>2. /\ balance' \in Nat
          /\ received' \in [Rooms -> [Wallets -> Nat]]
        BY <2>1, PayType
    <2>3. matchesByRoom' = [matchesByRoom EXCEPT ![r] =
                [matchesByRoom[r] EXCEPT !.status = "Cancelled", !.totalPot = 0]]
        BY <1>4 DEF CancelUnjoinedMatch, CanCancel
    <2>4. [matchesByRoom[r] EXCEPT !.status = "Cancelled", !.totalPot = 0] \in Match
        BY CancelledIsMatch
    <2>5. matchesByRoom' \in [Rooms -> Match]
        BY <2>3, <2>4
    <2>6. QED
        BY <1>4, <2>2, <2>5 DEF CancelUnjoinedMatch, CanCancel
<1>5. ASSUME NEW r \in Rooms, NEW w \in Wallets, ForceDrawOnTimeout(r, w)
      PROVE  TypeOK'
    BY <1>5 DEF ForceDrawOnTimeout, CanForceDraw
<1>6. ASSUME NEW r \in Rooms, NEW winner \in Address, SubmitResult(r, winner)
      PROVE  TypeOK'
    BY <1>6 DEF SubmitResult, CanSubmit
<1>7. CASE Pause \/ Unpause
    BY <1>7 DEF Pause, Unpause
<1>8. CASE Tick
    BY <1>8 DEF Tick
<1>9. CASE UNCHANGED vars
    BY <1>9 DEF vars
<1>10. QED
    BY <1>1, <1>2, <1>3, <1>4, <1>5, <1>6, <1>7, <1>8, <1>9 DEF Next, Call

(* Every variable keeps its type under every call (lines 60-185).          *)
THEOREM TypeCorrect == Spec => []TypeOK
    BY InitType, NextType, PTL DEF Spec

-----------------------------------------------------------------------------
(* What is said of a room depends on its own record, claims and receipts.  *)
LEMMA OtherRooms ==
    ASSUME NEW q \in Rooms, RoomInv(q),
           matchesByRoom'[q] = matchesByRoom[q],
           rewardClaimed'[q] = rewardClaimed[q],
           received'[q] = received[q]
    PROVE  RoomInv(q)'
    BY DEF RoomInv, LifeCycleOf, PayoutOf, DecidedInTime, Withdrawn, Entitlement, Stakers

(* The facts about one room that its own record's step must re-establish,  *)
(* from the typing of that record.                                         *)
LEMMA CreateKeeps ==
    ASSUME Inv, NEW r \in Rooms, NEW w \in Wallets,
           NEW bet \in Amounts, NEW value \in Amounts, CreateMatch(r, w, bet, value)
    PROVE  RoomInv(r)'
<1> USE ContractConstants DEF ContractConstants, Inv, RoomInv, CreateMatch, TypeOK
<1>1. LifeCycleOf(r)'
    BY DEF LifeCycleOf, NoMatch, Unjoined, Joined, Match, Address
<1>2. PayoutOf(r)'
    BY DEF PayoutOf, LifeCycleOf, Withdrawn, Entitlement, Stakers, NoMatch, Match, Address
<1>3. DecidedInTime(r)'
    BY DEF DecidedInTime, LifeCycleOf, NoMatch, Match, Address, Stakers
<1>4. QED
    BY <1>1, <1>2, <1>3

(* joinMatch makes the pot two stakes of two different wallets.            *)
LEMMA JoinKeeps ==
    ASSUME Inv, NEW r \in Rooms, NEW w \in Wallets, NEW value \in Amounts,
           JoinMatch(r, w, value)
    PROVE  RoomInv(r)'
<1> USE ContractConstants DEF ContractConstants, Inv, RoomInv, JoinMatch, CanJoin, TypeOK
<1>1. LifeCycleOf(r)'
    BY DEF LifeCycleOf, Unjoined, Joined, Match, Address
<1>2. PayoutOf(r)'
    BY DEF PayoutOf, LifeCycleOf, Withdrawn, Entitlement, Stakers, Unjoined, Match, Address
<1>3. DecidedInTime(r)'
    BY DEF DecidedInTime, LifeCycleOf, Match, Address, Stakers
<1>4. QED
    BY <1>1, <1>2, <1>3

(* submitResult names a staker or a draw, by the deadline.                 *)
LEMMA ResultKeeps ==
    ASSUME Inv, NEW r \in Rooms, NEW winner \in Address, SubmitResult(r, winner)
    PROVE  RoomInv(r)'
<1> USE ContractConstants DEF ContractConstants, Inv, RoomInv, SubmitResult, CanSubmit, TypeOK
<1>1. LifeCycleOf(r)'
    BY DEF LifeCycleOf, Unjoined, Joined, Match, Address
<1>2. PayoutOf(r)'
    BY DEF PayoutOf, LifeCycleOf, Withdrawn, Entitlement, Stakers, Joined, Match, Address
<1>3. DecidedInTime(r)'
    BY DEF DecidedInTime, LifeCycleOf, Joined, Match, Address, Stakers
<1>4. QED
    BY <1>1, <1>2, <1>3

(* forceDrawOnTimeout makes a draw of an active match after its deadline.  *)
LEMMA ForcedDrawKeeps ==
    ASSUME Inv, NEW r \in Rooms, NEW w \in Wallets, ForceDrawOnTimeout(r, w)
    PROVE  RoomInv(r)'
<1> USE ContractConstants DEF ContractConstants, Inv, RoomInv, ForceDrawOnTimeout, CanForceDraw, TypeOK
<1>1. LifeCycleOf(r)'
    BY DEF LifeCycleOf, Unjoined, Joined, Match, Address
<1>2. PayoutOf(r)'
    BY DEF PayoutOf, LifeCycleOf, Withdrawn, Entitlement, Stakers, Joined, Match, Address
<1>3. DecidedInTime(r)'
    BY DEF DecidedInTime, LifeCycleOf, Joined, Match, Address, Stakers
<1>4. QED
    BY <1>1, <1>2, <1>3

(* The refund takes the pot to zero and gives the creator its stake.       *)
LEMMA CancelKeeps ==
    ASSUME Inv, NEW r \in Rooms, NEW w \in Wallets, CancelUnjoinedMatch(r, w)
    PROVE  RoomInv(r)'
<1> USE ContractConstants DEF ContractConstants, Inv, RoomInv, CancelUnjoinedMatch, CanCancel
<1> DEFINE m == matchesByRoom[r]
<1>1. /\ m.totalPot = m.betAmount /\ m.totalPot \in Nat /\ m.creator = w
      /\ m.winner = ZeroAddress /\ m.opponent = ZeroAddress /\ rewardClaimed[r] = {}
      /\ \A x \in Wallets : received[r][x] = 0
    BY DEF TypeOK, LifeCycleOf, Unjoined, Match, PayoutOf, Withdrawn, Entitlement
<1>2. \A x \in Wallets :
        received'[r][x] = IF x = w THEN received[r][x] + m.totalPot ELSE received[r][x]
    BY <1>1, PayType
<1>3. matchesByRoom'[r] = [m EXCEPT !.status = "Cancelled", !.totalPot = 0]
    BY DEF TypeOK
<1>4. LifeCycleOf(r)'
    BY <1>1, <1>3 DEF TypeOK, LifeCycleOf, Unjoined, Match, Joined
<1>5. PayoutOf(r)'
    BY <1>1, <1>2, <1>3 DEF TypeOK, PayoutOf, Withdrawn, Entitlement, Stakers, Match
<1>6. DecidedInTime(r)'
    BY <1>1, <1>3 DEF TypeOK, DecidedInTime, Match, Stakers
<1>7. QED
    BY <1>4, <1>5, <1>6

(* A claim pays the claimer its entitlement and nothing to anyone else.    *)
LEMMA ClaimKeeps ==
    ASSUME Inv, NEW r \in Rooms, NEW w \in Wallets, ClaimReward(r, w)
    PROVE  RoomInv(r)'
<1> USE ContractConstants DEF ContractConstants, Inv, RoomInv
<1> DEFINE m == matchesByRoom[r]
<1>1. /\ m \in Match /\ m.status = "Resolved" /\ Joined(m) /\ w \notin rewardClaimed[r]
      /\ w \in Beneficiaries(m) /\ rewardClaimed'[r] = rewardClaimed[r] \union {w}
      /\ matchesByRoom' = matchesByRoom
    BY DEF ClaimReward, ClaimDrawRefund, ClaimPot, TypeOK, LifeCycleOf, Beneficiaries, Match
<1>2. PICK amount \in Nat :
          Pay(r, w, amount)
          /\ amount = IF m.winner = ZeroAddress THEN m.betAmount ELSE 2 * m.betAmount
    BY <1>1 DEF ClaimReward, ClaimDrawRefund, ClaimPot, Match, Joined
<1>3. \A x \in Wallets :
        received'[r][x] = IF x = w THEN received[r][x] + amount ELSE received[r][x]
    BY <1>2, PayType
<1>4. LifeCycleOf(r)'
    BY <1>1 DEF LifeCycleOf
<1>5. PayoutOf(r)'
    <2> SUFFICES ASSUME NEW x \in Wallets
                 PROVE  received'[r][x]
                           = IF Withdrawn(r, x)' THEN Entitlement(r, x)' ELSE 0
        BY DEF PayoutOf
    <2>1. Entitlement(r, x)' = Entitlement(r, x)
        BY <1>1 DEF Entitlement, Stakers
    <2>2. CASE x = w
        <3>1. received[r][w] = 0 /\ Withdrawn(r, w)'
            BY <1>1 DEF PayoutOf, Withdrawn
        <3>2. Entitlement(r, w) = amount
            BY <1>1, <1>2 DEF Entitlement, Stakers, Beneficiaries, Joined, DecidedInTime
        <3>3. QED
            BY <2>1, <2>2, <3>1, <3>2, <1>3
    <2>3. CASE x # w
        <3>1. Withdrawn(r, x)' <=> Withdrawn(r, x)
            BY <1>1, <2>3 DEF Withdrawn
        <3>2. QED
            BY <1>3, <2>1, <2>3, <3>1 DEF PayoutOf
    <2>4. QED
        BY <2>2, <2>3
<1>6. DecidedInTime(r)'
    BY <1>1 DEF DecidedInTime, Stakers
<1>7. QED
    BY <1>4, <1>5, <1>6

-----------------------------------------------------------------------------
(* Before the first match every room satisfies its part of the invariant.  *)
LEMMA InitInv == Init => Inv
<1> USE ContractConstants DEF ContractConstants
<1>1. Init => TypeOK
    BY InitType
<1>2. ASSUME Init, NEW r \in Rooms PROVE RoomInv(r)
    BY <1>2 DEF Init, RoomInv, LifeCycleOf, PayoutOf, DecidedInTime, Withdrawn, Entitlement,
                Stakers, NoMatch
<1>3. QED
    BY <1>1, <1>2 DEF Inv

(* A call on room r re-establishes what is said of r, and leaves the rest. *)
LEMMA NextInv == Inv /\ [Next]_vars => Inv'
<1> SUFFICES ASSUME Inv, [Next]_vars, NEW q \in Rooms PROVE RoomInv(q)'
    BY NextType DEF Inv
<1> USE DEF Inv
<1>1. ASSUME NEW r \in Rooms, NEW w \in Wallets, NEW bet \in Amounts,
             NEW value \in Amounts, CreateMatch(r, w, bet, value)
      PROVE  RoomInv(q)'
    <2>1. CASE q = r
        BY <1>1, <2>1, CreateKeeps
    <2>2. CASE q # r
        BY <1>1, <2>2, OtherRooms DEF CreateMatch, TypeOK
    <2>3. QED
        BY <2>1, <2>2
<1>2. ASSUME NEW r \in Rooms, NEW w \in Wallets, NEW value \in Amounts,
             JoinMatch(r, w, value)
      PROVE  RoomInv(q)'
    <2>1. CASE q = r
        BY <1>2, <2>1, JoinKeeps
    <2>2. CASE q # r
        BY <1>2, <2>2, OtherRooms DEF JoinMatch, CanJoin, TypeOK
    <2>3. QED
        BY <2>1, <2>2
<1>3. ASSUME NEW r \in Rooms, NEW w \in Wallets, ClaimReward(r, w)
      PROVE  RoomInv(q)'
    <2>1. CASE q = r
        BY <1>3, <2>1, ClaimKeeps
    <2>2. CASE q # r
        BY <1>3, <2>2, OtherRooms
           DEF ClaimReward, ClaimDrawRefund, ClaimPot, Pay, TypeOK
    <2>3. QED
        BY <2>1, <2>2
<1>4. ASSUME NEW r \in Rooms, NEW w \in Wallets, CancelUnjoinedMatch(r, w)
      PROVE  RoomInv(q)'
    <2>1. CASE q = r
        BY <1>4, <2>1, CancelKeeps
    <2>2. CASE q # r
        BY <1>4, <2>2, OtherRooms DEF CancelUnjoinedMatch, CanCancel, Pay, TypeOK
    <2>3. QED
        BY <2>1, <2>2
<1>5. ASSUME NEW r \in Rooms, NEW w \in Wallets, ForceDrawOnTimeout(r, w)
      PROVE  RoomInv(q)'
    <2>1. CASE q = r
        BY <1>5, <2>1, ForcedDrawKeeps
    <2>2. CASE q # r
        BY <1>5, <2>2, OtherRooms DEF ForceDrawOnTimeout, CanForceDraw, TypeOK
    <2>3. QED
        BY <2>1, <2>2
<1>6. ASSUME NEW r \in Rooms, NEW winner \in Address, SubmitResult(r, winner)
      PROVE  RoomInv(q)'
    <2>1. CASE q = r
        BY <1>6, <2>1, ResultKeeps
    <2>2. CASE q # r
        BY <1>6, <2>2, OtherRooms DEF SubmitResult, CanSubmit, TypeOK
    <2>3. QED
        BY <2>1, <2>2
<1>7. CASE Pause \/ Unpause \/ Tick \/ UNCHANGED vars
    BY <1>7, OtherRooms DEF Pause, Unpause, Tick, vars
<1>8. QED
    BY <1>1, <1>2, <1>3, <1>4, <1>5, <1>6, <1>7 DEF Next, Call

(* The inductive invariant holds throughout.                               *)
LEMMA Invariance == Spec => []Inv
    BY InitInv, NextInv, PTL DEF Spec

-----------------------------------------------------------------------------
(* Every wallet has received nothing or exactly its share, in every room:  *)
(* claimReward and cancelUnjoinedMatch pay once, whatever else happens.    *)
THEOREM PaidExactly == Spec => []ExactPayout
<1>1. Inv => ExactPayout
    BY DEF Inv, RoomInv, ExactPayout
<1>2. QED
    BY <1>1, Invariance, PTL

(* No call of a pair that a deadline separates is open together with the   *)
(* other, neither before, at, nor after the deadline; one of them always   *)
(* is; and winners are named in time (lines 87, 105, 151, 170).            *)
THEOREM DisjointWindows == Spec => []WindowsAreDisjoint
<1> USE ContractConstants DEF ContractConstants
<1>1. ASSUME Inv, NEW r \in Rooms PROVE WindowsOf(r)
    <2>1. /\ now \in Nat
          /\ matchesByRoom[r].joinDeadline \in Nat
          /\ matchesByRoom[r].resultDeadline \in Nat
        BY <1>1 DEF Inv, TypeOK, Match
    <2>2. Exclusive(r)
        BY <2>1 DEF Exclusive, CanJoin, CanCancel, CanSubmit, CanForceDraw
    <2>3. Gapless(r)
        BY <2>1 DEF Gapless, CanJoin, CanCancel, CanSubmit, CanForceDraw
    <2>4. DecidedInTime(r)
        BY <1>1 DEF Inv, RoomInv
    <2>5. QED
        BY <2>2, <2>3, <2>4 DEF WindowsOf
<1>2. Inv => WindowsAreDisjoint
    BY <1>1 DEF WindowsAreDisjoint
<1>3. QED
    BY <1>2, Invariance, PTL

(* The pot, the stakers and the claims of a room always fit its status.    *)
THEOREM ConsistentRecord == Spec => []LifeCycle
<1>1. Inv => LifeCycle
    BY DEF Inv, RoomInv, LifeCycle
<1>2. QED
    BY <1>1, Invariance, PTL

(* No call changes the record of a resolved or cancelled match.            *)
THEOREM FinalOutcome == Spec => OutcomeIsFinal
<1>1. ASSUME Inv, [Next]_vars, NEW r \in Rooms,
             matchesByRoom[r].status \in {"Resolved", "Cancelled"}
      PROVE  matchesByRoom'[r] = matchesByRoom[r]
    <2> USE <1>1 DEF Inv, TypeOK
    <2>1. ASSUME NEW q \in Rooms, NEW w \in Wallets, NEW bet \in Amounts,
                 NEW value \in Amounts, CreateMatch(q, w, bet, value) \/ JoinMatch(q, w, value)
          PROVE  matchesByRoom'[r] = matchesByRoom[r]
        BY <2>1 DEF CreateMatch, JoinMatch, CanJoin
    <2>2. ASSUME NEW q \in Rooms, NEW w \in Wallets,
                 CancelUnjoinedMatch(q, w) \/ ForceDrawOnTimeout(q, w)
          PROVE  matchesByRoom'[r] = matchesByRoom[r]
        BY <2>2 DEF CancelUnjoinedMatch, CanCancel, ForceDrawOnTimeout, CanForceDraw
    <2>3. ASSUME NEW q \in Rooms, NEW winner \in Address, SubmitResult(q, winner)
          PROVE  matchesByRoom'[r] = matchesByRoom[r]
        BY <2>3 DEF SubmitResult, CanSubmit
    <2>4. ASSUME NEW q \in Rooms, NEW w \in Wallets, ClaimReward(q, w)
          PROVE  matchesByRoom'[r] = matchesByRoom[r]
        BY <2>4 DEF ClaimReward
    <2>5. CASE Pause \/ Unpause \/ Tick \/ UNCHANGED vars
        BY <2>5 DEF Pause, Unpause, Tick, vars
    <2>6. QED
        BY <2>1, <2>2, <2>3, <2>4, <2>5 DEF Next, Call
<1>2. Inv /\ [Next]_vars
        => [\A r \in Rooms :
              matchesByRoom[r].status \in {"Resolved", "Cancelled"}
                => matchesByRoom'[r] = matchesByRoom[r]]_vars
    BY <1>1
<1>3. QED
    BY <1>2, Invariance, PTL DEF Spec, OutcomeIsFinal

-----------------------------------------------------------------------------
(* A call on one room does not change what the escrow says of the others.  *)
LEMMA SameEscrow ==
    ASSUME NEW q \in Rooms, matchesByRoom'[q] = matchesByRoom[q]
    PROVE  EscrowOf(q)' = EscrowOf(q)
    BY DEF EscrowOf, Stakers

(* A call that changes the record of room r alone changes the escrow as the*)
(* new record of r says.                                                   *)
LEMMA OneRoom ==
    ASSUME NEW r \in Rooms,
           \A q \in Rooms : q # r => matchesByRoom'[q] = matchesByRoom[q]
    PROVE  [q \in Rooms |-> EscrowOf(q)']
             = [[q \in Rooms |-> EscrowOf(q)] EXCEPT ![r] = EscrowOf(r)']
    BY SameEscrow

(* What a new party's stake does to the escrow.                            *)
LEMMA StakeMaps ==
    ASSUME NEW r \in Rooms, NEW w \in Wallets, NEW status,
           \/ matchesByRoom[r].status = "None" /\ status = "WaitingForOpponent"
           \/ matchesByRoom[r].status = "WaitingForOpponent" /\ status = "Active",
           w \notin Stakers(r), Stakers(r)' = Stakers(r) \union {w},
           matchesByRoom'[r].status = status,
           matchesByRoom'[r].winner = matchesByRoom[r].winner,
           \A q \in Rooms : q # r => matchesByRoom'[q] = matchesByRoom[q]
    PROVE  Abstract!Stake(r, w)
<1> DEFINE view == [q \in Rooms |-> EscrowOf(q)]
<1>1. [q \in Rooms |-> EscrowOf(q)'] = [view EXCEPT
            ![r].parties = @ \union {w},
            ![r].status = IF @ = "None" THEN "WaitingForOpponent" ELSE "Active"]
    <2>1. status = IF view[r].status = "None" THEN "WaitingForOpponent" ELSE "Active"
        BY DEF EscrowOf
    <2>2. [q \in Rooms |-> EscrowOf(q)'] = [view EXCEPT ![r] = EscrowOf(r)']
        BY OneRoom
    <2>3. EscrowOf(r)' = [status |-> status, parties |-> Stakers(r) \union {w},
                          winner |-> matchesByRoom[r].winner]
        BY DEF EscrowOf
    <2>4. QED
        BY <2>1, <2>2, <2>3 DEF EscrowOf
<1>2. QED
    BY <1>1 DEF Abstract!Stake, EscrowOf

(* createMatch and joinMatch put in the stake of a new party.              *)
LEMMA CreateStakes ==
    ASSUME Inv, NEW r \in Rooms, NEW w \in Wallets,
           NEW bet \in Amounts, NEW value \in Amounts, CreateMatch(r, w, bet, value)
    PROVE  Abstract!Stake(r, w)
<1> USE ContractConstants DEF ContractConstants
<1>1. matchesByRoom[r] = NoMatch
    BY DEF Inv, RoomInv, LifeCycleOf, CreateMatch
<1>2. Stakers(r) = {}
    BY <1>1 DEF NoMatch, Stakers
<1>3. /\ matchesByRoom'[r].creator = w
      /\ matchesByRoom'[r].opponent = ZeroAddress
      /\ matchesByRoom'[r].winner = matchesByRoom[r].winner
      /\ matchesByRoom'[r].status = "WaitingForOpponent"
    BY <1>1 DEF CreateMatch, Inv, TypeOK, NoMatch
<1>4. Stakers(r)' = Stakers(r) \union {w}
    BY <1>2, <1>3 DEF Stakers
<1>5. \A q \in Rooms : q # r => matchesByRoom'[q] = matchesByRoom[q]
    BY DEF CreateMatch, Inv, TypeOK
<1>6. QED
    BY <1>1, <1>2, <1>3, <1>4, <1>5, StakeMaps DEF NoMatch

(* joinMatch is a stake of the second wallet in the abstract escrow.       *)
LEMMA JoinStakes ==
    ASSUME Inv, NEW r \in Rooms, NEW w \in Wallets, NEW value \in Amounts,
           JoinMatch(r, w, value)
    PROVE  Abstract!Stake(r, w)
<1> USE ContractConstants DEF ContractConstants
<1>1. /\ matchesByRoom[r].opponent = ZeroAddress /\ matchesByRoom[r].creator # w
      /\ matchesByRoom[r].status = "WaitingForOpponent"
    BY DEF Inv, RoomInv, LifeCycleOf, Unjoined, JoinMatch, CanJoin
<1>2. /\ matchesByRoom'[r].creator = matchesByRoom[r].creator
      /\ matchesByRoom'[r].opponent = w
      /\ matchesByRoom'[r].winner = matchesByRoom[r].winner
      /\ matchesByRoom'[r].status = "Active"
    BY DEF JoinMatch, CanJoin, Inv, TypeOK, Match
<1>3. w \notin Stakers(r) /\ Stakers(r)' = Stakers(r) \union {w}
    BY <1>1, <1>2 DEF Stakers
<1>4. \A q \in Rooms : q # r => matchesByRoom'[q] = matchesByRoom[q]
    BY DEF JoinMatch, CanJoin, Inv, TypeOK
<1>5. QED
    BY <1>1, <1>2, <1>3, <1>4, StakeMaps

(* cancelUnjoinedMatch is the escrow's cancellation.                       *)
LEMMA CancelCancels ==
    ASSUME Inv, NEW r \in Rooms, NEW w \in Wallets, CancelUnjoinedMatch(r, w)
    PROVE  Abstract!Cancel(r)
<1>1. EscrowOf(r)' = [EscrowOf(r) EXCEPT !.status = "Cancelled"]
    <2>1. /\ matchesByRoom'[r].creator = matchesByRoom[r].creator
          /\ matchesByRoom'[r].opponent = matchesByRoom[r].opponent
          /\ matchesByRoom'[r].winner = matchesByRoom[r].winner
          /\ matchesByRoom'[r].status = "Cancelled"
        BY DEF Inv, TypeOK, Match, CancelUnjoinedMatch, CanCancel
    <2>2. Stakers(r)' = Stakers(r)
        BY <2>1 DEF Stakers
    <2>3. QED
        BY <2>1, <2>2 DEF EscrowOf
<1>2. EscrowOf(r).status = "WaitingForOpponent"
    BY DEF CancelUnjoinedMatch, CanCancel, EscrowOf
<1>3. \A q \in Rooms : q # r => matchesByRoom'[q] = matchesByRoom[q]
    BY DEF CancelUnjoinedMatch, CanCancel, Inv, TypeOK
<1>4. QED
    BY <1>1, <1>2, <1>3, OneRoom DEF Abstract!Cancel

(* submitResult and forceDrawOnTimeout name a party or nobody.             *)
LEMMA ResultResolves ==
    ASSUME Inv, NEW r \in Rooms, NEW winner \in Address,
           \/ SubmitResult(r, winner)
           \/ winner = ZeroAddress /\ \E w \in Wallets : ForceDrawOnTimeout(r, w)
    PROVE  Abstract!Resolve(r, winner)
<1>1. /\ EscrowOf(r).status = "Active"
      /\ winner \in EscrowOf(r).parties \union {ZeroAddress}
    BY DEF SubmitResult, CanSubmit, ForceDrawOnTimeout, CanForceDraw, EscrowOf, Stakers
<1>2. EscrowOf(r)' = [EscrowOf(r) EXCEPT !.status = "Resolved", !.winner = winner]
    BY DEF Inv, TypeOK, Match, SubmitResult, CanSubmit, ForceDrawOnTimeout, CanForceDraw, EscrowOf, Stakers
<1>3. \A q \in Rooms : q # r => matchesByRoom'[q] = matchesByRoom[q]
    BY DEF SubmitResult, CanSubmit, ForceDrawOnTimeout, CanForceDraw, Inv, TypeOK
<1>4. QED
    BY <1>1, <1>2, <1>3, OneRoom DEF Abstract!Resolve, Abstract!Accepts

(* The contract is an escrow of two parties that is settled once: what     *)
(* GameServer assumes of the chain (lines 60-177).                         *)
THEOREM EscrowImplemented == Spec => ImplementsEscrow
<1> DEFINE view == [r \in Rooms |-> EscrowOf(r)]
<1>1. Init => Abstract!Init
    BY DEF Init, Abstract!Init, Abstract!NoEscrow, EscrowOf, Stakers, NoMatch
<1>2. Inv /\ [Next]_vars => [Abstract!Next]_view
    <2> SUFFICES ASSUME Inv, [Next]_vars PROVE Abstract!Next \/ view' = view
        OBVIOUS
    <2>1. ASSUME NEW r \in Rooms, NEW w \in Wallets, NEW bet \in Amounts,
                 NEW value \in Amounts, CreateMatch(r, w, bet, value)
          PROVE  Abstract!Next
        BY <2>1, CreateStakes DEF Abstract!Next
    <2>2. ASSUME NEW r \in Rooms, NEW w \in Wallets, NEW value \in Amounts,
                 JoinMatch(r, w, value)
          PROVE  Abstract!Next
        BY <2>2, JoinStakes DEF Abstract!Next
    <2>3. ASSUME NEW r \in Rooms, NEW w \in Wallets, CancelUnjoinedMatch(r, w)
          PROVE  Abstract!Next
        BY <2>3, CancelCancels DEF Abstract!Next
    <2>4. ASSUME NEW r \in Rooms, NEW w \in Wallets, ForceDrawOnTimeout(r, w)
          PROVE  Abstract!Next
        BY <2>4, ResultResolves DEF Abstract!Next, Address
    <2>5. ASSUME NEW r \in Rooms, NEW winner \in Address, SubmitResult(r, winner)
          PROVE  Abstract!Next
        BY <2>5, ResultResolves DEF Abstract!Next, Address
    <2>6. ASSUME NEW r \in Rooms, NEW w \in Wallets, ClaimReward(r, w)
          PROVE  view' = view
        BY <2>6, SameEscrow DEF ClaimReward
    <2>7. CASE Pause \/ Unpause \/ Tick \/ UNCHANGED vars
        BY <2>7, SameEscrow DEF Pause, Unpause, Tick, vars
    <2>8. QED
        BY <2>1, <2>2, <2>3, <2>4, <2>5, <2>6, <2>7 DEF Next, Call
<1>3. QED
    BY <1>1, <1>2, Invariance, PTL DEF Spec, ImplementsEscrow, Abstract!Spec

-----------------------------------------------------------------------------
(***************************************************************************)
(* The purse.  Solvent is a sum over all rooms and wallets, so the proof   *)
(* needs to know that a sum over a finite set exists and what becomes of it*)
(* when one summand changes.  Neither needs a recursive definition: a fold *)
(* is the limit of its parts on the subsets of at most n elements.         *)
(***************************************************************************)

(* A set of natural numbers that is not empty has a least element.         *)
LEMMA LeastNumber ==
    ASSUME NEW N \in SUBSET Nat, N # {}
    PROVE  \E m \in N : \A k \in N : m <= k
<1> DEFINE R == {ss \in Nat \X Nat : ss[1] < ss[2]}
<1>1. IsWellFoundedOn(R, Nat)
    BY NatLessThanWellFounded DEF OpToRel
<1>2. \A k, m \in Nat : ~(<<k, m>> \in R) => m <= k
    OBVIOUS
<1> HIDE DEF R
<1>3. N \subseteq Nat
    OBVIOUS
<1>4. \E m \in N : \A k \in N : ~(<<k, m>> \in R)
    BY <1>1, <1>3, WFMin, Zenon
<1>5. QED
    BY <1>2, <1>3, <1>4, Zenon

Any(s) == CHOOSE x \in s : TRUE

(* Taking the chosen element out of a finite set makes it smaller by one.  *)
LEMMA AnySmaller ==
    ASSUME NEW S, IsFiniteSet(S), NEW s \in SUBSET S, s # {}
    PROVE  /\ Any(s) \in s /\ s \ {Any(s)} \in SUBSET S
           /\ Cardinality(s) \in Nat /\ Cardinality(s \ {Any(s)}) = Cardinality(s) - 1
<1>1. IsFiniteSet(s)
    BY FS_Subset
<1>2. Any(s) \in s
    BY DEF Any
<1>3. QED
    BY <1>1, <1>2, FS_CardinalityType, FS_RemoveElement

UpTo(S, n) == {s \in SUBSET S : Cardinality(s) <= n}

(* t[s] is the sum of f over s, for the subsets s in D.                    *)
Sums(t, D, f) ==
    \A s \in D : t[s] = IF s = {} THEN 0 ELSE f[Any(s)] + t[s \ {Any(s)}]

(* Sums of numbers over a finite set exist.                                *)
LEMMA SumsExist ==
    ASSUME NEW S, IsFiniteSet(S), NEW f \in [S -> Nat]
    PROVE  \E t \in [SUBSET S -> Nat] : Sums(t, SUBSET S, f)
<1> DEFINE Summed(t, n) == t \in [UpTo(S, n) -> Nat] /\ Sums(t, UpTo(S, n), f)
           Bad == {n \in Nat : \A t : ~Summed(t, n)}
<1>1. \A s \in SUBSET S : Cardinality(s) \in Nat /\ IsFiniteSet(s)
    BY FS_Subset, FS_CardinalityType
<1>2. Bad = {}
  <2>1. SUFFICES ASSUME Bad # {} PROVE FALSE
    OBVIOUS
  <2>2. PICK n \in Bad : \A k \in Bad : n <= k
    BY <2>1, LeastNumber
  <2>3. n # 0
    <3>1. \A s \in UpTo(S, 0) : s = {}
      BY <1>1, FS_EmptySet DEF UpTo
    <3>2. Summed([s \in UpTo(S, 0) |-> 0], 0)
      BY <3>1 DEF Sums
    <3>3. QED
      BY <2>2, <3>2
  <2>4. PICK t : Summed(t, n - 1)
    <3>1. n - 1 \in Nat /\ n - 1 \notin Bad
      BY <2>2, <2>3
    <3>2. QED
      BY <3>1
  <2> DEFINE u == [s \in UpTo(S, n) |->
                      IF s = {} THEN 0 ELSE f[Any(s)] + t[s \ {Any(s)}]]
  <2>5. ASSUME NEW s \in UpTo(S, n), s # {}
        PROVE  /\ s \ {Any(s)} \in UpTo(S, n - 1) /\ Any(s) \in S
               /\ s \ {Any(s)} \in UpTo(S, n)
    <3>1. s \in SUBSET S /\ Cardinality(s) <= n /\ n \in Nat
      BY <2>2 DEF UpTo
    <3>2. /\ Any(s) \in s /\ s \ {Any(s)} \in SUBSET S
          /\ Cardinality(s) \in Nat /\ Cardinality(s \ {Any(s)}) = Cardinality(s) - 1
      BY <2>5, <3>1, AnySmaller
    <3>3. QED
      BY <3>1, <3>2 DEF UpTo
  <2>6. u \in [UpTo(S, n) -> Nat]
    BY <2>4, <2>5
  <2>7. \A s \in UpTo(S, n - 1) : s \in UpTo(S, n) /\ u[s] = t[s]
    BY <1>1, <2>2, <2>4 DEF UpTo, Sums
  <2>8. \A s \in UpTo(S, n) : u[s] = IF s = {} THEN 0 ELSE f[Any(s)] + u[s \ {Any(s)}]
    BY <2>5, <2>7
  <2> HIDE DEF u
  <2>9. Summed(u, n)
    BY <2>6, <2>8 DEF Sums
  <2>10. QED
    BY <2>2, <2>9
<1>3. Cardinality(S) \in Nat /\ \A s \in SUBSET S : Cardinality(s) <= Cardinality(S)
    BY FS_CardinalityType, FS_Subset
<1>4. UpTo(S, Cardinality(S)) = SUBSET S
    BY <1>3 DEF UpTo
<1>5. PICK t : Summed(t, Cardinality(S))
    BY <1>2, <1>3
<1>6. QED
    BY <1>4, <1>5

(* What holds of the empty set, and of a set when of the set without its   *)
(* chosen element, holds of every subset of a finite set.                  *)
LEMMA OnSubsets ==
    ASSUME NEW S, IsFiniteSet(S), NEW Good \in SUBSET SUBSET S, {} \in Good,
           \A s \in SUBSET S : s # {} /\ s \ {Any(s)} \in Good => s \in Good
    PROVE  Good = SUBSET S
<1> DEFINE Bad == {n \in Nat : \E s \in SUBSET S : Cardinality(s) = n /\ s \notin Good}
<1>1. ASSUME Bad # {} PROVE FALSE
  <2>1. PICK n \in Bad : \A k \in Bad : n <= k
    BY <1>1, LeastNumber
  <2>2. PICK s \in SUBSET S : Cardinality(s) = n /\ s \notin Good
    BY <2>1
  <2>3. s # {}
    BY <2>2
  <2>4. IsFiniteSet(s \ {Any(s)})
    BY FS_Subset
  <2>5. /\ s \ {Any(s)} \in SUBSET S
        /\ Cardinality(s \ {Any(s)}) = n - 1 /\ Cardinality(s \ {Any(s)}) \in Nat
    BY <2>2, <2>3, <2>4, AnySmaller, FS_CardinalityType
  <2>6. s \ {Any(s)} \in Good
    BY <2>1, <2>5
  <2>7. QED
    BY <2>2, <2>3, <2>6
<1>2. \A s \in SUBSET S : Cardinality(s) \in Nat
    BY FS_Subset, FS_CardinalityType
<1>3. QED
    BY <1>1, <1>2

(* The sum of f over S                                                     *)
Total(f, S) == MapThenSumSet(LAMBDA x : f[x], S)

(* It is what the sums over the subsets of S say of S.                     *)
LEMMA TotalSums ==
    ASSUME NEW S, IsFiniteSet(S), NEW f \in [S -> Nat]
    PROVE  \E t \in [SUBSET S -> Nat] : Sums(t, SUBSET S, f) /\ Total(f, S) = t[S]
<1> DEFINE Step(g) == [s \in SUBSET S |->
                          IF s = {} THEN 0 ELSE f[Any(s)] + g[s \ {Any(s)}]]
           iter == CHOOSE g : g = Step(g)
<1>1. Total(f, S) = iter[S]
    BY DEF Total, MapThenSumSet, MapThenFoldSet, Any
<1> HIDE DEF iter
<1>2. PICK t \in [SUBSET S -> Nat] : Sums(t, SUBSET S, f)
    BY SumsExist
<1>3. t = Step(t)
    BY <1>2 DEF Sums
<1>4. iter = Step(iter)
    BY <1>3 DEF iter
<1>5. \A s \in SUBSET S : s # {} => Any(s) \in S /\ s \ {Any(s)} \in SUBSET S
    BY AnySmaller
<1> DEFINE Good == {s \in SUBSET S : iter[s] = t[s]}
<1>6. iter[{}] = t[{}]
    BY <1>2, <1>4 DEF Sums
<1>7. ASSUME NEW s \in SUBSET S, s # {}, s \ {Any(s)} \in Good PROVE s \in Good
  <2>1. iter[s] = f[Any(s)] + iter[s \ {Any(s)}]
    BY <1>4, <1>7
  <2>2. t[s] = f[Any(s)] + t[s \ {Any(s)}]
    BY <1>2, <1>7 DEF Sums
  <2>3. QED
    BY <1>7, <2>1, <2>2
<1>8. Good = SUBSET S
  <2>1. {} \in Good
    BY <1>6
  <2> HIDE DEF Good
  <2>2. Good \in SUBSET SUBSET S
    BY DEF Good
  <2>3. QED
    BY <1>7, <2>1, <2>2, OnSubsets
<1>9. iter[S] = t[S]
    BY <1>8
<1>10. QED
    BY <1>1, <1>2, <1>9

(* When one summand changes, the sum changes with it.                      *)
LEMMA TotalChanges ==
    ASSUME NEW S, IsFiniteSet(S), NEW f \in [S -> Nat], NEW g \in [S -> Nat],
           NEW a \in S, \A x \in S : x # a => g[x] = f[x]
    PROVE  /\ Total(f, S) \in Nat /\ Total(g, S) \in Nat
           /\ Total(g, S) + f[a] = Total(f, S) + g[a]
<1>1. PICK t \in [SUBSET S -> Nat] : Sums(t, SUBSET S, f) /\ Total(f, S) = t[S]
    BY TotalSums
<1>2. PICK u \in [SUBSET S -> Nat] : Sums(u, SUBSET S, g) /\ Total(g, S) = u[S]
    BY TotalSums
<1>3. \A s \in SUBSET S : s # {} => Any(s) \in s /\ s \ {Any(s)} \in SUBSET S
    BY AnySmaller
<1> DEFINE Good == {s \in SUBSET S : IF a \in s THEN u[s] + f[a] = t[s] + g[a]
                                                ELSE u[s] = t[s]}
<1>4. {} \in Good
    BY <1>1, <1>2 DEF Sums
<1>5. ASSUME NEW s \in SUBSET S, s # {}, s \ {Any(s)} \in Good PROVE s \in Good
  <2> DEFINE x == Any(s)
             r == s \ {x}
  <2>1. t[s] = f[x] + t[r] /\ u[s] = g[x] + u[r]
    BY <1>1, <1>2, <1>5 DEF Sums
  <2>2. x \in s /\ r \in SUBSET S /\ r \in Good
    BY <1>3, <1>5
  <2>3. /\ t[s] \in Nat /\ t[r] \in Nat /\ u[s] \in Nat /\ u[r] \in Nat
        /\ f[x] \in Nat /\ g[x] \in Nat /\ f[a] \in Nat /\ g[a] \in Nat
    BY <2>2
  <2> HIDE DEF x
  <2>4. CASE x = a
    BY <2>1, <2>2, <2>3, <2>4
  <2>5. CASE x # a
    <3>1. f[x] = g[x] /\ (a \in s <=> a \in r)
      BY <2>2, <2>5
    <3>2. QED
      BY <2>1, <2>2, <2>3, <3>1
  <2>6. QED
    BY <2>4, <2>5
<1>6. Good = SUBSET S
  <2> HIDE DEF Good
  <2>1. Good \in SUBSET SUBSET S
    BY DEF Good
  <2>2. QED
    BY <1>4, <1>5, <2>1, OnSubsets
<1>7. S \in Good
    BY <1>6
<1>8. QED
    BY <1>1, <1>2, <1>7

-----------------------------------------------------------------------------
Claims == Rooms \X Wallets

(* What is owed to each wallet from each room, as a function               *)
Debt == [p \in Claims |-> Owed(p[1], p[2])]

(* Solvent, in these terms, before a step                                  *)
LEMMA SolventByDebt == Solvent <=> balance = Total(Debt, Claims)
<1> DEFINE Step(g) == [s \in SUBSET Claims |->
                          IF s = {} THEN 0
                          ELSE Owed(Any(s)[1], Any(s)[2]) + g[s \ {Any(s)}]]
           DebtStep(g) == [s \in SUBSET Claims |->
                          IF s = {} THEN 0 ELSE Debt[Any(s)] + g[s \ {Any(s)}]]
<1>1. Solvent <=> balance = (CHOOSE g : g = Step(g))[Claims]
    BY DEF Solvent, MapThenSumSet, MapThenFoldSet, Any, Claims
<1>2. Total(Debt, Claims) = (CHOOSE g : g = DebtStep(g))[Claims]
    BY DEF Total, MapThenSumSet, MapThenFoldSet, Any
<1>3. \A s \in SUBSET Claims : s # {} => Debt[Any(s)] = Owed(Any(s)[1], Any(s)[2])
    BY DEF Any, Debt
<1>4. \A g : Step(g) = DebtStep(g)
    BY <1>3
<1> HIDE DEF Step, DebtStep
<1>5. (CHOOSE g : g = Step(g)) = (CHOOSE g : g = DebtStep(g))
    BY <1>4
<1>6. QED
    BY <1>1, <1>2, <1>5

(* And after it                                                            *)
LEMMA SolventByDebtNext == Solvent' <=> balance' = Total(Debt', Claims)
<1> DEFINE Step(g) == [s \in SUBSET Claims |->
                          IF s = {} THEN 0
                          ELSE Owed(Any(s)[1], Any(s)[2])' + g[s \ {Any(s)}]]
           DebtStep(g) == [s \in SUBSET Claims |->
                          IF s = {} THEN 0 ELSE Debt'[Any(s)] + g[s \ {Any(s)}]]
<1>1. Solvent' <=> balance' = (CHOOSE g : g = Step(g))[Claims]
    BY DEF Solvent, MapThenSumSet, MapThenFoldSet, Any, Claims
<1>2. Total(Debt', Claims) = (CHOOSE g : g = DebtStep(g))[Claims]
    BY DEF Total, MapThenSumSet, MapThenFoldSet, Any
<1>3. \A s \in SUBSET Claims : s # {} => Debt'[Any(s)] = Owed(Any(s)[1], Any(s)[2])'
    BY DEF Any, Debt
<1>4. \A g : Step(g) = DebtStep(g)
    BY <1>3
<1> HIDE DEF Step, DebtStep
<1>5. (CHOOSE g : g = Step(g)) = (CHOOSE g : g = DebtStep(g))
    BY <1>4
<1>6. QED
    BY <1>1, <1>2, <1>5

(* The wallets and rooms are finitely many, and debts are numbers.         *)
LEMMA DebtTyped ==
    ASSUME TypeOK
    PROVE  IsFiniteSet(Claims) /\ Debt \in [Claims -> Nat]
<1>1. IsFiniteSet(Claims)
    BY FiniteConstants, FS_Product DEF Claims
<1>2. ASSUME NEW p \in Claims PROVE Owed(p[1], p[2]) \in Nat
    BY <1>2 DEF Claims, TypeOK, Match, Owed, Entitlement, Stakers
<1>3. QED
    BY <1>1, <1>2 DEF Debt

(* And after a step.                                                       *)
LEMMA DebtTypedNext ==
    ASSUME TypeOK'
    PROVE  Debt' \in [Claims -> Nat]
<1>1. ASSUME NEW p \in Claims PROVE Owed(p[1], p[2])' \in Nat
    BY <1>1 DEF Claims, TypeOK, Match, Owed, Entitlement, Stakers
<1>2. QED
    BY <1>1 DEF Debt

(* What a room owes depends on its own record and claims.                  *)
LEMMA OthersOwe ==
    ASSUME NEW q, matchesByRoom'[q] = matchesByRoom[q], rewardClaimed'[q] = rewardClaimed[q],
           NEW x
    PROVE  Owed(q, x)' = Owed(q, x)
    BY DEF Owed, Withdrawn, Entitlement, Stakers

(* A call that changes what is owed to one wallet, and the purse by just as*)
(* much, keeps the contract solvent.                                       *)
LEMMA OneDebt ==
    ASSUME TypeOK, TypeOK', Solvent, NEW r \in Rooms, NEW w \in Wallets,
           \A q \in Rooms, x \in Wallets : <<q, x>> # <<r, w>> => Owed(q, x)' = Owed(q, x),
           balance' + Owed(r, w) = balance + Owed(r, w)'
    PROVE  Solvent'
<1> DEFINE p == <<r, w>>
<1>1. p \in Claims /\ Debt[p] = Owed(r, w) /\ Debt'[p] = Owed(r, w)'
    BY DEF Claims, Debt
<1>2. \A x \in Claims : x # p => Debt'[x] = Debt[x]
    BY DEF Claims, Debt
<1>3. /\ Total(Debt, Claims) \in Nat /\ Total(Debt', Claims) \in Nat
      /\ Total(Debt', Claims) + Debt[p] = Total(Debt, Claims) + Debt'[p]
  <2>1. Debt \in [Claims -> Nat] /\ Debt' \in [Claims -> Nat] /\ IsFiniteSet(Claims)
    BY DebtTyped, DebtTypedNext
  <2> DEFINE f == Debt
             g == Debt'
  <2> HIDE DEF f, g, p
  <2>2. f \in [Claims -> Nat] /\ g \in [Claims -> Nat] /\ p \in Claims
        /\ \A x \in Claims : x # p => g[x] = f[x]
    BY <1>1, <1>2, <2>1 DEF f, g
  <2>3. /\ Total(f, Claims) \in Nat /\ Total(g, Claims) \in Nat
        /\ Total(g, Claims) + f[p] = Total(f, Claims) + g[p]
    BY <2>1, <2>2, TotalChanges
  <2>4. QED
    BY <2>3 DEF f, g
<1>4. Debt[p] \in Nat /\ Debt'[p] \in Nat /\ balance \in Nat /\ balance' \in Nat
    BY <1>1, DebtTyped, DebtTypedNext DEF TypeOK
<1>5. balance = Total(Debt, Claims)
    BY SolventByDebt
<1>6. balance' + Debt[p] = balance + Debt'[p]
    BY <1>1
<1>7. balance' = Total(Debt', Claims)
    BY <1>3, <1>4, <1>5, <1>6
<1>8. QED
    BY <1>7, SolventByDebtNext

(* A call that changes no debt                                             *)
LEMMA SameDebts ==
    ASSUME Solvent, \A q \in Rooms, x \in Wallets : Owed(q, x)' = Owed(q, x),
           balance' = balance
    PROVE  Solvent'
<1>1. Debt' = Debt
    BY DEF Debt, Claims
<1>2. QED
    BY <1>1, SolventByDebt, SolventByDebtNext

(* What the winner gains by a result, the loser loses.                     *)
LEMMA TwoDebts ==
    ASSUME TypeOK, TypeOK', Solvent, NEW r \in Rooms,
           NEW w \in Wallets, NEW v \in Wallets, w # v,
           \A q \in Rooms, x \in Wallets :
               <<q, x>> \notin {<<r, w>>, <<r, v>>} => Owed(q, x)' = Owed(q, x),
           Owed(r, w)' + Owed(r, v)' = Owed(r, w) + Owed(r, v),
           balance' = balance
    PROVE  Solvent'
<1> DEFINE p == <<r, w>>
           s == <<r, v>>
           f == Debt
           g == Debt'
           h == [f EXCEPT ![p] = g[p]]
<1>1. /\ p \in Claims /\ f[p] = Owed(r, w) /\ g[p] = Owed(r, w)'
      /\ s \in Claims /\ f[s] = Owed(r, v) /\ g[s] = Owed(r, v)' /\ p # s
    BY DEF Claims, Debt
<1>2. \A x \in Claims : x # p /\ x # s => g[x] = f[x]
    BY DEF Claims, Debt
<1>3. f \in [Claims -> Nat] /\ g \in [Claims -> Nat] /\ IsFiniteSet(Claims)
    BY DebtTyped, DebtTypedNext
<1>4. balance = Total(f, Claims)
    BY SolventByDebt
<1>5. g[p] + g[s] = f[p] + f[s]
    BY <1>1
<1> HIDE DEF f, g, p, s
<1>6. /\ h \in [Claims -> Nat] /\ h[p] = g[p] /\ h[s] = f[s]
      /\ \A x \in Claims : x # p => h[x] = f[x]
      /\ \A x \in Claims : x # s => g[x] = h[x]
    BY <1>1, <1>2, <1>3
<1> HIDE DEF h
<1>7. /\ Total(f, Claims) \in Nat /\ Total(h, Claims) \in Nat
      /\ Total(h, Claims) + f[p] = Total(f, Claims) + h[p]
    BY <1>1, <1>3, <1>6, TotalChanges
<1>8. /\ Total(h, Claims) \in Nat /\ Total(g, Claims) \in Nat
      /\ Total(g, Claims) + h[s] = Total(h, Claims) + g[s]
    BY <1>1, <1>3, <1>6, TotalChanges
<1>9. f[p] \in Nat /\ f[s] \in Nat /\ g[p] \in Nat /\ g[s] \in Nat
    BY <1>1, <1>3
<1>10. Total(g, Claims) = Total(f, Claims)
    BY <1>5, <1>6, <1>7, <1>8, <1>9
<1>11. balance' = Total(g, Claims)
    BY <1>4, <1>10
<1>12. QED
    BY <1>11, SolventByDebtNext DEF g

-----------------------------------------------------------------------------
(* createMatch: what comes in is owed to the one who sent it.              *)
LEMMA CreateSolvent ==
    ASSUME Inv, Inv', Solvent, NEW r \in Rooms, NEW w \in Wallets,
           NEW bet \in Amounts, NEW value \in Amounts, CreateMatch(r, w, bet, value)
    PROVE  Solvent'
<1> USE ContractConstants DEF ContractConstants
<1>1. /\ matchesByRoom \in [Rooms -> Match] /\ rewardClaimed' = rewardClaimed
      /\ balance \in Nat /\ LifeCycleOf(r) /\ TypeOK /\ TypeOK'
      /\ balance' = balance + value /\ bet = value /\ value \in Nat
      /\ matchesByRoom[r].status = "None"
      /\ \A q \in Rooms : q # r => matchesByRoom'[q] = matchesByRoom[q]
      /\ matchesByRoom'[r] = [matchesByRoom[r] EXCEPT
            !.creator = w, !.betAmount = bet, !.totalPot = value,
            !.joinDeadline = now + JoinTimeout, !.status = "WaitingForOpponent"]
    BY DEF Inv, RoomInv, TypeOK, CreateMatch
<1>2. matchesByRoom[r] = NoMatch /\ rewardClaimed[r] = {}
    BY <1>1 DEF LifeCycleOf
<1>3. \A x \in Wallets : Owed(r, x) = 0 /\ Owed(r, x)' = IF x = w THEN value ELSE 0
    BY <1>1, <1>2 DEF Owed, Withdrawn, Entitlement, Stakers, NoMatch, Match
<1>4. \A q \in Rooms, x \in Wallets : q # r => Owed(q, x)' = Owed(q, x)
    BY <1>1, OthersOwe
<1>5. QED
    BY <1>1, <1>3, <1>4, OneDebt

(* joinMatch: likewise.                                                    *)
LEMMA JoinSolvent ==
    ASSUME Inv, Inv', Solvent, NEW r \in Rooms, NEW w \in Wallets, NEW value \in Amounts,
           JoinMatch(r, w, value)
    PROVE  Solvent'
<1> USE ContractConstants DEF ContractConstants
<1> DEFINE m == matchesByRoom[r]
<1>1. /\ m \in Match /\ rewardClaimed' = rewardClaimed
      /\ balance \in Nat /\ LifeCycleOf(r) /\ TypeOK /\ TypeOK'
      /\ balance' = balance + value /\ m.betAmount = value /\ value \in Nat
      /\ m.status = "WaitingForOpponent" /\ m.creator # w
      /\ \A q \in Rooms : q # r => matchesByRoom'[q] = matchesByRoom[q]
      /\ matchesByRoom'[r] = [m EXCEPT
            !.opponent = w, !.resultDeadline = now + ResultTimeout,
            !.totalPot = @ + value, !.status = "Active"]
    BY DEF Inv, RoomInv, TypeOK, JoinMatch, CanJoin
<1>2. m.opponent = ZeroAddress /\ m.winner = ZeroAddress /\ rewardClaimed[r] = {}
    BY <1>1 DEF LifeCycleOf, Unjoined
<1>3. \A x \in Wallets : x # w => Owed(r, x)' = Owed(r, x)
    BY <1>1, <1>2 DEF Owed, Withdrawn, Entitlement, Stakers, Match
<1>4. Owed(r, w) = 0 /\ Owed(r, w)' = value
    BY <1>1, <1>2 DEF Owed, Withdrawn, Entitlement, Stakers, Match
<1>5. \A q \in Rooms, x \in Wallets : q # r => Owed(q, x)' = Owed(q, x)
    BY <1>1, OthersOwe
<1>6. QED
    BY <1>1, <1>3, <1>4, <1>5, OneDebt

(* claimReward pays what is owed, and owes nothing more.                   *)
LEMMA ClaimSolvent ==
    ASSUME Inv, Inv', Solvent, NEW r \in Rooms, NEW w \in Wallets, ClaimReward(r, w)
    PROVE  Solvent'
<1> USE ContractConstants DEF ContractConstants
<1> DEFINE m == matchesByRoom[r]
<1>1. /\ m \in Match /\ m.status = "Resolved" /\ Joined(m) /\ w \notin rewardClaimed[r]
      /\ w \in Beneficiaries(m) /\ matchesByRoom' = matchesByRoom
      /\ TypeOK /\ TypeOK' /\ DecidedInTime(r) /\ balance \in Nat
      /\ rewardClaimed'[r] = rewardClaimed[r] \union {w}
      /\ \A q \in Rooms : q # r => rewardClaimed'[q] = rewardClaimed[q]
    BY DEF Inv, RoomInv, ClaimReward, ClaimDrawRefund, ClaimPot, TypeOK, LifeCycleOf,
           Beneficiaries, Match
<1>2. PICK amount \in Nat :
          Pay(r, w, amount)
          /\ amount = IF m.winner = ZeroAddress THEN m.betAmount ELSE 2 * m.betAmount
    BY <1>1 DEF ClaimReward, ClaimDrawRefund, ClaimPot, Match, Joined
<1>3. Owed(r, w) = amount /\ Owed(r, w)' = 0
    BY <1>1, <1>2 DEF Owed, Withdrawn, Entitlement, Stakers, Beneficiaries, Joined, DecidedInTime
<1>4. \A x \in Wallets : x # w => Owed(r, x)' = Owed(r, x)
    BY <1>1 DEF Owed, Withdrawn, Entitlement, Stakers
<1>5. \A q \in Rooms, x \in Wallets : q # r => Owed(q, x)' = Owed(q, x)
    BY <1>1, OthersOwe
<1>6. balance' + amount = balance
    BY <1>1, <1>2 DEF Pay
<1>7. QED
    BY <1>1, <1>2, <1>3, <1>4, <1>5, <1>6, OneDebt

(* So does cancelUnjoinedMatch.                                            *)
LEMMA CancelSolvent ==
    ASSUME Inv, Inv', Solvent, NEW r \in Rooms, NEW w \in Wallets, CancelUnjoinedMatch(r, w)
    PROVE  Solvent'
<1> USE ContractConstants DEF ContractConstants
<1> DEFINE m == matchesByRoom[r]
<1>1. /\ m \in Match /\ m.status = "WaitingForOpponent" /\ m.creator = w /\ LifeCycleOf(r)
      /\ Pay(r, w, m.totalPot) /\ rewardClaimed' = rewardClaimed
      /\ TypeOK /\ TypeOK' /\ balance \in Nat
      /\ matchesByRoom'[r] = [m EXCEPT !.status = "Cancelled", !.totalPot = 0]
      /\ \A q \in Rooms : q # r => matchesByRoom'[q] = matchesByRoom[q]
    BY DEF Inv, RoomInv, CancelUnjoinedMatch, CanCancel, TypeOK
<1>2. /\ m.totalPot = m.betAmount /\ m.totalPot \in Nat /\ rewardClaimed[r] = {}
      /\ m.winner = ZeroAddress /\ m.opponent = ZeroAddress
    BY <1>1 DEF LifeCycleOf, Unjoined, Match
<1>3. Owed(r, w) = m.totalPot /\ Owed(r, w)' = 0
    BY <1>1, <1>2 DEF Owed, Withdrawn, Entitlement, Stakers
<1>4. \A x \in Wallets : x # w => Owed(r, x)' = Owed(r, x)
    BY <1>1, <1>2 DEF Owed, Withdrawn, Entitlement, Stakers, Match
<1>5. \A q \in Rooms, x \in Wallets : q # r => Owed(q, x)' = Owed(q, x)
    BY <1>1, OthersOwe
<1>6. balance' + m.totalPot = balance
    BY <1>1, <1>2 DEF Pay
<1>7. QED
    BY <1>1, <1>2, <1>3, <1>4, <1>5, <1>6, OneDebt

(* What submitResult and forceDrawOnTimeout have in common                 *)
Resolves(r, winner) ==
    /\ matchesByRoom[r].status = "Active"
    /\ winner \in {ZeroAddress, matchesByRoom[r].creator, matchesByRoom[r].opponent}
    /\ matchesByRoom' = [matchesByRoom EXCEPT
            ![r].winner = winner, ![r].resolvedAt = now, ![r].status = "Resolved"]
    /\ rewardClaimed' = rewardClaimed /\ balance' = balance

(* A result, by the signer or by force, leaves what is owed in all: a draw *)
(* changes nothing, and a winner gets what the other one loses.            *)
LEMMA ResolveSolvent ==
    ASSUME Inv, Inv', Solvent, NEW r \in Rooms, NEW winner \in Address, Resolves(r, winner)
    PROVE  Solvent'
<1> USE ContractConstants DEF ContractConstants
<1> DEFINE m == matchesByRoom[r]
<1>1. /\ m \in Match /\ LifeCycleOf(r) /\ TypeOK /\ TypeOK'
      /\ matchesByRoom'[r] = [m EXCEPT
            !.winner = winner, !.resolvedAt = now, !.status = "Resolved"]
      /\ \A q \in Rooms : q # r => matchesByRoom'[q] = matchesByRoom[q]
      /\ m.status = "Active" /\ winner \in {ZeroAddress, m.creator, m.opponent}
      /\ rewardClaimed' = rewardClaimed /\ balance' = balance
    BY DEF Inv, RoomInv, TypeOK, Resolves
<1>2. PICK w \in Wallets, v \in Wallets :
          /\ w = m.creator /\ v = m.opponent /\ w # v /\ m.winner = ZeroAddress
          /\ rewardClaimed[r] = {} /\ m.betAmount \in Nat
    BY <1>1 DEF LifeCycleOf, Joined, Match, Address
<1>3. \A q \in Rooms, x \in Wallets : q # r => Owed(q, x)' = Owed(q, x)
    BY <1>1, OthersOwe
<1>4. \A x \in Wallets : x \notin {w, v} => Owed(r, x)' = Owed(r, x)
    BY <1>1, <1>2 DEF Owed, Withdrawn, Entitlement, Stakers, Match
<1>5. /\ Owed(r, w) = m.betAmount /\ Owed(r, v) = m.betAmount
    BY <1>1, <1>2 DEF Owed, Withdrawn, Entitlement, Stakers
<1>6. Owed(r, w)' + Owed(r, v)' = 2 * m.betAmount
  <2>1. CASE winner = ZeroAddress
    BY <1>1, <1>2, <2>1 DEF Owed, Withdrawn, Entitlement, Stakers, Match
  <2>2. CASE winner = w
    BY <1>1, <1>2, <2>2 DEF Owed, Withdrawn, Entitlement, Stakers, Match
  <2>3. CASE winner = v
    BY <1>1, <1>2, <2>3 DEF Owed, Withdrawn, Entitlement, Stakers, Match
  <2>4. QED
    BY <1>1, <1>2, <2>1, <2>2, <2>3
<1>7. Owed(r, w)' + Owed(r, v)' = Owed(r, w) + Owed(r, v)
    BY <1>2, <1>5, <1>6
<1>8. QED
    BY <1>1, <1>2, <1>3, <1>4, <1>7, TwoDebts

(* The purse is empty before the first match.                              *)
LEMMA InitSolvent == Init => Solvent
<1> SUFFICES ASSUME Init PROVE Solvent
    OBVIOUS
<1>1. /\ IsFiniteSet(Claims) /\ Debt \in [Claims -> Nat]
    BY InitType, DebtTyped
<1>2. \A p \in Claims : Debt[p] = 0
    BY DEF Init, Debt, Claims, Owed, Withdrawn, Entitlement, Stakers, NoMatch
<1>3. PICK t \in [SUBSET Claims -> Nat] :
          Sums(t, SUBSET Claims, Debt) /\ Total(Debt, Claims) = t[Claims]
    BY <1>1, TotalSums
<1>4. \A s \in SUBSET Claims : s # {} => Any(s) \in Claims /\ s \ {Any(s)} \in SUBSET Claims
    BY <1>1, AnySmaller
<1> DEFINE Good == {s \in SUBSET Claims : t[s] = 0}
<1>5. {} \in Good
    BY <1>3 DEF Sums
<1>6. ASSUME NEW s \in SUBSET Claims, s # {}, s \ {Any(s)} \in Good PROVE s \in Good
    BY <1>2, <1>3, <1>4, <1>6 DEF Sums
<1>7. Good = SUBSET Claims
  <2> HIDE DEF Good
  <2>1. Good \in SUBSET SUBSET Claims
    BY DEF Good
  <2>2. QED
    BY <1>1, <1>5, <1>6, <2>1, OnSubsets
<1>8. Total(Debt, Claims) = 0
    BY <1>3, <1>7
<1>9. QED
    BY <1>8, SolventByDebt DEF Init

(* Every call keeps the contract solvent.                                  *)
LEMMA NextSolvent == Inv /\ Inv' /\ Solvent /\ [Next]_vars => Solvent'
<1> SUFFICES ASSUME Inv, Inv', Solvent, [Next]_vars PROVE Solvent'
    OBVIOUS
<1>1. ASSUME NEW r \in Rooms, NEW w \in Wallets, NEW bet \in Amounts,
             NEW value \in Amounts, CreateMatch(r, w, bet, value)
      PROVE  Solvent'
    BY <1>1, CreateSolvent
<1>2. ASSUME NEW r \in Rooms, NEW w \in Wallets, NEW value \in Amounts,
             JoinMatch(r, w, value)
      PROVE  Solvent'
    BY <1>2, JoinSolvent
<1>3. ASSUME NEW r \in Rooms, NEW w \in Wallets, ClaimReward(r, w)
      PROVE  Solvent'
    BY <1>3, ClaimSolvent
<1>4. ASSUME NEW r \in Rooms, NEW w \in Wallets, CancelUnjoinedMatch(r, w)
      PROVE  Solvent'
    BY <1>4, CancelSolvent
<1>5. ASSUME NEW r \in Rooms, NEW w \in Wallets, ForceDrawOnTimeout(r, w)
      PROVE  Solvent'
    BY <1>5, ResolveSolvent DEF ForceDrawOnTimeout, CanForceDraw, Address, Resolves
<1>6. ASSUME NEW r \in Rooms, NEW winner \in Address, SubmitResult(r, winner)
      PROVE  Solvent'
    BY <1>6, ResolveSolvent DEF SubmitResult, CanSubmit, Resolves
<1>7. CASE Pause \/ Unpause \/ Tick \/ UNCHANGED vars
  <2>1. matchesByRoom' = matchesByRoom /\ rewardClaimed' = rewardClaimed /\ balance' = balance
    BY <1>7 DEF Pause, Unpause, Tick, vars
  <2>2. \A q \in Rooms, x \in Wallets : Owed(q, x)' = Owed(q, x)
    BY <2>1, OthersOwe
  <2>3. QED
    BY <2>1, <2>2, SameDebts
<1>8. QED
    BY <1>1, <1>2, <1>3, <1>4, <1>5, <1>6, <1>7 DEF Next, Call

(* The one purse holds exactly what is owed over all rooms, for any number *)
(* of rooms, wallets and calls.                                            *)
THEOREM AlwaysSolvent == Spec => []Solvent
<1>1. QED
    BY InitSolvent, NextSolvent, Invariance, PTL DEF Spec

=============================================================================
