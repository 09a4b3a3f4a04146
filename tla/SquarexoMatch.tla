--------------------------- MODULE SquarexoMatch ---------------------------
(***************************************************************************)
(* The escrow contract (src/packages/contracts/contracts/SquarexoMatch.sol)*)
(* Two wallets stake the same amount on a room; the backend's signer names *)
(* the winner (or a draw) before a deadline; the wallets withdraw.         *)
(*                                                                         *)
(* A transaction is one step: a call that reverts leaves no trace, so a    *)
(* reverting call is an action that is not enabled.  Every function that   *)
(* pays writes its state before the transfer, so a call nested in the      *)
(* transfer sees what a call made right after it would see, and a transfer *)
(* that fails reverts the whole call.                                      *)
(***************************************************************************)
EXTENDS Integers, FiniteSets, FiniteSetsExt

CONSTANTS
    Rooms,          \* room ids of 1..64 bytes (any other id reverts everywhere)
    Wallets,        \* addresses that can send transactions
    ZeroAddress,    \* address(0): "no address", and as a winner "draw"
    Amounts,        \* amounts of wei a caller may attach or name
    JoinTimeout,    \* joinTimeoutSeconds
    ResultTimeout,  \* resultTimeoutSeconds
    LastCreation,   \* bound: no match is created after this time
    MaxTime         \* bound: the clock stops here

ASSUME ContractConstants ==
    /\ ZeroAddress \notin Wallets
    /\ Amounts \subseteq Nat
    /\ JoinTimeout \in Nat /\ ResultTimeout \in Nat /\ LastCreation \in Nat
    /\ MaxTime \in Nat /\ MaxTime > LastCreation + JoinTimeout + ResultTimeout

(* Ids have at most 64 bytes, addresses 20.                                *)
ASSUME FiniteConstants == IsFiniteSet(Rooms) /\ IsFiniteSet(Wallets)

VARIABLES
    matchesByRoom,  \* [Rooms -> Match]
    rewardClaimed,  \* [Rooms -> SUBSET Wallets]
    paused,         \* Pausable
    balance,        \* the contract's own wei, one purse for all rooms
    now,            \* block.timestamp
    received        \* history: what each wallet got out of each room

vars == <<matchesByRoom, rewardClaimed, paused, balance, now, received>>

-----------------------------------------------------------------------------
Status == {"None", "WaitingForOpponent", "Active", "Resolved", "Cancelled"}
Address == Wallets \union {ZeroAddress}

Match == [creator: Address, opponent: Address, betAmount: Nat, totalPot: Nat,
          resolvedAt: Nat, joinDeadline: Nat, resultDeadline: Nat,
          winner: Address, status: Status]

NoMatch == [creator |-> ZeroAddress, opponent |-> ZeroAddress, betAmount |-> 0,
            totalPot |-> 0, resolvedAt |-> 0, joinDeadline |-> 0,
            resultDeadline |-> 0, winner |-> ZeroAddress, status |-> "None"]

TypeOK ==
    /\ matchesByRoom \in [Rooms -> Match]
    /\ rewardClaimed \in [Rooms -> SUBSET Wallets]
    /\ paused \in BOOLEAN
    /\ balance \in Nat
    /\ now \in 0..MaxTime
    /\ received \in [Rooms -> [Wallets -> Nat]]

Init ==
    /\ matchesByRoom = [r \in Rooms |-> NoMatch]
    /\ rewardClaimed = [r \in Rooms |-> {}]
    /\ paused = FALSE
    /\ balance = 0
    /\ now = 0
    /\ received = [r \in Rooms |-> [w \in Wallets |-> 0]]

-----------------------------------------------------------------------------
(* Mutants: what a slip in a function of the contract would make of it.    *)

(* forceDrawOnTimeout with < for <=                                        *)
CanForceDrawAtDeadline(r, sender) ==
    /\ matchesByRoom[r].status = "Active"
    /\ sender \in {matchesByRoom[r].creator, matchesByRoom[r].opponent}
    /\ now >= matchesByRoom[r].resultDeadline

(* createMatch with the sign of the join window swapped                    *)
CreateMatchDeadlineBehind(r, sender, betAmount, value) ==
    /\ ~paused
    /\ matchesByRoom[r].status = "None"
    /\ betAmount # 0 /\ value = betAmount
    /\ now <= LastCreation
    /\ matchesByRoom' = [matchesByRoom EXCEPT
            ![r].creator = sender,
            ![r].betAmount = betAmount,
            ![r].totalPot = value,
            ![r].joinDeadline = now - JoinTimeout,
            ![r].status = "WaitingForOpponent"]
    /\ balance' = balance + value
    /\ UNCHANGED <<rewardClaimed, paused, now, received>>

(* joinMatch without the check of the attached value                       *)
JoinMatchAnyValue(r, sender, value) ==
    /\ ~paused
    /\ matchesByRoom[r].status = "WaitingForOpponent"
    /\ matchesByRoom[r].creator # sender
    /\ now <= matchesByRoom[r].joinDeadline
    /\ matchesByRoom' = [matchesByRoom EXCEPT
            ![r].opponent = sender,
            ![r].resultDeadline = now + ResultTimeout,
            ![r].totalPot = @ + matchesByRoom[r].betAmount,
            ![r].status = "Active"]
    /\ balance' = balance + value
    /\ UNCHANGED <<rewardClaimed, paused, now, received>>

(* joinMatch that lets the creator join its own match                      *)
JoinOwnMatch(r, sender, value) ==
    /\ ~paused
    /\ matchesByRoom[r].status = "WaitingForOpponent"
    /\ now <= matchesByRoom[r].joinDeadline
    /\ value = matchesByRoom[r].betAmount
    /\ matchesByRoom' = [matchesByRoom EXCEPT
            ![r].opponent = sender,
            ![r].resultDeadline = now + ResultTimeout,
            ![r].totalPot = @ + value,
            ![r].status = "Active"]
    /\ balance' = balance + value
    /\ UNCHANGED <<rewardClaimed, paused, now, received>>

(* forceDrawOnTimeout with the whenNotPaused of its neighbours             *)
ForceDrawUnlessPaused(r, sender) ==
    /\ ~paused
    /\ matchesByRoom[r].status = "Active"
    /\ sender \in {matchesByRoom[r].creator, matchesByRoom[r].opponent}
    /\ now > matchesByRoom[r].resultDeadline
    /\ matchesByRoom' = [matchesByRoom EXCEPT
            ![r].winner = ZeroAddress, ![r].resolvedAt = now, ![r].status = "Resolved"]
    /\ UNCHANGED <<rewardClaimed, paused, balance, now, received>>

-----------------------------------------------------------------------------
(* What the calls that a deadline separates ask of the match and the       *)
(* caller, before they look at the value or the winner they are given.     *)
CanJoin(r, sender) ==
    /\ ~paused
    /\ matchesByRoom[r].status = "WaitingForOpponent"
    /\ matchesByRoom[r].creator # sender
    /\ now <= matchesByRoom[r].joinDeadline

CanCancel(r, sender) ==
    /\ matchesByRoom[r].status = "WaitingForOpponent"
    /\ sender = matchesByRoom[r].creator
    /\ now > matchesByRoom[r].joinDeadline

CanSubmit(r) ==
    /\ ~paused
    /\ matchesByRoom[r].status = "Active"
    /\ now <= matchesByRoom[r].resultDeadline

CanForceDraw(r, sender) ==
    /\ matchesByRoom[r].status = "Active"
    /\ sender \in {matchesByRoom[r].creator, matchesByRoom[r].opponent}
    /\ now > matchesByRoom[r].resultDeadline

-----------------------------------------------------------------------------
(* createMatch(roomId, betAmount) with msg.value = value.                  *)
CreateMatch(r, sender, betAmount, value) ==
    /\ ~paused
    /\ matchesByRoom[r].status = "None"
    /\ betAmount # 0 /\ value = betAmount
    /\ now <= LastCreation
    /\ matchesByRoom' = [matchesByRoom EXCEPT
            ![r].creator = sender,
            ![r].betAmount = betAmount,
            ![r].totalPot = value,
            ![r].joinDeadline = now + JoinTimeout,
            ![r].status = "WaitingForOpponent"]
    /\ balance' = balance + value
    /\ UNCHANGED <<rewardClaimed, paused, now, received>>

JoinMatch(r, sender, value) ==
    /\ CanJoin(r, sender)
    /\ value = matchesByRoom[r].betAmount
    /\ matchesByRoom' = [matchesByRoom EXCEPT
            ![r].opponent = sender,
            ![r].resultDeadline = now + ResultTimeout,
            ![r].totalPot = @ + value,
            ![r].status = "Active"]
    /\ balance' = balance + value
    /\ UNCHANGED <<rewardClaimed, paused, now, received>>

(* submitResult: only the holder of BACKEND_SIGNER_ROLE gets this far.     *)
SubmitResult(r, winner) ==
    /\ CanSubmit(r)
    /\ winner \in {ZeroAddress, matchesByRoom[r].creator, matchesByRoom[r].opponent}
    /\ matchesByRoom' = [matchesByRoom EXCEPT
            ![r].winner = winner, ![r].resolvedAt = now, ![r].status = "Resolved"]
    /\ UNCHANGED <<rewardClaimed, paused, balance, now, received>>

(* payable(to).call{value: amount}: fails when the purse is short.         *)
Pay(r, to, amount) ==
    /\ balance >= amount
    /\ balance' = balance - amount
    /\ received' = [received EXCEPT ![r][to] = @ + amount]

ClaimDrawRefund(r, sender) ==
    /\ matchesByRoom[r].winner = ZeroAddress
    /\ sender \in {matchesByRoom[r].creator, matchesByRoom[r].opponent}
    /\ Pay(r, sender, matchesByRoom[r].betAmount)

ClaimPot(r, sender) ==
    /\ matchesByRoom[r].winner = sender
    /\ Pay(r, sender, matchesByRoom[r].totalPot)

(* Mutant: claimReward that forgets who has claimed                        *)
ClaimRewardAgain(r, sender) ==
    /\ matchesByRoom[r].status = "Resolved"
    /\ ClaimDrawRefund(r, sender) \/ ClaimPot(r, sender)
    /\ rewardClaimed' = [rewardClaimed EXCEPT ![r] = @ \union {sender}]
    /\ UNCHANGED <<matchesByRoom, paused, now>>

(* Mutant: cancelUnjoinedMatch that leaves the pot in the record           *)
CancelKeepingPot(r, sender) ==
    /\ matchesByRoom[r].status = "WaitingForOpponent"
    /\ sender = matchesByRoom[r].creator
    /\ now > matchesByRoom[r].joinDeadline
    /\ matchesByRoom' = [matchesByRoom EXCEPT ![r].status = "Cancelled"]
    /\ Pay(r, sender, matchesByRoom[r].totalPot)
    /\ UNCHANGED <<rewardClaimed, paused, now>>

ClaimReward(r, sender) ==
    /\ matchesByRoom[r].status = "Resolved"
    /\ sender \notin rewardClaimed[r]
    /\ ClaimDrawRefund(r, sender) \/ ClaimPot(r, sender)
    /\ rewardClaimed' = [rewardClaimed EXCEPT ![r] = @ \union {sender}]
    /\ UNCHANGED <<matchesByRoom, paused, now>>

CancelUnjoinedMatch(r, sender) ==
    /\ CanCancel(r, sender)
    /\ matchesByRoom' = [matchesByRoom EXCEPT
            ![r].status = "Cancelled", ![r].totalPot = 0]
    /\ Pay(r, sender, matchesByRoom[r].totalPot)
    /\ UNCHANGED <<rewardClaimed, paused, now>>

ForceDrawOnTimeout(r, sender) ==
    /\ CanForceDraw(r, sender)
    /\ matchesByRoom' = [matchesByRoom EXCEPT
            ![r].winner = ZeroAddress, ![r].resolvedAt = now, ![r].status = "Resolved"]
    /\ UNCHANGED <<rewardClaimed, paused, balance, now, received>>

(* pause() and unpause(): DEFAULT_ADMIN_ROLE only.                         *)
Pause ==
    /\ ~paused
    /\ paused' = TRUE
    /\ UNCHANGED <<matchesByRoom, rewardClaimed, balance, now, received>>

Unpause ==
    /\ paused
    /\ paused' = FALSE
    /\ UNCHANGED <<matchesByRoom, rewardClaimed, balance, now, received>>

(* A block with a later timestamp.                                         *)
Tick ==
    /\ now < MaxTime
    /\ now' = now + 1
    /\ UNCHANGED <<matchesByRoom, rewardClaimed, paused, balance, received>>

Call(r, w) ==
    \/ \E bet \in Amounts, value \in Amounts : CreateMatch(r, w, bet, value)
    \/ \E value \in Amounts : JoinMatch(r, w, value)
    \/ ClaimReward(r, w)
    \/ CancelUnjoinedMatch(r, w)
    \/ ForceDrawOnTimeout(r, w)

Next ==
    \/ \E r \in Rooms, w \in Wallets : Call(r, w)
    \/ \E r \in Rooms, winner \in Address : SubmitResult(r, winner)
    \/ Pause
    \/ Unpause
    \/ Tick

Spec == Init /\ [][Next]_vars

(***************************************************************************)
(* Fairness: time passes, and a wallet that has money to withdraw keeps    *)
(* trying to.  Nothing is assumed of the backend, which may never submit a *)
(* result, nor of the admin, who may pause the contract for good.          *)
(***************************************************************************)
Withdrawals(r, w) ==
    ClaimReward(r, w) \/ CancelUnjoinedMatch(r, w) \/ ForceDrawOnTimeout(r, w)

FairSpec ==
    /\ Spec
    /\ WF_vars(Tick)
    /\ \A r \in Rooms, w \in Wallets : WF_vars(Withdrawals(r, w))

-----------------------------------------------------------------------------
Stakers(r) == {matchesByRoom[r].creator, matchesByRoom[r].opponent} \ {ZeroAddress}

(***************************************************************************)
(* What wallet w gets out of room r in all, as things stand: its stake     *)
(* while the match is open, cancelled or drawn, and both stakes or nothing *)
(* once there is a winner.                                                 *)
(***************************************************************************)
Entitlement(r, w) ==
    LET m == matchesByRoom[r] IN
    IF w \notin Stakers(r) THEN 0
    ELSE IF m.winner = ZeroAddress THEN m.betAmount
    ELSE IF m.winner = w THEN 2 * m.betAmount ELSE 0

(* The withdrawal of w from room r has gone through.                       *)
Withdrawn(r, w) ==
    \/ w \in rewardClaimed[r]
    \/ matchesByRoom[r].status = "Cancelled" /\ w = matchesByRoom[r].creator

Owed(r, w) == IF Withdrawn(r, w) THEN 0 ELSE Entitlement(r, w)

(***************************************************************************)
(* However withdrawals, results, forced draws and pauses interleave, a     *)
(* wallet has received either nothing or exactly what the outcome gives it,*)
(* never twice and never another wallet's share (lines 118-161).           *)
(***************************************************************************)
PayoutOf(r) ==
    \A w \in Wallets :
        received[r][w] = IF Withdrawn(r, w) THEN Entitlement(r, w) ELSE 0

ExactPayout == \A r \in Rooms : PayoutOf(r)

(***************************************************************************)
(* The one purse holds exactly what is owed over all rooms: no room is ever*)
(* paid out of the stakes of another one, and no wei is stranded.          *)
(***************************************************************************)
Solvent ==
    balance = MapThenSumSet(LAMBDA p : Owed(p[1], p[2]), Rooms \X Wallets)

(***************************************************************************)
(* A deadline splits the life of a match in two, with neither overlap nor  *)
(* gap.  At no moment can one wallet join what another can cancel, nor can *)
(* the signer still name a winner when a staker can already force a draw;  *)
(* and at no moment, the deadline itself included, are both refused to     *)
(* everyone, unless the contract is paused (lines 87, 105, 151, 170).  So  *)
(* what was decided after a deadline was decided by the call that comes    *)
(* after it: a match joined late, or won late, does not exist.             *)
(***************************************************************************)
Exclusive(r) ==
    /\ ~ \E w, x \in Wallets : CanJoin(r, w) /\ CanCancel(r, x)
    /\ ~ \E w \in Wallets : CanSubmit(r) /\ CanForceDraw(r, w)

Gapless(r) ==
    LET m == matchesByRoom[r] IN
    /\ m.status = "WaitingForOpponent" /\ ~paused
          => CanCancel(r, m.creator) \/ \A w \in Wallets \ {m.creator} : CanJoin(r, w)
    /\ m.status = "Active" /\ ~paused
          => CanSubmit(r) \/ \A w \in {m.creator, m.opponent} : CanForceDraw(r, w)

DecidedInTime(r) ==
    LET m == matchesByRoom[r] IN
    /\ m.opponent # ZeroAddress => m.resultDeadline <= m.joinDeadline + ResultTimeout
    /\ m.winner # ZeroAddress => m.resolvedAt <= m.resultDeadline
    /\ m.winner # ZeroAddress => m.winner \in Stakers(r)

WindowsOf(r) == Exclusive(r) /\ Gapless(r) /\ DecidedInTime(r)

WindowsAreDisjoint == \A r \in Rooms : WindowsOf(r)

(***************************************************************************)
(* The record of a room, its claims and its status tell the same story:    *)
(* the pot is the sum of the stakes that are in, nobody claims before the  *)
(* result, and only the wallets the result names can have claimed.         *)
(***************************************************************************)
Joined(m) ==
    /\ m.creator \in Wallets /\ m.opponent \in Wallets /\ m.creator # m.opponent
    /\ m.totalPot = 2 * m.betAmount

Unjoined(m) == m.creator \in Wallets /\ m.opponent = ZeroAddress

Beneficiaries(m) ==
    IF m.winner = ZeroAddress THEN {m.creator, m.opponent} ELSE {m.winner}

LifeCycleOf(r) ==
    LET m == matchesByRoom[r] IN
    /\ m.status = "None" => m = NoMatch
    /\ m.status = "WaitingForOpponent" => Unjoined(m) /\ m.totalPot = m.betAmount
    /\ m.status = "Cancelled" => Unjoined(m) /\ m.totalPot = 0
    /\ m.status \in {"Active", "Resolved"} => Joined(m)
    /\ IF m.status = "Resolved"
       THEN rewardClaimed[r] \subseteq Beneficiaries(m)
       ELSE rewardClaimed[r] = {} /\ m.winner = ZeroAddress

LifeCycle == \A r \in Rooms : LifeCycleOf(r)

(***************************************************************************)
(* Once a match is resolved or cancelled its record never changes again:   *)
(* a late result cannot overturn a forced draw, nor a forced draw a result,*)
(* whatever has been claimed meanwhile.                                    *)
(***************************************************************************)
OutcomeIsFinal ==
    [][\A r \in Rooms :
        matchesByRoom[r].status \in {"Resolved", "Cancelled"}
            => matchesByRoom'[r] = matchesByRoom[r]]_vars

(***************************************************************************)
(* The contract is the escrow that the backend's settlement is written     *)
(* for: two different wallets stake, then one of them or nobody wins, and  *)
(* a call that comes too late, twice or while the contract is paused does  *)
(* not change that (lines 60-177).                                         *)
(***************************************************************************)
EscrowOf(r) ==
    [status |-> matchesByRoom[r].status, parties |-> Stakers(r),
     winner |-> matchesByRoom[r].winner]

Abstract == INSTANCE Escrow WITH
    Users <- Wallets,
    Draw <- ZeroAddress,
    None <- ZeroAddress,
    escrow <- [r \in Rooms |-> EscrowOf(r)]

ImplementsEscrow == Abstract!Spec

(***************************************************************************)
(* No stake is locked in for ever: with a backend that never answers and an*)
(* admin who may leave the contract paused, every wallet that keeps asking *)
(* ends with nothing left to withdraw.                                     *)
(***************************************************************************)
NoStakeIsTrapped ==
    \A r \in Rooms, w \in Wallets : Owed(r, w) > 0 ~> Owed(r, w) = 0
=============================================================================
