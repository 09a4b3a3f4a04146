# A TLA+ model of SquareXO

SquareXO is an online Dots-and-Boxes game with stakes: a Node/Socket.IO backend
keeps rooms and games in memory, a Solidity contract holds the stakes, a
database keeps the results, and a browser client also plays local games.  This
directory holds TLA+ modules translated from that code, TLC configurations that
check them on small instances, and theorems checked by TLAPS.  All source paths
below are relative to `src/`.

## 1. The system

| Component | State | Operations | Modelled in |
|---|---|---|---|
| Escrow contract `packages/contracts/contracts/SquarexoMatch.sol` | `matchesByRoom`, `rewardClaimed`, `paused`, its balance | createMatch, joinMatch, submitResult, claimReward, cancelUnjoinedMatch, forceDrawOnTimeout, pause, unpause | `SquarexoMatch`; abstractly `Escrow` |
| Game rules `packages/game-core` | none; pure functions on `GameState` | createGame, applyMove, edgeKey, chooseAIMove | `GameCore`, `DotsAndBoxes`; abstractly `BoardRules`, `BoardGame` |
| Room manager `packages/backend/src/room/roomManager.ts` | rooms, seats, sockets, reservations (`pendingReconnects`), processed actions, socket index | getOrCreateRoom, assignSocket, removeSocket, cleanupExpiredReconnect, cleanupRoom, sweepExpired, dedupe | `RoomManager` |
| Socket server `packages/backend/src/socket/handler.ts`, `server.ts`, `services/gameCoreAdapter.ts`, `services/blockchainService.ts` | `socketToRoom`, `moveInProgress` chains, `matchSaved`, `rematchRequestedBy`, handlers suspended at an await | JOIN_ROOM, MAKE_MOVE, RESET_GAME, SYNC_STATE, REMATCH_REQUEST, REMATCH_RESPONSE, disconnect, sweep timer, saveMatchIfFinished, submitResult | `GameServer`; what it sends to whom: `OnlineClient` |
| Match results and ratings `services/matchService.ts`, `services/eloService.ts` | rows of the match table, ratings | saveResult, syncWalletHistory, getWalletHistory, calculateElo | `MatchHistory`; the row and its failures also in `GameServer` |
| Tokens and sessions `services/authService.ts`, `routes/auth.ts` | revoked refresh tokens, in memory | register, login, refresh, logout | `Accounts` |
| User directory `services/userService.ts`, `store/userStore.ts` | users, their wallets and ratings, in memory or in the database | createUser, linkWallet | `Accounts`; ratings in `MatchHistory` |
| SQL repositories `db/*Repository.ts` | none: the backend constructs none of them | | not modelled |
| HTTP layer `http/`, `middleware/`, other `routes/` | request counters | parsing, rate limiting | history routes in `MatchHistory`; otherwise not modelled |
| Browser client `packages/frontend/src/App.tsx` | board, timers, screen, socket, dialogs, history in localStorage | local games, online games, history upload | `LocalGame`, `OnlineClient`, `MatchHistory` |
| Unused components `components/`, `store/` of the frontend | | imported by nothing | not modelled |
| Configuration, logging, metrics, scripts | none that matters | | not modelled |

How they interact: the client sends packets over a socket; a handler changes
the room it names, and calls the rules for moves.  When a board is full, the
backend names the winner to the contract and then writes a row.  Players stake
in and withdraw from the contract directly.  The contract trusts the backend's
signer for the result only, and lets players out without it after a deadline.

What is hard here:

* **Awaits.**  A handler is interrupted wherever it awaits, and what it read
  before may have changed: the game may have been replaced during a settlement,
  a socket may be gone when its join goes on, a move runs against a board that
  a reset has replaced.
* **Failures half way.**  The chain may have accepted a result whose
  confirmation timed out; the database may have committed a row whose
  acknowledgement was lost; every failure is retried by whoever looks next.
* **Seats.**  Two sockets of one player, disconnects with a reservation, its
  expiry, the sweep and newcomers compete for two seats.
* **Timers.**  In a local game the AI's moves, the end of a game and its entry in
  the history are timers of up to 2.5 seconds that outlive the game they were
  set for.
* **Messages and dialogs.**  Two browsers see a room through queues of messages.
  A dialog of `window.confirm` stops a page while messages pile up and timers fall
  due; the end of a game is shown 200 ms after the board that ends it.
* **Uploads.**  A history is uploaded entry by entry, may stop half way, may
  succeed without the browser hearing of it, and is then sent again.
* **Money.**  All stakes lie in one purse; deadlines, pauses, draws and repeated
  claims must never pay a wallet from another room's pot or trap a stake.

`PROJECT.json` lists the hazards with their lines.

## 2. The modules

**`SquarexoMatch`** models every function of the contract that changes state,
one action each, with its `require`s as guards.  `matchesByRoom`,
`rewardClaimed`, `paused` and `balance` are the contract's own state; `now` is
`block.timestamp`; `received` records what each wallet got out of each room so
that properties can speak of it.  A transfer is taken to succeed: every payee
is a plain wallet.

**`Escrow`** is what everybody else relies on: two users stake on a room, then one
of them, or nobody, is named the winner, once.  `SquarexoMatch` implements it
(`EscrowOf` is the refinement mapping, `ImplementsEscrow` the property), and
`GameServer` settles its games with an instance of it, so that the server is
checked against a contract that the real one is proved to be.

**`GameCore`** translates `createGame`, `applyMove`, `edgeKey` and
`chooseAIMove` for a board of any size: points, edges in canonical direction,
squares, the owner of each edge and box.  `applyMove` computes the score as a
difference of completed squares and the boxes as the squares not claimed
before; the model keeps the two computations apart.  The random choice of
`chooseAIMove` is a set of edges.  **`DotsAndBoxes`** plays games with it, by
humans and by the AI.  All this is about the TypeScript sources: the `.js` files
committed beside them are an older build (their `chooseAIMove` returns the first free
edge) and are not modelled.

**`BoardRules`** and **`BoardGame`** are the abstract rules the server needs: a
set of taken edges, whose turn it is, a score; a move closes 0, 1 or 2 squares,
the last edge closes the last squares, and the first line closes none
(`AfterLine`).  `DotsAndBoxes` is shown to implement `BoardGame`, so the server may
be checked with boards of two edges instead of twelve.  `GameServer` uses `After`,
without what is said of the first line: its properties hold without it, and a board
of two edges then has more games.

**`RoomManager`** has one operator per method of the class, mapping the manager
before to the manager after.  Room *objects* live in a heap, because a
suspended handler may hold an object that the map of rooms has dropped or
replaced.  The clock is one flag per reservation: it has expired.

**`GameServer`** has one action per packet, per event and per step of a handler
between two awaits:

| Code | Actions |
|---|---|
| JOIN_ROOM (264-354) | `JoinRoom` up to the await of createGame, `JoinResumes` after it; both end in `EnterRoom` |
| MAKE_MOVE (356-420), RESET_GAME (422-456) | `MakeMove`/`ResetGame` put the body on the room's `moveInProgress` chain; `StartOp` runs its checks, `FinishMove`/`FinishReset` what follows applyMove or createGame |
| SYNC_STATE (458-484) | `SyncState` |
| REMATCH_REQUEST, REMATCH_RESPONSE (519-606) | `RematchRequest`, `RematchAccept` and `RematchResumes`, `RematchDecline` |
| disconnect (608-629), sweep timer | `Disconnect`, `Sweep`; `Expire` and `Forget` let time pass |
| saveMatchIfFinished (123-220) | `TrySave` in the step that finds the board full, `SubmitResult` when the chain answers, `SaveResult` when the database does |

*The event loop.*  JavaScript runs a handler without interruption up to an
await.  Two kinds of await differ.  The chain, the database and the first
import of game-core are I/O: any event may come in between.  But once game-core
is loaded, awaiting it, and moving along a `moveInProgress` chain, resume as
microtasks before the next event of the loop; only packets of the same socket
that were read in one batch are dispatched before.  `Busy` names the sockets
with such a resumption due; `Receives` lets only their own batched packets in
(if the constant `Batched` allows it), and every other action waits for
`EventLoopIdle`.  A model that let everything interleave at those awaits would
report races the program cannot have.

*Failures* are a constant (`Faults`): the chain fails, a transaction is mined
but not confirmed, or mined later than its confirmation; the database fails, or
commits without an acknowledgement; the clock passes a reservation's deadline
between two reads in one JOIN_ROOM.  The escrow is an instance of `Escrow`.

**`ServerProperties`** states what the server promises; **`MC*`** modules give
the constants their small values; **`*_proofs`** modules hold the theorems (section 5).

Left out of `GameServer`: a join refused for rows or columns that differ from the
room's (`handler.ts:290-301`, a refusal like the one for another stake), `checkRateLimit` and `clientSequence`, CHAT_MESSAGE
(changes no state), the contents of emitted messages, metrics, and the mode
without a database.

**`OnlineClient`** puts two browsers in front of one room.  Each browser is a
record: screen, socket, its side, the board it shows, the countdown, the timer
before `endGame`, the modal, a pending rematch, and whether `window.confirm` is
open.  `up` and `down` are the messages on their way; the server's handlers are one
action each (`HandleMove`, `RefuseMove`, `HandleOther`), with what they emit to
whom.  `Receive` runs the listener of the next message.  An open dialog (`asked`)
disables every step of that page; a timer that falls due meanwhile (`due`) goes
before the messages that have piled up.  Browsers may leave (`GoHome`), lose the
connection (`Drop`: a part of what they sent arrives, nothing more comes in), or
never get one (`TokenRefused`, `DialFails`).  `gone`, `shown` and `agreed` are history.

| Code of `App.tsx` | Actions |
|---|---|
| createRoom, joinRoom, joinOnlineRoom (904-929, 1451-1531) | `Enter` up to the await of the connection, `Connect`, `TokenRefused` or `DialFails` after it |
| socket listeners (711-871) | `Receive` with one operator per message; `Drop`, `Reconnect` |
| startMatchCountdown, hydrateFromServerState, endGame | `CountdownEnds`, `Hydrate`, `EndGame` |
| onCanvasClick, playAgain, the dialog of rematch_prompt | `Click`, `PlayAgain`, `Answer` |
| showHistory, settings, goHome | `ShowHistory`, `ShowGame`, `GoHome` |

Left out: chat, toasts, the texts of a settlement in the modal, a board size of
the joiner that differs from the creator's, staking twice, and a second room
after the first.

**`MatchHistory`** is the table of matches and the two ways into it: `saveResult`
with the ratings (`SaveReads`, `SaveCommits`, `SaveFails`: one transaction, read
committed), and `connectWallet` with `syncWalletHistory`, query by query
(`SyncStep`; `syncs[n].step` says which query is next).  `local` is
`dbChainHistory` in localStorage, `shown` what the page lists, `tab` how far
`connectWallet` has come.  An entry that came from the server is not `complete`:
GET /api/history returns rows without `winnerPlayer`, `gameMode` and scores, and
such an entry is refused when it is uploaded.  Ratings are counted in quarters of
K = 32, and `Expected` knows only who is rated higher: a quarter, a half or three
quarters instead of the logistic curve; so a gain depends on both ratings, a draw
moves unequal ones, and the floor is kept.  `origin` (history) tells which game a
row or entry is about.  All requests may overlap; `SyncsApart`, `SavesApart` and
`PlaysApart` are the provisos under which the three properties hold (section 6 says
what happens otherwise), and `ApartSpec` is the specification that keeps them.

**`LocalGame`** is the browser's local game: the component keeps and scores its
own board (`checkBoxes`, `applyMove` of `App.tsx`), asks game-core only for the
AI's move, and lives on timers.  `aiTimer` and `chain` are the timers that
`aiTimeoutRef` and `chainTimeoutRef` still name; `strays` and `lost` are those
the refs have lost because a new timer overwrote them, so that `clearTimers`
cannot reach them; `ends` counts the timers of `endGame`, which are in no ref.
Timers fire in any order.  Not modelled: the 250 ms of `endGame` being overtaken
by a confirmed exit *and* a new game, the limit of 50 entries, and a change of
the board size during a game.

**`Accounts`** is the HTTP side of accounts: register, login, refresh, logout,
linking a wallet, and the account that a history sync makes for an unknown
wallet.  `database` tells which of the two stores is in use.  With a database,
each query is an action and the handler waits in a slot of `request` before the
next; without one, a handler is one action, since its awaits resume before the
next request.  `users` is the table or the map, `byName` and `byWallet` are the
maps beside it, `revoked` is what JwtTokenService keeps.  `Restart` loses what is in
memory.  `loggedOut`, `racedUsers` and `racedTokens` are history.  A name stands for
its lower-case form; tokens do not expire.

## 3. The runs

| Run | Question | Bounds |
|---|---|---|
| `escrow` | Are payouts exact, is the purse solvent, are the windows of competing calls disjoint, is every call a step of `Escrow`, and does every stake come out with a backend that never answers? | 2 rooms, 2 wallets, stakes 1 and 2 (and a refused 0), deadlines one tick away, time 0..3 |
| `rules` | Do score, boxes and turn agree, does every move refine `BoardGame`, does the AI play well? | 1x3 board: the smallest where one line closes two boxes while a third is open; human games and games against the AI |
| `server_seats` | Are seats, sockets and reservations consistent, is a seat only lost by leaving or by time, does a ghost socket come of one race only, do rooms that nobody is connected to go? | 2 rooms, 3 sockets (one player returns on a second one), cold start, batched packets, joins refused after the old room was left, rematches declined |
| `server_moves` | Are moves serialised, none lost, none applied twice? | 1 room, 3 sockets, 3 actions, two of them for one line (redelivered at will), resets, queue of 2, up to 3 games |
| `server_settle` | Is a row of a staked room written only when the escrow is resolved for the winner of the saved game, and does it name the one who was paid? Is a game saved once at a time, is one that is marked as saved stored or tried again, does every save let its room go on? | 1 staked room, 2 games, 2 saves at once, every failure of chain and database, forced draws |
| `accounts` | Do the indices of users agree, do wallets stay, is a token exchanged once, does a logout last? | 2 accounts, 2 names, 2 wallets, 3 tokens, 2 requests at once, 1 restart |
| `local` | Does the browser score as game-core does, does the AI always answer, has each game one entry with its winner? | 1x2 board, 2 games, 2 stray AI timers; the mode stays during a game |
| `online` | Do both browsers show the room's board and know their sides, is every result shown once, are rematches agreed, do games and rematches come to an end? | 2 browsers, 1 room, 2 edges and 1 square, 1 rematch, 1 browser that goes, 1 unhandled message per browser beside the answers |
| `history` | Is a game stored once, does no local game vanish, are the ratings those of the stored games? | 2 online results, 2 local games on 2 dates (one that new Date does not read), 2 uploads, 2 failures; no two requests about one thing at once (`ApartSpec`) |
| `server_double_save`, `server_wrong_result`, `server_never_stored` | The disagreements of section 6 | as small as shows them |

Why the bounds suffice: a room has two seats, so two players and one returning
socket give every contest for a seat; a third party adds only refused joins.
Two edges give a board that is open, half full and full; two games give a
"previous" and a "current" game, which is what stale handlers confuse; two saves
can overlap.  Two rooms matter only where rooms share something: the purse and
the sockets.  Two accounts contest a name or a wallet; a token that is exchanged
twice takes three tokens; two local games let a timer of the first reach the
second.  One square gives a browser each kind of board, empty, half full and full,
and one rematch gives every message a previous game to belong to; with two
squares the safety properties hold as well (some 1.7 million states), but the
liveness check takes too long for every day.  Two uploads are one and its
repetition; two failures let the repetition fail as well.  With `MaxGames`,
`MaxQueue`, `MaxUnsent`, `SaveIds` and `MaxRecords` a packet that would exceed the
bound is not sent.

Deadlock is checked for the contract, where time always ticks or stutters at
the bound, and for local games, which a player can always leave; the games of
the other runs really end (a full board, all sockets gone), and so do those of
`accounts`, `online` and `history` at their bounds, so it is off there.

### Fairness

*Local games.*  Timers fire; players owe nothing.

*Online games.*  Messages arrive, timers fire, dialogs are answered, and whoever's
turn it is plays sooner or later - again, when the move was refused: the strong
fairness of `HandleMove` says that `checkRateLimit` does not refuse every move of
a patient player, as it lets two pass in each second.  Nobody has to stake, to
stay, or to ask for a rematch.

*Escrow.*  Time passes, and a wallet with money to withdraw keeps calling.
Nothing is assumed of the backend or of the admin, who may pause for good:
withdrawals are the functions without `whenNotPaused`.

*Server.*  `FairSpec`: microtasks run (weak fairness of `Resumption`), the
first import completes, timers fire, and for each save chain and database answer, if
only with an error every time.  These are strong fairness assumptions because the
callbacks compete with packets for the event loop, which takes them in turn.  Nothing
is assumed of clients: the browser sends no SYNC_STATE, and joins a room again only
when its player does.  `RetryingSpec` is for `server_never_stored` alone, which refutes
a promise even in the best case: players stake, some client keeps asking for the
state, and neither chain nor database fails every time.  `server_settle` has no
batches of packets: one endless batch from one socket would starve the loop, which Node
rules out by reading finite chunks; `server_seats` has, but there only joins that start a
game are awaited, and `MaxGames` bounds them.

## 4. Properties

Each property has a comment in its module.  The ones to know:

* `ExactPayout`, `Solvent` (contract): a wallet has received nothing or exactly
  its share of each room, and the balance is exactly the sum of what is still owed.
* `ImplementsEscrow`: whatever wallets, backend and admin do, the contract takes a
  step of `Escrow` or none.
* `WindowsAreDisjoint`: joining and cancelling, a result and a forced draw are never
  open at one time, not even at a deadline; without a pause one of each pair is
  always open.  `LifeCycle`, `NoStakeIsTrapped`.
* `ScoreMatchesBoxes`, `ImplementsBoardGame`, `AIPlaysWell` (the AI's guess from one edge's neighbourhood against what
  `applyMove` itself says).
* `SeatsAreHeld`: a taken seat has a socket of its player or a reservation
  behind it.  The socket may be a ghost: the code refutes `NoGhostPlayers`, and
  `GhostsNeedRaces` says that it would hold but for joins that are overtaken while they
  await the first createGame.  `SeatIsKept`: nobody else's actions cost a
  player the seat; only its own time running out, leaving, or leaving and coming back
  in one packet (`Returns`).
* `MovesAreKept`, `AppliedAtMostOnce`: boards change by one legal move of the
  board the move was checked against; an action counts once.
* `RecordedAtMostOnce`: one save at a time and one row per game, refuted after a rematch;
  `DoubleSavesNeedRaces` says that this race is the only way.  `RowsAreSettled`:
  a staked room has one row, the escrow is resolved for the winner of the game that was
  saved, and the winner that the row names is the one who was paid, unless the score
  was read when the room had gone on (`RecordedAsPlayed`, refuted).
* `MovesFollowTheRules`: the browser's scoring and game-core's `applyMove` are two
  programs for one rule book.  `AIAnswers`: no timer of the AI is lost for good.
  `EntriesAreRight`: a game has one entry, with its winner, and with its score unless
  another game began before the entry was written, which the page allows.
* `IndicesAgree`, `WalletIsKept`, `ExchangedOnce`, `SessionEnds`: accounts and
  sessions, for clients whose own requests do not overlap, whatever the others do.
* `AbandonedRoomsGo`, `SavesEnd`: the liveness of rooms and
  saves, whatever fails.  What a comment promises beyond it, `FinishedGamesAreStored`, is
  refuted.
* `InStep`, `SideIsSeat`: a browser that has handled its messages shows the room's
  board, and never takes the other's side for its own.  `OneResultPerGame`: the
  result of a full board is shown once, however often the board is sent.
  `RematchIsAgreed`: the room starts over only when both have agreed to a rematch
  of just that game.  `GamesAreFinished`, `RematchIsSettled`: their liveness.
* `StoredOnce`, `NothingIsLost`: repeated uploads give one row per game and lose
  none, until one is refused or fails.  `RatingsAreReplayed`: ratings are what the
  rows of online games give when replayed, whatever failed in between.

Every property is broken by at least one mutant of the code's definitions (named
in the modules beside the definition, after "Mutant:"), so none of them holds
by the shape of the model alone.

## 5. Theorems

TLC checks small instances; the theorems hold for every value of the constants that
the named `...Assumption`s (and `BoardSize`, `FiniteConstants`, `ContractConstants`)
admit.  Every run evaluates those of its modules.  They say that stakes, limits and
bounds are numbers, that rooms, sockets and wallets are finitely many, and that
`None`, which stands for `null`, is not also a room, a user or an object.  A board has
at least one square.  Some theorems have a further hypothesis, named for the scenario
without which the property does not hold of this code; section 6 tells those stories.

| Module | Theorems |
|---|---|
| `SquarexoMatch_proofs` | `TypeCorrect`, `PaidExactly` (`ExactPayout`), `DisjointWindows`, `ConsistentRecord` (`LifeCycle`), `FinalOutcome`, `AlwaysSolvent` (`Solvent`), `EscrowImplemented` (`ImplementsEscrow`) |
| `GameCore_proofs` | lemmas on `applyMove` and `chooseAIMove` for boards of any size |
| `DotsAndBoxes_proofs` | `TypeCorrect`, `ScoresMatch` (`ScoreMatchesBoxes`), `BoardGameImplemented` (`ImplementsBoardGame`), `AIMovesWell` (`AIPlaysWell`) |
| `Server_proofs` | `ServerTypeOK` (`TypeOK`), `SeatsHeld` (`SeatsAreHeld`), `SeatsKept` (`TickFree => SeatIsKept`), `MovesKept` (`OneAtATime => MovesAreKept`), `AppliedOnce` (`Remembering => AppliedAtMostOnce`), `RowsSettled` (`RowsAreSettled`), `RecordedOnce` (`InTime` at every step, no `"db ack lost"`: `RecordedAtMostOnce`), `RacesExplainDoubles` (no `"db ack lost"`: `DoubleSavesNeedRaces`), `OneGameRecorded` (`OneGame`, no `"db ack lost"`: `RecordedAtMostOnce`) |
| `Accounts_proofs` | `TypeCorrect`, `IndicesLead` (`IndicesAgree`), `WalletKept` (`WalletIsKept`), `OneExchange` (`ExchangedOnce`), `SessionsEnd` (`SessionEnds`) |
| `LocalGame_proofs` | `TypeCorrect`, `MovesByTheRules` (`MovesFollowTheRules`), `HistoryRight` (`EntriesAreRight`) |
| `OnlineClient_proofs` | `ClientTypeOK` (`TypeOK`), `SidesAreSeats` (`SideIsSeat`), `BrowsersAreInStep` (`InStep`), `ResultsShownOnce` (`OneResultPerGame`), `RematchesAreAgreed` (`RematchIsAgreed`) |
| `MatchHistory_proofs` | `TypeCorrect`, `OneRowPerGame` (`SyncsApart`: `StoredOnce`), `NoGameIsLost` (`PlaysApart`: `NothingIsLost`), `RatingsReplay` (`SavesApart`: `RatingsAreReplayed`) |

### The contract

All rests on `Inv == TypeOK /\ \A r : RoomInv(r)`.  `RoomInv(r)` ties a room's status
to its pot, its stakers, its claims, what has been paid out of it and its deadlines.
`ExactPayout` alone is not inductive: that a claim pays the right sum needs to know
that the pot still holds two stakes, which depends on the status and on who has
claimed.  Every call changes one room, so each step lemma proves `RoomInv` for that
room and cites the frame lemma `OtherRooms` for the others.  The refinement names
the step of `Escrow` that each call maps to (`CreateStakes`, `JoinStakes`,
`CancelCancels`, `ResultResolves`); calls that pay leave `EscrowOf` alone.

`Solvent` compares the purse with a sum over all rooms and wallets.  The sum is a
recursive function over subsets, so that it exists is a theorem of its own
(`SumsExist`, by induction on the number of elements); `TotalChanges` then says that
a sum changes by what one summand changes by, and each call changes the debt to one
or two wallets of one room by what it moves into or out of the purse.

### The rules

`GameCore_proofs` starts from geometry: an edge belongs to no square but the one after
it and the one before it, and to one of these at least.  Hence a line closes at most
two squares, the last line of a board and no earlier one completes the last square,
the first line completes none (`FirstLineCloses`), and there are never more than twice as many open squares as free edges; these are
what `BoardGame` assumes of a board (`BoardAssumption`) and of a move.
`Counted` (the owners of boxes are the closed squares) and `AddsUp` (the scores
add up to them) are inductive together, although the code computes boxes and
score in two ways.  For the AI, `chooseAIMove` counts sides in the neighbourhood of
an edge; `CountsLacks` says that this count is what `applyMove` would find.

`LocalGame_proofs` uses the same lemmas for the browser's second implementation:
`BoardInv` ties what `checkBoxes` collects to the closed squares, `TimerInv` and
`HistoryInv` follow the end of a game from `endGame` to its entry.

### The server

`ServerInv` has four parts.  `SoundRoom`: a room object's seats, sockets and
reservations fit together (this is `SeatsAreHeld`, which needs no more than itself per
room, but needs the rest to know which room a handler touches).  `SoundMgr`: the map
of rooms, the heap of room objects and the index of sockets agree.  `SavesOK`: at
most one save holds up a chain of moves, and that chain waits in its phase "save".
`Indexed`: the manager's index and the handlers' `socketToRoom` agree.

The lemma `Steps` says once what a step may do to rooms, seats and boards
(`ServerStep`), whatever its action.  The later theorems argue from it:

* `SeatsKept` from `AllAbsent`: whoever has a reservation has no socket there.
* `MovesKept` from `RaceInv`: a chain that resumes after an await still has in hand
  the board that the room has (`BoardsKept`), and while a rematch waits for its new
  game every chain waits for a save.
* `AppliedOnce` from `NotedInv`: an action that was applied is in `dedupe`, and one that
  is about to be applied is not.
* `RowsSettled` from `StakesInv`: a staked save that waits for the database has an
  escrow that is resolved for the winner of the game it saves, it is the only
  such save of its room, and the room has no staked row yet.  This covers a chain
  that fails, is mined late or is mined without confirmation.  What the row will name
  as winner is `saves[i].winner`, read from the game `read` after the chain's answer;
  `ScoresInv` ties it to the score that was taken before the chain was asked when
  `read` is the saved game: a full board does not change.
* `RecordedOnce` from `Records`: a game is in one room object only (`GamesApart`), has
  one row or one save that is on its way to one (`RecordsApart`), and the room knows by
  `saved` that it has (`RecordsKnown`).  The one step that breaks this is the one
  `server_double_save` shows: a save that fails after its room has gone on to another
  game takes back the mark of that other game.  `InTime` excludes this step and
  nothing else; `RacesExplainDoubles` excludes it by a statement about states.  The other fault it cannot live with is a row that is stored and
  reported as failed, after which the server saves it again as it should.
* `OneGameRecorded` replaces `InTime` by a hypothesis on requests: where rooms get
  neither a reset nor an accepted rematch, no queue has a reset (`NoResets`) and a save
  in flight is of the game its room still has (`OneGameInv`), so `InTime` is true of
  every step.
* `ServerTypeOK` adds the bound on games to the types (`ServerTypes`).  `games <= MaxGames`
  is not inductive, as what starts a game is not what checked that it may:
  `GamesFit` counts the joins, the resets and the queued resets that will each start
  one.  A step that shortens a queue moves all resets behind the head one place
  forward, so no two of them had one place before (`PlacedBefore`).

What `leaveRoom` and the sweep do to several rooms is a fold over them; `FoldExists`
and `FoldStays` (induction on the number of rooms) give its value and carry an
invariant through it.

### Accounts and online games

`Accounts_proofs`: `TypeInv` adds to the types what a suspended request may rely on
when it resumes (`RequestsAreKnown`).  `IndicesAgree` is inductive with it.
`LinksAreAlone` says that two requests that are about to link a wallet to one user
belong to a user who raced, and `TokenInv` says the same of a token that is being exchanged.

`OnlineClient_proofs`: `KnowInv` says that what a browser believes - slot, number of
players, board - becomes what the server knows once the messages on their way
to it are applied in order.  This is `InStep` for a browser with no message waiting.
`OpenInv`, `JoinInv`, `FreshInv` and `StayInv` are about who is in the room, and hold for
browsers that drop, leave or never arrive.

`RoundInv` is inductive together with it, and gives the three other theorems.  None of
the three is inductive alone, as what a browser will do next depends on what it
has sent and on what is on its way to it.  The parts:

* `SeatsOK`, `AwayOK`: who is in the room; a browser that has not arrived has a page
  without a game, and the game has not gone past a first line meanwhile.
* `TellsOK`: all boards on their way are of this round, a full one is the last of them,
  and the start of a rematch comes before the boards of its round.
* `SentOK`: a request for a rematch is sent once, after the last move; an answer
  is of the game that is over, or left over from the game before, in which case its
  sender has not moved in this one (`Fresh`).
* `PageOK`: what timer, dialogs and the flags `pending` and `asked` may be, given the
  rounds of the page and of the room.
* `QuestionOK`: a question that is open is about a game that is over, and whoever asked
  wanted that.
* `ViewsOK`, `HistoryOK`: the bound on rounds, and a timer that is set is for a
  result not yet shown.

`OneResultPerGame` follows from `HistoryOK` in the one step that shows a result.  For
`RematchIsAgreed` an old answer must not be taken for an answer in the next game.  An
answer can be left over from an earlier game when the two requests of the players
crossed.  Its sender has then not moved yet, and the other has drawn at
most one line, which closes no square; so the board is not full, and no question can
be open until that answer is dropped.  This is why `BoardRules` has `AfterLine`:
on a board that one player could close alone, the property is false.

### Match history

`Told` is all that is told of local games: the complete entries in the browser, as they
would be uploaded, and what working requests still have to store.  `TableStep` says
what any step does to it and to the table: it tells nothing new, tells of the game
that has just ended, moves one entry from a request into a row, or adds the row of an
online game.  From this:

* `OneRowPerGame`: the search for a duplicate compares room, players and date, not games.
  `Alike` says that this is the same: whatever is told of one game is one and the same
  entry, and its row, if there is one, has the entry's key.  `InsertsNew` says that what
  is about to be inserted is still no duplicate; it needs that no other request works.
* `NoGameIsLost`: before `connectWallet` clears the local history, the request it has
  sent must have stored all of it (`MayClear`), and before it replaces the local history,
  all of it must be stored or on its way (`MayReplace`).  Overlapping requests do no harm.
* `RatingsReplay`: a save that has read the ratings works on current ones, and two such
  saves have no player in common (`RateInv`).  That `Replay` is a function at all, and
  that rows which are added later do not change its beginning, are proved by induction
  on the number of rows (`FollowsExists`, `ReplaysAgree`).

### Only model-checked

* All liveness properties: fairness and ENABLED are beyond the prover.
* `GhostsNeedRaces`, whose invariant would have to follow the handlers' `socketToRoom`
  and the manager's index through every join that is overtaken.

## 6. Where code and promises disagree

Found as runs that TLC refutes:

1. `server_wrong_result` - `saveMatchIfFinished` builds the row after the chain
   has answered, from `room.gameState` (`handler.ts:200`).  A rematch accepted
   meanwhile has replaced the game, and a won game is stored as a 0:0 draw.
2. `server_double_save` - `matchSaved` belongs to the room, not to the game: a
   failing save of the previous game clears it (`handler.ts:217`) while the new
   game's save is in flight, and the next join or sync saves that game again.

3. `server_never_stored` - a staked result that was mined but not confirmed in time is
   never stored: every retry reverts, because the match is already resolved
   (`blockchainService.ts:161`), against "This ensures eventual save"
   (`handler.ts:340`).  `SavesEnd` is the part that holds.
Noticed while modelling, without a run of their own.

Server and contract:

* A joined match that times out is resolved as a draw, not cancelled as the
  diagram of `README.md:208-219` has it.  A staked result is *not* stored when
  the chain fails, against `docs/blockchain.md:93`.
* A rematch forgets the action ids, so a packet that is delivered again after it
  counts for the new game, against `README.md:362` (therefore `server_moves` has no
  rematch, and `AppliedOnce` the hypothesis `Remembering`).
* A rematch that is accepted in the batch of a move, while `createGame` or `applyMove`
  is awaited, puts a new board under a handler that then writes the move's
  board over it (`OneAtATime` of `MovesKept` excludes just this).
* A player who returns in the very millisecond its reservation runs out, between
  the clock reads at `handler.ts:288` and `roomManager.ts:93`, is unseated by the next
  sweep although connected (therefore `server_seats` has no such fault, and
  `SeatsKept` the hypothesis `TickFree`).
* A socket that sends two JOIN_ROOMs while game-core is awaited ends up in both rooms,
  but indexed under one (`assignSocket`, `roomManager.ts:89-90`).  After it has left that one, its
  next JOIN_ROOM for the other takes it out of there (`removeSocketFromRoom`) and lets it in
  again, perhaps on the other seat.  The proof of `SeatsKept` found this; TLC shows it
  with three users and two rooms, hence the disjunct `Returns` of `SeatIsKept`.
* JOIN_ROOM leaves the old room, awaits createGame, and assigns the socket without
  looking again (`handler.ts:272-285`).  Two joins that overlap in the first import of
  game-core leave one socket in two rooms, against "No ghost players"
  (`docs/implementation-summary.md:197`); one that disconnects meanwhile is assigned when
  it is gone, and the sweep keeps every room that counts a socket
  (`roomManager.ts:259`), against "Automatic room cleanup after timeout" (line 180).
  TLC refutes `NoGhostPlayers`, and `AbandonedRoomsGo` without `Haunted`, under the
  constants of `server_seats`; what that run checks instead is that nothing else
  makes a ghost or keeps a room.
* X may play before O has come, and whoever joins later is stored as the loser
  (`handler.ts:396`); RESET_GAME by one player discards a finished game whose save
  has failed (`handler.ts:443`).

Accounts:

* A logout is forgotten by a restart: revoked tokens are in memory only, and
  nothing calls `TokenRevocationRepository`, against "Prevents token reuse across
  restarts" (`docs/implementation-summary.md:133`).
* With a database, two wallet links of one user, or two refreshes with one token,
  may both succeed when they overlap.  A history sync makes an account for a wallet
  that nobody has linked, and its owner can then never link it (`matchService.ts:92`).

Browser:

* Switching a local game from `pvp` to `ai` in O's turn leaves it stuck (with
  `SwitchesMode = TRUE`, TLC refutes `AIAnswers`).
* Play Again before a local game is in the history resets the scores that its entry
  reads 1.5 to 2.5 seconds later (`App.tsx:1231`), against "Match history displays
  correctly" (`docs/DEMO_SCRIPT.md:511`): without its proviso on later games, TLC refutes
  `EntriesAreRight`.
* When the connection breaks, socket.io connects again, but nothing sends
  JOIN_ROOM again (`App.tsx:711`): the board stands still until the seat expires.
* When a partner leaves, whoever stays gets a `room_info` without a slot
  (`handler.ts:622`) and may not move until a new one comes (`App.tsx:725`).
* The stake is locked before the socket connects (`App.tsx:925`); if that fails, the
  browser offers no second try with the same code.
* `match_settlement_failed` may arrive within the 200 ms before `endGame`, which
  overwrites its text with "writing the result" (`App.tsx:1203`).

History:

* GET /api/history returns rows of the table, without the `winnerPlayer`,
  `gameMode` and scores that `fromServerHistoryRecord` expects (`App.tsx:420`): every
  fetched game is shown as a draw.  Such entries are then in localStorage, and make
  every later upload fail its validation; local games that are played afterwards
  are overwritten by the next fetch (`App.tsx:1625`) and lost, against the sync that
  `docs/DEMO_SCRIPT.md:357-369` shows.
* Dates go through their vi-VN text (`App.tsx:415`): days and months are swapped, and
  with a day above 12 the upload throws before it is sent.
* With `HISTORY_SYNC_API_KEY` set, every upload is refused with 401: the browser
  sends no key.
* A local game that ends while the wallet is being connected may be removed with
  the entries that were uploaded (`App.tsx:456`; without `PlaysApart`, TLC refutes
  `NothingIsLost`).
* Two uploads that overlap may store a game twice, or fail because both make the
  same synthetic user; two results of one player that overlap lose a rating update
  (`matchService.ts:169`; without `SyncsApart` and `SavesApart`, TLC refutes `StoredOnce`
  and `RatingsAreReplayed`).

## 7. Not modelled

* The counters of the two rate limiters and `clientSequence`: they only ever refuse
  a packet or request, which `RefuseMove` has as a possibility for moves; chat.
* A change of the board size during a game: `LocalGame` has one size.
* The tokens that the browser keeps (`services/auth.ts`): it stores and forgets
  them, and never refreshes.
* The SQL repositories and the components under `components/` and `store/` of the
  frontend: nothing uses them.
* Rendering, request parsing, configuration, logging, metrics, deployment, and
  AccessControl's role administration: no state a property could be about.

## 8. Plan

Done: contract with its abstract specification, rules, room manager, socket server
with settlement, accounts, local and online games of the browser, match history
with ratings; proofs about all of them.

Every invariant and action property that a passing run checks has its theorem.  Left to
TLC is the liveness with `GhostsNeedRaces`, and the scenarios in which a hypothesis of a theorem fails (section 6).
