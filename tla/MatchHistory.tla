---------------------------- MODULE MatchHistory ---------------------------
(***************************************************************************)
(* The table of matches and the two ways into it: saveResult, for the games*)
(* the server has refereed, with the ratings; and the upload of the local  *)
(* history when a wallet is connected, after                               *)
(*   src/packages/backend/src/services/matchService.ts, eloService.ts,     *)
(*   src/packages/backend/src/routes/history.ts,                           *)
(*   src/packages/frontend/src/App.tsx (connectWallet and its history).    *)
(* Every await of a query, a request or a reply is a point where others run*)
(* and where it may fail.  There is a database, the wallet is linked to its*)
(* owner (see Accounts), and the history is shorter than the 20 rows that  *)
(* one fetch returns and the 50 entries a browser keeps.                   *)
(***************************************************************************)
EXTENDS Integers, FiniteSets, Sequences

CONSTANTS
    Owner,          \* the user of the browser
    Rivals,         \* users the owner plays online
    Saves,          \* online games that end, with their rooms
    Dates, NoDate,  \* dates of games; no valid date
    Read,           \* what new Date makes of the text of a date in vi-VN
    StartElo, FloorElo,
    KeyRequired,    \* HISTORY_SYNC_API_KEY is set (the browser sends none)
    MaxGames,       \* bound: local games
    MaxConnects,    \* bound: times the wallet is connected
    MaxFaults       \* bound: queries that fail, replies that do not arrive

ASSUME HistoryAssumption ==
    /\ Owner \notin Rivals /\ IsFiniteSet(Rivals)
    /\ NoDate \notin Dates /\ Read \in [Dates \union {NoDate} -> Dates \union {NoDate}]
    /\ Read[NoDate] = NoDate
    /\ FloorElo \in Nat /\ StartElo \in Nat /\ FloorElo <= StartElo
    /\ KeyRequired \in BOOLEAN
    /\ {MaxGames, MaxConnects, MaxFaults} \subseteq Nat

Players == Rivals \union {Owner}
Synthetic == {"bot", "opponent"}    \* squarexo_bot, squarexo_opponent
Winners == {"X", "O", "DRAW"}
Modes == {"pvp", "ai", "unknown"}

VARIABLES
    rows,       \* Match, in the order of insertion
    synthetic,  \* the synthetic users that exist
    elo,        \* User.elo
    syncs,      \* POST /sync requests the server works on
    saves,      \* saveResult of each online game
    local,      \* dbChainHistory in localStorage
    shown,      \* gameHistory
    tab,        \* how far connectWallet has come, and the request it awaits
    setback,    \* history: an upload was refused or has failed
    faults, connects, games         \* history: counters of what is bounded

server == <<rows, synthetic, elo, syncs, saves>>
browser == <<local, shown, tab>>
counters == <<setback, faults, connects, games>>
vars == <<server, browser, counters>>

(* The rooms of rows: an online room's code, or the id of a local entry,   *)
(* which is a time stamp or made of the digits of the row it came from.    *)
Rooms == {<<"online", s>> : s \in Saves} \union
         {<<"local", g>> : g \in 1..MaxGames} \union
         {<<"row", n>> : n \in 1..Len(rows)}

Origins == {<<"online", s>> : s \in Saves} \union {<<"local", g>> : g \in 1..MaxGames}

(* Entries of the history.  One that came from the server is not complete: *)
(* App.tsx expects winnerPlayer, gameMode, gridSize and scores, where GET  *)
(* /history sends winner, boardRows and no scores.  origin (history) is the*)
(* game an entry or a row tells of.                                        *)
Entries == [id : Rooms, date : Dates \union {NoDate}, mode : Modes, complete : BOOLEAN, origin : Origins]

(* Rows of Match, without winner and numbers                               *)
Rows == [room : Rooms, x : Players, o : Players \union Synthetic, ended : Dates \union {NoDate},
         origin : Origins]

NoSave == [step |-> "none", x |-> Owner, o |-> Owner, winner |-> "DRAW",
           elo |-> [p \in {"X", "O"} |-> 0]]

Init ==
    /\ rows = <<>>
    /\ synthetic = {}
    /\ elo = [p \in Players |-> StartElo]
    /\ syncs = <<>>
    /\ saves = [s \in Saves |-> NoSave]
    /\ local = <<>> /\ shown = <<>>
    /\ tab = [step |-> "off", call |-> 0]
    /\ setback = FALSE /\ faults = 0 /\ connects = 0 /\ games = 0

-----------------------------------------------------------------------------
(*                          Results of online games                        *)

AtLeast(floor, n) == IF n < floor THEN floor ELSE n

(* The expected score, in quarters of a game; the code's curve has the     *)
(* same symmetry and grows with the difference, up to 1.                   *)
Expected(mine, other) == IF mine = other THEN 2 ELSE IF mine > other THEN 3 ELSE 1

Score(p, winner) == IF winner = "DRAW" THEN 2 ELSE IF winner = p THEN 4 ELSE 0

(* Mutant: no floor.                                                       *)
CalculateEloUnfloored(x, o, winner) ==
    [X |-> x + Score("X", winner) - Expected(x, o),
     O |-> o + Score("O", winner) - Expected(o, x)]

(* calculateElo, with a K of 4                                             *)
CalculateElo(x, o, winner) ==
    [X |-> AtLeast(FloorElo, x + Score("X", winner) - Expected(x, o)),
     O |-> AtLeast(FloorElo, o + Score("O", winner) - Expected(o, x))]

(* saveResult: the transaction reads both players ...                      *)
SaveReads(s, x, o, winner) ==
    /\ saves[s].step = "none" /\ x # o
    /\ saves' = [saves EXCEPT ![s] =
            [step |-> "read", x |-> x, o |-> o, winner |-> winner,
             elo |-> [p \in {"X", "O"} |-> elo[IF p = "X" THEN x ELSE o]]]]
    /\ UNCHANGED <<rows, synthetic, elo, syncs, browser, counters>>

(* ... and writes both ratings and the row, or, when a query fails, none.  *)
(* Read committed: what others wrote in between does not matter to it.     *)
(* (When such a game ended does not matter here.)                          *)
SaveCommits(s) ==
    LET save == saves[s]
        next == CalculateElo(save.elo["X"], save.elo["O"], save.winner)
    IN  /\ save.step = "read"
        /\ elo' = [elo EXCEPT ![save.x] = next.X, ![save.o] = next.O]
        /\ rows' = Append(rows, [room |-> <<"online", s>>, x |-> save.x, o |-> save.o,
                                 ended |-> NoDate, origin |-> <<"online", s>>])
        /\ saves' = [saves EXCEPT ![s].step = "saved"]
        /\ UNCHANGED <<synthetic, syncs, browser, counters>>

(* Mutant: no transaction, X's rating has been written.                    *)
SaveFailsHalfway(s) ==
    /\ saves[s].step = "read" /\ faults < MaxFaults
    /\ saves' = [saves EXCEPT ![s] = [NoSave EXCEPT !.step = "failed"]]
    /\ elo' = [elo EXCEPT ![saves[s].x] =
            CalculateElo(saves[s].elo["X"], saves[s].elo["O"], saves[s].winner).X]
    /\ faults' = faults + 1
    /\ UNCHANGED <<rows, synthetic, syncs, browser, setback, connects, games>>

SaveFails(s) ==
    /\ saves[s].step = "read" /\ faults < MaxFaults
    /\ saves' = [saves EXCEPT ![s] = [NoSave EXCEPT !.step = "failed"]]
    /\ faults' = faults + 1
    /\ UNCHANGED <<rows, synthetic, elo, syncs, browser, setback, connects, games>>

-----------------------------------------------------------------------------
(*                        POST /sync, on the server                        *)

Working(call) == call.step \notin {"done", "failed"}

(* Where syncWalletHistory goes on: the two synthetic users, the entries   *)
Goes(n, step) == syncs' = [syncs EXCEPT ![n].step = step]
Stays == UNCHANGED <<rows, synthetic, setback>>
Fails(n) ==
    /\ syncs' = [syncs EXCEPT ![n] = [step |-> "failed", items |-> <<>>]]
    /\ setback' = TRUE
    /\ UNCHANGED <<rows, synthetic>>

(* ensureSyntheticOpponent: look for the user, and make it if there is none*)
(* (its name is unique).                                                   *)
FindSynthetic(n, label, found, missing) ==
    Goes(n, IF label \in synthetic THEN found ELSE missing) /\ Stays

MakeSynthetic(n, label, made) ==
    IF label \in synthetic THEN Fails(n)
    ELSE Goes(n, made) /\ synthetic' = synthetic \union {label}
         /\ UNCHANGED <<rows, setback>>

OpponentOf(entry) == IF entry.mode = "ai" THEN "bot" ELSE "opponent"

RowOf(entry) ==
    [room |-> entry.id, x |-> Owner, o |-> OpponentOf(entry), ended |-> entry.date,
     origin |-> entry.origin]

Key(row) == [room |-> row.room, x |-> row.x, o |-> row.o, ended |-> row.ended]

(* Mutant: the search leaves out the room.                                 *)
IsDuplicateInAnyRoom(entry) ==
    \E i \in 1..Len(rows) : Key(rows[i]) = [Key(RowOf(entry)) EXCEPT !.room = rows[i].room]

(* Mutant: local opponents are taken for the bot.                          *)
IsDuplicateOfBot(entry) ==
    \E i \in 1..Len(rows) : Key(rows[i]) = [Key(RowOf(entry)) EXCEPT !.o = "bot"]

IsDuplicate(entry) == \E i \in 1..Len(rows) : Key(rows[i]) = Key(RowOf(entry))

(* One turn of the loop: look for a duplicate, and if there is none, insert*)
FindDuplicate(n) ==
    LET items == syncs[n].items IN
    /\ Stays
    /\ syncs' = [syncs EXCEPT ![n] =
            IF items = <<>> THEN [@ EXCEPT !.step = "done"]
            ELSE IF IsDuplicate(Head(items)) THEN [@ EXCEPT !.items = Tail(items)]
            ELSE [@ EXCEPT !.step = "insert"]]

Insert(n) ==
    /\ rows' = Append(rows, RowOf(Head(syncs[n].items)))
    /\ syncs' = [syncs EXCEPT ![n].step = "find", ![n].items = Tail(@)]
    /\ UNCHANGED <<synthetic, setback>>

(* The next query of request n                                             *)
SyncStep(n) ==
    /\ \/ syncs[n].step = "bot" /\ FindSynthetic(n, "bot", "opponent", "makeBot")
       \/ syncs[n].step = "makeBot" /\ MakeSynthetic(n, "bot", "opponent")
       \/ syncs[n].step = "opponent" /\ FindSynthetic(n, "opponent", "find", "makeOpponent")
       \/ syncs[n].step = "makeOpponent" /\ MakeSynthetic(n, "opponent", "find")
       \/ syncs[n].step = "find" /\ FindDuplicate(n)
       \/ syncs[n].step = "insert" /\ Insert(n)
    /\ UNCHANGED <<elo, saves, browser, faults, connects, games>>

SyncFails(n) ==
    /\ Working(syncs[n]) /\ faults < MaxFaults
    /\ Fails(n)
    /\ faults' = faults + 1
    /\ UNCHANGED <<elo, saves, browser, connects, games>>

-----------------------------------------------------------------------------
(*                             In the browser                              *)

(* saveHistory, when a local game has ended                                *)
PlayLocally(date, mode) ==
    LET entry == [id |-> <<"local", games + 1>>, date |-> date, mode |-> mode,
                  complete |-> TRUE, origin |-> <<"local", games + 1>>]
    IN  /\ games < MaxGames
        /\ games' = games + 1
        /\ shown' = <<entry>> \o shown
        /\ local' = shown'
        /\ UNCHANGED <<server, tab, setback, faults, connects>>

(* toServerHistoryItem: the date goes through its text.                    *)
ToServer(entry) == [entry EXCEPT !.date = Read[@]]

Uploads == [i \in 1..Len(local) |-> ToServer(local[i])]

(* The request is not sent when an entry has no valid date, which throws,  *)
(* and is refused without its key or when an entry is not complete.        *)
Refused ==
    \/ KeyRequired
    \/ \E i \in 1..Len(local) : ~local[i].complete \/ Read[local[i].date] = NoDate

(* connectWallet, syncPendingHistoryToServer up to its await               *)
Connect ==
    /\ tab.step = "off" /\ connects < MaxConnects
    /\ connects' = connects + 1
    /\ setback' = (setback \/ (local # <<>> /\ Refused))
    /\ IF local = <<>> \/ Refused
       THEN tab' = [step |-> "fetching", call |-> 0] /\ UNCHANGED syncs
       ELSE /\ syncs' = Append(syncs, [step |-> "bot", items |-> Uploads])
            /\ tab' = [step |-> "posted", call |-> Len(syncs')]
    /\ UNCHANGED <<rows, synthetic, elo, saves, local, shown, faults, games>>

(* Its rest: the pending entries are removed when the server has them.     *)
SyncReplied ==
    /\ tab.step = "posted" /\ ~Working(syncs[tab.call])
    /\ local' = IF syncs[tab.call].step = "done" THEN <<>> ELSE local
    /\ tab' = [step |-> "fetching", call |-> 0]
    /\ UNCHANGED <<server, shown, counters>>

(* No reply comes; the server may work on.  connectWallet logs it.         *)
SyncReplyLost ==
    /\ tab.step = "posted" /\ faults < MaxFaults
    /\ faults' = faults + 1
    /\ tab' = [step |-> "fetching", call |-> 0]
    /\ UNCHANGED <<server, local, shown, setback, connects, games>>

(* fromServerHistoryRecord.  (Without winnerPlayer, every game is a draw.) *)
FromServer(n) ==
    [id |-> <<"row", n>>, date |-> rows[n].ended, mode |-> "unknown", complete |-> FALSE,
     origin |-> rows[n].origin]

(* getWalletHistory.  (It sorts by date; no step depends on the order.)    *)
OwnersRows == {n \in 1..Len(rows) : Owner \in {rows[n].x, rows[n].o}}
Newest(i) == CHOOSE n \in OwnersRows : Cardinality({m \in OwnersRows : m >= n}) = i

(* fetchHistoryFromServer and what connectWallet makes of it: what comes   *)
(* from the server replaces what the browser has, unless it is nothing.    *)
Fetched ==
    LET remote == [i \in 1..Cardinality(OwnersRows) |-> FromServer(Newest(i))]
    IN  /\ tab.step = "fetching"
        /\ shown' = IF remote = <<>> THEN shown ELSE remote
        /\ local' = IF remote = <<>> THEN local ELSE remote
        /\ tab' = [step |-> "connected", call |-> 0]
        /\ UNCHANGED <<server, counters>>

FetchFails ==
    /\ tab.step = "fetching" /\ faults < MaxFaults
    /\ faults' = faults + 1
    /\ tab' = [step |-> "connected", call |-> 0]
    /\ UNCHANGED <<server, local, shown, setback, connects, games>>

(* The page is loaded again, at any time.                                  *)
Reload ==
    /\ tab.step # "off"
    /\ tab' = [step |-> "off", call |-> 0]
    /\ shown' = local
    /\ UNCHANGED <<server, local, counters>>

Next ==
    \/ \E s \in Saves : \E x, o \in Players, w \in Winners : SaveReads(s, x, o, w)
    \/ \E s \in Saves : SaveCommits(s) \/ SaveFails(s)
    \/ \E n \in 1..Len(syncs) : SyncStep(n) \/ SyncFails(n)
    \/ \E d \in Dates, m \in {"pvp", "ai"} : PlayLocally(d, m)
    \/ Connect \/ SyncReplied \/ SyncReplyLost \/ Fetched \/ FetchFails \/ Reload

Spec == Init /\ [][Next]_vars

(***************************************************************************)
(* What the code lets overlap, and what a property may ask to stay apart:  *)
(* uploads, transactions about a common player, and a local game that ends *)
(* while the wallet is being connected.                                    *)
(***************************************************************************)
SyncsApart ==
    Len(syncs') > Len(syncs) => \A n \in 1..Len(syncs) : ~Working(syncs[n])

Concerns(save, p) == save.step = "read" /\ p \in {save.x, save.o}

SavesApart ==
    \A s \in Saves : saves[s].step = "none" /\ saves'[s].step = "read" =>
        \A t \in Saves, p \in {saves'[s].x, saves'[s].o} : ~Concerns(saves[t], p)

PlaysApart == games' > games => tab.step \in {"off", "connected"}

ApartSpec == Init /\ [][Next /\ SyncsApart /\ SavesApart /\ PlaysApart]_vars

-----------------------------------------------------------------------------
(* Every variable keeps its type, and no rating falls under the floor.     *)
TypeOK ==
    /\ rows \in Seq(Rows) /\ synthetic \subseteq Synthetic
    /\ elo \in [Players -> Nat] /\ \A p \in Players : elo[p] >= FloorElo
    /\ local \in Seq(Entries) /\ shown \in Seq(Entries)
    /\ tab.step \in {"off", "posted", "fetching", "connected"}
    /\ tab.step = "posted" => tab.call \in 1..Len(syncs)

(* However often an upload is repeated because its reply was lost or it    *)
(* failed half-way, a game has one row (matchService.ts: the search for a  *)
(* duplicate), if uploads stay apart (SyncsApart).                         *)
StoredOnce ==
    \A i, j \in 1..Len(rows) : rows[i].origin = rows[j].origin => i = j

(* Until an upload is refused or fails, every local game is in the browser,*)
(* on its way or in the table, although connectWallet removes what was     *)
(* uploaded and replaces the rest by what the server returns, if none ends *)
(* while the wallet is being connected (PlaysApart).                       *)
NothingIsLost ==
    setback \/ \A g \in 1..games :
        LET Tells(entry) == entry.origin = <<"local", g>> IN
        \/ \E i \in 1..Len(local) : Tells(local[i])
        \/ \E i \in 1..Len(rows) : Tells(rows[i])
        \/ \E n \in 1..Len(syncs) : Working(syncs[n])
              /\ \E i \in 1..Len(syncs[n].items) : Tells(syncs[n].items[i])

(* The ratings after the first n rows, one game after the other            *)
Replay[n \in 0..Len(rows)] ==
    IF n = 0 THEN [p \in Players |-> StartElo]
    ELSE LET before == Replay[n - 1]
             row == rows[n]
             next == CalculateElo(before[row.x], before[row.o], saves[row.room[2]].winner)
         IN  IF row.room[1] # "online" THEN before
             ELSE [before EXCEPT ![row.x] = next.X, ![row.o] = next.O]

(* The ratings are those that the stored online games give in their order, *)
(* each counted once and against the ratings of its day, and no local game *)
(* moves them, if transactions about a common player stay apart            *)
(* (SavesApart).                                                           *)
RatingsAreReplayed == elo = Replay[Len(rows)]
=============================================================================
