------------------------------ MODULE Accounts ------------------------------
(***************************************************************************)
(* Accounts and sessions of the backend, after services/userService.ts,    *)
(* store/userStore.ts, services/authService.ts and routes/auth.ts in       *)
(* src/packages/backend/src.  Users live in memory or in a database.  With *)
(* a database a handler waits between its queries and other requests come  *)
(* in between; without one nothing comes between its first look at the     *)
(* users and its answer.  Refresh tokens are valid by their signature;     *)
(* what has been revoked is in memory in either case.                      *)
(*                                                                         *)
(* A name stands for its lower-case form, by which names are compared; only*)
(* the table's unique column tells two spellings apart.  E-mail addresses  *)
(* are left out: they behave like names.                                   *)
(***************************************************************************)
EXTENDS Naturals, Sequences, FiniteSets

CONSTANTS
    Names, Wallets,
    Slots,          \* bound: requests in progress
    MaxUsers,       \* bound: accounts
    MaxTokens,      \* bound: refresh tokens
    MaxRestarts,    \* bound: restarts of the backend
    Databases       \* which of TRUE and FALSE: with a database, without

None == "none"

ASSUME AccountsAssumption ==
    /\ MaxUsers \in Nat /\ MaxTokens \in Nat /\ MaxRestarts \in Nat
    /\ Databases \subseteq BOOLEAN
    /\ None \notin Wallets

NoUser == 0
Synthetic == "wallet_..."   \* the name of an account that a history sync makes

Users == 1..MaxUsers
Account == [name: Names \union {Synthetic}, wallet: Wallets \union {None}]

VARIABLES
    database,       \* getPrismaClient() is there
    users,          \* the users, a sequence: ids are never used again
    gone,           \* ids lost with the memory
    byName,         \* usersByUsername
    byWallet,       \* usersByWallet
    tokens,         \* the refresh tokens signed: for whom, in exchange for which
    revoked,        \* revokedRefreshTokenIds
    request,        \* the handlers that wait for the database
    restarts,
    loggedOut,      \* history: tokens that were used to log out
    racedUsers,     \* history: users who linked wallets by two requests at once
    racedTokens     \* history: tokens in two requests at once, or whose
                    \* revocation a restart has forgotten

directory == <<users, gone, byName, byWallet>>
sessions == <<tokens, revoked, loggedOut>>
raced == <<racedUsers, racedTokens>>
vars == <<database, users, gone, byName, byWallet, tokens, revoked, request,
          restarts, loggedOut, racedUsers, racedTokens>>

Idle == [op |-> "idle"]
Present == DOMAIN users \ gone
Wait(s, r) == request[s] = Idle /\ request' = [request EXCEPT ![s] = r]
Answered(s) == request' = [request EXCEPT ![s] = Idle]

-----------------------------------------------------------------------------
(* UserStore                                                               *)

StoreHas(n, w) == byName[n] # NoUser \/ (w # None /\ byWallet[w] # NoUser)

StoreCreate(n, w) ==
    LET id == Len(users) + 1 IN
    /\ users' = Append(users, [name |-> n, wallet |-> w])
    /\ byName' = [byName EXCEPT ![n] = id]
    /\ byWallet' = IF w = None THEN byWallet ELSE [byWallet EXCEPT ![w] = id]

(* Mutant: the index of wallets is forgotten.                              *)
StoreUpdateUnindexed(u, w) ==
    /\ w # users[u].wallet => byWallet[w] \in {NoUser, u}
    /\ users' = [users EXCEPT ![u].wallet = w]
    /\ UNCHANGED byWallet

(* updateUser with the wallet changed to w                                 *)
StoreUpdate(u, w) ==
    LET old == users[u].wallet IN
    /\ w # old => byWallet[w] \in {NoUser, u}
    /\ users' = [users EXCEPT ![u].wallet = w]
    /\ byWallet' = [x \in Wallets |->
                      IF x = w THEN u ELSE IF x = old THEN NoUser ELSE byWallet[x]]

(* The user table of prisma/schema.prisma: the unique column walletAddress *)
WalletIsFree(w, u) == w = None \/ \A v \in DOMAIN users \ {u} : users[v].wallet # w

(* JwtTokenService                                                         *)

(* Mutant: the signature is enough.                                        *)
MayRefreshSigned(t) == t \in DOMAIN tokens

(* verifyRefreshToken                                                      *)
MayRefresh(t) == t \in DOMAIN tokens /\ t \notin revoked

(* Mutant: the exchanged token stays good.                                 *)
SignUnrotated(u, t) ==
    /\ tokens' = Append(tokens, [user |-> u, from |-> t])
    /\ UNCHANGED revoked

SignRefreshToken(u, t) ==
    /\ tokens' = Append(tokens, [user |-> u, from |-> t])
    /\ revoked' = revoked \union ({t} \ {0})

-----------------------------------------------------------------------------
Duplicate(account, n, w) ==
    \/ account.name = n
    \/ w # None /\ account.wallet = w

(* POST /register: assertNoDuplicateIdentity, then prisma.user.create; in  *)
(* memory both in one go.                                                  *)
Register(n, w) ==
    /\ ~database /\ Len(users) < MaxUsers /\ Len(tokens) < MaxTokens
    /\ ~StoreHas(n, w)
    /\ StoreCreate(n, w)
    /\ SignRefreshToken(Len(users) + 1, 0)
    /\ UNCHANGED <<database, gone, request, restarts, loggedOut, raced>>

RegisterChecks(s, n, w) ==
    /\ database
    /\ ~\E u \in Present : Duplicate(users[u], n, w)
    /\ Wait(s, [op |-> "register", name |-> n, wallet |-> w])
    /\ UNCHANGED <<database, directory, sessions, restarts, raced>>

RegisterCreates(s) ==
    LET r == request[s] IN
    /\ r.op = "register" /\ Answered(s)
    /\ Len(users) < MaxUsers /\ Len(tokens) < MaxTokens
    /\ \/ /\ WalletIsFree(r.wallet, 0)
          /\ users' = Append(users, [name |-> r.name, wallet |-> r.wallet])
          /\ SignRefreshToken(Len(users) + 1, 0)
       \/ /\ ~WalletIsFree(r.wallet, 0) \/ \E u \in Present : users[u].name = r.name
          /\ UNCHANGED <<users, tokens, revoked>>
    /\ UNCHANGED <<database, gone, byName, byWallet, restarts, loggedOut, raced>>

(* POST /login with the right password                                     *)
Login(u) ==
    /\ Len(tokens) < MaxTokens
    /\ u \in Present /\ users[u].name # Synthetic
    /\ SignRefreshToken(u, 0)
    /\ UNCHANGED <<database, directory, request, restarts, loggedOut, raced>>

(* POST /refresh                                                           *)
Refreshing(t) == \E s \in Slots : request[s].op = "refresh" /\ request[s].token = t

Refresh(t) ==
    /\ ~database /\ Len(tokens) < MaxTokens
    /\ MayRefresh(t) /\ tokens[t].user \in Present
    /\ SignRefreshToken(tokens[t].user, t)
    /\ UNCHANGED <<database, directory, request, restarts, loggedOut, raced>>

RefreshVerifies(s, t) ==
    /\ database /\ MayRefresh(t)
    /\ Wait(s, [op |-> "refresh", token |-> t])
    /\ racedTokens' = racedTokens \union IF Refreshing(t) THEN {t} ELSE {}
    /\ UNCHANGED <<database, directory, sessions, restarts, racedUsers>>

RefreshSigns(s) ==
    /\ request[s].op = "refresh" /\ Answered(s)
    /\ Len(tokens) < MaxTokens
    /\ SignRefreshToken(tokens[request[s].token].user, request[s].token)
    /\ UNCHANGED <<database, directory, restarts, loggedOut, raced>>

(* POST /logout: revokeRefreshToken                                        *)
Logout(t) ==
    /\ t \in DOMAIN tokens
    /\ revoked' = revoked \union {t}
    /\ loggedOut' = loggedOut \union {t}
    /\ racedTokens' = racedTokens \union IF Refreshing(t) THEN {t} ELSE {}
    /\ UNCHANGED <<database, directory, tokens, request, restarts, racedUsers>>

-----------------------------------------------------------------------------
(* Mutant: an account may change its wallet.                               *)
AnyWallet(u, w) == TRUE

(* An account keeps the wallet it has.                                     *)
MayLink(u, w) == users[u].wallet \in {None, w}

(* PUT /wallet, by a user with an access token: linkWallet                 *)
LinkWallet(u, w) ==
    /\ ~database /\ u \in Present
    /\ byWallet[w] \in {NoUser, u}
    /\ MayLink(u, w)
    /\ StoreUpdate(u, w)
    /\ UNCHANGED <<database, gone, byName, sessions, request, restarts, raced>>

Linking(u) ==
    \E s \in Slots : request[s].op \in {"find", "link"} /\ request[s].user = u

LinkFindsOwner(s, u, w) ==
    /\ database /\ u \in Present /\ users[u].name # Synthetic
    /\ \A v \in Present \ {u} : users[v].wallet # w
    /\ Wait(s, [op |-> "find", user |-> u, wallet |-> w])
    /\ racedUsers' = racedUsers \union IF Linking(u) THEN {u} ELSE {}
    /\ UNCHANGED <<database, directory, sessions, restarts, racedTokens>>

LinkFindsUser(s) ==
    LET r == request[s] IN
    /\ r.op = "find"
    /\ request' = [request EXCEPT ![s] =
                     IF MayLink(r.user, r.wallet) THEN [r EXCEPT !.op = "link"] ELSE Idle]
    /\ UNCHANGED <<database, directory, sessions, restarts, raced>>

LinkUpdates(s) ==
    LET r == request[s] IN
    /\ r.op = "link" /\ Answered(s)
    /\ users' = IF WalletIsFree(r.wallet, r.user)
                THEN [users EXCEPT ![r.user].wallet = r.wallet] ELSE users
    /\ UNCHANGED <<database, gone, byName, byWallet, sessions, restarts, raced>>

(* POST /api/history/sync: ensureUserByWallet makes an account for a wallet*)
(* nobody has linked.                                                      *)
SyncFinds(s, w) ==
    /\ database
    /\ \A u \in Present : users[u].wallet # w
    /\ Wait(s, [op |-> "sync", wallet |-> w])
    /\ UNCHANGED <<database, directory, sessions, restarts, raced>>

SyncCreates(s) ==
    LET w == request[s].wallet IN
    /\ request[s].op = "sync" /\ Answered(s)
    /\ Len(users) < MaxUsers
    /\ users' = IF WalletIsFree(w, 0)
                THEN Append(users, [name |-> Synthetic, wallet |-> w]) ELSE users
    /\ UNCHANGED <<database, gone, byName, byWallet, sessions, restarts, raced>>

-----------------------------------------------------------------------------
NoNames == [n \in Names |-> NoUser]
NoWallets == [w \in Wallets |-> NoUser]

(* Mutant: the users go, the indices stay.                                 *)
RestartIndexed ==
    /\ restarts < MaxRestarts
    /\ restarts' = restarts + 1
    /\ request' = [s \in Slots |-> Idle]
    /\ revoked' = {}
    /\ gone' = IF database THEN gone ELSE DOMAIN users
    /\ racedTokens' = racedTokens \union IF database THEN revoked ELSE {}
    /\ UNCHANGED <<database, users, byName, byWallet, tokens, loggedOut, racedUsers>>

(* The backend starts again: what was in memory is gone.                   *)
Restart ==
    /\ restarts < MaxRestarts
    /\ restarts' = restarts + 1
    /\ request' = [s \in Slots |-> Idle]
    /\ revoked' = {}
    /\ gone' = IF database THEN gone ELSE DOMAIN users
    /\ byName' = NoNames /\ byWallet' = NoWallets
    /\ racedTokens' = racedTokens \union IF database THEN revoked ELSE {}
    /\ UNCHANGED <<database, users, tokens, loggedOut, racedUsers>>

Init ==
    /\ database \in Databases
    /\ users = <<>> /\ gone = {}
    /\ byName = NoNames /\ byWallet = NoWallets
    /\ tokens = <<>> /\ revoked = {} /\ loggedOut = {}
    /\ request = [s \in Slots |-> Idle]
    /\ restarts = 0
    /\ racedUsers = {} /\ racedTokens = {}

InMemory ==
    \/ \E n \in Names, w \in Wallets \union {None} : Register(n, w)
    \/ \E t \in DOMAIN tokens : Refresh(t)
    \/ \E u \in Present, w \in Wallets : LinkWallet(u, w)

WithDatabase(s) ==
    \/ \E n \in Names, w \in Wallets \union {None} : RegisterChecks(s, n, w)
    \/ RegisterCreates(s)
    \/ \E t \in DOMAIN tokens : RefreshVerifies(s, t)
    \/ RefreshSigns(s)
    \/ \E u \in Present, w \in Wallets : LinkFindsOwner(s, u, w)
    \/ LinkFindsUser(s) \/ LinkUpdates(s)
    \/ \E w \in Wallets : SyncFinds(s, w)
    \/ SyncCreates(s)

Next ==
    \/ InMemory
    \/ \E s \in Slots : WithDatabase(s)
    \/ \E u \in Present : Login(u)
    \/ \E t \in DOMAIN tokens : Logout(t)
    \/ Restart

Spec == Init /\ [][Next]_vars

-----------------------------------------------------------------------------
Request == {Idle}
    \union [op: {"register"}, name: Names, wallet: Wallets \union {None}]
    \union [op: {"refresh"}, token: 1..MaxTokens]
    \union [op: {"find", "link"}, user: Users, wallet: Wallets]
    \union [op: {"sync"}, wallet: Wallets]

TypeOK ==
    /\ database \in BOOLEAN
    /\ users \in Seq(Account) /\ Len(users) <= MaxUsers
    /\ gone \subseteq DOMAIN users
    /\ byName \in [Names -> Present \union {NoUser}]
    /\ byWallet \in [Wallets -> Present \union {NoUser}]
    /\ tokens \in Seq([user: DOMAIN users, from: 0..MaxTokens])
    /\ \A t \in DOMAIN tokens : tokens[t].from < t
    /\ revoked \subseteq DOMAIN tokens /\ loggedOut \subseteq DOMAIN tokens
    /\ request \in [Slots -> Request]
    /\ restarts \in 0..MaxRestarts
    /\ racedUsers \subseteq DOMAIN users /\ racedTokens \subseteq DOMAIN tokens

(***************************************************************************)
(* The indices of the store in memory lead to the users they belong to, and*)
(* to all of them, however accounts and wallets came and went: a stale     *)
(* entry would keep a name or a wallet taken for ever, a missing one would *)
(* let it be taken twice.                                                  *)
(***************************************************************************)
IndicesAgree ==
    ~database =>
        /\ \A n \in Names, u \in Users :
              byName[n] = u <=> u \in Present /\ users[u].name = n
        /\ \A w \in Wallets, u \in Users :
              byWallet[w] = u <=> u \in Present /\ users[u].wallet = w

(***************************************************************************)
(* "This account is already linked to another wallet" (userService.ts:294):*)
(* an account keeps the wallet it has linked, whatever other users, history*)
(* syncs and restarts do meanwhile - unless its user links two wallets by  *)
(* requests that overlap, which with a database may both find none linked. *)
(***************************************************************************)
WalletIsKept ==
    [][\A u \in DOMAIN users \ racedUsers :
         users[u].wallet # None => users'[u].wallet = users[u].wallet]_vars

(***************************************************************************)
(* "Old refresh token becomes invalid" (docs/final-verification-           *)
(* checklist.md:65): a token is exchanged at most once.  Without a database*)
(* that survives restarts, since the user is gone with what was revoked;   *)
(* with one, it holds of requests that do not overlap, between restarts.   *)
(***************************************************************************)
ExchangedOnce ==
    \A i, j \in DOMAIN tokens :
        /\ tokens[i].from = tokens[j].from
        /\ tokens[i].from \notin racedTokens \union {0}
        => i = j

(***************************************************************************)
(* POST /logout ends the session: nothing is signed in exchange for a token*)
(* that was used to log out.  With a database, not while a refresh with it *)
(* is in progress nor after a restart.                                     *)
(***************************************************************************)
Exchanges(t) == \E i \in DOMAIN tokens' \ DOMAIN tokens : tokens'[i].from = t

SessionEnds == [][\A t \in loggedOut \ racedTokens : ~Exchanges(t)]_vars
=============================================================================
