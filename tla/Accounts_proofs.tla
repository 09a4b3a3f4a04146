-------------------------- MODULE Accounts_proofs --------------------------
(***************************************************************************)
(* What the accounts and sessions of the backend guarantee for every number*)
(* of users, tokens, overlapping requests and restarts, in memory and with *)
(* a database.  Three invariants, each inductive together with TypeInv:    *)
(* IndicesAgree; LinksAreAlone, for WalletIsKept; and TokenInv, for        *)
(* ExchangedOnce and SessionEnds.                                          *)
(***************************************************************************)
EXTENDS Accounts, SequenceTheorems, TLAPS

-----------------------------------------------------------------------------
(* TypeOK                                                                  *)

(* What a waiting request names is there and stays there; without a        *)
(* database nobody waits.                                                  *)
RequestsAreKnown ==
    /\ Len(tokens) <= MaxTokens
    /\ \A s \in Slots :
          /\ ~database => request[s] = Idle
          /\ request[s].op = "refresh" => request[s].token \in DOMAIN tokens
          /\ request[s].op \in {"find", "link"} => request[s].user \in DOMAIN users

TypeInv == TypeOK /\ RequestsAreKnown

(* A request is one of these records.                                      *)
LEMMA RequestForms ==
    ASSUME NEW r \in Request
    PROVE  /\ r.op \in {"idle", "register", "refresh", "find", "link", "sync"}
           /\ r.op = "idle" => r = Idle
           /\ r.op = "register" => r.name \in Names /\ r.wallet \in Wallets \union {None}
           /\ r.op = "refresh" => r.token \in 1..MaxTokens
           /\ r.op \in {"find", "link"} => r.user \in Users /\ r.wallet \in Wallets
           /\ r.op = "sync" => r.wallet \in Wallets
    BY DEF Request, Idle

(* The user that signs up, and the token it gets.                          *)
LEMMA AppendUser ==
    ASSUME TypeOK, NEW a \in Account, Len(users) < MaxUsers,
           users' = Append(users, a)
    PROVE  /\ users' \in Seq(Account) /\ Len(users') <= MaxUsers
           /\ DOMAIN users' = DOMAIN users \union {Len(users) + 1}
           /\ Len(users) + 1 \notin DOMAIN users
           /\ users'[Len(users) + 1] = a
           /\ \A u \in DOMAIN users : users'[u] = users[u]
    BY AccountsAssumption DEF TypeOK, AccountsAssumption

Signed(domain) == [user: domain, from: 0..MaxTokens]

(* The tokens stay typed when users come.                                  *)
LEMMA TokensStayTyped ==
    ASSUME TypeOK, NEW D, DOMAIN users \subseteq D
    PROVE  tokens \in Seq(Signed(D))
<1>1. Signed(DOMAIN users) \subseteq Signed(D)
    BY DEF Signed
<1>2. tokens \in Seq(Signed(DOMAIN users))
    BY DEF TypeOK, Signed
<1>3. QED
    BY <1>1, <1>2, SeqMonotonic

(* The user of a token is known.                                           *)
LEMMA TokenOwner ==
    ASSUME TypeOK, NEW t \in DOMAIN tokens
    PROVE  tokens[t].user \in DOMAIN users /\ tokens[t].from \in 0..MaxTokens
<1>1. tokens \in Seq(Signed(DOMAIN users))
    BY DEF TypeOK, Signed
<1>2. tokens[t] \in Signed(DOMAIN users)
    BY <1>1
<1>3. QED
    BY <1>2 DEF Signed

(* What signing a token does to the tokens and to what is revoked.         *)
LEMMA AppendToken ==
    ASSUME TypeInv, Len(tokens) < MaxTokens,
           NEW u \in Nat, NEW t \in DOMAIN tokens \union {0},
           SignRefreshToken(u, t),
           DOMAIN users \subseteq DOMAIN users', u \in DOMAIN users'
    PROVE  /\ tokens' \in Seq([user: DOMAIN users', from: 0..MaxTokens])
           /\ Len(tokens') <= MaxTokens
           /\ DOMAIN tokens' = DOMAIN tokens \union {Len(tokens) + 1}
           /\ Len(tokens) + 1 \notin DOMAIN tokens
           /\ tokens'[Len(tokens) + 1] = [user |-> u, from |-> t]
           /\ \A i \in DOMAIN tokens : tokens'[i] = tokens[i]
           /\ \A i \in DOMAIN tokens' : tokens'[i].from < i
           /\ revoked' = revoked \union ({t} \ {0}) /\ revoked' \subseteq DOMAIN tokens'
<1> DEFINE T == [user: DOMAIN users', from: 0..MaxTokens]
           new == [user |-> u, from |-> t]
<1>2. tokens \in Seq(T)
    BY TokensStayTyped DEF TypeInv, Signed
<1>3. Len(tokens) \in Nat /\ Len(tokens) < MaxTokens /\ DOMAIN tokens = 1..Len(tokens)
    BY DEF TypeInv, TypeOK
<1>4. new \in T
    BY <1>3, AccountsAssumption DEF AccountsAssumption
<1>5. tokens' = Append(tokens, new) /\ revoked' = revoked \union ({t} \ {0})
    BY DEF SignRefreshToken
<1> HIDE DEF T
<1>6. /\ tokens' \in Seq(T) /\ Len(tokens') = Len(tokens) + 1
      /\ \A i \in 1..Len(tokens) : tokens'[i] = tokens[i]
      /\ tokens'[Len(tokens) + 1] = new
    BY <1>2, <1>4, <1>5
<1>7. DOMAIN tokens' = 1..Len(tokens) + 1
    BY <1>6, <1>3
<1>8. Len(tokens') <= MaxTokens
    BY <1>6, <1>3, AccountsAssumption DEF AccountsAssumption
<1>9. \A i \in DOMAIN tokens : tokens[i].from < i
    BY DEF TypeInv, TypeOK
<1>10. \A i \in DOMAIN tokens' : tokens'[i].from < i
    BY <1>3, <1>6, <1>7, <1>9
<1>11. revoked' \subseteq DOMAIN tokens'
    BY <1>3, <1>5, <1>7 DEF TypeInv, TypeOK
<1>12. QED
    BY <1>3, <1>5, <1>6, <1>7, <1>8, <1>10, <1>11 DEF T

(* The backend starts with typed variables.                                *)
LEMMA InitType == Init => TypeInv
<1> SUFFICES ASSUME Init PROVE TypeInv
    OBVIOUS
<1> USE AccountsAssumption DEF AccountsAssumption, Init
<1>1. Idle \in Request
    BY DEF Request
<1>2. /\ byName \in [Names -> Present \union {NoUser}]
      /\ byWallet \in [Wallets -> Present \union {NoUser}]
    BY DEF NoNames, NoWallets
<1>3. TypeOK
    BY <1>1, <1>2 DEF TypeOK
<1>4. RequestsAreKnown
    BY DEF RequestsAreKnown, Idle
<1>5. QED
    BY <1>3, <1>4 DEF TypeInv

(* A handler that begins to wait, or answers, leaves the other requests.   *)
LEMMA RequestStep ==
    ASSUME TypeInv, NEW s \in Slots, NEW r \in Request,
           request' = [request EXCEPT ![s] = r],
           DOMAIN tokens \subseteq DOMAIN tokens', Len(tokens') <= MaxTokens,
           DOMAIN users \subseteq DOMAIN users', database' = database, database,
           r.op = "refresh" => r.token \in DOMAIN tokens,
           r.op \in {"find", "link"} => r.user \in DOMAIN users
    PROVE  request' \in [Slots -> Request] /\ RequestsAreKnown'
    BY DEF TypeInv, TypeOK, RequestsAreKnown

(* No handler begins or ends.                                              *)
LEMMA SameRequests ==
    ASSUME TypeInv, request' = request, database' = database,
           DOMAIN tokens \subseteq DOMAIN tokens', Len(tokens') <= MaxTokens,
           DOMAIN users \subseteq DOMAIN users'
    PROVE  request' \in [Slots -> Request] /\ RequestsAreKnown'
    BY DEF TypeInv, TypeOK, RequestsAreKnown

(* Every handler keeps the types and what the requests name.               *)
LEMMA NextType == TypeInv /\ [Next]_vars => TypeInv'
<1> SUFFICES ASSUME TypeInv, [Next]_vars PROVE TypeInv'
    OBVIOUS
<1> USE AccountsAssumption DEF AccountsAssumption
<1>0. Idle \in Request /\ Idle.op = "idle" /\ Len(tokens) <= MaxTokens /\ TypeOK
    BY DEF Request, Idle, TypeInv, RequestsAreKnown
<1>1. ASSUME NEW n \in Names, NEW w \in Wallets \union {None}, Register(n, w)
      PROVE  TypeInv'
  <2> DEFINE id == Len(users) + 1
  <2>1. [name |-> n, wallet |-> w] \in Account
    BY DEF Account
  <2>2. /\ users' \in Seq(Account) /\ Len(users') <= MaxUsers
        /\ DOMAIN users' = DOMAIN users \union {id}
        /\ id \notin DOMAIN users
    BY <1>0, <1>1, <2>1, AppendUser DEF Register, StoreCreate
  <2>3. id \in Nat
    BY <1>0 DEF TypeOK
  <2>4. /\ tokens' \in Seq([user: DOMAIN users', from: 0..MaxTokens])
        /\ Len(tokens') <= MaxTokens
        /\ DOMAIN tokens \subseteq DOMAIN tokens'
        /\ \A i \in DOMAIN tokens' : tokens'[i].from < i
        /\ revoked' \subseteq DOMAIN tokens'
    BY <1>1, <2>2, <2>3, AppendToken DEF Register
  <2>5. Present' = Present \union {id}
    BY <1>0, <1>1, <2>2 DEF Present, Register, TypeOK
  <2>6. /\ byName' \in [Names -> Present' \union {NoUser}]
        /\ byWallet' \in [Wallets -> Present' \union {NoUser}]
    BY <1>0, <1>1, <2>5 DEF Register, StoreCreate, TypeOK
  <2>7. request' \in [Slots -> Request] /\ RequestsAreKnown'
    BY <1>1, <2>2, <2>4, SameRequests DEF Register
  <2>8. TypeOK'
    BY <1>0, <1>1, <2>2, <2>4, <2>6, <2>7 DEF Register, TypeOK, raced
  <2>9. QED
    BY <2>7, <2>8 DEF TypeInv
<1>2. ASSUME NEW t \in DOMAIN tokens, Refresh(t)
      PROVE  TypeInv'
  <2>1. tokens[t].user \in DOMAIN users /\ DOMAIN users \subseteq Nat
    BY <1>0, <1>2 DEF Refresh, Present, TypeOK
  <2>2. users' = users
    BY <1>2 DEF Refresh, directory
  <2>3. /\ tokens' \in Seq([user: DOMAIN users', from: 0..MaxTokens])
        /\ Len(tokens') <= MaxTokens
        /\ DOMAIN tokens \subseteq DOMAIN tokens'
        /\ \A i \in DOMAIN tokens' : tokens'[i].from < i
        /\ revoked' \subseteq DOMAIN tokens'
    BY <1>2, <2>1, <2>2, AppendToken DEF Refresh
  <2>4. request' \in [Slots -> Request] /\ RequestsAreKnown'
    BY <1>2, <2>2, <2>3, SameRequests DEF Refresh
  <2>5. TypeOK'
    BY <1>0, <1>2, <2>3, <2>4 DEF Refresh, TypeOK, directory, raced, Present
  <2>6. QED
    BY <2>4, <2>5 DEF TypeInv
<1>3. ASSUME NEW u \in Present, NEW w \in Wallets, LinkWallet(u, w)
      PROVE  TypeInv'
  <2>1. u \in DOMAIN users /\ users \in Seq(Account) /\ users[u] \in Account
    BY <1>0 DEF Present, TypeOK
  <2>2. [users[u] EXCEPT !.wallet = w] \in Account
    BY <2>1 DEF Account
  <2>3. users' = [users EXCEPT ![u] = [users[u] EXCEPT !.wallet = w]]
    BY <1>3 DEF LinkWallet, StoreUpdate
  <2>4. users' \in Seq(Account) /\ DOMAIN users' = DOMAIN users /\ Len(users') = Len(users)
    BY <2>1, <2>2, <2>3
  <2>5. byWallet' \in [Wallets -> Present' \union {NoUser}]
    BY <1>0, <1>3, <2>4 DEF LinkWallet, StoreUpdate, TypeOK, Present
  <2>6. TypeOK'
    BY <1>0, <1>3, <2>4, <2>5 DEF LinkWallet, TypeOK, sessions, raced, Present
  <2>7. RequestsAreKnown'
    BY <1>0, <1>3, <2>4, SameRequests DEF LinkWallet, sessions
  <2>8. QED
    BY <2>6, <2>7 DEF TypeInv
<1>4. ASSUME NEW s \in Slots, NEW n \in Names, NEW w \in Wallets \union {None},
             RegisterChecks(s, n, w)
      PROVE  TypeInv'
  <2> DEFINE r == [op |-> "register", name |-> n, wallet |-> w]
  <2>1. r \in Request /\ r.op = "register"
    BY DEF Request
  <2>2. /\ request' = [request EXCEPT ![s] = r]
        /\ UNCHANGED <<database, directory, sessions, restarts, raced>> /\ database
    BY <1>4 DEF RegisterChecks, Wait
  <2> HIDE DEF r
  <2>3. request' \in [Slots -> Request] /\ RequestsAreKnown'
    BY <1>0, <2>1, <2>2, RequestStep DEF directory, sessions
  <2>4. QED
    BY <1>0, <2>2, <2>3 DEF TypeInv, TypeOK, directory, sessions, raced, Present
<1>5. ASSUME NEW s \in Slots, RegisterCreates(s)
      PROVE  TypeInv'
  <2> DEFINE id == Len(users) + 1
             a == [name |-> request[s].name, wallet |-> request[s].wallet]
  <2>1. /\ request[s].op = "register" /\ request[s] \in Request
        /\ request' = [request EXCEPT ![s] = Idle]
        /\ UNCHANGED <<database, gone, byName, byWallet, restarts, loggedOut, raced>>
        /\ Len(users) < MaxUsers /\ Len(tokens) < MaxTokens
        /\ \/ users' = Append(users, a) /\ SignRefreshToken(id, 0)
           \/ UNCHANGED <<users, tokens, revoked>>
    BY <1>0, <1>5 DEF RegisterCreates, Answered, TypeOK
  <2>2. a \in Account
    BY <2>1, RequestForms DEF Account
  <2>3. database
    BY <2>1 DEF TypeInv, RequestsAreKnown, Idle
  <2> HIDE DEF a
  <2>4. CASE users' = Append(users, a) /\ SignRefreshToken(id, 0)
    <3>1. /\ users' \in Seq(Account) /\ Len(users') <= MaxUsers
          /\ DOMAIN users' = DOMAIN users \union {id}
      BY <1>0, <2>1, <2>2, <2>4, AppendUser
    <3>2. id \in Nat
      BY <1>0 DEF TypeOK
    <3>3. /\ tokens' \in Seq([user: DOMAIN users', from: 0..MaxTokens])
          /\ Len(tokens') <= MaxTokens
          /\ DOMAIN tokens \subseteq DOMAIN tokens'
          /\ \A i \in DOMAIN tokens' : tokens'[i].from < i
          /\ revoked' \subseteq DOMAIN tokens'
      BY <2>1, <2>4, <3>1, <3>2, AppendToken
    <3>4. request' \in [Slots -> Request] /\ RequestsAreKnown'
      BY <1>0, <2>1, <2>3, <3>1, <3>3, RequestStep
    <3>5. QED
      BY <1>0, <2>1, <3>1, <3>3, <3>4 DEF TypeInv, TypeOK, raced, Present
  <2>5. CASE UNCHANGED <<users, tokens, revoked>>
    <3>1. request' \in [Slots -> Request] /\ RequestsAreKnown'
      BY <1>0, <2>1, <2>3, <2>5, RequestStep
    <3>2. QED
      BY <1>0, <2>1, <2>5, <3>1 DEF TypeInv, TypeOK, raced, Present
  <2>6. QED
    BY <2>1, <2>4, <2>5
<1>6. ASSUME NEW s \in Slots, NEW t \in DOMAIN tokens, RefreshVerifies(s, t)
      PROVE  TypeInv'
  <2> DEFINE r == [op |-> "refresh", token |-> t]
  <2>1. r \in Request /\ r.op = "refresh" /\ r.token = t
    BY <1>0 DEF Request, TypeOK
  <2>2. /\ request' = [request EXCEPT ![s] = r]
        /\ UNCHANGED <<database, directory, sessions, restarts, racedUsers>> /\ database
        /\ racedTokens' \subseteq racedTokens \union {t}
    BY <1>6 DEF RefreshVerifies, Wait
  <2> HIDE DEF r
  <2>3. request' \in [Slots -> Request] /\ RequestsAreKnown'
    BY <1>0, <2>1, <2>2, RequestStep DEF directory, sessions
  <2>4. QED
    BY <1>0, <2>2, <2>3 DEF TypeInv, TypeOK, directory, sessions, Present
<1>7. ASSUME NEW s \in Slots, RefreshSigns(s)
      PROVE  TypeInv'
  <2> DEFINE t == request[s].token
  <2>1. t \in DOMAIN tokens
    BY <1>0, <1>7 DEF RefreshSigns, TypeInv, RequestsAreKnown
  <2>0. tokens[t].user \in DOMAIN users /\ DOMAIN users \subseteq Nat
    BY <1>0, <2>1, TokenOwner DEF TypeOK
  <2>2. users' = users /\ database
    BY <1>0, <1>7 DEF RefreshSigns, directory, TypeInv, RequestsAreKnown, Idle
  <2>3. /\ tokens' \in Seq([user: DOMAIN users', from: 0..MaxTokens])
        /\ Len(tokens') <= MaxTokens
        /\ DOMAIN tokens \subseteq DOMAIN tokens'
        /\ \A i \in DOMAIN tokens' : tokens'[i].from < i
        /\ revoked' \subseteq DOMAIN tokens'
    BY <1>7, <2>0, <2>1, <2>2, AppendToken DEF RefreshSigns
  <2>4. request' \in [Slots -> Request] /\ RequestsAreKnown'
    BY <1>0, <1>7, <2>2, <2>3, RequestStep DEF RefreshSigns, Answered
  <2>5. QED
    BY <1>0, <1>7, <2>3, <2>4 DEF RefreshSigns, TypeInv, TypeOK, directory, raced, Present
<1>8. ASSUME NEW s \in Slots, NEW u \in Present, NEW w \in Wallets, LinkFindsOwner(s, u, w)
      PROVE  TypeInv'
  <2> DEFINE r == [op |-> "find", user |-> u, wallet |-> w]
  <2>1. r \in Request /\ r.op = "find" /\ r.user = u /\ u \in DOMAIN users
    BY <1>0 DEF Request, TypeOK, Present, Users
  <2>2. /\ request' = [request EXCEPT ![s] = r]
        /\ UNCHANGED <<database, directory, sessions, restarts, racedTokens>> /\ database
        /\ racedUsers' \subseteq racedUsers \union {u}
    BY <1>8 DEF LinkFindsOwner, Wait
  <2> HIDE DEF r
  <2>3. request' \in [Slots -> Request] /\ RequestsAreKnown'
    BY <1>0, <2>1, <2>2, RequestStep DEF directory, sessions
  <2>4. QED
    BY <1>0, <2>1, <2>2, <2>3 DEF TypeInv, TypeOK, directory, sessions, Present
<1>9. ASSUME NEW s \in Slots, LinkFindsUser(s)
      PROVE  TypeInv'
  <2> DEFINE r == [request[s] EXCEPT !.op = "link"]
             answer == IF MayLink(request[s].user, request[s].wallet) THEN r ELSE Idle
  <2>1. request[s].op = "find" /\ request[s] \in Request
    BY <1>0, <1>9 DEF LinkFindsUser, TypeOK
  <2>2. r \in Request /\ r.op = "link" /\ r.user = request[s].user
    BY <2>1 DEF Request, Idle
  <2>3. database /\ request[s].user \in DOMAIN users
    BY <2>1 DEF TypeInv, RequestsAreKnown, Idle
  <2>4. answer \in Request /\ answer.op # "refresh"
        /\ (answer.op \in {"find", "link"} => answer.user \in DOMAIN users)
    BY <1>0, <2>2, <2>3
  <2>5. /\ request' = [request EXCEPT ![s] = answer]
        /\ UNCHANGED <<database, directory, sessions, restarts, raced>>
    BY <1>9 DEF LinkFindsUser
  <2> HIDE DEF answer
  <2>6. request' \in [Slots -> Request] /\ RequestsAreKnown'
    BY <1>0, <2>3, <2>4, <2>5, RequestStep DEF directory, sessions
  <2>7. QED
    BY <1>0, <2>5, <2>6 DEF TypeInv, TypeOK, directory, sessions, raced, Present
<1>10. ASSUME NEW s \in Slots, LinkUpdates(s)
       PROVE  TypeInv'
  <2> DEFINE u == request[s].user
             w == request[s].wallet
  <2>1. /\ database /\ u \in DOMAIN users /\ w \in Wallets
        /\ users \in Seq(Account) /\ users[u] \in Account
    BY <1>0, <1>10, RequestForms DEF LinkUpdates, TypeInv, TypeOK, RequestsAreKnown, Idle
  <2>2. [users[u] EXCEPT !.wallet = w] \in Account
    BY <2>1 DEF Account
  <2>3. \/ users' = [users EXCEPT ![u] = [users[u] EXCEPT !.wallet = w]]
        \/ users' = users
    BY <1>10 DEF LinkUpdates
  <2>4. users' \in Seq(Account) /\ DOMAIN users' = DOMAIN users /\ Len(users') = Len(users)
    BY <2>1, <2>2, <2>3
  <2>5. request' \in [Slots -> Request] /\ RequestsAreKnown'
    BY <1>0, <1>10, <2>1, <2>4, RequestStep DEF LinkUpdates, Answered, sessions
  <2>6. QED
    BY <1>0, <1>10, <2>4, <2>5 DEF LinkUpdates, TypeInv, TypeOK, sessions, raced, Present
<1>11. ASSUME NEW s \in Slots, NEW w \in Wallets, SyncFinds(s, w)
       PROVE  TypeInv'
  <2> DEFINE r == [op |-> "sync", wallet |-> w]
  <2>1. r \in Request /\ r.op = "sync"
    BY DEF Request
  <2>2. /\ request' = [request EXCEPT ![s] = r]
        /\ UNCHANGED <<database, directory, sessions, restarts, raced>> /\ database
    BY <1>11 DEF SyncFinds, Wait
  <2> HIDE DEF r
  <2>3. request' \in [Slots -> Request] /\ RequestsAreKnown'
    BY <1>0, <2>1, <2>2, RequestStep DEF directory, sessions
  <2>4. QED
    BY <1>0, <2>2, <2>3 DEF TypeInv, TypeOK, directory, sessions, raced, Present
<1>12. ASSUME NEW s \in Slots, SyncCreates(s)
       PROVE  TypeInv'
  <2> DEFINE a == [name |-> Synthetic, wallet |-> request[s].wallet]
  <2>1. /\ request[s].op = "sync" /\ request[s] \in Request
        /\ request' = [request EXCEPT ![s] = Idle]
        /\ UNCHANGED <<database, gone, byName, byWallet, sessions, restarts, raced>>
        /\ Len(users) < MaxUsers
        /\ users' = Append(users, a) \/ users' = users
    BY <1>0, <1>12 DEF SyncCreates, Answered, TypeOK
  <2>2. a \in Account /\ database
    BY <2>1, RequestForms DEF Account, TypeInv, RequestsAreKnown, Idle
  <2> HIDE DEF a
  <2>3. /\ users' \in Seq(Account) /\ Len(users') <= MaxUsers
        /\ DOMAIN users \subseteq DOMAIN users'
    BY <1>0, <2>1, <2>2, AppendUser DEF TypeOK
  <2>4. request' \in [Slots -> Request] /\ RequestsAreKnown'
    BY <1>0, <2>1, <2>2, <2>3, RequestStep DEF sessions
  <2>5. tokens' \in Seq([user: DOMAIN users', from: 0..MaxTokens])
    BY <1>0, <2>1, <2>3, TokensStayTyped DEF sessions, Signed
  <2>6. QED
    BY <1>0, <2>1, <2>3, <2>4, <2>5 DEF TypeInv, TypeOK, sessions, raced, Present
<1>13. ASSUME NEW u \in Present, Login(u)
       PROVE  TypeInv'
  <2>1. u \in DOMAIN users /\ u \in Nat /\ users' = users
    BY <1>0, <1>13 DEF Login, Present, TypeOK, directory
  <2>2. /\ tokens' \in Seq([user: DOMAIN users', from: 0..MaxTokens])
        /\ Len(tokens') <= MaxTokens
        /\ DOMAIN tokens \subseteq DOMAIN tokens'
        /\ \A i \in DOMAIN tokens' : tokens'[i].from < i
        /\ revoked' \subseteq DOMAIN tokens'
    BY <1>13, <2>1, AppendToken DEF Login
  <2>3. request' \in [Slots -> Request] /\ RequestsAreKnown'
    BY <1>13, <2>1, <2>2, SameRequests DEF Login
  <2>4. QED
    BY <1>0, <1>13, <2>2, <2>3 DEF Login, TypeInv, TypeOK, directory, raced, Present
<1>14. ASSUME NEW t \in DOMAIN tokens, Logout(t)
       PROVE  TypeInv'
  <2>1. /\ UNCHANGED <<database, directory, tokens, request, restarts, racedUsers>>
        /\ revoked' = revoked \union {t} /\ loggedOut' = loggedOut \union {t}
        /\ racedTokens' \subseteq racedTokens \union {t}
    BY <1>14 DEF Logout
  <2>2. QED
    BY <1>0, <2>1, SameRequests DEF TypeInv, TypeOK, directory, Present
<1>15. CASE Restart
  <2>1. request' \in [Slots -> Request]
    BY <1>0, <1>15 DEF Restart
  <2>2. RequestsAreKnown'
    BY <1>0, <1>15 DEF Restart, TypeInv, RequestsAreKnown
  <2>3. /\ byName' \in [Names -> Present' \union {NoUser}]
        /\ byWallet' \in [Wallets -> Present' \union {NoUser}]
    BY <1>15 DEF Restart, NoNames, NoWallets
  <2>4. QED
    BY <1>0, <1>15, <2>1, <2>2, <2>3 DEF Restart, TypeInv, TypeOK
<1>16. CASE UNCHANGED vars
    BY <1>16 DEF vars, TypeInv, TypeOK, RequestsAreKnown, Present
<1>17. QED
    BY <1>1, <1>2, <1>3, <1>4, <1>5, <1>6, <1>7, <1>8, <1>9, <1>10, <1>11, <1>12, <1>13,
       <1>14, <1>15, <1>16 DEF Next, InMemory, WithDatabase

(***************************************************************************)
(* Every variable keeps its type; in particular the indices name users     *)
(* that are present, and what a token was exchanged for is an earlier one. *)
(***************************************************************************)
THEOREM TypeCorrect == Spec => []TypeOK
<1>1. TypeInv => TypeOK
    BY DEF TypeInv
<1>2. QED
    BY <1>1, InitType, NextType, PTL DEF Spec

-----------------------------------------------------------------------------
(* Which steps there are without a database, and which with one.           *)
LEMMA MemorySteps ==
    ASSUME TypeInv, ~database, [Next]_vars
    PROVE  \/ \E n \in Names, w \in Wallets \union {None} : Register(n, w)
           \/ \E t \in DOMAIN tokens : Refresh(t)
           \/ \E u \in Present, w \in Wallets : LinkWallet(u, w)
           \/ \E u \in Present : Login(u)
           \/ \E t \in DOMAIN tokens : Logout(t)
           \/ Restart
           \/ UNCHANGED vars
<1>1. \A s \in Slots : request[s].op = "idle"
    BY DEF TypeInv, RequestsAreKnown, Idle
<1>2. ASSUME NEW s \in Slots, WithDatabase(s)
      PROVE  FALSE
    BY <1>1, <1>2 DEF WithDatabase, RegisterChecks, RegisterCreates, RefreshVerifies,
                      RefreshSigns, LinkFindsOwner, LinkFindsUser, LinkUpdates,
                      SyncFinds, SyncCreates
<1>3. QED
    BY <1>2 DEF Next, InMemory

(* With a database the handlers that wait, login, logout and restarts.     *)
LEMMA DatabaseSteps ==
    ASSUME TypeInv, database, [Next]_vars
    PROVE  \/ \E s \in Slots : WithDatabase(s)
           \/ \E u \in Present : Login(u)
           \/ \E t \in DOMAIN tokens : Logout(t)
           \/ Restart
           \/ UNCHANGED vars
    BY DEF Next, InMemory, Register, Refresh, LinkWallet

(* Whether there is a database never changes.                              *)
LEMMA SameDatabase == [Next]_vars => database' = database
    BY DEF Next, InMemory, WithDatabase, vars, Register, Refresh, LinkWallet, Login,
           Logout, Restart, RegisterChecks, RegisterCreates, RefreshVerifies,
           RefreshSigns, LinkFindsOwner, LinkFindsUser, LinkUpdates, SyncFinds,
           SyncCreates

-----------------------------------------------------------------------------
(* IndicesAgree                                                            *)

(* A name that StoreHas does not find is nobody's, a wallet likewise.      *)
LEMMA RegisterIndexed ==
    ASSUME TypeInv, IndicesAgree, NEW n \in Names, NEW w \in Wallets \union {None},
           Register(n, w)
    PROVE  IndicesAgree'
<1> DEFINE id == Len(users) + 1
           a == [name |-> n, wallet |-> w]
<1>1. /\ ~database /\ Len(users) < MaxUsers /\ gone' = gone /\ database' = database
      /\ byName[n] = NoUser /\ (w # None => byWallet[w] = NoUser)
      /\ users' = Append(users, a) /\ byName' = [byName EXCEPT ![n] = id]
      /\ byWallet' = IF w = None THEN byWallet ELSE [byWallet EXCEPT ![w] = id]
    BY DEF Register, StoreHas, StoreCreate
<1>2. /\ DOMAIN users' = DOMAIN users \union {id} /\ id \notin DOMAIN users
      /\ users'[id] = a /\ \A u \in DOMAIN users : users'[u] = users[u]
    BY <1>1, AppendUser DEF TypeInv, Account
<1>3. Present' = Present \union {id} /\ id \notin Present /\ id \in Nat /\ id # NoUser
    BY <1>1, <1>2 DEF Present, TypeInv, TypeOK, NoUser
<1>4. /\ \A m \in Names, u \in Users :
            byName[m] = u <=> u \in Present /\ users[u].name = m
      /\ \A v \in Wallets, u \in Users :
            byWallet[v] = u <=> u \in Present /\ users[u].wallet = v
      /\ byName \in [Names -> Present \union {NoUser}]
      /\ byWallet \in [Wallets -> Present \union {NoUser}]
    BY <1>1 DEF IndicesAgree, TypeInv, TypeOK
<1>5. ASSUME NEW m \in Names, NEW u \in Users
      PROVE  byName'[m] = u <=> u \in Present' /\ users'[u].name = m
    BY <1>1, <1>2, <1>3, <1>4 DEF Present, NoUser, Users
<1>6. ASSUME NEW v \in Wallets, NEW u \in Users
      PROVE  byWallet'[v] = u <=> u \in Present' /\ users'[u].wallet = v
    BY <1>1, <1>2, <1>3, <1>4, AccountsAssumption
    DEF Present, NoUser, Users, AccountsAssumption
<1>7. QED
    BY <1>5, <1>6 DEF IndicesAgree

(* updateUser moves the wallet's entry, and there was none but its own.    *)
LEMMA LinkIndexed ==
    ASSUME TypeInv, IndicesAgree, NEW u \in Present, NEW w \in Wallets, LinkWallet(u, w)
    PROVE  IndicesAgree'
<1>1. /\ ~database /\ UNCHANGED <<database, gone, byName>>
      /\ byWallet[w] \in {NoUser, u} /\ users[u].wallet \in {None, w}
      /\ users' = [users EXCEPT ![u].wallet = w]
      /\ byWallet' = [x \in Wallets |-> IF x = w THEN u
                                        ELSE IF x = users[u].wallet THEN NoUser ELSE byWallet[x]]
    BY DEF LinkWallet, StoreUpdate, MayLink
<1>2. DOMAIN users' = DOMAIN users /\ Present' = Present /\ u \in DOMAIN users
    BY <1>1 DEF Present
<1>0. u \in Users /\ byWallet \in [Wallets -> Present \union {NoUser}]
    BY <1>2, AccountsAssumption DEF AccountsAssumption, TypeInv, TypeOK, Users
<1>3. \A v \in DOMAIN users :
         /\ users'[v].name = users[v].name
         /\ users'[v].wallet = IF v = u THEN w ELSE users[v].wallet
  <2>1. users[u] \in Account
    BY <1>2 DEF TypeInv, TypeOK
  <2>2. QED
    BY <1>1, <1>2, <2>1 DEF Account
<1>4. /\ \A m \in Names, v \in Users :
            byName[m] = v <=> v \in Present /\ users[v].name = m
      /\ \A x \in Wallets, v \in Users :
            byWallet[x] = v <=> v \in Present /\ users[v].wallet = x
    BY <1>1 DEF IndicesAgree
<1>5. ASSUME NEW m \in Names, NEW v \in Users
      PROVE  byName'[m] = v <=> v \in Present' /\ users'[v].name = m
    BY <1>1, <1>2, <1>3, <1>4 DEF Present
<1>6. ASSUME NEW x \in Wallets, NEW v \in Users
      PROVE  byWallet'[x] = v <=> v \in Present' /\ users'[v].wallet = x
    BY <1>0, <1>1, <1>2, <1>3, <1>4, AccountsAssumption
    DEF Present, NoUser, Users, AccountsAssumption
<1>7. QED
    BY <1>5, <1>6 DEF IndicesAgree

(* Only Register, LinkWallet and Restart touch the indices.                *)
LEMMA NextIndexed == TypeInv /\ IndicesAgree /\ [Next]_vars => IndicesAgree'
<1> SUFFICES ASSUME TypeInv, IndicesAgree, [Next]_vars PROVE IndicesAgree'
    OBVIOUS
<1>1. CASE database
    BY <1>1, SameDatabase DEF IndicesAgree
<1>2. CASE ~database
  <2>1. ASSUME NEW t \in DOMAIN tokens, Refresh(t) \/ Logout(t)
        PROVE  IndicesAgree'
    BY <2>1 DEF Refresh, Logout, directory, IndicesAgree, Present
  <2>2. ASSUME NEW u \in Present, Login(u)
        PROVE  IndicesAgree'
    BY <2>2 DEF Login, directory, IndicesAgree, Present
  <2>3. CASE Restart
    BY <1>2, <2>3 DEF Restart, IndicesAgree, NoNames, NoWallets, Present, Users, NoUser
  <2>4. CASE UNCHANGED vars
    BY <2>4 DEF vars, IndicesAgree, Present
  <2>5. QED
    BY <1>2, <2>1, <2>2, <2>3, <2>4, MemorySteps, RegisterIndexed, LinkIndexed
<1>3. QED
    BY <1>1, <1>2

(***************************************************************************)
(* UserStore's usersByUsername and usersByWallet lead to the users they    *)
(* belong to, and to all of them, whatever was registered, linked and lost *)
(* (userStore.ts; userService.ts in memory).                               *)
(***************************************************************************)
THEOREM IndicesLead == Spec => []IndicesAgree
<1>1. Init => IndicesAgree
    BY AccountsAssumption
    DEF AccountsAssumption, Init, IndicesAgree, NoNames, NoWallets, Present, Users, NoUser
<1>2. QED
    BY <1>1, InitType, NextType, NextIndexed, PTL DEF Spec

-----------------------------------------------------------------------------
(* WalletIsKept                                                            *)

Links(s, u) == request[s].op \in {"find", "link"} /\ request[s].user = u

(* A request to link a wallet, of a user with no second one, will write    *)
(* either the first wallet of that user or the one it has.                 *)
LinksAreAlone ==
    \A u \in DOMAIN users \ racedUsers, s \in Slots :
        Links(s, u) =>
            /\ request[s].op = "link" => MayLink(u, request[s].wallet)
            /\ \A o \in Slots : Links(o, u) => o = s

(* A step that begins no link and changes no wallet leaves them alone.     *)
LEMMA NoNewLink ==
    ASSUME TypeInv, LinksAreAlone,
           \A s \in Slots, u \in DOMAIN users' : Links(s, u)' => request'[s] = request[s],
           racedUsers' = racedUsers,
           \A u \in DOMAIN users : users'[u].wallet = users[u].wallet
    PROVE  LinksAreAlone'
<1> SUFFICES ASSUME NEW u \in DOMAIN users' \ racedUsers', NEW s \in Slots, Links(s, u)'
             PROVE  /\ request'[s].op = "link" => MayLink(u, request[s].wallet)'
                    /\ \A o \in Slots : Links(o, u)' => o = s
    BY DEF LinksAreAlone
<1>1. Links(s, u) /\ request'[s] = request[s] /\ u \in DOMAIN users \ racedUsers
    BY DEF Links, TypeInv, RequestsAreKnown
<1>2. \A o \in Slots : Links(o, u)' => Links(o, u)
    BY DEF Links
<1>3. QED
    BY <1>1, <1>2 DEF LinksAreAlone, MayLink

(* Who begins a second link of the same user has raced.                    *)
LEMMA FindsOwnerAlone ==
    ASSUME TypeInv, LinksAreAlone, NEW s \in Slots, NEW u \in Present, NEW w \in Wallets,
           LinkFindsOwner(s, u, w)
    PROVE  LinksAreAlone'
<1> DEFINE r == [op |-> "find", user |-> u, wallet |-> w]
<1>1. /\ request' = [request EXCEPT ![s] = r] /\ request[s] = Idle
      /\ users' = users
      /\ racedUsers' = racedUsers \union IF Linking(u) THEN {u} ELSE {}
      /\ request \in [Slots -> Request]
    BY DEF LinkFindsOwner, Wait, directory, TypeInv, TypeOK
<1>2. \A o \in Slots \ {s}, v \in DOMAIN users : Links(o, v)' <=> Links(o, v)
    BY <1>1 DEF Links
<1>3. \A v \in DOMAIN users : Links(s, v)' <=> v = u
    BY <1>1 DEF Links
<1>4. Linking(u) <=> \E o \in Slots : Links(o, u)
    BY DEF Linking, Links
<1>5. ASSUME NEW v \in DOMAIN users' \ racedUsers', NEW o \in Slots, Links(o, v)'
      PROVE  /\ request'[o].op = "link" => MayLink(v, request[o].wallet)'
             /\ \A q \in Slots : Links(q, v)' => q = o
  <2>1. CASE v = u
    <3>1. u \notin racedUsers /\ \A q \in Slots : ~Links(q, u)
      BY <1>1, <1>4, <1>5, <2>1
    <3>2. \A q \in Slots : Links(q, u)' => q = s
      BY <1>1, <1>2, <2>1, <3>1
    <3>3. QED
      BY <1>1, <1>5, <2>1, <3>2
  <2>2. CASE v # u
    <3>1. v \in DOMAIN users \ racedUsers /\ o # s /\ Links(o, v)
      BY <1>1, <1>2, <1>3, <1>5, <2>2
    <3>2. \A q \in Slots : Links(q, v)' => Links(q, v)
      BY <1>2, <1>3, <2>2, <3>1
    <3>3. QED
      BY <1>1, <3>1, <3>2 DEF LinksAreAlone, MayLink
  <2>3. QED
    BY <2>1, <2>2
<1>6. QED
    BY <1>5 DEF LinksAreAlone

(* linkWallet goes on to its update only if MayLink.                       *)
LEMMA FindsUserAlone ==
    ASSUME TypeInv, LinksAreAlone, NEW s \in Slots, LinkFindsUser(s)
    PROVE  LinksAreAlone'
<1> DEFINE r == [request[s] EXCEPT !.op = "link"]
<1>1. /\ users' = users /\ racedUsers' = racedUsers
      /\ request[s].op = "find" /\ request \in [Slots -> Request]
      /\ request' = [request EXCEPT ![s] =
                       IF MayLink(request[s].user, request[s].wallet) THEN r ELSE Idle]
    BY DEF LinkFindsUser, directory, raced, TypeInv, TypeOK
<1>2. r.op = "link" /\ r.user = request[s].user /\ r.wallet = request[s].wallet
    BY <1>1 DEF Request, Idle
<1>3. \A o \in Slots \ {s} : request'[o] = request[o]
    BY <1>1
<1>4. \A v \in DOMAIN users :
          Links(s, v)' => /\ Links(s, v)
                          /\ MayLink(v, request[s].wallet) /\ request'[s] = r
    BY <1>1, <1>2 DEF Links, Idle
<1>5. ASSUME NEW v \in DOMAIN users' \ racedUsers', NEW o \in Slots, Links(o, v)'
      PROVE  /\ request'[o].op = "link" => MayLink(v, request[o].wallet)'
             /\ \A q \in Slots : Links(q, v)' => q = o
  <2>1. \A q \in Slots : Links(q, v)' => Links(q, v)
    BY <1>1, <1>3, <1>4 DEF Links
  <2>2. QED
    BY <1>1, <1>2, <1>3, <1>4, <1>5, <2>1 DEF LinksAreAlone, MayLink
<1>6. QED
    BY <1>5 DEF LinksAreAlone

(* An update changes the wallet of its user only, and only to the first    *)
(* one or the one it has, unless that user linked two at once.             *)
LEMMA UpdateKeeps ==
    ASSUME TypeInv, LinksAreAlone, NEW s \in Slots, LinkUpdates(s)
    PROVE  /\ DOMAIN users' = DOMAIN users /\ request[s].user \in DOMAIN users
           /\ Links(s, request[s].user)
           /\ \A v \in DOMAIN users \ {request[s].user} : users'[v] = users[v]
           /\ \A v \in DOMAIN users \ racedUsers :
                users[v].wallet # None => users'[v].wallet = users[v].wallet
<1> DEFINE u == request[s].user
           w == request[s].wallet
<1>1. /\ request[s].op = "link" /\ u \in DOMAIN users /\ Links(s, u)
      /\ \/ users' = [users EXCEPT ![u].wallet = w]
         \/ users' = users
    BY DEF LinkUpdates, Links, TypeInv, RequestsAreKnown
<1>2. users[u] \in Account
    BY <1>1 DEF TypeInv, TypeOK
<1>3. u \notin racedUsers => MayLink(u, w)
    BY <1>1 DEF LinksAreAlone
<1>4. QED
    BY <1>1, <1>2, <1>3 DEF MayLink, Account

(* The update disturbs no pending link but those of its own user, who has  *)
(* raced if there are any.                                                 *)
LEMMA UpdateAlone ==
    ASSUME TypeInv, LinksAreAlone, NEW s \in Slots, LinkUpdates(s)
    PROVE  LinksAreAlone'
<1>1. /\ request' = [request EXCEPT ![s] = Idle] /\ request \in [Slots -> Request]
      /\ racedUsers' = racedUsers
    BY DEF LinkUpdates, Answered, raced, TypeInv, TypeOK
<1>2. \A o \in Slots, v \in DOMAIN users' :
          Links(o, v)' => o # s /\ Links(o, v) /\ request'[o] = request[o]
    BY <1>1 DEF Links, Idle
<1>3. ASSUME NEW v \in DOMAIN users' \ racedUsers', NEW o \in Slots, Links(o, v)'
      PROVE  /\ request'[o].op = "link" => MayLink(v, request[o].wallet)'
             /\ \A q \in Slots : Links(q, v)' => q = o
  <2>1. v \in DOMAIN users \ racedUsers /\ v # request[s].user
    BY <1>1, <1>2, <1>3, UpdateKeeps DEF LinksAreAlone
  <2>2. users'[v] = users[v]
    BY <2>1, UpdateKeeps
  <2>3. QED
    BY <1>2, <1>3, <2>1, <2>2 DEF LinksAreAlone, MayLink
<1>4. QED
    BY <1>3 DEF LinksAreAlone

(* Pending links stay alone under every step.                              *)
LEMMA NextAlone == TypeInv /\ LinksAreAlone /\ [Next]_vars => LinksAreAlone'
<1> SUFFICES ASSUME TypeInv, LinksAreAlone, [Next]_vars PROVE LinksAreAlone'
    OBVIOUS
<1>1. CASE ~database
  <2>1. \A s \in Slots : request'[s] = Idle
    BY <1>1, NextType, SameDatabase DEF TypeInv, RequestsAreKnown
  <2>2. QED
    BY <2>1 DEF LinksAreAlone, Links, Idle
<1>2. CASE database
  <2>0. request \in [Slots -> Request]
    BY DEF TypeInv, TypeOK
  <2>1. ASSUME NEW s \in Slots, NEW n \in Names, NEW w \in Wallets \union {None},
               RegisterChecks(s, n, w)
        PROVE  LinksAreAlone'
    BY <2>0, <2>1, NoNewLink DEF RegisterChecks, Wait, Links, directory, raced
  <2>2. ASSUME NEW s \in Slots, RegisterCreates(s)
        PROVE  LinksAreAlone'
    <3>1. request[s].op = "register" /\ request[s] \in Request
      BY <2>0, <2>2 DEF RegisterCreates
    <3>2. [name |-> request[s].name, wallet |-> request[s].wallet] \in Account
      BY <3>1, RequestForms DEF Account
    <3>3. \A u \in DOMAIN users : users'[u] = users[u]
      BY <2>2, <3>2, AppendUser DEF RegisterCreates, TypeInv
    <3>4. QED
      BY <2>0, <2>2, <3>3, NoNewLink DEF RegisterCreates, Answered, Links, Idle, raced
  <2>3. ASSUME NEW s \in Slots, NEW t \in DOMAIN tokens, RefreshVerifies(s, t)
        PROVE  LinksAreAlone'
    BY <2>0, <2>3, NoNewLink DEF RefreshVerifies, Wait, Links, directory
  <2>4. ASSUME NEW s \in Slots, RefreshSigns(s)
        PROVE  LinksAreAlone'
    BY <2>0, <2>4, NoNewLink DEF RefreshSigns, Answered, Links, Idle, directory, raced
  <2>5. ASSUME NEW s \in Slots, NEW w \in Wallets, SyncFinds(s, w)
        PROVE  LinksAreAlone'
    BY <2>0, <2>5, NoNewLink DEF SyncFinds, Wait, Links, directory, raced
  <2>6. ASSUME NEW s \in Slots, SyncCreates(s)
        PROVE  LinksAreAlone'
    <3>1. request[s].op = "sync" /\ request[s] \in Request
      BY <2>0, <2>6 DEF SyncCreates
    <3>2. [name |-> Synthetic, wallet |-> request[s].wallet] \in Account
      BY <3>1, RequestForms DEF Account
    <3>3. \A u \in DOMAIN users : users'[u] = users[u]
      BY <2>6, <3>2, AppendUser DEF SyncCreates, TypeInv
    <3>4. QED
      BY <2>0, <2>6, <3>3, NoNewLink DEF SyncCreates, Answered, Links, Idle, raced
  <2>7. ASSUME NEW u \in Present, Login(u)
        PROVE  LinksAreAlone'
    BY <2>7, NoNewLink DEF Login, directory, raced
  <2>8. ASSUME NEW t \in DOMAIN tokens, Logout(t)
        PROVE  LinksAreAlone'
    BY <2>8, NoNewLink DEF Logout, directory
  <2>9. CASE Restart
    BY <2>9, NoNewLink DEF Restart, Links, Idle
  <2>10. CASE UNCHANGED vars
    BY <2>10, NoNewLink DEF vars
  <2>11. QED
    BY <1>2, <2>1, <2>2, <2>3, <2>4, <2>5, <2>6, <2>7, <2>8, <2>9, <2>10, DatabaseSteps,
       FindsOwnerAlone, FindsUserAlone, UpdateAlone DEF WithDatabase
<1>3. QED
    BY <1>1, <1>2

(* Only LinkWallet and LinkUpdates write a wallet.                         *)
LEMMA StepKeepsWallets ==
    TypeInv /\ LinksAreAlone /\ [Next]_vars =>
        \A u \in DOMAIN users \ racedUsers :
            users[u].wallet # None => users'[u].wallet = users[u].wallet
<1> SUFFICES ASSUME TypeInv, LinksAreAlone, [Next]_vars,
                    NEW u \in DOMAIN users \ racedUsers, users[u].wallet # None
             PROVE  users'[u].wallet = users[u].wallet
    OBVIOUS
<1>0. request \in [Slots -> Request]
    BY DEF TypeInv, TypeOK
<1>1. CASE ~database
  <2>1. ASSUME NEW n \in Names, NEW w \in Wallets \union {None}, Register(n, w)
        PROVE  users'[u] = users[u]
    BY <2>1, AppendUser DEF Register, StoreCreate, Account, TypeInv
  <2>2. ASSUME NEW v \in Present, NEW w \in Wallets, LinkWallet(v, w)
        PROVE  users'[u].wallet = users[u].wallet
    <3>1. v \in DOMAIN users /\ users[v] \in Account /\ users[v].wallet \in {None, w}
      BY <2>2 DEF LinkWallet, MayLink, Present, TypeInv, TypeOK
    <3>2. users' = [users EXCEPT ![v].wallet = w]
      BY <2>2 DEF LinkWallet, StoreUpdate
    <3>3. QED
      BY <3>1, <3>2 DEF Account
  <2>3. QED
    BY <1>1, <2>1, <2>2, MemorySteps
    DEF Refresh, Login, Logout, Restart, vars, directory
<1>2. CASE database
  <2>1. ASSUME NEW s \in Slots, RegisterCreates(s)
        PROVE  users'[u] = users[u]
    <3>1. request[s].op = "register" /\ request[s] \in Request
      BY <1>0, <2>1 DEF RegisterCreates
    <3>2. [name |-> request[s].name, wallet |-> request[s].wallet] \in Account
      BY <3>1, RequestForms DEF Account
    <3>3. QED
      BY <2>1, <3>2, AppendUser DEF RegisterCreates, TypeInv
  <2>2. ASSUME NEW s \in Slots, SyncCreates(s)
        PROVE  users'[u] = users[u]
    <3>1. request[s].op = "sync" /\ request[s] \in Request
      BY <1>0, <2>2 DEF SyncCreates
    <3>2. [name |-> Synthetic, wallet |-> request[s].wallet] \in Account
      BY <3>1, RequestForms DEF Account
    <3>3. QED
      BY <2>2, <3>2, AppendUser DEF SyncCreates, TypeInv
  <2>3. QED
    BY <1>2, <2>1, <2>2, DatabaseSteps, UpdateKeeps
    DEF WithDatabase, RegisterChecks, RefreshVerifies, RefreshSigns, LinkFindsOwner,
        LinkFindsUser, SyncFinds, Login, Logout, Restart, vars, directory
<1>3. QED
    BY <1>1, <1>2

(***************************************************************************)
(* An account keeps the wallet it has linked, in memory and with a         *)
(* database, whatever other requests do between the queries of linkWallet  *)
(* (userService.ts:263-320), unless its user links two wallets at once.    *)
(***************************************************************************)
THEOREM WalletKept == Spec => WalletIsKept
<1>1. Init => LinksAreAlone
    BY DEF Init, LinksAreAlone, Links, Idle
<1>2. QED
    BY <1>1, InitType, NextType, NextAlone, StepKeepsWallets, PTL DEF Spec, WalletIsKept

-----------------------------------------------------------------------------
(* ExchangedOnce, SessionEnds                                              *)

Refreshes(s, t) == request[s].op = "refresh" /\ request[s].token = t

(* Nothing will be signed in exchange for it any more: it is revoked, or   *)
(* belongs to a user that went with the memory.                            *)
Useless(t) == t \in revoked \/ (~database /\ tokens[t].user \in gone)

RefreshesAreAlone ==
    \A t \in DOMAIN tokens \ racedTokens, s \in Slots :
        Refreshes(s, t) =>
            t \notin revoked /\ \A o \in Slots : Refreshes(o, t) => o = s

SpentIsUseless ==
    /\ \A i \in DOMAIN tokens :
          tokens[i].from \notin racedTokens \union {0} => Useless(tokens[i].from)
    /\ \A t \in loggedOut \ racedTokens : Useless(t)

TokenInv == RefreshesAreAlone /\ SpentIsUseless /\ ExchangedOnce

(* A step that signs nothing and revokes nothing.                          *)
LEMMA NoTokenStep ==
    ASSUME TypeInv, TokenInv,
           UNCHANGED <<tokens, revoked, loggedOut, racedTokens, database, gone>>,
           \A s \in Slots, t \in DOMAIN tokens : Refreshes(s, t)' => Refreshes(s, t)
    PROVE  TokenInv'
<1>1. RefreshesAreAlone'
    BY DEF TokenInv, RefreshesAreAlone
<1>2. SpentIsUseless' /\ ExchangedOnce'
    BY DEF TokenInv, SpentIsUseless, Useless, ExchangedOnce
<1>3. QED
    BY <1>1, <1>2 DEF TokenInv

(* What a token was signed in exchange for is an earlier token.            *)
LEMMA EarlierToken ==
    ASSUME TypeInv, NEW i \in DOMAIN tokens
    PROVE  tokens[i].from \in DOMAIN tokens \union {0}
<1>1. tokens[i].from \in Nat /\ tokens[i].from < i /\ i \in 1..Len(tokens)
    BY TokenOwner, AccountsAssumption DEF AccountsAssumption, TypeInv, TypeOK
<1>2. QED
    BY <1>1 DEF TypeInv, TypeOK

(* A token that is signed for a user, in exchange for t or for none: t was *)
(* good until now, and no other request is about to exchange it.           *)
LEMMA SignKeeps ==
    ASSUME TypeInv, TokenInv, Len(tokens) < MaxTokens,
           NEW u \in Nat, NEW t \in DOMAIN tokens \union {0}, SignRefreshToken(u, t),
           UNCHANGED <<database, gone, loggedOut, racedTokens>>,
           DOMAIN users \subseteq DOMAIN users', u \in DOMAIN users',
           t \notin racedTokens \union {0} => ~Useless(t),
           \A s \in Slots, x \in DOMAIN tokens' :
               Refreshes(s, x)' => /\ x \in DOMAIN tokens /\ Refreshes(s, x)
                                   /\ x = t => x \in racedTokens
    PROVE  /\ TokenInv'
           /\ \A x \in loggedOut \ racedTokens : ~Exchanges(x)
<1> DEFINE new == Len(tokens) + 1
<1>1. /\ DOMAIN tokens' = DOMAIN tokens \union {new} /\ new \notin DOMAIN tokens
      /\ tokens'[new] = [user |-> u, from |-> t]
      /\ \A i \in DOMAIN tokens : tokens'[i] = tokens[i]
      /\ revoked' = revoked \union ({t} \ {0})
    BY AppendToken
<1>2. new \in Nat /\ new # 0 /\ 0 \notin DOMAIN tokens
    BY DEF TypeInv, TypeOK
<1>3. \A i \in DOMAIN tokens : tokens[i].from \in DOMAIN tokens \union {0}
    BY EarlierToken
<1>4. loggedOut \subseteq DOMAIN tokens
    BY DEF TypeInv, TypeOK
<1>5. \A x \in DOMAIN tokens : Useless(x) => Useless(x)'
    BY <1>1 DEF Useless
<1>6. \A i \in DOMAIN tokens :
          tokens[i].from = t => t \in racedTokens \union {0}
    BY DEF TokenInv, SpentIsUseless
<1>7. t # 0 => Useless(t)'
    BY <1>1 DEF Useless
<1>8. RefreshesAreAlone'
  <2> SUFFICES ASSUME NEW x \in DOMAIN tokens' \ racedTokens', NEW s \in Slots, Refreshes(s, x)'
               PROVE  x \notin revoked' /\ \A o \in Slots : Refreshes(o, x)' => o = s
    BY DEF RefreshesAreAlone
  <2>1. x \in DOMAIN tokens \ racedTokens /\ x # t /\ Refreshes(s, x)
    BY <1>1
  <2>2. QED
    BY <1>1, <2>1 DEF TokenInv, RefreshesAreAlone
<1>9. SpentIsUseless'
  <2>1. ASSUME NEW i \in DOMAIN tokens', tokens'[i].from \notin racedTokens' \union {0}
        PROVE  Useless(tokens[i].from)'
    <3>1. CASE i = new
      BY <1>1, <1>7, <2>1, <3>1
    <3>2. CASE i \in DOMAIN tokens
      <4>1. tokens'[i].from = tokens[i].from /\ tokens[i].from \in DOMAIN tokens
        BY <1>1, <1>3, <2>1, <3>2
      <4>2. Useless(tokens[i].from)
        BY <2>1, <3>2, <4>1 DEF TokenInv, SpentIsUseless
      <4>3. QED
        BY <1>5, <4>1, <4>2
    <3>3. QED
      BY <1>1, <2>1, <3>1, <3>2
  <2>2. \A x \in loggedOut' \ racedTokens' : Useless(x)'
    BY <1>4, <1>5 DEF TokenInv, SpentIsUseless
  <2>3. QED
    BY <2>1, <2>2 DEF SpentIsUseless
<1>10. ExchangedOnce'
  <2> SUFFICES ASSUME NEW i \in DOMAIN tokens', NEW j \in DOMAIN tokens',
                      tokens'[i].from = tokens'[j].from,
                      tokens'[i].from \notin racedTokens' \union {0}
               PROVE  i = j
    BY DEF ExchangedOnce
  <2>1. CASE i \in DOMAIN tokens /\ j \in DOMAIN tokens
    BY <1>1, <2>1 DEF TokenInv, ExchangedOnce
  <2>2. CASE i = new \/ j = new
    BY <1>1, <1>6, <2>2
  <2>3. QED
    BY <1>1, <2>1, <2>2
<1>11. \A x \in loggedOut \ racedTokens : ~Exchanges(x)
    BY <1>1, <1>2, <1>4 DEF Exchanges, TokenInv, SpentIsUseless
<1>12. QED
    BY <1>8, <1>9, <1>10, <1>11 DEF TokenInv

(* A request that waits for something else is not a refresh.               *)
LEMMA NoNewRefresh ==
    ASSUME TypeInv, NEW s \in Slots, NEW r, r.op # "refresh",
           request' = [request EXCEPT ![s] = r]
    PROVE  \A o \in Slots, t \in DOMAIN tokens' :
               Refreshes(o, t)' => t \in DOMAIN tokens /\ Refreshes(o, t) /\ o # s
<1>1. request \in [Slots -> Request]
    BY DEF TypeInv, TypeOK
<1>2. QED
    BY <1>1 DEF Refreshes, TypeInv, RequestsAreKnown

(* Whoever verifies a token second has raced with the first.               *)
LEMMA VerifiesAlone ==
    ASSUME TypeInv, TokenInv, NEW s \in Slots, NEW t \in DOMAIN tokens,
           RefreshVerifies(s, t)
    PROVE  TokenInv'
<1>1. /\ t \notin revoked /\ request' = [request EXCEPT ![s] = [op |-> "refresh", token |-> t]]
      /\ UNCHANGED <<database, gone, tokens, revoked, loggedOut>>
      /\ racedTokens' = racedTokens \union IF Refreshing(t) THEN {t} ELSE {}
      /\ request \in [Slots -> Request]
    BY DEF RefreshVerifies, MayRefresh, Wait, directory, sessions, TypeInv, TypeOK
<1>2. Refreshing(t) <=> \E o \in Slots : Refreshes(o, t)
    BY DEF Refreshing, Refreshes
<1>3. \A o \in Slots, x \in DOMAIN tokens :
          Refreshes(o, x)' <=> IF o = s THEN x = t ELSE Refreshes(o, x)
    BY <1>1 DEF Refreshes
<1>4. RefreshesAreAlone'
  <2> SUFFICES ASSUME NEW x \in DOMAIN tokens \ racedTokens', NEW o \in Slots, Refreshes(o, x)'
               PROVE  x \notin revoked /\ \A q \in Slots : Refreshes(q, x)' => q = o
    BY <1>1 DEF RefreshesAreAlone
  <2>1. CASE x = t
    BY <1>1, <1>2, <1>3, <2>1
  <2>2. CASE x # t
    BY <1>1, <1>3, <2>2 DEF TokenInv, RefreshesAreAlone
  <2>3. QED
    BY <2>1, <2>2
<1>5. SpentIsUseless' /\ ExchangedOnce'
    BY <1>1 DEF TokenInv, SpentIsUseless, Useless, ExchangedOnce
<1>6. QED
    BY <1>4, <1>5 DEF TokenInv

(* The refresh that signs was the only one with its token, unless raced.   *)
LEMMA SignsOnce ==
    ASSUME TypeInv, TokenInv, NEW s \in Slots, RefreshSigns(s)
    PROVE  TokenInv' /\ \A x \in loggedOut \ racedTokens : ~Exchanges(x)
<1> DEFINE t == request[s].token
<1>1. /\ Refreshes(s, t) /\ t \in DOMAIN tokens /\ database /\ Len(tokens) < MaxTokens
      /\ UNCHANGED <<database, users, gone, loggedOut, racedTokens>>
      /\ request' = [request EXCEPT ![s] = Idle]
      /\ SignRefreshToken(tokens[t].user, t)
    BY DEF RefreshSigns, Refreshes, Answered, directory, raced, TypeInv, RequestsAreKnown, Idle
<1>2. tokens[t].user \in DOMAIN users /\ tokens[t].user \in Nat
    BY <1>1, TokenOwner DEF TypeInv, TypeOK
<1>3. t \notin racedTokens => ~Useless(t)
    BY <1>1 DEF TokenInv, RefreshesAreAlone, Useless
<1>4. \A o \in Slots, x \in DOMAIN tokens' :
          Refreshes(o, x)' => x \in DOMAIN tokens /\ Refreshes(o, x) /\ o # s
    BY <1>1, NoNewRefresh DEF Idle
<1>5. \A o \in Slots : Refreshes(o, t) /\ o # s => t \in racedTokens
    BY <1>1 DEF TokenInv, RefreshesAreAlone
<1> HIDE DEF t
<1>6. QED
    BY <1>1, <1>2, <1>3, <1>4, <1>5, SignKeeps

(* A logout makes the token useless, or raced if a refresh is under way.   *)
LEMMA LogoutSpends ==
    ASSUME TypeInv, TokenInv, NEW t \in DOMAIN tokens, Logout(t)
    PROVE  TokenInv'
<1>1. /\ UNCHANGED <<database, gone, tokens, request>>
      /\ revoked' = revoked \union {t} /\ loggedOut' = loggedOut \union {t}
      /\ racedTokens' = racedTokens \union IF Refreshing(t) THEN {t} ELSE {}
    BY DEF Logout, directory
<1>2. RefreshesAreAlone'
  <2> SUFFICES ASSUME NEW x \in DOMAIN tokens \ racedTokens', NEW o \in Slots, Refreshes(o, x)
               PROVE  x \notin revoked' /\ \A q \in Slots : Refreshes(q, x) => q = o
    BY <1>1 DEF RefreshesAreAlone, Refreshes
  <2>1. x # t
    BY <1>1 DEF Refreshing, Refreshes
  <2>2. QED
    BY <1>1, <2>1 DEF TokenInv, RefreshesAreAlone
<1>3. SpentIsUseless' /\ ExchangedOnce'
    BY <1>1 DEF TokenInv, SpentIsUseless, Useless, ExchangedOnce
<1>4. QED
    BY <1>2, <1>3 DEF TokenInv

(* A restart forgets what was revoked: without a database the users of the *)
(* tokens go too, with one the tokens are among the raced from now on.     *)
LEMMA RestartSpends ==
    ASSUME TypeInv, TokenInv, Restart
    PROVE  TokenInv'
<1>1. /\ UNCHANGED <<database, tokens, loggedOut>> /\ revoked' = {}
      /\ request' = [s \in Slots |-> Idle]
      /\ gone' = IF database THEN gone ELSE DOMAIN users
      /\ racedTokens' = racedTokens \union IF database THEN revoked ELSE {}
    BY DEF Restart
<1>2. RefreshesAreAlone'
    BY <1>1 DEF RefreshesAreAlone, Refreshes, Idle
<1>3. SpentIsUseless'
  <2>1. CASE database
    BY <1>1, <2>1 DEF TokenInv, SpentIsUseless, Useless
  <2>2. CASE ~database
    <3>1. \A t \in DOMAIN tokens : Useless(t)'
      BY <1>1, <2>2, TokenOwner DEF TypeInv, Useless
    <3>2. \A i \in DOMAIN tokens : tokens[i].from # 0 => tokens[i].from \in DOMAIN tokens
      BY EarlierToken
    <3>3. QED
      BY <1>1, <3>1, <3>2 DEF SpentIsUseless, TypeInv, TypeOK
  <2>3. QED
    BY <2>1, <2>2
<1>4. ExchangedOnce'
    BY <1>1 DEF TokenInv, ExchangedOnce
<1>5. QED
    BY <1>2, <1>3, <1>4 DEF TokenInv

EndsStep == \A t \in loggedOut \ racedTokens : ~Exchanges(t)

(* Tokens that were spent stay useless, and nothing is signed for them.    *)
LEMMA NextTokens == TypeInv /\ TokenInv /\ [Next]_vars => TokenInv' /\ EndsStep
<1> SUFFICES ASSUME TypeInv, TokenInv, [Next]_vars PROVE TokenInv' /\ EndsStep
    OBVIOUS
<1>1. tokens' = tokens => EndsStep
    BY DEF EndsStep, Exchanges
<1>2. ASSUME NEW u \in Present, Login(u)
      PROVE  TokenInv' /\ EndsStep
  <2>1. u \in DOMAIN users /\ u \in Nat /\ users' = users /\ request' = request
    BY <1>2 DEF Login, Present, directory, TypeInv, TypeOK
  <2>2. \A s \in Slots, x \in DOMAIN tokens' :
            Refreshes(s, x)' => x \in DOMAIN tokens /\ Refreshes(s, x) /\ x # 0
    BY <2>1 DEF Refreshes, TypeInv, TypeOK, RequestsAreKnown
  <2>3. QED
    BY <1>2, <2>1, <2>2, SignKeeps DEF Login, directory, raced, EndsStep
<1>3. ASSUME NEW t \in DOMAIN tokens, Logout(t)
      PROVE  TokenInv' /\ EndsStep
    BY <1>1, <1>3, LogoutSpends DEF Logout
<1>4. CASE Restart
    BY <1>1, <1>4, RestartSpends DEF Restart
<1>5. CASE UNCHANGED vars
    BY <1>1, <1>5, NoTokenStep DEF vars, Refreshes
<1>6. CASE ~database
  <2>1. \A s \in Slots, x \in DOMAIN tokens' : ~Refreshes(s, x)'
    BY <1>6, NextType, SameDatabase DEF Refreshes, TypeInv, RequestsAreKnown, Idle
  <2>2. ASSUME NEW n \in Names, NEW w \in Wallets \union {None}, Register(n, w)
        PROVE  TokenInv' /\ EndsStep
    <3>1. DOMAIN users' = DOMAIN users \union {Len(users) + 1} /\ Len(users) + 1 \in Nat
      BY <2>2, AppendUser DEF Register, StoreCreate, Account, TypeInv, TypeOK
    <3>2. QED
      BY <2>1, <2>2, <3>1, SignKeeps DEF Register, raced, EndsStep
  <2>3. ASSUME NEW t \in DOMAIN tokens, Refresh(t)
        PROVE  TokenInv' /\ EndsStep
    <3>1. /\ users' = users /\ tokens[t].user \in DOMAIN users /\ tokens[t].user \in Nat
          /\ ~Useless(t)
      BY <2>3, TokenOwner
      DEF Refresh, MayRefresh, Useless, Present, directory, TypeInv, TypeOK
    <3>2. /\ Len(tokens) < MaxTokens /\ SignRefreshToken(tokens[t].user, t)
          /\ UNCHANGED <<database, gone, loggedOut, racedTokens>>
      BY <2>3 DEF Refresh, directory, raced
    <3>3. QED
      BY <2>1, <3>1, <3>2, SignKeeps DEF EndsStep
  <2>4. ASSUME NEW u \in Present, NEW w \in Wallets, LinkWallet(u, w)
        PROVE  TokenInv' /\ EndsStep
    BY <1>1, <2>1, <2>4, NoTokenStep DEF LinkWallet, sessions, raced
  <2>5. QED
    BY <1>2, <1>3, <1>4, <1>5, <1>6, <2>2, <2>3, <2>4, MemorySteps
<1>7. CASE database
  <2>1. ASSUME NEW s \in Slots, NEW t \in DOMAIN tokens, RefreshVerifies(s, t)
        PROVE  TokenInv' /\ EndsStep
    BY <1>1, <2>1, VerifiesAlone DEF RefreshVerifies, sessions
  <2>2. ASSUME NEW s \in Slots, RegisterCreates(s)
        PROVE  TokenInv' /\ EndsStep
    <3>0. /\ request' = [request EXCEPT ![s] = Idle] /\ Idle.op # "refresh"
          /\ 0 \notin DOMAIN tokens
      BY <2>2 DEF RegisterCreates, Answered, Idle, TypeInv, TypeOK
    <3>1. \A o \in Slots, x \in DOMAIN tokens' :
              Refreshes(o, x)' => x \in DOMAIN tokens /\ Refreshes(o, x) /\ x # 0
      BY <3>0, NoNewRefresh
    <3>2. CASE UNCHANGED <<users, tokens, revoked>>
      BY <1>1, <2>2, <3>1, <3>2, NoTokenStep DEF RegisterCreates, raced
    <3>3. CASE SignRefreshToken(Len(users) + 1, 0)
               /\ users' = Append(users, [name |-> request[s].name, wallet |-> request[s].wallet])
      <4>1. request[s] \in Request /\ request[s].op = "register"
        BY <2>2 DEF RegisterCreates, TypeInv, TypeOK
      <4>2. [name |-> request[s].name, wallet |-> request[s].wallet] \in Account
        BY <4>1, RequestForms DEF Account
      <4>3. DOMAIN users' = DOMAIN users \union {Len(users) + 1} /\ Len(users) + 1 \in Nat
        BY <2>2, <3>3, <4>2, AppendUser DEF RegisterCreates, TypeInv, TypeOK
      <4>4. QED
        BY <2>2, <3>1, <3>3, <4>3, SignKeeps DEF RegisterCreates, raced, EndsStep
    <3>4. QED
      BY <2>2, <3>2, <3>3 DEF RegisterCreates
  <2>3. ASSUME NEW s \in Slots,
               \/ \E n \in Names, w \in Wallets \union {None} : RegisterChecks(s, n, w)
               \/ \E u \in Present, w \in Wallets : LinkFindsOwner(s, u, w)
               \/ LinkFindsUser(s) \/ LinkUpdates(s)
               \/ \E w \in Wallets : SyncFinds(s, w)
               \/ SyncCreates(s)
        PROVE  TokenInv' /\ EndsStep
    <3>1. UNCHANGED <<tokens, revoked, loggedOut, racedTokens, database, gone>>
      BY <2>3 DEF RegisterChecks, LinkFindsOwner, LinkFindsUser, LinkUpdates, SyncFinds,
                  SyncCreates, sessions, directory, raced
    <3>2. \E r : r.op # "refresh" /\ request' = [request EXCEPT ![s] = r]
      <4>1. request[s].op = "find" => [request[s] EXCEPT !.op = "link"].op = "link"
        <5>1. request[s] \in Request
          BY DEF TypeInv, TypeOK
        <5>2. QED
          BY <5>1 DEF Request, Idle
      <4>2. QED
        BY <2>3, <4>1 DEF RegisterChecks, LinkFindsOwner, LinkFindsUser, LinkUpdates,
                          SyncFinds, SyncCreates, Wait, Answered, Idle
    <3>3. QED
      BY <1>1, <3>1, <3>2, NoNewRefresh, NoTokenStep
  <2>4. QED
    BY <1>2, <1>3, <1>4, <1>5, <1>7, <2>1, <2>2, <2>3, DatabaseSteps, SignsOnce
    DEF WithDatabase, EndsStep
<1>8. QED
    BY <1>6, <1>7

(* There are no tokens at first.                                           *)
LEMMA InitTokens == Init => TokenInv
<1> SUFFICES ASSUME Init PROVE TokenInv
    OBVIOUS
<1>1. DOMAIN tokens = {}
    BY InitType DEF Init, TypeInv, TypeOK
<1>2. QED
    BY <1>1 DEF Init, TokenInv, RefreshesAreAlone, SpentIsUseless, ExchangedOnce

(***************************************************************************)
(* POST /refresh exchanges a token once (authService.ts: verifyRefreshToken*)
(* and rotateRefreshToken).  Without a database that holds across restarts,*)
(* as the users of the forgotten tokens are gone; with one, of refreshes   *)
(* that do not overlap, until the backend restarts.                        *)
(***************************************************************************)
THEOREM OneExchange == Spec => []ExchangedOnce
<1>1. TokenInv => ExchangedOnce
    BY DEF TokenInv
<1>2. QED
    BY <1>1, InitType, NextType, InitTokens, NextTokens, PTL DEF Spec

(***************************************************************************)
(* After POST /logout nothing is signed in exchange for the token, under   *)
(* the same proviso.                                                       *)
(***************************************************************************)
THEOREM SessionsEnd == Spec => SessionEnds
<1>1. EndsStep => [\A t \in loggedOut \ racedTokens : ~Exchanges(t)]_vars
    BY DEF EndsStep
<1>2. QED
    BY <1>1, InitType, NextType, InitTokens, NextTokens, PTL DEF Spec, SessionEnds
=============================================================================
