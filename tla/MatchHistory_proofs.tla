------------------------ MODULE MatchHistory_proofs ------------------------
(***************************************************************************)
(* What the table of matches guarantees for any number of games, uploads,  *)
(* lost replies, failed queries and online results.  After the types:      *)
(*   Told       what is told of local games, in the browser and on its way *)
(*   ToldInv    entries and rows are named after their games               *)
(*   StoreInv   one row per game, when uploads do not overlap              *)
(*   KeptInv    no game is lost, when none ends while the wallet connects  *)
(*   RateInv    ratings are the replay of the rows, when no transactions   *)
(*              about a common player overlap                              *)
(* TableStep says once what any step does to what is told and to the table.*)
(***************************************************************************)
EXTENDS MatchHistory, SequenceTheorems, FiniteSetTheorems, NaturalsInduction,
        WellFoundedInduction, TLAPS

-----------------------------------------------------------------------------
(* Types                                                                   *)

Steps == {"bot", "makeBot", "opponent", "makeOpponent", "find", "insert", "done", "failed"}

Request == [step : Steps, items : Seq(Entries)]

Save ==
    [step : {"none", "read", "saved", "failed"}, x : Players, o : Players,
     winner : Winners, elo : [{"X", "O"} -> Nat]]

TypeInv ==
    /\ TypeOK
    /\ syncs \in Seq(Request)
    /\ \A n \in 1..Len(syncs) : syncs[n].step = "insert" => syncs[n].items # <<>>
    /\ saves \in [Saves -> Save]
    /\ tab \in [step : {"off", "posted", "fetching", "connected"}, call : Nat]
    /\ setback \in BOOLEAN /\ faults \in Nat /\ connects \in Nat /\ games \in 0..MaxGames

(* A set of natural numbers that is not empty has a least element.         *)
LEMMA LeastNumber ==
    ASSUME NEW N \in SUBSET Nat, N # {}
    PROVE  \E m \in N : \A k \in N : m <= k
<1> DEFINE R == {ss \in Nat \X Nat : ss[1] < ss[2]}
<1>1. IsWellFoundedOn(R, Nat)
    BY NatLessThanWellFounded DEF OpToRel
<1>2. \A k, m \in Nat : ~(<<k, m>> \in R) => m <= k
    OBVIOUS
<1> HIDE DEF R
<1>3. N \subseteq Nat
    OBVIOUS
<1>4. \E m \in N : \A k \in N : ~(<<k, m>> \in R)
    BY <1>1, <1>3, WFMin, Zenon
<1>5. QED
    BY <1>2, <1>3, <1>4, Zenon

(* Counted from the end, every number up to its size is that of an element *)
(* of a set of numbers.                                                    *)
From(S, n) == {m \in S : m >= n}

(* One number more to count from adds one element or none.                 *)
LEMMA OneMoreFrom ==
    ASSUME NEW S \in SUBSET Nat, IsFiniteSet(S), NEW n \in Nat
    PROVE  /\ Cardinality(From(S, n)) \in Nat /\ Cardinality(From(S, n + 1)) \in Nat
           /\ n \in S => Cardinality(From(S, n)) = Cardinality(From(S, n + 1)) + 1
           /\ n \notin S => Cardinality(From(S, n)) = Cardinality(From(S, n + 1))
<1>1. /\ From(S, n) \subseteq S /\ From(S, n + 1) \subseteq S
      /\ \A m \in S : m \in From(S, n) <=> m \in From(S, n + 1) \/ m = n
      /\ n \notin From(S, n + 1)
  <2>1. \A m \in S : m \in Nat
    OBVIOUS
  <2>2. \A m \in Nat : m >= n <=> m >= n + 1 \/ m = n
    OBVIOUS
  <2>3. QED
    BY <2>1, <2>2 DEF From
<1>2. /\ IsFiniteSet(From(S, n + 1))
      /\ Cardinality(From(S, n)) \in Nat /\ Cardinality(From(S, n + 1)) \in Nat
    BY <1>1, FS_Subset, FS_CardinalityType
<1>3. CASE n \in S
  <2>1. From(S, n) = From(S, n + 1) \union {n} /\ n \notin From(S, n + 1)
    BY <1>1, <1>3
  <2>2. QED
    BY <1>2, <1>3, <2>1, FS_AddElement
<1>4. CASE n \notin S
  <2>1. From(S, n) = From(S, n + 1)
    BY <1>1, <1>4
  <2>2. QED
    BY <1>2, <1>4, <2>1
<1>5. QED
    BY <1>3, <1>4

(* Every number up to the size of a set of numbers is the place of one of  *)
(* them, counted from the greatest.                                        *)
LEMMA CountDown ==
    ASSUME NEW L \in Nat, NEW S \in SUBSET (1..L), NEW i \in 1..Cardinality(S)
    PROVE  \E n \in S : Cardinality(From(S, n)) = i
<1>1. S \in SUBSET Nat /\ IsFiniteSet(S) /\ Cardinality(S) \in Nat
  <2>1. IsFiniteSet(1..L) /\ 1..L \subseteq Nat
    BY FS_Interval
  <2>2. IsFiniteSet(S)
    BY <2>1, FS_Subset
  <2>3. QED
    BY <2>1, <2>2, FS_CardinalityType
<1>2. From(S, 1) = S /\ From(S, L + 1) = {}
  <2>1. \A m \in S : m \in 1..L /\ m >= 1 /\ ~(m >= L + 1)
    OBVIOUS
  <2>2. QED
    BY <2>1 DEF From
<1> DEFINE Good == {k \in Nat : k <= L /\ Cardinality(From(S, L + 1 - k)) >= i}
<1>3. L \in Good
    BY <1>1, <1>2
<1>4. PICK k \in Good : \A j \in Good : k <= j
  <2> HIDE DEF Good
  <2>1. Good \subseteq Nat
    BY DEF Good
  <2>2. QED
    BY <1>3, <2>1, LeastNumber
<1>5. k \in Nat /\ k <= L /\ Cardinality(From(S, L + 1 - k)) >= i
    BY <1>4
<1>6. k # 0
  <2>1. Cardinality(From(S, L + 1)) = 0
    BY <1>2, FS_EmptySet
  <2>2. QED
    BY <1>5, <2>1
<1>7. k - 1 \in Nat /\ ~(Cardinality(From(S, L + 1 - (k - 1))) >= i)
    BY <1>4, <1>5, <1>6
<1> HIDE DEF Good
<1>8. PICK n \in Nat : n = L + 1 - k
    BY <1>5
<1>9. L + 1 - (k - 1) = n + 1
    BY <1>5, <1>8
<1>10. Cardinality(From(S, n)) >= i /\ ~(Cardinality(From(S, n + 1)) >= i)
    BY <1>5, <1>7, <1>8, <1>9
<1>11. n \in S /\ Cardinality(From(S, n)) = Cardinality(From(S, n + 1)) + 1
    BY <1>1, <1>10, OneMoreFrom
<1>12. Cardinality(From(S, n + 1)) \in Nat
    BY <1>1, OneMoreFrom
<1>13. QED
    BY <1>1, <1>10, <1>11, <1>12

(* What getWalletHistory returns are rows of the owner.                    *)
LEMMA NewestIsOwners ==
    ASSUME rows \in Seq(Rows), NEW i \in 1..Cardinality(OwnersRows)
    PROVE  Newest(i) \in OwnersRows
<1>1. Len(rows) \in Nat /\ OwnersRows \in SUBSET (1..Len(rows))
    BY LenProperties DEF OwnersRows
<1>2. \E n \in OwnersRows : Cardinality({m \in OwnersRows : m >= n}) = i
    BY <1>1, CountDown DEF From
<1>3. QED
    BY <1>2 DEF Newest

(* A table that grows makes no entry or row ill formed.                    *)
LEMMA TypesGrow ==
    ASSUME Len(rows) \in Nat, Len(rows') \in Nat, Len(rows) <= Len(rows')
    PROVE  Entries \subseteq Entries' /\ Rows \subseteq Rows' /\ Request \subseteq Request'
<1>1. Rooms \subseteq Rooms'
    BY DEF Rooms
<1>2. Entries \subseteq Entries' /\ Rows \subseteq Rows'
    BY <1>1 DEF Entries, Rows, Origins
<1>3. Seq(Entries) \subseteq Seq(Entries')
    BY <1>2, SeqMonotonic
<1>4. QED
    BY <1>2, <1>3 DEF Request

-----------------------------------------------------------------------------
(* What syncWalletHistory does with one request                            *)

Asks(n) ==
    /\ UNCHANGED <<rows, setback>> /\ syncs'[n].step \in Steps
    /\ syncs'[n].items = syncs[n].items
    /\ syncs'[n].step = "insert" =>
          syncs[n].items # <<>> /\ ~IsDuplicate(Head(syncs[n].items))
    /\ ~Working(syncs'[n]) => syncs[n].items = <<>>

Skips(n) ==
    /\ UNCHANGED <<rows, setback>> /\ syncs'[n].step = "find"
    /\ syncs[n].items # <<>> /\ IsDuplicate(Head(syncs[n].items))
    /\ syncs'[n].items = Tail(syncs[n].items)

Stores(n) ==
    /\ syncs[n].step = "insert" /\ syncs[n].items # <<>>
    /\ rows' = Append(rows, RowOf(Head(syncs[n].items)))
    /\ UNCHANGED setback /\ syncs'[n].step = "find"
    /\ syncs'[n].items = Tail(syncs[n].items)

GivesUp(n) ==
    /\ UNCHANGED rows /\ setback' = TRUE
    /\ syncs'[n].step = "failed" /\ syncs'[n].items = <<>>

OthersWait(n) ==
    /\ Len(syncs') = Len(syncs) /\ \A m \in 1..Len(syncs) \ {n} : syncs'[m] = syncs[m]
    /\ syncs' = [syncs EXCEPT ![n] = syncs'[n]]
    /\ syncs'[n] = [step |-> syncs'[n].step, items |-> syncs'[n].items]

(* The request stays in the sequence, as a record of one step and items.   *)
LEMMA Replaced ==
    ASSUME NEW S, NEW T, syncs \in Seq([step : S, items : T]), NEW n \in 1..Len(syncs),
           NEW call, syncs' = [syncs EXCEPT ![n] = call],
           call = [step |-> call.step, items |-> call.items]
    PROVE  OthersWait(n) /\ syncs'[n] = call
<1>1. syncs \in [1..Len(syncs) -> [step : S, items : T]] /\ Len(syncs) \in Nat
    BY LenProperties
<1>2. syncs' \in [1..Len(syncs) -> [step : S, items : T] \union {call}]
    BY <1>1
<1>3. Len(syncs') = Len(syncs)
    BY <1>1, <1>2
<1>4. QED
    BY <1>1, <1>3 DEF OthersWait

(* A request that goes on to another query keeps its items.                *)
LEMMA Moves ==
    ASSUME TypeInv, NEW n \in 1..Len(syncs), NEW step \in Steps, Goes(n, step)
    PROVE  /\ OthersWait(n) /\ syncs'[n].step = step /\ syncs'[n].items = syncs[n].items
           /\ syncs'[n] \in [step : Steps, items : Seq(Entries)]
<1>1. syncs[n] \in Request
    BY ElementOfSeq DEF TypeInv
<1> DEFINE call == [syncs[n] EXCEPT !.step = step]
<1>2. /\ syncs' = [syncs EXCEPT ![n] = call]
      /\ call = [step |-> call.step, items |-> call.items]
    BY <1>1 DEF Goes, Request
<1> HIDE DEF call
<1>3. OthersWait(n) /\ syncs'[n] = call
    BY <1>2, Replaced DEF TypeInv, Request
<1> USE DEF call
<1>4. QED
    BY <1>1, <1>3 DEF Request

(* A request that fails gives up its items and marks the setback.          *)
LEMMA Failing ==
    ASSUME TypeInv, NEW n \in 1..Len(syncs), Fails(n)
    PROVE  OthersWait(n) /\ GivesUp(n)
<1> DEFINE call == [step |-> "failed", items |-> <<>>]
<1>1. /\ syncs' = [syncs EXCEPT ![n] = call]
      /\ call = [step |-> call.step, items |-> call.items]
    BY DEF Fails
<1> HIDE DEF call
<1>2. OthersWait(n) /\ syncs'[n] = call
    BY <1>1, Replaced DEF TypeInv, Request
<1> USE DEF call
<1>3. QED
    BY <1>2 DEF Fails, GivesUp

(* A request that only asks a query leaves the table alone.                *)
LEMMA Asking ==
    ASSUME TypeInv, NEW n \in 1..Len(syncs), NEW step \in Steps \ {"insert", "done", "failed"},
           Goes(n, step), UNCHANGED <<rows, setback>>
    PROVE  OthersWait(n) /\ Asks(n)
BY Moves DEF Asks, Working

(* One turn of the loop *)
LEMMA Finding ==
    ASSUME TypeInv, NEW n \in 1..Len(syncs), syncs[n].step = "find", FindDuplicate(n)
    PROVE  OthersWait(n) /\ (Asks(n) \/ Skips(n))
<1> DEFINE items == syncs[n].items
<1>1. syncs[n] \in Request /\ UNCHANGED <<rows, setback>>
    BY ElementOfSeq DEF TypeInv, FindDuplicate, Stays
<1>2. CASE items = <<>>
  <2>1. Goes(n, "done")
    BY <1>2 DEF FindDuplicate, Goes
  <2>2. QED
    BY <1>1, <1>2, <2>1, Moves DEF Steps, Asks
<1>3. CASE items # <<>> /\ IsDuplicate(Head(items))
  <2> DEFINE call == [syncs[n] EXCEPT !.items = Tail(items)]
  <2>1. /\ syncs' = [syncs EXCEPT ![n] = call]
        /\ call = [step |-> call.step, items |-> call.items]
    <3> DEFINE choice == IF items = <<>> THEN [syncs[n] EXCEPT !.step = "done"]
                         ELSE IF IsDuplicate(Head(items)) THEN call
                         ELSE [syncs[n] EXCEPT !.step = "insert"]
    <3>1. choice = call
      BY <1>3
    <3>2. syncs' = [syncs EXCEPT ![n] = choice]
      BY DEF FindDuplicate
    <3> HIDE DEF choice, call
    <3>3. syncs' = [syncs EXCEPT ![n] = call]
      BY <3>1, <3>2
    <3>4. call = [step |-> call.step, items |-> call.items]
      <4>1. \A t : [syncs[n] EXCEPT !.items = t] = [step |-> syncs[n].step, items |-> t]
        BY <1>1 DEF Request
      <4>2. QED
        BY <4>1 DEF call
    <3>5. QED
      BY <3>3, <3>4
  <2> HIDE DEF call
  <2>2. OthersWait(n) /\ syncs'[n] = call
    BY <2>1, Replaced DEF TypeInv, Request
  <2> USE DEF call
  <2>3. syncs'[n].step = "find" /\ syncs'[n].items = Tail(items)
    BY <1>1, <2>2 DEF Request
  <2>4. QED
    BY <1>1, <1>3, <2>2, <2>3 DEF Skips
<1>4. CASE items # <<>> /\ ~IsDuplicate(Head(items))
  <2>1. Goes(n, "insert")
    BY <1>4 DEF FindDuplicate, Goes
  <2>2. QED
    BY <1>1, <1>4, <2>1, Moves DEF Steps, Asks, Working
<1>5. QED
    BY <1>2, <1>3, <1>4

(* The insert of a request stores its first item.                          *)
LEMMA Inserting ==
    ASSUME TypeInv, NEW n \in 1..Len(syncs), syncs[n].step = "insert", Insert(n)
    PROVE  OthersWait(n) /\ Stores(n)
<1>1. syncs[n] \in Request /\ syncs[n].items # <<>>
    BY ElementOfSeq DEF TypeInv
<1> DEFINE call == [syncs[n] EXCEPT !.step = "find", !.items = Tail(syncs[n].items)]
<1>2. /\ syncs' = [syncs EXCEPT ![n] = call]
      /\ call = [step |-> call.step, items |-> call.items]
    BY <1>1 DEF Insert, Request
<1> HIDE DEF call
<1>3. OthersWait(n) /\ syncs'[n] = call
    BY <1>2, Replaced DEF TypeInv, Request
<1> USE DEF call
<1>4. syncs'[n].step = "find" /\ syncs'[n].items = Tail(syncs[n].items)
    BY <1>1, <1>3 DEF Request
<1>5. QED
    BY <1>1, <1>3, <1>4 DEF Insert, Stores

(* Whatever a request does next, it is one of these.                       *)
LEMMA SyncEffect ==
    ASSUME TypeInv, NEW n \in 1..Len(syncs), SyncStep(n) \/ SyncFails(n)
    PROVE  /\ UNCHANGED <<elo, saves, local, shown, tab, connects, games>>
           /\ faults' \in Nat /\ synthetic' \subseteq Synthetic
           /\ Working(syncs[n]) /\ OthersWait(n)
           /\ Asks(n) \/ Skips(n) \/ Stores(n) \/ GivesUp(n)
<1>1. CASE SyncFails(n)
  <2>1. Fails(n)
    BY <1>1 DEF SyncFails
  <2>2. OthersWait(n) /\ GivesUp(n)
    BY <2>1, Failing
  <2>3. QED
    BY <1>1, <2>1, <2>2 DEF SyncFails, Fails, browser, TypeInv, TypeOK
<1>2. ASSUME SyncStep(n)
      PROVE  UNCHANGED <<elo, saves, local, shown, tab, faults, connects, games>>
    BY <1>2 DEF SyncStep, browser
<1>3. ASSUME NEW label \in Synthetic, NEW found \in Steps \ {"insert", "done", "failed"},
             NEW missing \in Steps \ {"insert", "done", "failed"},
             FindSynthetic(n, label, found, missing)
      PROVE  OthersWait(n) /\ Asks(n) /\ synthetic' \subseteq Synthetic
    BY <1>3, Asking DEF FindSynthetic, Stays, TypeInv, TypeOK
<1>4. ASSUME NEW label \in Synthetic, NEW made \in Steps \ {"insert", "done", "failed"},
             MakeSynthetic(n, label, made)
      PROVE  OthersWait(n) /\ (Asks(n) \/ GivesUp(n)) /\ synthetic' \subseteq Synthetic
  <2>1. CASE label \in synthetic
    BY <1>4, <2>1, Failing DEF MakeSynthetic, Fails, TypeInv, TypeOK
  <2>2. CASE label \notin synthetic
    BY <1>4, <2>2, Asking DEF MakeSynthetic, TypeInv, TypeOK
  <2>3. QED
    BY <2>1, <2>2
<1>5. CASE SyncStep(n) /\ syncs[n].step \in {"bot", "makeBot", "opponent", "makeOpponent"}
  <2>1. \/ FindSynthetic(n, "bot", "opponent", "makeBot")
        \/ MakeSynthetic(n, "bot", "opponent")
        \/ FindSynthetic(n, "opponent", "find", "makeOpponent")
        \/ MakeSynthetic(n, "opponent", "find")
    BY <1>5 DEF SyncStep
  <2>2. OthersWait(n) /\ (Asks(n) \/ GivesUp(n)) /\ synthetic' \subseteq Synthetic
    BY <2>1, <1>3, <1>4 DEF Synthetic, Steps
  <2>3. QED
    BY <1>2, <1>5, <2>2 DEF Working, TypeInv
<1>6. CASE SyncStep(n) /\ syncs[n].step = "find"
  <2>1. FindDuplicate(n)
    BY <1>6 DEF SyncStep
  <2>2. QED
    BY <1>2, <1>6, <2>1, Finding DEF Working, TypeInv, TypeOK, FindDuplicate, Stays
<1>7. CASE SyncStep(n) /\ syncs[n].step = "insert"
  <2>1. Insert(n)
    BY <1>7 DEF SyncStep
  <2>2. QED
    BY <1>2, <1>7, <2>1, Inserting DEF Working, TypeInv, TypeOK, Insert
<1>8. QED
    BY <1>1, <1>5, <1>6, <1>7 DEF SyncStep

-----------------------------------------------------------------------------
(* Every step keeps the types.                                             *)

(* An entry makes a row.                                                   *)
LEMMA RowTyped == ASSUME NEW e \in Entries PROVE RowOf(e) \in Rows
BY DEF RowOf, Entries, Rows, OpponentOf, Synthetic, Players

(* An entry stays an entry of the same game when it is uploaded.           *)
LEMMA ToServerTyped ==
    ASSUME NEW e \in Entries
    PROVE  /\ ToServer(e) \in Entries /\ ToServer(e).origin = e.origin
           /\ ToServer(e).id = e.id /\ ToServer(e).complete = e.complete
<1>1. e.date \in Dates \union {NoDate}
    BY DEF Entries
<1>2. Read[e.date] \in Dates \union {NoDate}
    BY <1>1, HistoryAssumption
<1>3. ToServer(e) = [e EXCEPT !.date = Read[e.date]]
    BY DEF ToServer
<1>4. QED
    BY <1>2, <1>3 DEF Entries

(* A row of the owner comes back as an entry that is not complete.         *)
LEMMA FromServerTyped ==
    ASSUME rows \in Seq(Rows), NEW n \in OwnersRows
    PROVE  FromServer(n) \in Entries /\ ~FromServer(n).complete
<1>1. n \in 1..Len(rows) /\ rows[n] \in Rows
    BY ElementOfSeq DEF OwnersRows
<1>2. <<"row", n>> \in Rooms
    BY <1>1 DEF Rooms
<1>3. QED
    BY <1>1, <1>2 DEF FromServer, Entries, Rows, Modes

(* A table that grows leaves what was typed as it was.                     *)
LEMMA StillTyped ==
    ASSUME TypeInv, rows' \in Seq(Rows'), Len(rows) <= Len(rows')
    PROVE  /\ syncs \in Seq(Request')
           /\ local \in Seq(Entries') /\ shown \in Seq(Entries')
<1>1. Len(rows) \in Nat /\ Len(rows') \in Nat
    BY LenProperties DEF TypeInv, TypeOK
<1>2. Entries \subseteq Entries' /\ Request \subseteq Request'
    BY <1>1, TypesGrow
<1>3. QED
    BY <1>2, SeqMonotonic DEF TypeInv, TypeOK

(* What an appended row does to the table                                  *)
LEMMA RowAdded ==
    ASSUME TypeInv, NEW row \in Rows, rows' = Append(rows, row)
    PROVE  /\ rows' \in Seq(Rows') /\ Len(rows) <= Len(rows')
           /\ Len(rows) \in Nat /\ Len(rows') = Len(rows) + 1
           /\ \A k \in 1..Len(rows) : rows'[k] = rows[k]
           /\ rows'[Len(rows) + 1] = row
<1>1. /\ rows \in Seq(Rows) /\ rows' \in Seq(Rows) /\ Len(rows) \in Nat
      /\ Len(rows') = Len(rows) + 1
      /\ \A k \in 1..Len(rows) : rows'[k] = rows[k]
      /\ rows'[Len(rows) + 1] = row
    BY AppendProperties, LenProperties DEF TypeInv, TypeOK
<1>2. Rows \subseteq Rows'
    BY <1>1, TypesGrow
<1>3. QED
    BY <1>1, <1>2, SeqMonotonic

(* The next query of a request keeps the types, and so does its failure.   *)
LEMMA SyncTyped ==
    ASSUME TypeInv, NEW n \in 1..Len(syncs), SyncStep(n) \/ SyncFails(n)
    PROVE  TypeInv'
<1>1. /\ UNCHANGED <<elo, saves, local, shown, tab, connects, games>>
      /\ faults' \in Nat /\ synthetic' \subseteq Synthetic
      /\ OthersWait(n) /\ (Asks(n) \/ Skips(n) \/ Stores(n) \/ GivesUp(n))
    BY SyncEffect
<1>2. /\ syncs \in Seq(Request) /\ syncs[n] \in Request /\ Len(syncs) \in Nat
      /\ syncs[n].items \in Seq(Entries)
  <2>1. syncs \in Seq(Request) /\ syncs[n] \in Request /\ Len(syncs) \in Nat
    BY ElementOfSeq, LenProperties DEF TypeInv
  <2>2. QED
    BY <2>1 DEF Request
<1>3. syncs[n].items # <<>> =>
          Head(syncs[n].items) \in Entries /\ Tail(syncs[n].items) \in Seq(Entries)
    BY <1>2, HeadTailProperties
<1>4. rows' \in Seq(Rows') /\ Len(rows) <= Len(rows')
  <2>1. CASE Stores(n)
    BY <1>3, <2>1, RowTyped, RowAdded DEF Stores
  <2>2. CASE UNCHANGED rows
    <3>1. Rows' = Rows
      BY <2>2 DEF Rows, Rooms, Origins
    <3>2. QED
      BY <2>2, <3>1, LenProperties DEF TypeInv, TypeOK
  <2>3. QED
    BY <1>1, <2>1, <2>2 DEF Asks, Skips, GivesUp
<1>5. /\ syncs'[n].step \in Steps /\ syncs'[n].items \in Seq(Entries)
      /\ syncs'[n].step = "insert" => syncs'[n].items # <<>>
      /\ setback' \in BOOLEAN
  <2>1. CASE Asks(n)
    BY <1>2, <2>1 DEF Asks, TypeInv
  <2>2. CASE Skips(n)
    BY <1>3, <2>2 DEF Skips, TypeInv, Steps
  <2>3. CASE Stores(n)
    BY <1>3, <2>3 DEF Stores, TypeInv, Steps
  <2>4. CASE GivesUp(n)
    BY <2>4 DEF GivesUp, Steps
  <2>5. QED
    BY <1>1, <2>1, <2>2, <2>3, <2>4
<1>6. syncs \in Seq(Request') /\ local \in Seq(Entries') /\ shown \in Seq(Entries')
    BY <1>4, StillTyped
<1>7. syncs' \in Seq(Request')
  <2>1. Entries \subseteq Entries'
    BY <1>2, <1>4, TypesGrow, LenProperties DEF TypeInv, TypeOK
  <2>2. syncs'[n].items \in Seq(Entries')
    BY <1>5, <2>1, SeqMonotonic
  <2>3. syncs'[n] \in Request'
    BY <1>1, <1>5, <2>2 DEF OthersWait, Request
  <2>4. [syncs EXCEPT ![n] = syncs'[n]] \in Seq(Request')
    BY <1>6, <2>3, ExceptSeq
  <2>5. QED
    BY <1>1, <2>4 DEF OthersWait
<1>8. TypeOK'
    BY <1>1, <1>4, <1>6 DEF TypeInv, TypeOK, OthersWait
<1>9. \A m \in 1..Len(syncs') : syncs'[m].step = "insert" => syncs'[m].items # <<>>
    BY <1>1, <1>5 DEF TypeInv, OthersWait
<1>10. QED
    BY <1>1, <1>5, <1>7, <1>8, <1>9 DEF TypeInv

(* With the same table, the types are the same.                            *)
LEMMA SameEntries ==
    ASSUME UNCHANGED rows
    PROVE  Entries' = Entries /\ Rows' = Rows /\ Request' = Request
<1>1. Rooms' = Rooms
    BY DEF Rooms
<1>2. Entries' = Entries /\ Rows' = Rows
    BY <1>1 DEF Entries, Rows, Origins
<1>3. QED
    BY <1>2 DEF Request

(* A step that changes saves and faults only keeps the types.              *)
LEMMA SameTypes ==
    ASSUME TypeInv, UNCHANGED <<rows, synthetic, elo, syncs, browser, setback, connects, games>>,
           saves' \in [Saves -> Save], faults' \in Nat
    PROVE  TypeInv'
<1>1. Entries' = Entries /\ Rows' = Rows /\ Request' = Request
    BY SameEntries
<1>2. QED
    BY <1>1 DEF TypeInv, TypeOK, browser

(* Every step of saveResult keeps the types.                               *)
LEMMA SaveEffect ==
    ASSUME TypeInv, NEW s \in Saves,
           \/ \E x, o \in Players, w \in Winners : SaveReads(s, x, o, w)
           \/ SaveCommits(s) \/ SaveFails(s)
    PROVE  TypeInv'
<1>1. saves \in [Saves -> Save] /\ saves[s] \in Save /\ elo \in [Players -> Nat]
    BY DEF TypeInv, TypeOK
<1>2. CASE \E x, o \in Players, w \in Winners : SaveReads(s, x, o, w)
  <2>1. PICK x, o \in Players, w \in Winners : SaveReads(s, x, o, w)
    BY <1>2
  <2> DEFINE new == [step |-> "read", x |-> x, o |-> o, winner |-> w,
                     elo |-> [p \in {"X", "O"} |-> elo[IF p = "X" THEN x ELSE o]]]
  <2>2. new \in Save
    BY <1>1 DEF Save
  <2>3. saves' = [saves EXCEPT ![s] = new]
    BY <2>1 DEF SaveReads
  <2> HIDE DEF new
  <2>4. saves' \in [Saves -> Save]
    BY <1>1, <2>2, <2>3
  <2>5. UNCHANGED <<rows, synthetic, elo, syncs, browser, counters>>
    BY <2>1 DEF SaveReads
  <2>6. QED
    BY <2>4, <2>5, SameTypes DEF counters, TypeInv
<1>3. CASE SaveCommits(s)
  <2> DEFINE save == saves[s]
             next == CalculateElo(save.elo["X"], save.elo["O"], save.winner)
             row == [room |-> <<"online", s>>, x |-> save.x, o |-> save.o, ended |-> NoDate,
                     origin |-> <<"online", s>>]
  <2>1. /\ save.x \in Players /\ save.o \in Players /\ save.winner \in Winners
        /\ save.elo["X"] \in Nat /\ save.elo["O"] \in Nat
    BY <1>1 DEF Save
  <2>2. /\ next.X \in Nat /\ next.X >= FloorElo /\ next.O \in Nat /\ next.O >= FloorElo
    BY <2>1, HistoryAssumption DEF CalculateElo, AtLeast, Expected, Score
  <2>3. row \in Rows
    BY <2>1 DEF Rows, Rooms, Origins
  <2>4. /\ elo' = [elo EXCEPT ![save.x] = next.X, ![save.o] = next.O]
        /\ rows' = Append(rows, row) /\ saves' = [saves EXCEPT ![s].step = "saved"]
        /\ UNCHANGED <<synthetic, syncs, browser, counters>>
    BY <1>3 DEF SaveCommits
  <2> HIDE DEF next, row
  <2>5. elo' \in [Players -> Nat] /\ \A p \in Players : elo'[p] >= FloorElo
    BY <1>1, <2>1, <2>2, <2>4 DEF TypeInv, TypeOK
  <2>6. saves' \in [Saves -> Save]
    BY <1>1, <2>4 DEF Save
  <2>7. rows' \in Seq(Rows') /\ Len(rows) <= Len(rows')
    BY <2>3, <2>4, RowAdded
  <2>8. syncs \in Seq(Request') /\ local \in Seq(Entries') /\ shown \in Seq(Entries')
    BY <2>7, StillTyped
  <2>9. QED
    BY <2>4, <2>5, <2>6, <2>7, <2>8 DEF TypeInv, TypeOK, browser, counters
<1>4. CASE SaveFails(s)
  <2>1. NoSave \in Save
    BY HistoryAssumption DEF NoSave, Save, Players, Winners
  <2>2. [NoSave EXCEPT !.step = "failed"] \in Save
    BY <2>1 DEF Save
  <2>3. saves' \in [Saves -> Save]
    BY <1>1, <1>4, <2>2 DEF SaveFails
  <2>4. faults' \in Nat
    BY <1>4 DEF SaveFails, TypeInv
  <2>5. UNCHANGED <<rows, synthetic, elo, syncs, browser, setback, connects, games>>
    BY <1>4 DEF SaveFails
  <2>6. QED
    BY <2>3, <2>4, <2>5, SameTypes DEF counters
<1>5. QED
    BY <1>2, <1>3, <1>4

(* What the server returns replaces what the browser has, and none of it is*)
(* complete; or there is nothing, and everything stays.                    *)
LEMMA FetchEffect ==
    ASSUME TypeInv, Fetched
    PROVE  /\ tab.step = "fetching" /\ tab' = [step |-> "connected", call |-> 0]
           /\ UNCHANGED <<server, counters>>
           /\ \/ UNCHANGED <<local, shown>>
              \/ /\ local' = shown' /\ shown' \in Seq(Entries)
                 /\ \A i \in 1..Len(shown') : ~shown'[i].complete
<1> DEFINE size == Cardinality(OwnersRows)
           remote == [i \in 1..size |-> FromServer(Newest(i))]
<1>1. /\ tab.step = "fetching"
      /\ shown' = (IF remote = <<>> THEN shown ELSE remote)
      /\ local' = (IF remote = <<>> THEN local ELSE remote)
      /\ tab' = [step |-> "connected", call |-> 0]
      /\ UNCHANGED <<server, counters>>
    BY DEF Fetched
<1>2. \A i \in 1..size : FromServer(Newest(i)) \in Entries /\ ~FromServer(Newest(i)).complete
    BY NewestIsOwners, FromServerTyped DEF TypeInv, TypeOK
<1>3. size \in Nat
  <2>1. IsFiniteSet(1..Len(rows)) /\ OwnersRows \subseteq 1..Len(rows)
    BY FS_Interval, LenProperties DEF TypeInv, TypeOK, OwnersRows
  <2>2. QED
    BY <2>1, FS_Subset, FS_CardinalityType
<1> HIDE DEF size
<1>4. remote \in [1..size -> Entries]
    BY <1>2
<1>5. remote \in Seq(Entries) /\ Len(remote) = size
    BY <1>3, <1>4
<1>6. \A i \in 1..Len(remote) : ~remote[i].complete
    BY <1>2, <1>5
<1> HIDE DEF remote
<1>7. CASE remote = <<>>
    BY <1>1, <1>7
<1>8. CASE remote # <<>>
    BY <1>1, <1>5, <1>6, <1>8
<1>9. QED
    BY <1>1, <1>7, <1>8

(* A new entry comes first.                                                *)
LEMMA PlayEffect ==
    ASSUME TypeInv, NEW d \in Dates, NEW m \in {"pvp", "ai"}, PlayLocally(d, m)
    PROVE  \E e \in Entries :
              /\ e.origin = <<"local", games + 1>> /\ e.id = e.origin /\ e.complete
              /\ shown' = <<e>> \o shown /\ local' = shown' /\ shown' \in Seq(Entries)
              /\ games' = games + 1 /\ games + 1 \in 1..MaxGames
              /\ UNCHANGED <<server, tab, setback, faults, connects>>
<1> DEFINE e == [id |-> <<"local", games + 1>>, date |-> d, mode |-> m,
                 complete |-> TRUE, origin |-> <<"local", games + 1>>]
<1>1. games + 1 \in 1..MaxGames
    BY HistoryAssumption DEF PlayLocally, TypeInv
<1>2. e \in Entries
    BY <1>1 DEF Entries, Rooms, Origins, Modes
<1>3. e.origin = <<"local", games + 1>> /\ e.id = e.origin /\ e.complete
    OBVIOUS
<1>4. /\ shown' = <<e>> \o shown /\ local' = shown' /\ games' = games + 1
      /\ UNCHANGED <<server, tab, setback, faults, connects>>
    BY DEF PlayLocally
<1> HIDE DEF e
<1>5. <<e>> \in Seq(Entries) /\ shown \in Seq(Entries)
    BY <1>2 DEF TypeInv, TypeOK
<1>6. shown' \in Seq(Entries)
    BY <1>4, <1>5, ConcatProperties
<1>7. QED
    BY <1>1, <1>2, <1>3, <1>4, <1>6

(* The upload is what the browser has, with dates read back.               *)
LEMMA ConnectEffect ==
    ASSUME TypeInv, Connect
    PROVE  /\ tab.step = "off"
           /\ UNCHANGED <<rows, synthetic, elo, saves, local, shown, faults, games>>
           /\ connects' \in Nat /\ setback' \in BOOLEAN
           /\ \/ /\ local = <<>> \/ setback'
                 /\ local # <<>> \/ setback' = setback
                 /\ tab' = [step |-> "fetching", call |-> 0] /\ UNCHANGED syncs
              \/ \E call \in Request :
                    /\ local # <<>> /\ setback' = setback
                    /\ call.step = "bot"
                    /\ Len(call.items) = Len(local)
                    /\ \A i \in 1..Len(local) : /\ local[i].complete
                                                /\ call.items[i] = ToServer(local[i])
                    /\ syncs' = Append(syncs, call)
                    /\ tab' = [step |-> "posted", call |-> Len(syncs) + 1]
<1>1. /\ tab.step = "off"
      /\ UNCHANGED <<rows, synthetic, elo, saves, local, shown, faults, games>>
      /\ connects' = connects + 1
      /\ setback' = (setback \/ (local # <<>> /\ Refused))
    BY DEF Connect
<1>2. connects' \in Nat /\ setback' \in BOOLEAN
    BY <1>1 DEF TypeInv
<1>3. CASE local = <<>> \/ Refused
  <2>1. tab' = [step |-> "fetching", call |-> 0] /\ UNCHANGED syncs
    BY <1>3 DEF Connect
  <2>2. (local = <<>> \/ setback') /\ (local # <<>> \/ setback' = setback)
    BY <1>1, <1>3 DEF TypeInv
  <2>3. QED
    BY <1>1, <1>2, <2>1, <2>2
<1>4. CASE ~(local = <<>> \/ Refused)
  <2> DEFINE call == [step |-> "bot", items |-> Uploads]
  <2>1. syncs' = Append(syncs, call) /\ tab' = [step |-> "posted", call |-> Len(syncs')]
    BY <1>4 DEF Connect
  <2>2. local \in Seq(Entries) /\ Len(local) \in Nat /\ \A i \in 1..Len(local) : local[i] \in Entries
    BY ElementOfSeq, LenProperties DEF TypeInv, TypeOK
  <2>3. \A i \in 1..Len(local) : ToServer(local[i]) \in Entries
    BY <2>2, ToServerTyped
  <2>4. /\ Uploads \in Seq(Entries) /\ Len(Uploads) = Len(local)
        /\ \A i \in 1..Len(local) : Uploads[i] = ToServer(local[i])
    BY <2>2, <2>3 DEF Uploads
  <2>5. call \in Request /\ call.step = "bot" /\ call.items = Uploads
    BY <2>4 DEF Request, Steps
  <2>6. \A i \in 1..Len(local) : local[i].complete
    BY <1>4 DEF Refused
  <2> HIDE DEF call
  <2>7. Len(syncs') = Len(syncs) + 1
    BY <2>1, <2>5, AppendProperties DEF TypeInv
  <2>8. setback' = setback
    BY <1>1, <1>4 DEF TypeInv
  <2>9. QED
    BY <1>1, <1>2, <1>4, <2>1, <2>4, <2>5, <2>6, <2>7, <2>8
<1>5. QED
    BY <1>3, <1>4

(* Every step of the browser keeps the types.                              *)
LEMMA BrowserTyped ==
    ASSUME TypeInv,
           \/ \E d \in Dates, m \in {"pvp", "ai"} : PlayLocally(d, m)
           \/ Connect \/ SyncReplied \/ SyncReplyLost \/ Fetched \/ FetchFails \/ Reload
    PROVE  TypeInv'
<1>1. ASSUME UNCHANGED server
      PROVE  Entries' = Entries /\ Rows' = Rows /\ Request' = Request
    BY <1>1, SameEntries DEF server
<1>2. CASE \E d \in Dates, m \in {"pvp", "ai"} : PlayLocally(d, m)
  <2>1. PICK d \in Dates, m \in {"pvp", "ai"} : PlayLocally(d, m)
    BY <1>2
  <2>2. /\ shown' \in Seq(Entries) /\ local' = shown' /\ games' \in 0..MaxGames
        /\ UNCHANGED <<server, tab, setback, faults, connects>>
    <3>1. /\ shown' \in Seq(Entries) /\ local' = shown' /\ games' = games + 1
          /\ games + 1 \in 1..MaxGames
          /\ UNCHANGED <<server, tab, setback, faults, connects>>
      BY <2>1, PlayEffect
    <3>2. \A k \in 1..MaxGames : k \in 0..MaxGames
      OBVIOUS
    <3>3. QED
      BY <3>1, <3>2
  <2>3. Entries' = Entries /\ Rows' = Rows /\ Request' = Request
    BY <1>1, <2>2
  <2>4. QED
    BY <2>2, <2>3 DEF TypeInv, TypeOK, server
<1>3. CASE Connect
  <2>1. /\ UNCHANGED <<rows, synthetic, elo, saves, local, shown, faults, games>>
        /\ connects' \in Nat /\ setback' \in BOOLEAN
    BY <1>3, ConnectEffect
  <2>2. Entries' = Entries /\ Rows' = Rows /\ Request' = Request
    BY <2>1, SameEntries
  <2>3. /\ syncs' \in Seq(Request)
        /\ \A n \in 1..Len(syncs') : syncs'[n].step = "insert" => syncs'[n].items # <<>>
        /\ tab' \in [step : {"off", "posted", "fetching", "connected"}, call : Nat]
        /\ tab'.step = "posted" => tab'.call \in 1..Len(syncs')
    <3>1. CASE tab' = [step |-> "fetching", call |-> 0] /\ UNCHANGED syncs
      BY <3>1 DEF TypeInv
    <3>2. ASSUME NEW call \in Request, call.step = "bot", syncs' = Append(syncs, call),
                 tab' = [step |-> "posted", call |-> Len(syncs) + 1]
          PROVE  <2>3
      <4>1. syncs \in Seq(Request) /\ Len(syncs) \in Nat
        BY LenProperties DEF TypeInv
      <4>2. /\ syncs' \in Seq(Request) /\ Len(syncs') = Len(syncs) + 1
            /\ \A n \in 1..Len(syncs) : syncs'[n] = syncs[n]
            /\ syncs'[Len(syncs) + 1] = call
        BY <3>2, <4>1, AppendProperties
      <4>3. QED
        BY <3>2, <4>1, <4>2 DEF TypeInv
    <3>3. QED
      BY <1>3, <3>1, <3>2, ConnectEffect
  <2>4. QED
    BY <2>1, <2>2, <2>3 DEF TypeInv, TypeOK
<1>4. CASE SyncReplied
  <2>1. /\ UNCHANGED <<server, shown, counters>> /\ tab' = [step |-> "fetching", call |-> 0]
        /\ local' \in {<<>>, local}
    BY <1>4 DEF SyncReplied
  <2>2. Entries' = Entries /\ Rows' = Rows /\ Request' = Request
    BY <1>1, <2>1
  <2>3. local' \in Seq(Entries)
    BY <2>1, EmptySeq DEF TypeInv, TypeOK
  <2>4. QED
    BY <2>1, <2>2, <2>3 DEF TypeInv, TypeOK, server, counters
<1>5. CASE SyncReplyLost
    BY <1>1, <1>5 DEF SyncReplyLost, TypeInv, TypeOK, server
<1>6. CASE Fetched
  <2>1. /\ tab' = [step |-> "connected", call |-> 0] /\ UNCHANGED <<server, counters>>
        /\ local' \in Seq(Entries) /\ shown' \in Seq(Entries)
    BY <1>6, FetchEffect DEF TypeInv, TypeOK
  <2>2. Entries' = Entries /\ Rows' = Rows /\ Request' = Request
    BY <1>1, <2>1
  <2>3. QED
    BY <2>1, <2>2 DEF TypeInv, TypeOK, server, counters
<1>7. CASE FetchFails
    BY <1>1, <1>7 DEF FetchFails, TypeInv, TypeOK, server
<1>8. CASE Reload
    BY <1>1, <1>8 DEF Reload, TypeInv, TypeOK, server, counters
<1>9. QED
    BY <1>2, <1>3, <1>4, <1>5, <1>6, <1>7, <1>8

(* The types hold at the beginning.                                        *)
LEMMA TypeInit == Init => TypeInv
<1> SUFFICES ASSUME Init PROVE TypeInv
    OBVIOUS
<1>1. StartElo \in Nat /\ StartElo >= FloorElo /\ MaxGames \in Nat
    BY HistoryAssumption
<1>2. NoSave \in Save
    BY DEF NoSave, Save, Players, Winners
<1>3. <<>> \in Seq(Rows) /\ <<>> \in Seq(Entries) /\ <<>> \in Seq(Request) /\ Len(<<>>) = 0
    BY EmptySeq
<1>4. elo \in [Players -> Nat] /\ \A p \in Players : elo[p] >= FloorElo
    BY <1>1 DEF Init
<1>5. saves \in [Saves -> Save]
    BY <1>2 DEF Init
<1>6. TypeOK
    BY <1>3, <1>4 DEF Init, TypeOK
<1>7. syncs \in Seq(Request) /\ \A n \in 1..Len(syncs) : syncs[n].step = "insert" => syncs[n].items # <<>>
    BY <1>3 DEF Init
<1>8. games \in 0..MaxGames
    BY <1>1 DEF Init
<1>9. QED
    BY <1>5, <1>6, <1>7, <1>8 DEF Init, TypeInv

(* No step breaks them.                                                    *)
LEMMA TypeNext == TypeInv /\ [Next]_vars => TypeInv'
<1> SUFFICES ASSUME TypeInv, [Next]_vars PROVE TypeInv'
    OBVIOUS
<1>1. CASE UNCHANGED vars
    BY <1>1, SameEntries DEF vars, server, browser, counters, TypeInv, TypeOK
<1>2. CASE \E s \in Saves : \/ \E x, o \in Players, w \in Winners : SaveReads(s, x, o, w)
                            \/ SaveCommits(s) \/ SaveFails(s)
    BY <1>2, SaveEffect
<1>3. CASE \E n \in 1..Len(syncs) : SyncStep(n) \/ SyncFails(n)
    BY <1>3, SyncTyped
<1>4. CASE \/ \E d \in Dates, m \in {"pvp", "ai"} : PlayLocally(d, m)
           \/ Connect \/ SyncReplied \/ SyncReplyLost \/ Fetched \/ FetchFails \/ Reload
    BY <1>4, BrowserTyped
<1>5. QED
    BY <1>1, <1>2, <1>3, <1>4 DEF Next

(* Every variable keeps its type, and no rating falls under the floor,     *)
(* whatever fails, overlaps or is repeated.                                *)
THEOREM TypeCorrect == Spec => []TypeOK
<1>1. TypeInv => TypeOK
    BY DEF TypeInv
<1>2. QED
    BY <1>1, TypeInit, TypeNext, PTL DEF Spec

-----------------------------------------------------------------------------
(* What is told of a local game: complete entries in the browser, as they  *)
(* would be uploaded, and those that are being stored                      *)

Elems(s) == {s[i] : i \in 1..Len(s)}

Work(n) == IF Working(syncs[n]) THEN Elems(syncs[n].items) ELSE {}

Complete == {e \in Elems(local) \union Elems(shown) : e.complete}

Told == {ToServer(e) : e \in Complete} \union UNION {Work(n) : n \in 1..Len(syncs)}

Local(g) == <<"local", g>>
IsLocal(o) == \E g \in 1..games : o = Local(g)
IsSaved(o) == \E s \in Saves : o = <<"online", s>> /\ saves[s].step = "saved"

ToldOK == \A a \in Told : a.complete /\ a.id = a.origin /\ IsLocal(a.origin)

RowsOK ==
    \A k \in 1..Len(rows) : /\ rows[k].room = rows[k].origin
                            /\ IsLocal(rows[k].origin) \/ IsSaved(rows[k].origin)

ToldInv == TypeInv /\ ToldOK /\ RowsOK

(* What a step does to what is told, and to the table                      *)
Tells == Told' \subseteq Told /\ UNCHANGED <<rows, games>>

TellsNew ==
    \E a : /\ a.complete /\ a.id = a.origin /\ a.origin = Local(games + 1)
           /\ Told' \subseteq Told \union {a} /\ games' = games + 1 /\ UNCHANGED rows

StoresLocal ==
    \E n \in 1..Len(syncs), a \in Told :
        /\ Stores(n) /\ a = Head(syncs[n].items) /\ a \in Entries /\ rows' = Append(rows, RowOf(a))
        /\ Told' \subseteq Told /\ UNCHANGED games

StoresOnline ==
    \E s \in Saves, row \in Rows :
        /\ saves[s].step = "read" /\ saves'[s].step = "saved"
        /\ row.room = <<"online", s>> /\ row.origin = row.room
        /\ rows' = Append(rows, row) /\ UNCHANGED <<syncs, games>> /\ Told' \subseteq Told

SavedStay == \A s \in Saves : saves[s].step = "saved" => saves'[s].step = "saved"

TableStep == SavedStay /\ (Tells \/ TellsNew \/ StoresLocal \/ StoresOnline)

(* The elements of a sequence are its head and those of its tail.          *)
LEMMA ElemsOfTail ==
    ASSUME NEW S, NEW s \in Seq(S), s # <<>>
    PROVE  Elems(Tail(s)) \subseteq Elems(s) /\ Head(s) \in Elems(s)
           /\ Elems(s) = Elems(Tail(s)) \union {Head(s)}
<1>1. /\ Len(s) \in Nat \ {0} /\ Len(Tail(s)) = Len(s) - 1
      /\ \A i \in 1..Len(Tail(s)) : Tail(s)[i] = s[i + 1]
      /\ Head(s) = s[1]
    BY EmptySeq, HeadTailProperties
<1>2. \A i \in 1..Len(s) : i = 1 \/ i - 1 \in 1..Len(Tail(s))
    BY <1>1
<1>3. \A i \in 1..Len(Tail(s)) : i + 1 \in 1..Len(s) /\ (i + 1) - 1 = i
    BY <1>1
<1>4. Elems(Tail(s)) \subseteq Elems(s) /\ Head(s) \in Elems(s)
    BY <1>1, <1>3 DEF Elems
<1>5. ASSUME NEW i \in 1..Len(s) PROVE s[i] \in Elems(Tail(s)) \union {Head(s)}
  <2>1. CASE i = 1
    BY <1>1, <2>1
  <2>2. CASE i - 1 \in 1..Len(Tail(s))
    <3>1. Tail(s)[i - 1] = s[(i - 1) + 1]
      BY <1>1, <2>2
    <3>2. QED
      BY <2>2, <3>1 DEF Elems
  <2>3. QED
    BY <1>2, <2>1, <2>2
<1>6. QED
    BY <1>4, <1>5 DEF Elems

(* What a request does leaves its items or some of them.                   *)
LEMMA WorkShrinks ==
    ASSUME TypeInv, NEW n \in 1..Len(syncs), SyncStep(n) \/ SyncFails(n)
    PROVE  /\ \A m \in 1..Len(syncs) : Work(m)' \subseteq Work(m)
           /\ Told' \subseteq Told
<1>1. /\ UNCHANGED <<local, shown>> /\ Working(syncs[n]) /\ OthersWait(n)
      /\ Asks(n) \/ Skips(n) \/ Stores(n) \/ GivesUp(n)
    BY SyncEffect
<1>2. syncs[n] \in Request /\ syncs[n].items \in Seq(Entries)
  <2>1. syncs[n] \in Request
    BY ElementOfSeq DEF TypeInv
  <2>2. QED
    BY <2>1 DEF Request
<1>3. Elems(syncs'[n].items) \subseteq Elems(syncs[n].items)
  <2>1. CASE Asks(n)
    BY <2>1 DEF Asks
  <2>2. CASE Skips(n)
    BY <1>2, <2>2, ElemsOfTail DEF Skips
  <2>3. CASE Stores(n)
    BY <1>2, <2>3, ElemsOfTail DEF Stores
  <2>4. CASE GivesUp(n)
    BY <2>4, EmptySeq DEF GivesUp, Elems
  <2>5. QED
    BY <1>1, <2>1, <2>2, <2>3, <2>4
<1>4. Work(n)' \subseteq Work(n)
    BY <1>1, <1>3 DEF Work
<1>5. ASSUME NEW m \in 1..Len(syncs), m # n PROVE Work(m)' = Work(m)
  <2>1. syncs'[m] = syncs[m]
    BY <1>1, <1>5 DEF OthersWait
  <2>2. QED
    BY <2>1 DEF Work
<1>6. Complete' = Complete /\ Len(syncs') = Len(syncs)
    BY <1>1 DEF Complete, OthersWait
<1>7. \A m \in 1..Len(syncs) : Work(m)' \subseteq Work(m)
    BY <1>4, <1>5
<1>8. QED
    BY <1>6, <1>7 DEF Told

(* What a request does to what is told and to the table                    *)
LEMMA SyncTable ==
    ASSUME TypeInv, NEW n \in 1..Len(syncs), SyncStep(n) \/ SyncFails(n)
    PROVE  TableStep
<1>1. /\ UNCHANGED <<saves, games>> /\ Working(syncs[n])
      /\ Asks(n) \/ Skips(n) \/ Stores(n) \/ GivesUp(n)
    BY SyncEffect
<1>2. Told' \subseteq Told
    BY WorkShrinks
<1>3. SavedStay
    BY <1>1 DEF SavedStay
<1>4. CASE Stores(n)
  <2>1. syncs[n].items \in Seq(Entries) /\ syncs[n].items # <<>>
    <3>1. syncs[n] \in Request
      BY ElementOfSeq DEF TypeInv
    <3>2. QED
      BY <1>4, <3>1 DEF Request, Stores
  <2>2. Head(syncs[n].items) \in Elems(syncs[n].items) /\ Head(syncs[n].items) \in Entries
    BY <2>1, ElemsOfTail, HeadTailProperties
  <2>3. Head(syncs[n].items) \in Told
    BY <1>1, <2>2 DEF Told, Work
  <2>4. StoresLocal
    BY <1>1, <1>2, <1>4, <2>2, <2>3 DEF Stores, StoresLocal
  <2>5. QED
    BY <1>3, <2>4 DEF TableStep
<1>5. CASE UNCHANGED rows
    BY <1>1, <1>2, <1>3, <1>5 DEF TableStep, Tells
<1>6. QED
    BY <1>1, <1>4, <1>5 DEF Asks, Skips, GivesUp

(* What saveResult does to them                                            *)
LEMMA SaveTable ==
    ASSUME TypeInv, NEW s \in Saves,
           \/ \E x, o \in Players, w \in Winners : SaveReads(s, x, o, w)
           \/ SaveCommits(s) \/ SaveFails(s)
    PROVE  TableStep
<1>1. UNCHANGED <<syncs, local, shown, games>> /\ saves \in [Saves -> Save]
    BY DEF SaveReads, SaveCommits, SaveFails, browser, counters, TypeInv
<1>2. Told' \subseteq Told
    BY <1>1 DEF Told, Work, Complete
<1>3. CASE \/ \E x, o \in Players, w \in Winners : SaveReads(s, x, o, w)
           \/ SaveFails(s)
  <2>1. SavedStay /\ UNCHANGED rows
    BY <1>1, <1>3 DEF SavedStay, SaveReads, SaveFails
  <2>2. QED
    BY <1>1, <1>2, <2>1 DEF TableStep, Tells
<1>4. CASE SaveCommits(s)
  <2> DEFINE row == [room |-> <<"online", s>>, x |-> saves[s].x, o |-> saves[s].o,
                     ended |-> NoDate, origin |-> <<"online", s>>]
  <2>1. row \in Rows
    <3>1. saves[s].x \in Players /\ saves[s].o \in Players
      BY <1>1 DEF Save
    <3>2. QED
      BY <3>1 DEF Rows, Rooms, Origins
  <2>2. row.room = <<"online", s>> /\ row.origin = row.room
    OBVIOUS
  <2>3. rows' = Append(rows, row) /\ saves[s].step = "read"
    BY <1>4 DEF SaveCommits
  <2>4. saves' = [saves EXCEPT ![s].step = "saved"]
    BY <1>4 DEF SaveCommits
  <2>5. saves'[s].step = "saved" /\ SavedStay
    BY <1>1, <2>4 DEF SavedStay, Save
  <2> HIDE DEF row
  <2>6. StoresOnline
    BY <1>1, <1>2, <2>1, <2>2, <2>3, <2>5 DEF StoresOnline
  <2>7. QED
    BY <2>5, <2>6 DEF TableStep
<1>5. QED
    BY <1>3, <1>4

(* A new first entry adds one element.                                     *)
LEMMA FrontElems ==
    ASSUME NEW S, NEW s \in Seq(S), NEW e \in S
    PROVE  Elems(<<e>> \o s) = Elems(s) \union {e}
<1> DEFINE t == <<e>> \o s
<1>1. /\ <<e>> \in Seq(S) /\ Len(<<e>>) = 1 /\ <<e>>[1] = e /\ Len(s) \in Nat
    BY LenProperties
<1>2. /\ Len(t) = Len(s) + 1
      /\ \A i \in 1..Len(s) + 1 : t[i] = IF i <= 1 THEN e ELSE s[i - 1]
    BY <1>1, ConcatProperties
<1> HIDE DEF t
<1>3. \A i \in 1..Len(t) : t[i] \in Elems(s) \union {e}
  <2> SUFFICES ASSUME NEW i \in 1..Len(t), ~(i <= 1) PROVE t[i] \in Elems(s)
    BY <1>1, <1>2
  <2>1. i - 1 \in 1..Len(s) /\ t[i] = s[i - 1]
    BY <1>1, <1>2
  <2>2. QED
    BY <2>1 DEF Elems
<1>4. t[1] = e /\ 1 \in 1..Len(t)
    BY <1>1, <1>2
<1>5. \A i \in 1..Len(s) : i + 1 \in 1..Len(t) /\ t[i + 1] = s[i]
  <2> TAKE i \in 1..Len(s)
  <2>1. i + 1 \in 1..Len(s) + 1 /\ ~(i + 1 <= 1) /\ (i + 1) - 1 = i
    BY <1>1
  <2>2. QED
    BY <1>2, <2>1
<1>6. Elems(s) \union {e} \subseteq Elems(t)
    BY <1>4, <1>5 DEF Elems
<1>7. Elems(t) = Elems(s) \union {e}
    BY <1>3, <1>6 DEF Elems
<1>8. QED
    BY <1>7 DEF t

(* What the browser tells comes from what it has.                          *)
LEMMA ToldBy ==
    ASSUME Elems(local)' \subseteq Elems(local) \union Elems(shown),
           Elems(shown)' \subseteq Elems(local) \union Elems(shown),
           Len(syncs') = Len(syncs), \A n \in 1..Len(syncs) : Work(n)' \subseteq Work(n)
    PROVE  Told' \subseteq Told
<1>1. Complete' \subseteq Complete
    BY DEF Complete
<1>2. QED
    BY <1>1 DEF Told

(* What the browser does to them                                           *)
LEMMA BrowserTable ==
    ASSUME TypeInv,
           \/ \E d \in Dates, m \in {"pvp", "ai"} : PlayLocally(d, m)
           \/ Connect \/ SyncReplied \/ SyncReplyLost \/ Fetched \/ FetchFails \/ Reload
    PROVE  TableStep
<1> USE DEF TableStep
<1>1. UNCHANGED <<rows, saves>>
    BY DEF PlayLocally, Connect, SyncReplied, SyncReplyLost, Fetched, FetchFails, Reload, server
<1>2. SavedStay
    BY <1>1 DEF SavedStay
<1>3. ASSUME UNCHANGED syncs
      PROVE  Len(syncs') = Len(syncs) /\ \A n \in 1..Len(syncs) : Work(n)' \subseteq Work(n)
    BY <1>3 DEF Work
<1>4. CASE \E d \in Dates, m \in {"pvp", "ai"} : PlayLocally(d, m)
  <2>1. PICK d \in Dates, m \in {"pvp", "ai"} : PlayLocally(d, m)
    BY <1>4
  <2>2. PICK e \in Entries :
            /\ e.origin = Local(games + 1) /\ e.id = e.origin /\ e.complete
            /\ shown' = <<e>> \o shown /\ local' = shown' /\ games' = games + 1
            /\ UNCHANGED <<server, tab, setback, faults, connects>>
    BY <2>1, PlayEffect DEF Local
  <2>3. Elems(shown)' = Elems(shown) \union {e} /\ Elems(local)' = Elems(shown) \union {e}
    <3>1. \A t : t = <<e>> \o shown => Elems(t) = Elems(shown) \union {e}
      BY FrontElems DEF TypeInv, TypeOK
    <3>2. QED
      BY <2>2, <3>1
  <2>4. Complete' \subseteq Complete \union {e}
    BY <2>3 DEF Complete
  <2>5. UNCHANGED syncs
    BY <2>2 DEF server
  <2>6. Told' \subseteq Told \union {ToServer(e)}
    BY <1>3, <2>4, <2>5 DEF Told
  <2>7. /\ ToServer(e).complete /\ ToServer(e).id = ToServer(e).origin
        /\ ToServer(e).origin = Local(games + 1)
    BY <2>2, ToServerTyped
  <2>8. TellsNew
    BY <1>1, <2>2, <2>6, <2>7 DEF TellsNew
  <2>9. QED
    BY <1>2, <2>8
<1>5. CASE Connect
  <2>1. UNCHANGED <<local, shown, games>>
    BY <1>5 DEF Connect
  <2>2. CASE UNCHANGED syncs
    BY <1>1, <1>2, <1>3, <2>1, <2>2, ToldBy DEF Tells
  <2>3. ASSUME NEW call \in Request, Len(call.items) = Len(local),
               \A i \in 1..Len(local) : local[i].complete /\ call.items[i] = ToServer(local[i]),
               syncs' = Append(syncs, call)
        PROVE  TableStep
    <3>1. /\ Len(syncs') = Len(syncs) + 1 /\ Len(syncs) \in Nat
          /\ \A n \in 1..Len(syncs) : syncs'[n] = syncs[n]
          /\ syncs'[Len(syncs) + 1] = call
      BY <2>3, AppendProperties, LenProperties DEF TypeInv
    <3>2. Elems(call.items) \subseteq {ToServer(e) : e \in Complete}
      BY <2>3 DEF Elems, Complete
    <3>3. \A n \in 1..Len(syncs) : Work(n)' = Work(n)
      BY <3>1 DEF Work
    <3>4. \A n : n = Len(syncs) + 1 => Work(n)' \subseteq Elems(call.items)
      <4>1. ASSUME NEW n, n = Len(syncs) + 1
            PROVE  Work(n)' \subseteq Elems(call.items)
        <5>1. syncs'[n] = call
          BY <3>1, <4>1
        <5>2. QED
          BY <5>1 DEF Work
      <4>2. QED
        BY <4>1
    <3>5. Complete' = Complete
      BY <2>1 DEF Complete
    <3>6. Told' \subseteq Told
      <4>1. \A n \in 1..Len(syncs') : n \in 1..Len(syncs) \/ n = Len(syncs) + 1
        BY <3>1
      <4>2. \A n \in 1..Len(syncs') : Work(n)' \subseteq Told
        BY <3>2, <3>3, <3>4, <4>1 DEF Told
      <4>3. QED
        BY <3>5, <4>2 DEF Told
    <3>7. QED
      BY <1>1, <1>2, <2>1, <3>6 DEF Tells
  <2>4. QED
    BY <1>5, <2>2, <2>3, ConnectEffect
<1>6. CASE SyncReplied \/ SyncReplyLost \/ FetchFails \/ Reload
  <2>1. UNCHANGED <<syncs, games>>
    BY <1>6 DEF SyncReplied, SyncReplyLost, FetchFails, Reload, server, counters
  <2>2. local' \in {<<>>, local} /\ shown' \in {local, shown}
    BY <1>6 DEF SyncReplied, SyncReplyLost, FetchFails, Reload
  <2>3. Elems(<<>>) = {}
    BY EmptySeq DEF Elems
  <2>4. /\ Elems(local)' \subseteq Elems(local) \union Elems(shown)
        /\ Elems(shown)' \subseteq Elems(local) \union Elems(shown)
    BY <2>2, <2>3
  <2>5. Told' \subseteq Told
    BY <1>3, <2>1, <2>4, ToldBy
  <2>6. QED
    BY <1>1, <1>2, <2>1, <2>5 DEF Tells
<1>7. CASE Fetched
  <2>1. /\ UNCHANGED <<server, counters>>
        /\ \/ UNCHANGED <<local, shown>>
           \/ local' = shown' /\ \A i \in 1..Len(shown') : ~shown'[i].complete
    BY <1>7, FetchEffect
  <2>2. Complete' \subseteq Complete
    BY <2>1 DEF Complete, Elems
  <2>3. Told' \subseteq Told
    BY <1>3, <2>1, <2>2 DEF Told, server
  <2>4. QED
    BY <1>1, <1>2, <2>1, <2>3 DEF Tells, counters
<1>8. QED
    BY <1>4, <1>5, <1>6, <1>7

(* Every step is one of these four.                                        *)
LEMMA TableSteps == ASSUME TypeInv, Next PROVE TableStep
<1>1. CASE \E s \in Saves : \/ \E x, o \in Players, w \in Winners : SaveReads(s, x, o, w)
                            \/ SaveCommits(s) \/ SaveFails(s)
    BY <1>1, SaveTable
<1>2. CASE \E n \in 1..Len(syncs) : SyncStep(n) \/ SyncFails(n)
    BY <1>2, SyncTable
<1>3. CASE \/ \E d \in Dates, m \in {"pvp", "ai"} : PlayLocally(d, m)
           \/ Connect \/ SyncReplied \/ SyncReplyLost \/ Fetched \/ FetchFails \/ Reload
    BY <1>3, BrowserTable
<1>4. QED
    BY <1>1, <1>2, <1>3 DEF Next

(* Local games stay local games, and stored ones stored.                   *)
LEMMA OriginsStay ==
    ASSUME SavedStay, games \in Nat, games' \in Nat, games <= games', NEW o
    PROVE  (IsLocal(o) => IsLocal(o)') /\ (IsSaved(o) => IsSaved(o)')
<1>1. \A g \in 1..games : g \in 1..games'
    OBVIOUS
<1>2. QED
    BY <1>1 DEF SavedStay, IsLocal, IsSaved

(* What is told and what is stored stay well named.                        *)
LEMMA ToldNext == ToldInv /\ [Next]_vars => ToldInv'
<1> SUFFICES ASSUME ToldInv, [Next]_vars PROVE ToldInv'
    OBVIOUS
<1>1. TypeInv /\ TypeInv'
    BY TypeNext DEF ToldInv
<1>2. CASE UNCHANGED vars
  <2>1. ToldOK' /\ RowsOK'
    BY <1>2 DEF ToldInv, ToldOK, RowsOK, Told, Complete, Work, IsLocal, IsSaved, vars, server,
                browser, counters
  <2>2. QED
    BY <1>1, <2>1 DEF ToldInv
<1>3. CASE Next
  <2>1. TableStep
    BY <1>1, <1>3, TableSteps
  <2>2. games \in Nat /\ games' \in Nat /\ games <= games'
    <3>1. games \in Nat /\ games' \in Nat
      BY <1>1 DEF TypeInv
    <3>2. games' = games \/ games' = games + 1
      BY <2>1 DEF TableStep, Tells, TellsNew, StoresLocal, StoresOnline
    <3>3. QED
      BY <3>1, <3>2
  <2>3. SavedStay
    BY <2>1 DEF TableStep
  <2>4. \A o : (IsLocal(o) => IsLocal(o)') /\ (IsSaved(o) => IsSaved(o)')
    BY <2>2, <2>3, OriginsStay
  <2>5. ToldOK'
    <3>1. CASE Told' \subseteq Told
      BY <2>4, <3>1 DEF ToldInv, ToldOK
    <3>2. CASE TellsNew
      <4>1. PICK a : /\ a.complete /\ a.id = a.origin /\ a.origin = Local(games + 1)
                     /\ Told' \subseteq Told \union {a} /\ games' = games + 1
        BY <3>2 DEF TellsNew
      <4>2. IsLocal(a.origin)'
        BY <2>2, <4>1 DEF IsLocal
      <4>3. QED
        BY <2>4, <4>1, <4>2 DEF ToldInv, ToldOK
    <3>3. QED
      BY <2>1, <3>1, <3>2 DEF TableStep, Tells, StoresLocal, StoresOnline
  <2>6. ASSUME NEW row \in Rows, rows' = Append(rows, row), row.room = row.origin,
               IsLocal(row.origin)' \/ IsSaved(row.origin)'
        PROVE  RowsOK'
    <3>1. /\ Len(rows') = Len(rows) + 1 /\ Len(rows) \in Nat
          /\ \A k \in 1..Len(rows) : rows'[k] = rows[k]
          /\ rows'[Len(rows) + 1] = row
      BY <1>1, <2>6, RowAdded
    <3>2. ASSUME NEW k \in 1..Len(rows'), NEW r, r = rows'[k]
          PROVE  r.room = r.origin /\ (IsLocal(r.origin)' \/ IsSaved(r.origin)')
      <4>1. CASE k \in 1..Len(rows)
        BY <2>4, <3>1, <3>2, <4>1 DEF ToldInv, RowsOK
      <4>2. CASE k = Len(rows) + 1
        BY <2>6, <3>1, <3>2, <4>2
      <4>3. QED
        BY <3>1, <4>1, <4>2
    <3>3. QED
      BY <3>2 DEF RowsOK, IsLocal, IsSaved
  <2>7. RowsOK'
    <3>1. CASE Tells \/ TellsNew
      BY <2>4, <3>1 DEF Tells, TellsNew, ToldInv, RowsOK, IsLocal, IsSaved
    <3>2. CASE StoresLocal
      <4>1. PICK a \in Told : a \in Entries /\ rows' = Append(rows, RowOf(a))
        BY <3>2 DEF StoresLocal
      <4>2. RowOf(a) \in Rows /\ RowOf(a).room = a.id /\ RowOf(a).origin = a.origin
        BY <4>1, RowTyped DEF RowOf
      <4>3. a.id = a.origin /\ IsLocal(a.origin)'
        BY <2>4, <4>1 DEF ToldInv, ToldOK
      <4>4. QED
        BY <2>6, <4>1, <4>2, <4>3
    <3>3. CASE StoresOnline
      <4>1. PICK s \in Saves, row \in Rows :
                /\ saves'[s].step = "saved" /\ row.room = <<"online", s>> /\ row.origin = row.room
                /\ rows' = Append(rows, row)
        BY <3>3 DEF StoresOnline
      <4>2. IsSaved(row.origin)'
        BY <4>1 DEF IsSaved
      <4>3. QED
        BY <2>6, <4>1, <4>2
    <3>4. QED
      BY <2>1, <3>1, <3>2, <3>3 DEF TableStep
  <2>8. QED
    BY <1>1, <2>5, <2>7 DEF ToldInv
<1>4. QED
    BY <1>2, <1>3

(* Nothing is told at the beginning.                                       *)
LEMMA ToldInit == Init => ToldInv
<1> SUFFICES ASSUME Init PROVE ToldInv
    OBVIOUS
<1>1. Len(<<>>) = 0
    OBVIOUS
<1>2. Elems(<<>>) = {}
    BY <1>1 DEF Elems
<1>3. Told = {}
    BY <1>1, <1>2 DEF Init, Told, Complete
<1>4. RowsOK
    BY <1>1 DEF Init, RowsOK
<1>5. QED
    BY <1>3, <1>4, TypeInit DEF ToldInv, ToldOK

-----------------------------------------------------------------------------
(* One row per game                                                        *)

Alike ==
    /\ \A a, b \in Told : a.origin = b.origin => a = b
    /\ \A a \in Told, k \in 1..Len(rows) :
          rows[k].origin = a.origin => Key(rows[k]) = Key(RowOf(a))

OneWorks == \A m, n \in 1..Len(syncs) : Working(syncs[m]) /\ Working(syncs[n]) => m = n

InsertsNew ==
    \A n \in 1..Len(syncs) : syncs[n].step = "insert" => ~IsDuplicate(Head(syncs[n].items))

StoreInv == ToldInv /\ Alike /\ OneWorks /\ InsertsNew /\ StoredOnce

RequestMoves ==
    \E n \in 1..Len(syncs) :
        /\ Working(syncs[n]) /\ OthersWait(n)
        /\ syncs'[n].step = "insert" =>
              UNCHANGED rows /\ ~IsDuplicate(Head(syncs'[n].items))
        /\ UNCHANGED rows \/ Stores(n)

RequestArrives ==
    /\ UNCHANGED rows
    /\ \E call : /\ call.step = "bot" /\ Len(syncs') = Len(syncs) + 1
                 /\ \A n \in 1..Len(syncs) : syncs'[n] = syncs[n]
                 /\ syncs'[Len(syncs) + 1] = call

(* What a step does to the requests: nothing, one of them moves, or one    *)
(* arrives                                                                 *)
LEMMA RequestSteps ==
    ASSUME TypeInv, Next
    PROVE  \/ UNCHANGED syncs /\ (UNCHANGED rows \/ StoresOnline)
           \/ RequestMoves \/ RequestArrives
<1>1. CASE \E s \in Saves : \/ \E x, o \in Players, w \in Winners : SaveReads(s, x, o, w)
                            \/ SaveCommits(s) \/ SaveFails(s)
  <2>1. UNCHANGED syncs
    BY <1>1 DEF SaveReads, SaveCommits, SaveFails
  <2>2. TableStep
    BY <1>1, SaveTable
  <2>3. CASE StoresLocal
    <3>1. PICK n \in 1..Len(syncs) : Stores(n)
      BY <2>3 DEF StoresLocal
    <3>2. FALSE
      BY <2>1, <3>1 DEF Stores
    <3>3. QED
      BY <3>2
  <2>4. QED
    BY <2>1, <2>2, <2>3 DEF TableStep, Tells, TellsNew
<1>2. CASE \E n \in 1..Len(syncs) : SyncStep(n) \/ SyncFails(n)
  <2>1. PICK n \in 1..Len(syncs) : SyncStep(n) \/ SyncFails(n)
    BY <1>2
  <2>2. Working(syncs[n]) /\ OthersWait(n) /\ (Asks(n) \/ Skips(n) \/ Stores(n) \/ GivesUp(n))
    BY <2>1, SyncEffect
  <2>3. UNCHANGED rows \/ Stores(n)
    BY <2>2 DEF Asks, Skips, GivesUp
  <2>4. syncs'[n].step = "insert" => UNCHANGED rows /\ ~IsDuplicate(Head(syncs'[n].items))
    BY <2>2 DEF Asks, Skips, Stores, GivesUp
  <2>5. RequestMoves
    BY <2>2, <2>3, <2>4 DEF RequestMoves
  <2>6. QED
    BY <2>5
<1>3. CASE Connect
  <2>1. CASE UNCHANGED syncs
    BY <1>3, <2>1 DEF Connect
  <2>2. ASSUME NEW call \in Request, call.step = "bot", syncs' = Append(syncs, call)
        PROVE  RequestArrives
    <3>1. /\ Len(syncs') = Len(syncs) + 1
          /\ \A n \in 1..Len(syncs) : syncs'[n] = syncs[n]
          /\ syncs'[Len(syncs) + 1] = call
      BY <2>2, AppendProperties DEF TypeInv
    <3>2. UNCHANGED rows
      BY <1>3 DEF Connect
    <3>3. QED
      BY <2>2, <3>1, <3>2 DEF RequestArrives
  <2>3. QED
    BY <1>3, <2>1, <2>2, ConnectEffect
<1>4. CASE \/ \E d \in Dates, m \in {"pvp", "ai"} : PlayLocally(d, m)
           \/ SyncReplied \/ SyncReplyLost \/ Fetched \/ FetchFails \/ Reload
    BY <1>4 DEF PlayLocally, SyncReplied, SyncReplyLost, Fetched, FetchFails, Reload, server
<1>5. QED
    BY <1>1, <1>2, <1>3, <1>4 DEF Next

(* Two names of games of different kinds differ, and a new name is new.    *)
LEMMA NamesDiffer ==
    ASSUME ToldInv, TypeInv'
    PROVE  /\ \A g, s : Local(g) # <<"online", s>>
           /\ ~IsLocal(Local(games + 1)) /\ ~IsSaved(Local(games + 1))
           /\ \A o : IsLocal(o) => ~IsSaved(o)
<1>1. \A g, s : Local(g) # <<"online", s>>
    BY DEF Local
<1>2. games \in Nat
    BY DEF ToldInv, TypeInv
<1>3. \A g \in 1..games : Local(g) # Local(games + 1)
    BY <1>2 DEF Local
<1>4. QED
    BY <1>1, <1>3 DEF IsLocal, IsSaved

(* All that is told of a game stays alike, and like its row.               *)
LEMMA AlikeNext ==
    ASSUME ToldInv, Alike, TypeInv', TableStep
    PROVE  Alike'
<1>1. TypeInv
    BY DEF ToldInv
<1>2. \A a \in Told : IsLocal(a.origin)
    BY DEF ToldInv, ToldOK
<1>3. CASE Tells
    BY <1>3 DEF Tells, Alike
<1>4. CASE TellsNew
  <2>1. PICK a : /\ a.origin = Local(games + 1)
                 /\ Told' \subseteq Told \union {a} /\ UNCHANGED rows
    BY <1>4 DEF TellsNew
  <2>2. \A b \in Told : b.origin # a.origin
    BY <1>2, <2>1, NamesDiffer
  <2>3. \A k \in 1..Len(rows) : rows[k].origin # a.origin
    BY <2>1, NamesDiffer DEF ToldInv, RowsOK
  <2>4. QED
    BY <2>1, <2>2, <2>3 DEF Alike
<1>5. ASSUME NEW row \in Rows, rows' = Append(rows, row), Told' \subseteq Told,
             \A a \in Told : row.origin = a.origin => Key(row) = Key(RowOf(a))
      PROVE  Alike'
  <2>1. /\ Len(rows') = Len(rows) + 1 /\ Len(rows) \in Nat
        /\ \A k \in 1..Len(rows) : rows'[k] = rows[k]
        /\ rows'[Len(rows) + 1] = row
    BY <1>1, <1>5, RowAdded
  <2>2. ASSUME NEW a \in Told, NEW k \in 1..Len(rows'), rows'[k].origin = a.origin
        PROVE  Key(rows'[k]) = Key(RowOf(a))
    <3>1. CASE k \in 1..Len(rows)
      BY <2>1, <2>2, <3>1 DEF Alike
    <3>2. CASE k = Len(rows) + 1
      BY <1>5, <2>1, <2>2, <3>2
    <3>3. QED
      BY <2>1, <3>1, <3>2
  <2>3. QED
    BY <1>5, <2>2 DEF Alike
<1>6. CASE StoresLocal
  <2>1. PICK a \in Told : a \in Entries /\ rows' = Append(rows, RowOf(a)) /\ Told' \subseteq Told
    BY <1>6 DEF StoresLocal
  <2>2. RowOf(a) \in Rows /\ RowOf(a).origin = a.origin
    BY <2>1, RowTyped DEF RowOf
  <2>3. \A b \in Told : b.origin = a.origin => b = a
    BY DEF Alike
  <2>4. QED
    BY <1>5, <2>1, <2>2, <2>3
<1>7. CASE StoresOnline
  <2>1. PICK s \in Saves, row \in Rows :
            /\ row.origin = <<"online", s>> /\ rows' = Append(rows, row) /\ Told' \subseteq Told
    BY <1>7 DEF StoresOnline
  <2>2. \A a \in Told : a.origin # row.origin
    BY <1>2, <2>1, NamesDiffer DEF IsLocal
  <2>3. QED
    BY <1>5, <2>1, <2>2
<1>8. QED
    BY <1>3, <1>4, <1>6, <1>7 DEF TableStep

(* Without overlaps, one request works at a time.                          *)
LEMMA OneWorksNext ==
    ASSUME SyncsApart, TypeInv, OneWorks, Next
    PROVE  OneWorks'
<1>1. CASE UNCHANGED syncs
    BY <1>1 DEF OneWorks
<1>2. CASE RequestMoves
  <2>1. PICK n \in 1..Len(syncs) : Working(syncs[n]) /\ OthersWait(n)
    BY <1>2 DEF RequestMoves
  <2>2. \A m \in 1..Len(syncs) : m # n => ~Working(syncs[m]) /\ syncs'[m] = syncs[m]
    BY <2>1 DEF OthersWait, OneWorks
  <2>3. Len(syncs') = Len(syncs)
    BY <2>1 DEF OthersWait
  <2>4. QED
    BY <2>2, <2>3 DEF OneWorks
<1>3. CASE RequestArrives
  <2>2. Len(syncs) \in Nat
    BY LenProperties DEF TypeInv
  <2>1. /\ \A n \in 1..Len(syncs) : ~Working(syncs[n]) /\ syncs'[n] = syncs[n]
        /\ Len(syncs') = Len(syncs) + 1
    BY <1>3, <2>2 DEF RequestArrives, SyncsApart
  <2>3. \A n \in 1..Len(syncs') : n \in 1..Len(syncs) \/ n = Len(syncs) + 1
    BY <2>1, <2>2
  <2>4. QED
    BY <2>1, <2>3 DEF OneWorks
<1>4. QED
    BY <1>1, <1>2, <1>3, RequestSteps

(* Another row makes an entry a duplicate only if it has its key.          *)
LEMMA StillNew ==
    ASSUME TypeInv, NEW row \in Rows, rows' = Append(rows, row), NEW e,
           ~IsDuplicate(e), Key(row) # Key(RowOf(e))
    PROVE  ~IsDuplicate(e)'
<1>1. /\ Len(rows') = Len(rows) + 1 /\ Len(rows) \in Nat
      /\ \A k \in 1..Len(rows) : rows'[k] = rows[k]
      /\ rows'[Len(rows) + 1] = row
    BY RowAdded
<1>2. \A k \in 1..Len(rows') : k \in 1..Len(rows) \/ k = Len(rows) + 1
    BY <1>1
<1>3. \A k \in 1..Len(rows') : Key(rows'[k]) # Key(RowOf(e))
    BY <1>1, <1>2 DEF IsDuplicate
<1>4. QED
    BY <1>3 DEF IsDuplicate

(* What is about to be inserted stays no duplicate, as nobody else         *)
(* inserts it.                                                             *)
LEMMA InsertsNewNext ==
    ASSUME ToldInv, OneWorks, InsertsNew, Next
    PROVE  InsertsNew'
<1>1. TypeInv /\ Len(syncs) \in Nat
    BY LenProperties DEF ToldInv, TypeInv
<1>2. ASSUME UNCHANGED rows, NEW n \in 1..Len(syncs), syncs'[n] = syncs[n],
             syncs'[n].step = "insert", NEW e, e = Head(syncs'[n].items)
      PROVE  ~IsDuplicate(e)'
    BY <1>2 DEF InsertsNew, IsDuplicate
<1>3. CASE UNCHANGED <<syncs, rows>>
    BY <1>3 DEF InsertsNew, IsDuplicate
<1>4. CASE UNCHANGED syncs /\ StoresOnline
  <2> SUFFICES ASSUME NEW n \in 1..Len(syncs), syncs[n].step = "insert",
                      NEW e, e = Head(syncs[n].items)
               PROVE  ~IsDuplicate(e)'
    BY <1>4 DEF InsertsNew
  <2>1. PICK s \in Saves, row \in Rows : row.room = <<"online", s>> /\ rows' = Append(rows, row)
    BY <1>4 DEF StoresOnline
  <2>2. e \in Told
    <3>1. syncs[n] \in Request /\ syncs[n].items # <<>>
      BY <1>1, ElementOfSeq DEF TypeInv
    <3>2. syncs[n].items \in Seq(Entries)
      BY <3>1 DEF Request
    <3>3. e \in Elems(syncs[n].items)
      BY <3>1, <3>2, ElemsOfTail
    <3>4. QED
      BY <3>3 DEF Told, Work, Working
  <2>3. e.id = e.origin /\ IsLocal(e.origin)
    BY <2>2 DEF ToldInv, ToldOK
  <2>4. e.id # row.room
    BY <2>1, <2>3 DEF IsLocal, Local
  <2>5. Key(row) # Key(RowOf(e))
    BY <2>4 DEF Key, RowOf
  <2>6. ~IsDuplicate(e)
    BY DEF InsertsNew
  <2>7. QED
    BY <1>1, <2>1, <2>5, <2>6, StillNew
<1>5. CASE RequestMoves
  <2>1. PICK n \in 1..Len(syncs) :
            /\ Working(syncs[n]) /\ OthersWait(n)
            /\ syncs'[n].step = "insert" => UNCHANGED rows /\ ~IsDuplicate(Head(syncs'[n].items))
            /\ UNCHANGED rows \/ Stores(n)
    BY <1>5 DEF RequestMoves
  <2> SUFFICES ASSUME NEW m \in 1..Len(syncs), syncs'[m].step = "insert",
                      NEW e, e = Head(syncs'[m].items)
               PROVE  ~IsDuplicate(e)'
    BY <2>1 DEF InsertsNew, OthersWait
  <2>2. CASE m = n
    BY <2>1, <2>2 DEF IsDuplicate
  <2>3. CASE m # n
    <3>1. syncs'[m] = syncs[m]
      BY <2>1, <2>3 DEF OthersWait
    <3>2. ~Working(syncs[m])
      BY <2>1, <2>3 DEF OneWorks
    <3>3. QED
      BY <3>1, <3>2 DEF Working
  <2>4. QED
    BY <2>2, <2>3
<1>6. CASE RequestArrives
  <2>1. PICK call : /\ call.step = "bot" /\ Len(syncs') = Len(syncs) + 1
                    /\ \A n \in 1..Len(syncs) : syncs'[n] = syncs[n]
                    /\ syncs'[Len(syncs) + 1] = call
    BY <1>6 DEF RequestArrives
  <2>2. UNCHANGED rows
    BY <1>6 DEF RequestArrives
  <2>3. \A n \in 1..Len(syncs') : n \in 1..Len(syncs) \/ n = Len(syncs) + 1
    BY <1>1, <2>1
  <2> SUFFICES ASSUME NEW n \in 1..Len(syncs'), syncs'[n].step = "insert",
                      NEW e, e = Head(syncs'[n].items)
               PROVE  ~IsDuplicate(e)'
    BY DEF InsertsNew
  <2>4. QED
    BY <1>2, <2>1, <2>2, <2>3
<1>7. QED
    BY <1>1, <1>3, <1>4, <1>5, <1>6, RequestSteps

(* A row that is added is the first of its game.                           *)
LEMMA StoredOnceNext ==
    ASSUME StoreInv, TableStep
    PROVE  StoredOnce'
<1>1. TypeInv /\ ToldInv
    BY DEF StoreInv, ToldInv
<1>2. CASE UNCHANGED rows
    BY <1>2 DEF StoreInv, StoredOnce
<1>3. ASSUME NEW row \in Rows, rows' = Append(rows, row),
             \A k \in 1..Len(rows) : rows[k].origin # row.origin
      PROVE  StoredOnce'
  <2>1. /\ Len(rows') = Len(rows) + 1 /\ Len(rows) \in Nat
        /\ \A k \in 1..Len(rows) : rows'[k] = rows[k]
        /\ rows'[Len(rows) + 1] = row
    BY <1>1, <1>3, RowAdded
  <2>2. \A k \in 1..Len(rows') : k \in 1..Len(rows) \/ k = Len(rows) + 1
    BY <2>1
  <2>3. QED
    BY <1>3, <2>1, <2>2 DEF StoreInv, StoredOnce
<1>4. CASE StoresLocal
  <2>1. PICK n \in 1..Len(syncs), a \in Told :
            /\ Stores(n) /\ a = Head(syncs[n].items) /\ a \in Entries
            /\ rows' = Append(rows, RowOf(a))
    BY <1>4 DEF StoresLocal
  <2>2. ~IsDuplicate(a)
    BY <2>1 DEF Stores, StoreInv, InsertsNew
  <2>3. \A k \in 1..Len(rows) : rows[k].origin # a.origin
    BY <2>1, <2>2 DEF StoreInv, Alike, IsDuplicate
  <2>4. RowOf(a) \in Rows /\ RowOf(a).origin = a.origin
    BY <2>1, RowTyped DEF RowOf
  <2>5. QED
    BY <1>3, <2>1, <2>3, <2>4
<1>5. CASE StoresOnline
  <2>1. PICK s \in Saves, row \in Rows :
            /\ saves[s].step = "read" /\ row.origin = <<"online", s>>
            /\ rows' = Append(rows, row)
    BY <1>5 DEF StoresOnline
  <2>2. ~IsLocal(row.origin) /\ ~IsSaved(row.origin)
    BY <2>1 DEF IsLocal, IsSaved, Local
  <2>3. \A k \in 1..Len(rows) : rows[k].origin # row.origin
    BY <1>1, <2>2 DEF ToldInv, RowsOK
  <2>4. QED
    BY <1>3, <2>1, <2>3
<1>6. QED
    BY <1>2, <1>4, <1>5 DEF TableStep, Tells, TellsNew

(* The invariant of StoredOnce holds at the beginning.                     *)
LEMMA StoreInit == Init => StoreInv
<1> SUFFICES ASSUME Init PROVE StoreInv
    OBVIOUS
<1>1. Len(<<>>) = 0
    OBVIOUS
<1>2. Elems(<<>>) = {}
    BY <1>1 DEF Elems
<1>3. Told = {}
    BY <1>1, <1>2 DEF Init, Told, Complete
<1>4. Alike /\ OneWorks /\ InsertsNew /\ StoredOnce
    BY <1>1, <1>3 DEF Init, Alike, OneWorks, InsertsNew, StoredOnce
<1>5. QED
    BY <1>4, ToldInit DEF StoreInv

(* No step breaks it when nothing overlaps.                                *)
LEMMA StoreNext == StoreInv /\ [Next]_vars /\ [SyncsApart]_vars => StoreInv'
<1> SUFFICES ASSUME StoreInv, [Next]_vars, [SyncsApart]_vars PROVE StoreInv'
    OBVIOUS
<1>1. ToldInv /\ ToldInv' /\ TypeInv /\ TypeInv'
    BY ToldNext DEF StoreInv, ToldInv
<1>2. CASE UNCHANGED vars
  <2>1. Told' = Told
    BY <1>2 DEF vars, server, browser, Told, Complete, Work
  <2>2. Alike' /\ OneWorks' /\ InsertsNew' /\ StoredOnce'
    BY <1>2, <2>1 DEF StoreInv, Alike, OneWorks, InsertsNew, StoredOnce, IsDuplicate, vars, server
  <2>3. QED
    BY <1>1, <2>2 DEF StoreInv
<1>3. CASE Next /\ SyncsApart
  <2>1. TableStep
    BY <1>1, <1>3, TableSteps
  <2>2. Alike'
    BY <1>1, <2>1, AlikeNext DEF StoreInv
  <2>3. OneWorks' /\ InsertsNew'
    BY <1>1, <1>3, OneWorksNext, InsertsNewNext DEF StoreInv
  <2>4. StoredOnce'
    BY <2>1, StoredOnceNext
  <2>5. QED
    BY <1>1, <2>2, <2>3, <2>4 DEF StoreInv
<1>4. QED
    BY <1>2, <1>3

(* However often an upload is repeated, a game has one row, as long as     *)
(* uploads do not overlap.                                                 *)
THEOREM OneRowPerGame == Spec /\ [][SyncsApart]_vars => []StoredOnce
<1>1. StoreInv => StoredOnce
    BY DEF StoreInv
<1>2. StoreInv /\ [Next]_vars /\ [SyncsApart]_vars => StoreInv'
    BY StoreNext
<1>3. QED
    BY <1>1, <1>2, StoreInit, PTL DEF Spec

-----------------------------------------------------------------------------
(* No local game is lost.                                                  *)

InLocal(o) == \E e \in Elems(local) : e.origin = o
InRows(o) == \E k \in 1..Len(rows) : rows[k].origin = o
InWork(o) == \E n \in 1..Len(syncs) : \E e \in Work(n) : e.origin = o

GamesAreKept == \A g \in 1..games : InLocal(Local(g)) \/ InRows(Local(g)) \/ InWork(Local(g))

(* connectWallet may clear the local history when the request it has sent  *)
(* is done, and may replace it when it has fetched what the server has.    *)
MayClear ==
    tab.step = "posted" =>
        \A e \in Elems(local) :
            InRows(e.origin) \/ \E x \in Work(tab.call) : x.origin = e.origin

MayReplace ==
    tab.step = "fetching" => \A e \in Elems(local) : InRows(e.origin) \/ InWork(e.origin)

LocalIsShown == Elems(local) \subseteq Elems(shown)

KeptInv ==
    /\ ToldInv /\ LocalIsShown
    /\ setback \/ (GamesAreKept /\ MayClear /\ MayReplace)

(* What is in the table stays there.                                       *)
LEMMA RowsStay ==
    ASSUME TypeInv, TableStep, NEW o, InRows(o)
    PROVE  InRows(o)'
<1>1. CASE UNCHANGED rows
    BY <1>1 DEF InRows
<1>2. ASSUME NEW row \in Rows, rows' = Append(rows, row)
      PROVE  InRows(o)'
  <2>1. /\ Len(rows') = Len(rows) + 1 /\ Len(rows) \in Nat
        /\ \A k \in 1..Len(rows) : rows'[k] = rows[k]
    BY <1>2, RowAdded
  <2>2. \A k \in 1..Len(rows) : k \in 1..Len(rows')
    BY <2>1
  <2>3. QED
    BY <2>1, <2>2 DEF InRows
<1>3. CASE StoresLocal
  <2>1. PICK a \in Entries : rows' = Append(rows, RowOf(a))
    BY <1>3 DEF StoresLocal
  <2>2. QED
    BY <1>2, <2>1, RowTyped
<1>4. CASE StoresOnline
    BY <1>2, <1>4 DEF StoresOnline
<1>5. QED
    BY <1>1, <1>3, <1>4 DEF TableStep, Tells, TellsNew

(* An entry leaves a request when the table has its game.                  *)
LEMMA WorkIsStored ==
    ASSUME ToldInv, NEW n \in 1..Len(syncs), SyncStep(n) \/ SyncFails(n), ~setback'
    PROVE  \A m \in 1..Len(syncs) : \A e \in Work(m) : e \in Work(m)' \/ InRows(e.origin)'
<1>1. /\ TypeInv /\ Working(syncs[n]) /\ OthersWait(n)
      /\ Asks(n) \/ Skips(n) \/ Stores(n)
    BY SyncEffect DEF ToldInv, GivesUp
<1>2. syncs[n].items \in Seq(Entries)
  <2>1. syncs[n] \in Request
    BY <1>1, ElementOfSeq DEF TypeInv
  <2>2. QED
    BY <2>1 DEF Request
<1>3. ASSUME NEW m \in 1..Len(syncs), m # n PROVE Work(m)' = Work(m)
  <2>1. syncs'[m] = syncs[m]
    BY <1>1, <1>3 DEF OthersWait
  <2>2. QED
    BY <2>1 DEF Work
<1>4. Work(n) = Elems(syncs[n].items) /\ Work(n) \subseteq Told
    BY <1>1 DEF Work, Told
<1>5. CASE Asks(n)
  <2>1. CASE Working(syncs'[n])
    BY <1>3, <1>4, <1>5, <2>1 DEF Asks, Work
  <2>2. CASE ~Working(syncs'[n])
    <3>1. Work(n) = {}
      BY <1>4, <1>5, <2>2, EmptySeq DEF Asks, Elems
    <3>2. QED
      BY <1>3, <3>1
  <2>3. QED
    BY <2>1, <2>2
<1>6. ASSUME NEW first, first = Head(syncs[n].items), InRows(first.origin)',
             syncs[n].items # <<>>, syncs'[n].step = "find",
             syncs'[n].items = Tail(syncs[n].items)
      PROVE  \A e \in Work(n) : e \in Work(n)' \/ InRows(e.origin)'
  <2>1. Work(n)' = Elems(Tail(syncs[n].items))
    BY <1>6 DEF Work, Working
  <2>2. Elems(syncs[n].items) = Elems(Tail(syncs[n].items)) \union {first}
    BY <1>2, <1>6, ElemsOfTail
  <2>3. QED
    BY <1>4, <1>6, <2>1, <2>2
<1>7. CASE Skips(n)
  <2>1. PICK first : first = Head(syncs[n].items)
    OBVIOUS
  <2>2. first \in Told
    BY <1>2, <1>4, <1>7, <2>1, ElemsOfTail DEF Skips
  <2>3. PICK k \in 1..Len(rows) : Key(rows[k]) = Key(RowOf(first))
    BY <1>7, <2>1 DEF Skips, IsDuplicate
  <2>4. rows[k].room = first.id
    BY <2>3 DEF Key, RowOf
  <2>5. rows[k].origin = first.origin
    BY <2>2, <2>4 DEF ToldInv, ToldOK, RowsOK
  <2>6. UNCHANGED rows
    BY <1>7 DEF Skips
  <2>7. InRows(first.origin)'
    BY <2>5, <2>6 DEF InRows
  <2>8. QED
    BY <1>3, <1>6, <1>7, <2>1, <2>7 DEF Skips
<1>8. CASE Stores(n)
  <2>1. PICK first \in Entries : first = Head(syncs[n].items)
    BY <1>2, <1>8, HeadTailProperties DEF Stores
  <2>2. RowOf(first) \in Rows /\ RowOf(first).origin = first.origin
    BY RowTyped DEF RowOf
  <2>3. /\ Len(rows') = Len(rows) + 1 /\ Len(rows) \in Nat
        /\ rows'[Len(rows) + 1] = RowOf(first)
    BY <1>1, <1>8, <2>1, <2>2, RowAdded DEF Stores
  <2>4. Len(rows) + 1 \in 1..Len(rows')
    BY <2>3
  <2>5. InRows(first.origin)'
    BY <2>2, <2>3, <2>4 DEF InRows
  <2>6. QED
    BY <1>3, <1>6, <1>8, <2>1, <2>5 DEF Stores
<1>9. QED
    BY <1>1, <1>5, <1>7, <1>8

(* What is kept stays kept, as long as the browser does nothing.           *)
LEMMA ServerKeeps ==
    ASSUME ToldInv, TableStep, UNCHANGED <<local, tab, games>>, Len(syncs') = Len(syncs),
           \A m \in 1..Len(syncs) : \A e \in Work(m) : e \in Work(m)' \/ InRows(e.origin)',
           GamesAreKept, MayClear, MayReplace
    PROVE  GamesAreKept' /\ MayClear' /\ MayReplace'
<1>1. TypeInv /\ \A o : InRows(o) => InRows(o)'
    BY RowsStay DEF ToldInv
<1>2. \A o : InWork(o) => InWork(o)' \/ InRows(o)'
    BY DEF InWork
<1>3. \A o : InLocal(o) => InLocal(o)'
    BY DEF InLocal
<1>4. GamesAreKept'
    BY <1>1, <1>2, <1>3 DEF GamesAreKept
<1>5. MayReplace'
    BY <1>1, <1>2 DEF MayReplace
<1>6. MayClear'
  <2> SUFFICES ASSUME tab.step = "posted", NEW e \in Elems(local), ~InRows(e.origin)'
               PROVE  \E x \in Work(tab.call)' : x.origin = e.origin
    BY DEF MayClear
  <2>1. PICK c \in 1..Len(syncs) : c = tab.call
    BY <1>1 DEF TypeInv, TypeOK
  <2>2. PICK x \in Work(c) : x.origin = e.origin
    BY <1>1, <2>1 DEF MayClear
  <2>3. x \in Work(c)'
    BY <2>2
  <2>4. QED
    BY <2>1, <2>2, <2>3
<1>7. QED
    BY <1>4, <1>5, <1>6

(* A game that ends outside connectWallet is put into the local history.   *)
LEMMA PlayKeeps ==
    ASSUME KeptInv, ~setback, PlaysApart, NEW d \in Dates, NEW m \in {"pvp", "ai"},
           PlayLocally(d, m)
    PROVE  LocalIsShown' /\ GamesAreKept' /\ MayClear' /\ MayReplace'
<1>1. TypeInv /\ GamesAreKept /\ LocalIsShown /\ games \in Nat
    BY DEF KeptInv, ToldInv, TypeInv
<1>2. PICK e \in Entries :
          /\ e.origin = Local(games + 1) /\ shown' = <<e>> \o shown /\ local' = shown'
          /\ games' = games + 1 /\ tab.step \in {"off", "connected"}
          /\ UNCHANGED <<server, tab>>
  <2>1. PICK e \in Entries :
            /\ e.origin = Local(games + 1) /\ shown' = <<e>> \o shown /\ local' = shown'
            /\ games' = games + 1 /\ UNCHANGED <<server, tab>>
    BY <1>1, PlayEffect DEF Local
  <2>2. tab.step \in {"off", "connected"}
    BY <1>1, <2>1 DEF PlaysApart
  <2>3. QED
    BY <2>1, <2>2
<1>3. Elems(shown)' = Elems(shown) \union {e} /\ Elems(local)' = Elems(shown) \union {e}
  <2>1. \A t : t = <<e>> \o shown => Elems(t) = Elems(shown) \union {e}
    BY <1>1, FrontElems DEF TypeInv, TypeOK
  <2>2. QED
    BY <1>2, <2>1
<1>4. LocalIsShown' /\ Elems(local) \subseteq Elems(local)'
    BY <1>1, <1>3 DEF LocalIsShown
<1>5. MayClear' /\ MayReplace'
    BY <1>2 DEF MayClear, MayReplace
<1>6. \A o : /\ InLocal(o) => InLocal(o)'
             /\ InRows(o) => InRows(o)'
             /\ InWork(o) => InWork(o)'
    BY <1>2, <1>4 DEF InLocal, InRows, InWork, Work, server
<1>7. ASSUME NEW g \in 1..games'
      PROVE  InLocal(Local(g))' \/ InRows(Local(g))' \/ InWork(Local(g))'
  <2>1. PICK o : o = Local(g)
    OBVIOUS
  <2>2. CASE g \in 1..games
    BY <1>1, <1>6, <2>2 DEF GamesAreKept, Local
  <2>3. CASE g = games + 1
    BY <1>2, <1>3, <2>3 DEF InLocal, Local
  <2>4. QED
    BY <1>1, <1>2, <2>2, <2>3
<1>8. QED
    BY <1>4, <1>5, <1>7 DEF GamesAreKept, Local

(* What is uploaded is on its way.                                         *)
LEMMA ConnectKeeps ==
    ASSUME KeptInv, ~setback, Connect, ~setback'
    PROVE  LocalIsShown' /\ GamesAreKept' /\ MayClear' /\ MayReplace'
<1>1. TypeInv /\ GamesAreKept /\ LocalIsShown /\ UNCHANGED <<rows, local, shown, games>>
    BY ConnectEffect DEF KeptInv, ToldInv
<1>2. LocalIsShown' /\ \A o : (InLocal(o) => InLocal(o)') /\ (InRows(o) => InRows(o)')
    BY <1>1 DEF LocalIsShown, InLocal, InRows
<1>3. CASE local = <<>> /\ tab' = [step |-> "fetching", call |-> 0] /\ UNCHANGED syncs
  <2>1. Elems(local)' = {}
    BY <1>1, <1>3, EmptySeq DEF Elems
  <2>2. GamesAreKept'
    BY <1>1, <1>3 DEF GamesAreKept, InLocal, InRows, InWork, Work, Local
  <2>3. QED
    BY <1>2, <1>3, <2>1, <2>2 DEF MayClear, MayReplace
<1>4. ASSUME NEW call \in Request, call.step = "bot", Len(call.items) = Len(local),
             \A i \in 1..Len(local) : call.items[i] = ToServer(local[i]),
             syncs' = Append(syncs, call),
             tab' = [step |-> "posted", call |-> Len(syncs) + 1]
      PROVE  GamesAreKept' /\ MayClear' /\ MayReplace'
  <2>1. PICK c \in Nat : c = Len(syncs) + 1
    BY <1>1, LenProperties DEF TypeInv
  <2>2. /\ Len(syncs') = c /\ syncs'[c] = call
        /\ \A n \in 1..Len(syncs) : n \in 1..Len(syncs') /\ syncs'[n] = syncs[n]
    BY <1>1, <1>4, <2>1, AppendProperties, LenProperties DEF TypeInv
  <2>3. Work(c)' = Elems(call.items)
    BY <1>4, <2>2 DEF Work, Working
  <2>4. \A n \in 1..Len(syncs) : Work(n)' = Work(n)
    BY <2>2 DEF Work
  <2>5. \A o : InWork(o) => InWork(o)'
    BY <2>2, <2>4 DEF InWork
  <2>6. \A i \in 1..Len(local) : local[i] \in Entries /\ call.items[i].origin = local[i].origin
    BY <1>1, <1>4, ElementOfSeq, ToServerTyped DEF TypeInv, TypeOK
  <2>7. \A e \in Elems(local) : \E x \in Work(c)' : x.origin = e.origin
    BY <1>4, <2>3, <2>6 DEF Elems
  <2>8. MayClear'
    BY <1>1, <1>4, <2>1, <2>7 DEF MayClear
  <2>9. MayReplace'
    BY <1>4 DEF MayReplace
  <2>10. GamesAreKept'
    BY <1>1, <1>2, <2>5 DEF GamesAreKept, Local
  <2>11. QED
    BY <2>8, <2>9, <2>10
<1>5. QED
    BY <1>1, <1>2, <1>3, <1>4, ConnectEffect

(* What the browser removes or replaces is stored or on its way.           *)
LEMMA BrowserKeeps ==
    ASSUME KeptInv, ~setback,
           SyncReplied \/ SyncReplyLost \/ Fetched \/ FetchFails \/ Reload
    PROVE  LocalIsShown' /\ GamesAreKept' /\ MayClear' /\ MayReplace'
<1>1. /\ TypeInv /\ GamesAreKept /\ MayClear /\ MayReplace /\ LocalIsShown
      /\ tab.step = "posted" => tab.call \in 1..Len(syncs)
    BY DEF KeptInv, ToldInv, TypeInv, TypeOK
<1>2. UNCHANGED <<rows, syncs, games>>
    BY DEF SyncReplied, SyncReplyLost, Fetched, FetchFails, Reload, server, counters
<1>3. \A o : InRows(o)' = InRows(o) /\ InWork(o)' = InWork(o)
    BY <1>2 DEF InRows, InWork, Work
<1>4. ASSUME UNCHANGED local
      PROVE  GamesAreKept' /\ Elems(local)' = Elems(local)
    BY <1>1, <1>2, <1>3, <1>4 DEF GamesAreKept, InLocal, Local
<1>5. ASSUME \A e \in Elems(local) : InRows(e.origin) \/ InWork(e.origin)
      PROVE  GamesAreKept'
    BY <1>1, <1>2, <1>3, <1>5 DEF GamesAreKept, InLocal, Local
<1>6. CASE SyncReplied
  <2>1. /\ tab.step = "posted" /\ ~Working(syncs[tab.call])
        /\ tab' = [step |-> "fetching", call |-> 0] /\ local' \in {<<>>, local}
        /\ UNCHANGED shown
    BY <1>6 DEF SyncReplied
  <2>2. Work(tab.call) = {}
    BY <2>1 DEF Work
  <2>3. \A e \in Elems(local) : InRows(e.origin)
    BY <1>1, <2>1, <2>2 DEF MayClear
  <2>4. Elems(local)' \subseteq Elems(local)
    BY <2>1, EmptySeq DEF Elems
  <2>5. LocalIsShown'
    BY <1>1, <2>1, <2>4 DEF LocalIsShown, Elems
  <2>6. MayReplace'
    BY <1>3, <2>3, <2>4 DEF MayReplace
  <2>7. MayClear'
    BY <2>1 DEF MayClear
  <2>8. QED
    BY <1>5, <2>3, <2>5, <2>6, <2>7
<1>7. CASE SyncReplyLost
  <2>1. /\ tab.step = "posted" /\ UNCHANGED <<local, shown>>
        /\ tab' = [step |-> "fetching", call |-> 0]
    BY <1>7 DEF SyncReplyLost
  <2>2. \A e \in Elems(local) : InRows(e.origin) \/ InWork(e.origin)
    BY <1>1, <2>1 DEF MayClear, InWork
  <2>3. QED
    BY <1>1, <1>3, <1>4, <2>1, <2>2 DEF LocalIsShown, MayClear, MayReplace, Elems
<1>8. CASE Fetched
  <2>1. /\ tab.step = "fetching" /\ tab' = [step |-> "connected", call |-> 0]
        /\ UNCHANGED <<local, shown>> \/ local' = shown'
    BY <1>1, <1>8, FetchEffect
  <2>2. GamesAreKept'
    BY <1>1, <1>5, <2>1 DEF MayReplace
  <2>3. LocalIsShown'
    BY <1>1, <2>1 DEF LocalIsShown, Elems
  <2>4. QED
    BY <2>1, <2>2, <2>3 DEF MayClear, MayReplace
<1>9. CASE FetchFails \/ Reload
  <2>1. /\ UNCHANGED local /\ shown' \in {shown, local}
        /\ tab'.step \in {"connected", "off"}
    BY <1>9 DEF FetchFails, Reload
  <2>2. LocalIsShown'
    BY <1>1, <2>1 DEF LocalIsShown, Elems
  <2>3. QED
    BY <1>4, <2>1, <2>2 DEF MayClear, MayReplace
<1>10. QED
    BY <1>6, <1>7, <1>8, <1>9

(* There is nothing to lose at the beginning.                              *)
LEMMA KeptInit == Init => KeptInv
<1> SUFFICES ASSUME Init PROVE KeptInv
    OBVIOUS
<1>1. games = 0 /\ tab.step = "off" /\ local = <<>> /\ shown = <<>>
    BY DEF Init
<1>2. \A g \in 1..games : FALSE
    BY <1>1
<1>3. QED
    BY <1>1, <1>2, ToldInit DEF KeptInv, LocalIsShown, GamesAreKept, MayClear, MayReplace

(* No step loses a game.                                                   *)
LEMMA KeptNext ==
    ASSUME [PlaysApart]_vars, KeptInv, [Next]_vars
    PROVE  KeptInv'
<1>1. ToldInv /\ ToldInv' /\ TypeInv /\ TypeInv'
    BY ToldNext DEF KeptInv, ToldInv
<1>2. CASE UNCHANGED vars
  <2>1. UNCHANGED <<rows, syncs, local, shown, tab, setback, games>>
    BY <1>2 DEF vars, server, browser, counters
  <2>2. LocalIsShown'
    BY <2>1 DEF KeptInv, LocalIsShown, Elems
  <2>3. GamesAreKept' = GamesAreKept /\ MayClear' = MayClear /\ MayReplace' = MayReplace
    BY <2>1 DEF GamesAreKept, MayClear, MayReplace, InLocal, InRows, InWork, Work, Local
  <2>4. QED
    BY <1>1, <2>1, <2>2, <2>3 DEF KeptInv
<1>3. CASE Next /\ PlaysApart
  <2>1. TableStep
    BY <1>1, <1>3, TableSteps
  <2>2. LocalIsShown'
    <3>1. CASE UNCHANGED <<local, shown>>
      BY <3>1 DEF KeptInv, LocalIsShown, Elems
    <3>2. CASE local' = shown'
      BY <3>2 DEF LocalIsShown, Elems
    <3>3. CASE local' = <<>>
      BY <3>3, EmptySeq DEF LocalIsShown, Elems
    <3>4. CASE local' = local /\ shown' = local
      BY <3>4 DEF LocalIsShown, Elems
    <3>5. QED
      <4>1. ASSUME NEW n \in 1..Len(syncs), SyncStep(n) \/ SyncFails(n)
            PROVE  UNCHANGED <<local, shown>>
        BY <1>1, <4>1, SyncEffect
      <4>2. Fetched => UNCHANGED <<local, shown>> \/ local' = shown'
        BY <1>1, FetchEffect
      <4>3. QED
        BY <1>3, <3>1, <3>2, <3>3, <3>4, <4>1, <4>2
           DEF Next, SaveReads, SaveCommits, SaveFails, PlayLocally, Connect, SyncReplied,
               SyncReplyLost, FetchFails, Reload, browser
  <2>3. ASSUME ~setback'
        PROVE  GamesAreKept' /\ MayClear' /\ MayReplace'
    <3>1. ~setback
      <4>1. setback' \in {setback, TRUE}
        <5>1. ASSUME NEW n \in 1..Len(syncs), SyncStep(n) \/ SyncFails(n)
              PROVE  setback' \in {setback, TRUE}
          BY <1>1, <5>1, SyncEffect DEF Asks, Skips, Stores, GivesUp
        <5>2. Connect => setback' \in {setback, TRUE}
          BY <1>1 DEF Connect, TypeInv
        <5>3. QED
          BY <1>3, <5>1, <5>2
             DEF Next, SaveReads, SaveCommits, SaveFails, PlayLocally, SyncReplied,
                 SyncReplyLost, Fetched, FetchFails, Reload, counters
      <4>2. QED
        BY <2>3, <4>1
    <3>2. GamesAreKept /\ MayClear /\ MayReplace
      BY <3>1 DEF KeptInv
    <3>3. CASE \E s \in Saves : \/ \E x, o \in Players, w \in Winners : SaveReads(s, x, o, w)
                                \/ SaveCommits(s) \/ SaveFails(s)
      <4>1. UNCHANGED <<local, tab, games, syncs>>
        BY <3>3 DEF SaveReads, SaveCommits, SaveFails, browser, counters
      <4>2. \A m \in 1..Len(syncs) : Work(m)' = Work(m)
        BY <4>1 DEF Work
      <4>3. QED
        BY <1>1, <2>1, <3>2, <4>1, <4>2, ServerKeeps
    <3>4. CASE \E n \in 1..Len(syncs) : SyncStep(n) \/ SyncFails(n)
      <4>1. PICK n \in 1..Len(syncs) : SyncStep(n) \/ SyncFails(n)
        BY <3>4
      <4>2. UNCHANGED <<local, tab, games>> /\ Len(syncs') = Len(syncs)
        BY <1>1, <4>1, SyncEffect DEF OthersWait
      <4>3. \A m \in 1..Len(syncs) : \A e \in Work(m) : e \in Work(m)' \/ InRows(e.origin)'
        BY <1>1, <2>3, <4>1, WorkIsStored
      <4>4. QED
        BY <1>1, <2>1, <3>2, <4>2, <4>3, ServerKeeps
    <3>5. CASE \E d \in Dates, m \in {"pvp", "ai"} : PlayLocally(d, m)
      BY <1>3, <3>1, <3>5, PlayKeeps
    <3>6. CASE Connect
      BY <2>3, <3>1, <3>6, ConnectKeeps
    <3>7. CASE SyncReplied \/ SyncReplyLost \/ Fetched \/ FetchFails \/ Reload
      BY <3>1, <3>7, BrowserKeeps
    <3>8. QED
      BY <1>3, <3>3, <3>4, <3>5, <3>6, <3>7 DEF Next
  <2>4. QED
    BY <1>1, <2>2, <2>3 DEF KeptInv
<1>4. QED
    BY <1>2, <1>3

(* Until an upload is refused or fails, every local game is in the browser,*)
(* on its way or in the table, whatever replies are lost and whatever      *)
(* overlaps, when no game ends while the wallet is being connected.        *)
THEOREM NoGameIsLost == Spec /\ [][PlaysApart]_vars => []NothingIsLost
<1>1. KeptInv => NothingIsLost
  <2> SUFFICES ASSUME KeptInv, ~setback, NEW g \in 1..games,
                      \A i \in 1..Len(local) : local[i].origin # <<"local", g>>,
                      \A i \in 1..Len(rows) : rows[i].origin # <<"local", g>>
               PROVE  \E n \in 1..Len(syncs) :
                          /\ Working(syncs[n])
                          /\ \E i \in 1..Len(syncs[n].items) :
                                syncs[n].items[i].origin = <<"local", g>>
    BY DEF NothingIsLost
  <2>1. ~InLocal(Local(g)) /\ ~InRows(Local(g))
    BY DEF InLocal, InRows, Elems, Local
  <2>2. InWork(Local(g))
    BY <2>1 DEF KeptInv, GamesAreKept
  <2>3. QED
    BY <2>2 DEF InWork, Work, Elems, Local
<1>2. KeptInv /\ [Next]_vars /\ [PlaysApart]_vars => KeptInv'
    BY KeptNext
<1>3. QED
    BY <1>1, <1>2, KeptInit, PTL DEF Spec

-----------------------------------------------------------------------------
(* The ratings are those of the stored games, replayed.                    *)

After(before, row, winner) ==
    LET next == CalculateElo(before[row.x], before[row.o], winner) IN
    IF row.room[1] # "online" THEN before
    ELSE [before EXCEPT ![row.x] = next.X, ![row.o] = next.O]

Base == [p \in Players |-> StartElo]

Ratings == [Players -> Nat]

ReplayStep(f, r, sv) ==
    [n \in 0..Len(r) |-> IF n = 0 THEN Base
                         ELSE After(f[n - 1], r[n], sv[r[n].room[2]].winner)]

ReplayOf(r, sv) == CHOOSE f : f = ReplayStep(f, r, sv)

(* Ratings stay numbers.                                                   *)
LEMMA AfterTyped ==
    ASSUME NEW before \in Ratings, NEW row, NEW winner
    PROVE  After(before, row, winner) \in Ratings
<1> DEFINE next == CalculateElo(before[row.x], before[row.o], winner)
           after == [before EXCEPT ![row.x] = next.X, ![row.o] = next.O]
<1>1. \A a, b : Expected(a, b) \in Int /\ Score(a, b) \in Int
    BY DEF Expected, Score
<1>2. \A n \in Int : AtLeast(FloorElo, n) \in Nat
    BY HistoryAssumption DEF AtLeast
<1>3. /\ before[row.x] \in Nat => next.X \in Nat
      /\ before[row.o] \in Nat => next.O \in Nat
    BY <1>1, <1>2 DEF CalculateElo
<1> HIDE DEF next
<1>4. after \in Ratings
    BY <1>3 DEF Ratings
<1>5. QED
    BY <1>4 DEF After, next

Follows(f, L, R, base, F) ==
    f \in [0..L -> R] /\ \A n \in 0..L : f[n] = IF n = 0 THEN base ELSE F[<<n, f[n - 1]>>]

(* A function can be defined by recursion over the first numbers.          *)
LEMMA FollowsExists ==
    ASSUME NEW L \in Nat, NEW R, NEW base \in R, NEW F \in [(1..L) \X R -> R]
    PROVE  \E f : Follows(f, L, R, base, F)
<1> DEFINE Bad == {n \in 0..L : \A f : ~Follows(f, n, R, base, F)}
<1>1. Bad \in SUBSET Nat
    OBVIOUS
<1>2. Bad = {}
  <2>1. SUFFICES ASSUME Bad # {} PROVE FALSE
    OBVIOUS
  <2>2. PICK n \in Bad : \A k \in Bad : n <= k
    BY <1>1, <2>1, LeastNumber
  <2>3. n # 0
    <3>1. Follows([k \in 0..0 |-> base], 0, R, base, F)
      BY DEF Follows
    <3>2. QED
      BY <2>2, <3>1
  <2>4. n - 1 \in Nat /\ n - 1 \in 0..L /\ n \in 1..L
    BY <2>2, <2>3
  <2>5. PICK f : Follows(f, n - 1, R, base, F)
    <3>1. n - 1 \notin Bad
      BY <2>2, <2>4
    <3>2. QED
      BY <2>4, <3>1
  <2> DEFINE g == [k \in 0..n |-> IF k = n THEN F[<<n, f[n - 1]>>] ELSE f[k]]
  <2>6. f[n - 1] \in R /\ F[<<n, f[n - 1]>>] \in R
    BY <2>4, <2>5 DEF Follows
  <2>7. g \in [0..n -> R]
    BY <2>4, <2>5, <2>6 DEF Follows
  <2>8. g[n] = F[<<n, f[n - 1]>>] /\ \A k \in 0..(n - 1) : g[k] = f[k]
    BY <2>4
  <2> HIDE DEF g
  <2>9. \A k \in 0..n : g[k] = IF k = 0 THEN base ELSE F[<<k, g[k - 1]>>]
    <3> SUFFICES ASSUME NEW k \in 0..n
                 PROVE  g[k] = IF k = 0 THEN base ELSE F[<<k, g[k - 1]>>]
      OBVIOUS
    <3>1. CASE k = n
      <4>1. g[n - 1] = f[n - 1]
        BY <2>4, <2>8
      <4>2. QED
        BY <2>3, <2>8, <3>1, <4>1
    <3>2. CASE k \in 0..(n - 1)
      <4>1. k # 0 => k - 1 \in 0..(n - 1)
        BY <2>4, <3>2
      <4>2. QED
        BY <2>5, <2>8, <3>2, <4>1 DEF Follows
    <3>3. QED
      BY <2>4, <3>1, <3>2
  <2>10. Follows(g, n, R, base, F)
    BY <2>7, <2>9 DEF Follows
  <2>11. QED
    BY <2>2, <2>10
<1>3. L \in 0..L
    OBVIOUS
<1>4. QED
    BY <1>2, <1>3

(* Two functions that begin alike and go on alike agree.                   *)
GoAlike(f, g, L) == f[0] = g[0] /\ \A n \in 1..L : f[n - 1] = g[n - 1] => f[n] = g[n]

(* They do, by induction.                                                  *)
LEMMA StepByStep ==
    ASSUME NEW L \in Nat, NEW f, NEW g, GoAlike(f, g, L)
    PROVE  \A n \in 0..L : f[n] = g[n]
<1> DEFINE Bad == {n \in 0..L : f[n] # g[n]}
<1>1. Bad \in SUBSET Nat
    OBVIOUS
<1>2. SUFFICES ASSUME Bad # {} PROVE FALSE
    OBVIOUS
<1>3. PICK n \in Bad : \A k \in Bad : n <= k
    BY <1>1, <1>2, LeastNumber
<1>4. n # 0
    BY <1>3 DEF GoAlike
<1>5. n \in 1..L /\ n - 1 \in 0..L /\ n - 1 \notin Bad
    BY <1>3, <1>4
<1>6. QED
    BY <1>3, <1>5 DEF GoAlike

(* The replay exists, begins with StartElo and goes on row by row.         *)
LEMMA ReplayUnfolds ==
    ASSUME NEW r, Len(r) \in Nat, NEW sv
    PROVE  /\ ReplayOf(r, sv) \in [0..Len(r) -> Ratings]
           /\ ReplayOf(r, sv)[0] = Base
           /\ \A n \in 1..Len(r) :
                 ReplayOf(r, sv)[n] = After(ReplayOf(r, sv)[n - 1], r[n], sv[r[n].room[2]].winner)
<1> DEFINE L == Len(r)
           F == [y \in (1..L) \X Ratings |-> After(y[2], r[y[1]], sv[r[y[1]].room[2]].winner)]
<1>1. /\ F \in [(1..L) \X Ratings -> Ratings]
      /\ \A n \in 1..L, b \in Ratings : F[<<n, b>>] = After(b, r[n], sv[r[n].room[2]].winner)
    BY AfterTyped
<1>2. Base \in Ratings
    BY HistoryAssumption DEF Base, Ratings
<1> HIDE DEF F
<1>3. PICK f : Follows(f, L, Ratings, Base, F)
    BY <1>1, <1>2, FollowsExists
<1>4. f \in [0..L -> Ratings] /\ \A n \in 0..L : n # 0 => n \in 1..L /\ n - 1 \in 0..L
    BY <1>3 DEF Follows
<1>5. \A n \in 0..L : f[n] = IF n = 0 THEN Base ELSE After(f[n - 1], r[n], sv[r[n].room[2]].winner)
    BY <1>1, <1>3, <1>4 DEF Follows
<1>6. f = ReplayStep(f, r, sv)
    BY <1>4, <1>5 DEF ReplayStep
<1>7. PICK h : h = ReplayOf(r, sv) /\ h = ReplayStep(h, r, sv)
    BY <1>6 DEF ReplayOf
<1>8. h[0] = Base /\ \A n \in 1..L : h[n] = After(h[n - 1], r[n], sv[r[n].room[2]].winner)
    BY <1>7 DEF ReplayStep
<1>9. \A n \in 0..L : h[n] = f[n]
  <2>1. GoAlike(h, f, L)
    BY <1>4, <1>5, <1>8 DEF GoAlike
  <2>2. QED
    BY <2>1, StepByStep
<1>10. h \in [0..L -> Ratings]
  <2>1. h = [n \in 0..L |-> h[n]]
    BY <1>7 DEF ReplayStep
  <2>2. QED
    BY <1>4, <1>9, <2>1
<1>11. QED
    BY <1>7, <1>8, <1>10

(* Two tables that begin alike give the same ratings so far.               *)
LEMMA ReplaysAgree ==
    ASSUME NEW r, NEW q, Len(r) \in Nat, Len(q) \in Nat, Len(r) <= Len(q), NEW sv, NEW sw,
           \A n \in 1..Len(r) :
              /\ q[n] = r[n]
              /\ r[n].room[1] = "online" => sw[r[n].room[2]].winner = sv[r[n].room[2]].winner
    PROVE  ReplayOf(q, sw)[Len(r)] = ReplayOf(r, sv)[Len(r)]
<1> DEFINE L == Len(r)
<1>1. PICK f : f = ReplayOf(r, sv)
    OBVIOUS
<1>2. PICK g : g = ReplayOf(q, sw)
    OBVIOUS
<1>3. f[0] = Base /\ \A n \in 1..L : f[n] = After(f[n - 1], r[n], sv[r[n].room[2]].winner)
    BY <1>1, ReplayUnfolds
<1>4. g[0] = Base /\ \A n \in 1..Len(q) : g[n] = After(g[n - 1], q[n], sw[q[n].room[2]].winner)
    BY <1>2, ReplayUnfolds
<1>5. \A n \in 1..L : g[n] = After(g[n - 1], r[n], sv[r[n].room[2]].winner)
  <2> TAKE n \in 1..L
  <2>1. n \in 1..Len(q) /\ q[n] = r[n]
    OBVIOUS
  <2>2. \A b : After(b, r[n], sw[r[n].room[2]].winner) = After(b, r[n], sv[r[n].room[2]].winner)
    BY DEF After
  <2>3. QED
    BY <1>4, <2>1, <2>2
<1>6. \A n \in 0..L : f[n] = g[n]
  <2>1. L \in Nat /\ GoAlike(f, g, L)
    BY <1>3, <1>4, <1>5 DEF GoAlike
  <2>2. QED
    BY <2>1, StepByStep
<1>7. QED
    BY <1>1, <1>2, <1>6

(* Replay is this function of the table and the saves, before and after a  *)
(* step.                                                                   *)
LEMMA ReplayIs ==
    Replay = ReplayOf(rows, saves) /\ Replay' = ReplayOf(rows', saves')
BY DEF Replay, ReplayOf, ReplayStep, After, Base

(* A save that has read the ratings works on those that are current, and   *)
(* no two such saves have a player in common.                              *)
RateInv ==
    /\ ToldInv /\ RatingsAreReplayed
    /\ \A s \in Saves : saves[s].step = "read" =>
          /\ saves[s].x # saves[s].o
          /\ saves[s].elo["X"] = elo[saves[s].x] /\ saves[s].elo["O"] = elo[saves[s].o]
    /\ \A s, t \in Saves : saves[s].step = "read" /\ saves[t].step = "read" /\ s # t =>
          {saves[s].x, saves[s].o} \cap {saves[t].x, saves[t].o} = {}

WinnersStay == \A s \in Saves : saves[s].step = "saved" => saves'[s].winner = saves[s].winner

(* Only the rows of saved games are online.                                *)
LEMMA OnlineRows ==
    ASSUME ToldInv, NEW k \in 1..Len(rows), rows[k].room[1] = "online"
    PROVE  rows[k].room[2] \in Saves /\ saves[rows[k].room[2]].step = "saved"
<1>1. rows[k].room = rows[k].origin /\ (IsLocal(rows[k].origin) \/ IsSaved(rows[k].origin))
    BY DEF ToldInv, RowsOK
<1>2. ~IsLocal(rows[k].origin)
    BY <1>1 DEF IsLocal, Local
<1>3. QED
    BY <1>1, <1>2 DEF IsSaved

(* The ratings that the old rows give stay the same.                       *)
LEMMA ReplayStays ==
    ASSUME ToldInv, RatingsAreReplayed, WinnersStay, Len(rows') \in Nat, Len(rows) <= Len(rows'),
           \A k \in 1..Len(rows) : rows'[k] = rows[k]
    PROVE  ReplayOf(rows', saves')[Len(rows)] = elo
<1>1. Len(rows) \in Nat
    BY LenProperties DEF ToldInv, TypeInv, TypeOK
<1>2. \A k \in 1..Len(rows) : rows[k].room[1] = "online" =>
          saves'[rows[k].room[2]].winner = saves[rows[k].room[2]].winner
    BY OnlineRows DEF WinnersStay
<1>3. PICK r, q, sv, sw : r = rows /\ q = rows' /\ sv = saves /\ sw = saves'
    OBVIOUS
<1>4. ReplayOf(q, sw)[Len(r)] = ReplayOf(r, sv)[Len(r)]
    BY <1>1, <1>2, <1>3, ReplaysAgree
<1>5. QED
    BY <1>3, <1>4, ReplayIs DEF RatingsAreReplayed

(* A step that changes neither the table nor the ratings keeps them in     *)
(* agreement.                                                              *)
LEMMA SameRatings ==
    ASSUME ToldInv, RatingsAreReplayed, WinnersStay, UNCHANGED <<rows, elo>>
    PROVE  RatingsAreReplayed'
<1>1. Len(rows) \in Nat
    BY LenProperties DEF ToldInv, TypeInv, TypeOK
<1>2. ReplayOf(rows', saves')[Len(rows)] = elo
    BY <1>1, ReplayStays
<1>3. QED
    BY <1>2, ReplayIs DEF RatingsAreReplayed

(* One more row counts once.                                               *)
LEMMA RowCounts ==
    ASSUME ToldInv, RatingsAreReplayed, WinnersStay, NEW row \in Rows, rows' = Append(rows, row),
           elo' = After(elo, row, saves'[row.room[2]].winner)
    PROVE  RatingsAreReplayed'
<1>1. /\ Len(rows') = Len(rows) + 1 /\ Len(rows) \in Nat
      /\ \A k \in 1..Len(rows) : rows'[k] = rows[k]
      /\ rows'[Len(rows) + 1] = row
    BY RowAdded DEF ToldInv
<1>2. ReplayOf(rows', saves')[Len(rows)] = elo
    BY <1>1, ReplayStays
<1>3. PICK q, sw, n : q = rows' /\ sw = saves' /\ n = Len(rows) + 1
    OBVIOUS
<1>4. n \in 1..Len(q) /\ n = Len(q) /\ n - 1 = Len(rows) /\ Len(q) \in Nat /\ q[n] = row
    BY <1>1, <1>3
<1>5. ReplayOf(q, sw)[n] = After(ReplayOf(q, sw)[n - 1], q[n], sw[q[n].room[2]].winner)
    BY <1>4, ReplayUnfolds
<1>6. ReplayOf(q, sw)[n - 1] = elo
    BY <1>2, <1>3, <1>4
<1>7. elo' = After(elo, row, sw[row.room[2]].winner)
    BY <1>3
<1>8. elo' = ReplayOf(q, sw)[Len(q)]
    BY <1>4, <1>5, <1>6, <1>7
<1>9. QED
    BY <1>3, <1>8, ReplayIs DEF RatingsAreReplayed

(* What a save writes is one turn of the replay.                           *)
LEMMA CommitCounts ==
    ASSUME RateInv, NEW s \in Saves, SaveCommits(s)
    PROVE  RatingsAreReplayed'
<1>1. TypeInv /\ ToldInv /\ RatingsAreReplayed /\ saves \in [Saves -> Save] /\ elo \in [Players -> Nat]
    BY DEF RateInv, ToldInv, TypeInv, TypeOK
<1>2. PICK x, o, w : x = saves[s].x /\ o = saves[s].o /\ w = saves[s].winner
    OBVIOUS
<1>3. /\ x \in Players /\ o \in Players /\ w \in Winners /\ x # o
      /\ saves[s].elo["X"] = elo[x] /\ saves[s].elo["O"] = elo[o]
    BY <1>1, <1>2 DEF SaveCommits, RateInv, Save
<1> DEFINE row == [room |-> <<"online", s>>, x |-> x, o |-> o, ended |-> NoDate,
                   origin |-> <<"online", s>>]
           next == CalculateElo(elo[x], elo[o], w)
<1>4. /\ rows' = Append(rows, row)
      /\ elo' = [elo EXCEPT ![x] = next.X, ![o] = next.O]
      /\ saves' = [saves EXCEPT ![s].step = "saved"]
    BY <1>2, <1>3 DEF SaveCommits
<1>5. row \in Rows
    BY <1>3 DEF Rows, Rooms, Origins
<1>6. saves'[s].winner = w /\ WinnersStay
    BY <1>1, <1>2, <1>4 DEF WinnersStay, Save
<1>9. row.room[1] = "online" /\ row.room[2] = s /\ row.x = x /\ row.o = o
    OBVIOUS
<1> HIDE DEF row
<1>10. elo' = After(elo, row, w)
    BY <1>4, <1>9 DEF After
<1>11. elo' = After(elo, row, saves'[row.room[2]].winner)
    BY <1>6, <1>9, <1>10
<1>12. QED
    BY <1>1, <1>4, <1>5, <1>6, <1>11, RowCounts

(* A stored local game moves no rating.                                    *)
LEMMA LocalCounts ==
    ASSUME ToldInv, RatingsAreReplayed, StoresLocal, UNCHANGED <<saves, elo>>
    PROVE  RatingsAreReplayed'
<1>1. PICK a \in Told : a \in Entries /\ rows' = Append(rows, RowOf(a))
    BY DEF StoresLocal
<1>2. RowOf(a) \in Rows /\ RowOf(a).room = a.id
    BY <1>1, RowTyped DEF RowOf
<1>3. a.id = a.origin /\ IsLocal(a.origin)
    BY <1>1 DEF ToldInv, ToldOK
<1>4. RowOf(a).room[1] # "online"
    BY <1>2, <1>3 DEF IsLocal, Local
<1>5. elo' = After(elo, RowOf(a), saves'[RowOf(a).room[2]].winner)
    BY <1>4 DEF After
<1>6. WinnersStay
    BY DEF WinnersStay
<1>7. QED
    BY <1>1, <1>2, <1>5, <1>6, RowCounts

(* All ratings are StartElo at the beginning.                              *)
LEMMA RateInit == Init => RateInv
<1> SUFFICES ASSUME Init PROVE RateInv
    OBVIOUS
<1>1. Len(rows) = 0 /\ Len(rows) \in Nat /\ elo = Base
    BY DEF Init, Base
<1>2. ReplayOf(rows, saves)[0] = Base
    BY <1>1, ReplayUnfolds
<1>3. RatingsAreReplayed
    BY <1>1, <1>2, ReplayIs DEF RatingsAreReplayed
<1>4. \A s \in Saves : saves[s].step # "read"
    BY DEF Init, NoSave
<1>5. QED
    BY <1>3, <1>4, ToldInit DEF RateInv

(* No step makes ratings and rows disagree when nothing overlaps.          *)
LEMMA RateNext ==
    ASSUME [SavesApart]_vars, RateInv, [Next]_vars
    PROVE  RateInv'
<1>1. /\ ToldInv /\ ToldInv' /\ TypeInv /\ RatingsAreReplayed
      /\ saves \in [Saves -> Save] /\ elo \in [Players -> Nat]
    BY ToldNext DEF RateInv, ToldInv, TypeInv, TypeOK
<1>2. CASE UNCHANGED <<saves, elo>>
  <2>1. WinnersStay
    BY <1>2 DEF WinnersStay
  <2>2. RatingsAreReplayed'
    <3>1. CASE UNCHANGED rows
      BY <1>1, <1>2, <2>1, <3>1, SameRatings
    <3>2. CASE Next /\ ~UNCHANGED rows
      <4>1. TableStep
        BY <1>1, <3>2, TableSteps
      <4>2. ~StoresOnline
        BY <1>2 DEF StoresOnline
      <4>3. StoresLocal
        BY <3>2, <4>1, <4>2 DEF TableStep, Tells, TellsNew
      <4>4. QED
        BY <1>1, <1>2, <4>3, LocalCounts
    <3>3. QED
      BY <3>1, <3>2 DEF vars, server
  <2>3. QED
    BY <1>1, <1>2, <2>2 DEF RateInv
<1>3. ASSUME NEW s \in Saves, NEW x \in Players, NEW o \in Players, NEW w \in Winners,
             SaveReads(s, x, o, w)
      PROVE  RateInv'
  <2> DEFINE new == [step |-> "read", x |-> x, o |-> o, winner |-> w,
                     elo |-> [p \in {"X", "O"} |-> elo[IF p = "X" THEN x ELSE o]]]
  <2>1. /\ saves[s].step = "none" /\ x # o /\ UNCHANGED <<rows, elo>>
        /\ saves' = [saves EXCEPT ![s] = new]
    BY <1>3 DEF SaveReads
  <2>2. /\ new.step = "read" /\ new.x = x /\ new.o = o
        /\ new.elo["X"] = elo[x] /\ new.elo["O"] = elo[o]
    OBVIOUS
  <2> HIDE DEF new
  <2>3. saves'[s] = new /\ \A t \in Saves : t # s => saves'[t] = saves[t]
    BY <1>1, <2>1
  <2>4. WinnersStay
    BY <2>1, <2>3 DEF WinnersStay
  <2>5. RatingsAreReplayed'
    BY <1>1, <2>1, <2>4, SameRatings
  <2>6. \A t \in Saves : saves[t].step = "read" => {saves[t].x, saves[t].o} \cap {x, o} = {}
    <3>1. vars' # vars
      BY <2>1, <2>2, <2>3 DEF vars, server
    <3>2. SavesApart
      BY <3>1
    <3>3. \A t \in Saves, p \in {x, o} : ~Concerns(saves[t], p)
      BY <2>1, <2>2, <2>3, <3>2 DEF SavesApart
    <3>4. QED
      BY <3>3 DEF Concerns
  <2>7. QED
    BY <1>1, <2>1, <2>2, <2>3, <2>5, <2>6 DEF RateInv
<1>4. ASSUME NEW s \in Saves, SaveCommits(s)
      PROVE  RateInv'
  <2>1. RatingsAreReplayed'
    BY <1>4, CommitCounts
  <2>2. PICK x, o : x = saves[s].x /\ o = saves[s].o
    OBVIOUS
  <2>3. saves[s].step = "read" /\ saves' = [saves EXCEPT ![s].step = "saved"]
    BY <1>4 DEF SaveCommits
  <2>4. saves'[s].step = "saved" /\ \A t \in Saves : t # s => saves'[t] = saves[t]
    BY <1>1, <2>3 DEF Save
  <2>5. \A p \in Players : p # x /\ p # o => elo'[p] = elo[p]
    BY <1>1, <1>4, <2>2 DEF SaveCommits
  <2>6. \A t \in Saves : saves[t].step = "read" /\ t # s =>
            /\ saves[t].x \in Players /\ saves[t].x # x /\ saves[t].x # o
            /\ saves[t].o \in Players /\ saves[t].o # x /\ saves[t].o # o
    BY <1>1, <2>2, <2>3 DEF RateInv, Save
  <2>7. QED
    BY <1>1, <2>1, <2>4, <2>5, <2>6 DEF RateInv
<1>5. ASSUME NEW s \in Saves, SaveFails(s)
      PROVE  RateInv'
  <2> DEFINE new == [NoSave EXCEPT !.step = "failed"]
  <2>1. saves[s].step = "read" /\ UNCHANGED <<rows, elo>> /\ saves' = [saves EXCEPT ![s] = new]
    BY <1>5 DEF SaveFails
  <2>2. new.step = "failed"
    BY DEF NoSave
  <2> HIDE DEF new
  <2>3. saves'[s] = new /\ \A t \in Saves : t # s => saves'[t] = saves[t]
    BY <1>1, <2>1
  <2>4. WinnersStay
    BY <2>1, <2>3 DEF WinnersStay
  <2>5. RatingsAreReplayed'
    BY <1>1, <2>1, <2>4, SameRatings
  <2>6. QED
    BY <1>1, <2>1, <2>2, <2>3, <2>5 DEF RateInv
<1>6. CASE UNCHANGED vars
    BY <1>2, <1>6 DEF vars, server
<1>7. CASE \E n \in 1..Len(syncs) : SyncStep(n) \/ SyncFails(n)
    BY <1>2, <1>7 DEF SyncStep, SyncFails
<1>8. CASE \/ \E d \in Dates, m \in {"pvp", "ai"} : PlayLocally(d, m)
           \/ Connect \/ SyncReplied \/ SyncReplyLost \/ Fetched \/ FetchFails \/ Reload
    BY <1>2, <1>8 DEF PlayLocally, Connect, SyncReplied, SyncReplyLost, Fetched, FetchFails,
                      Reload, server
<1>9. QED
    BY <1>3, <1>4, <1>5, <1>6, <1>7, <1>8 DEF Next

(* The ratings are those that the stored online games give in their order, *)
(* each counted once, whatever queries fail and whatever is uploaded, as   *)
(* long as two transactions about a common player do not overlap.          *)
THEOREM RatingsReplay == Spec /\ [][SavesApart]_vars => []RatingsAreReplayed
<1>1. RateInv => RatingsAreReplayed
    BY DEF RateInv
<1>2. RateInv /\ [Next]_vars /\ [SavesApart]_vars => RateInv'
    BY RateNext
<1>3. QED
    BY <1>1, <1>2, RateInit, PTL DEF Spec
=============================================================================
