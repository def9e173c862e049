-------------------------- MODULE DurableRelayProofs --------------------------
(***************************************************************************)
(* Proofs about the durable relay, for any number of threads, readers,     *)
(* assertions and settings: its invariants, and that it implements         *)
(* RelaySpec.                                                              *)
(***************************************************************************)
EXTENDS DurableRelayRefinement, FiniteSetTheorems, WellFoundedInduction, TLAPS

\* Abbreviations that every step may look through.
USE DEF Full, InsertedRow, TableWith, AddAnswer, EndThread, After, NextCursor

-----------------------------------------------------------------------------
(***************************************************************************)
(* Pages                                                                   *)
(***************************************************************************)

\* A set of rowids, bounded by MaxSeq, is finite.
LEMMA RowidsFinite ==
    ASSUME NEW M \in SUBSET Rowids
    PROVE  IsFiniteSet(M) /\ Cardinality(M) \in Nat
<1>1. MaxSeq \in Nat
    BY ConstantAssumption
<1>2. IsFiniteSet(Rowids)
    BY <1>1, FS_Interval DEF Rowids
<1>3. IsFiniteSet(M)
    BY <1>2, FS_Subset
<1> QED  BY <1>3, FS_CardinalityType

\* A non-empty set of naturals has a least element.
LEMMA LeastNat ==
    ASSUME NEW M \in SUBSET Nat, M # {}
    PROVE  \E m \in M : \A x \in M : m <= x
<1>1. \E m \in M : \A y \in M : ~(<<y, m>> \in OpToRel(<, Nat))
    BY NatLessThanWellFounded, WFMin, Zenon
<1>2. PICK m \in M : \A y \in M : ~(<<y, m>> \in OpToRel(<, Nat))
    BY <1>1
<1>3. \A y \in M : ~(y < m)
    BY <1>2 DEF OpToRel
<1> QED  BY <1>3

\* A non-empty set of rowids has a largest element, which Last chooses.
LEMMA LastIsLargest ==
    ASSUME NEW P \in SUBSET Rowids, P # {}
    PROVE  Last(P) \in P /\ \A x \in P : x <= Last(P)
<1> DEFINE Upper == {n \in Nat : \A x \in P : x <= n}
<1>1. MaxSeq \in Nat /\ P \subseteq Nat /\ MaxSeq \in Upper
    BY ConstantAssumption DEF Rowids
<1>2. PICK m \in Upper : \A n \in Upper : m <= n
    <2>1. Upper \in SUBSET Nat /\ Upper # {}
        BY <1>1
    <2> HIDE DEF Upper
    <2> QED  BY <2>1, LeastNat
<1>3. m \in P
    <2> SUFFICES ASSUME m \notin P PROVE FALSE
        OBVIOUS
    <2>1. PICK y \in P : TRUE
        OBVIOUS
    <2>2. y \in Nat /\ y <= m /\ y # m /\ m \in Nat
        BY <1>1, <1>2, <2>1
    <2>3. m - 1 \in Upper
        BY <1>1, <1>2, <2>2
    <2> QED  BY <1>2, <2>2, <2>3
<1>4. \A x \in P : x <= m
    BY <1>2
<1> QED  BY <1>3, <1>4 DEF Last

\* FirstN(M, n) is what ORDER BY seq LIMIT n returns: an initial part of M,
\* all of it when M has at most n elements, and not empty otherwise.
LEMMA FirstNIsPrefix ==
    ASSUME NEW M \in SUBSET Rowids, NEW n \in Nat \ {0}
    PROVE  /\ FirstN(M, n) \subseteq M
           /\ \A s \in FirstN(M, n), x \in M : x <= s => x \in FirstN(M, n)
           /\ Cardinality(M) <= n => FirstN(M, n) = M
           /\ Cardinality(M) > n => FirstN(M, n) # {}
<1> DEFINE Before(s) == {x \in M : x < s}
<1>0. Rowids \subseteq Nat
    BY DEF Rowids
<1>1. IsFiniteSet(M) /\ Cardinality(M) \in Nat
    BY RowidsFinite
<1>2. \A s : /\ Before(s) \in SUBSET M
             /\ IsFiniteSet(Before(s)) /\ Cardinality(Before(s)) \in Nat
             /\ Cardinality(Before(s)) <= Cardinality(M)
             /\ Cardinality(M) = Cardinality(Before(s)) => M = Before(s)
    <2> TAKE s
    <2>1. Before(s) \in SUBSET M
        OBVIOUS
    <2> QED  BY <1>1, <2>1, FS_Subset, FS_CardinalityType
<1>3. FirstN(M, n) = {s \in M : Cardinality(Before(s)) < n}
    BY DEF FirstN
<1>4. ASSUME NEW s \in FirstN(M, n), NEW x \in M, x <= s
      PROVE  x \in FirstN(M, n)
    <2>0. x \in Nat /\ s \in Nat /\ \A y \in M : y \in Nat
        BY <1>0, <1>3
    <2>1. Before(x) \in SUBSET Before(s)
        <3>1. \A y \in M : y < x => y < s
            BY <1>4, <2>0
        <3> QED  BY <3>1
    <2>2. Cardinality(Before(x)) <= Cardinality(Before(s))
        BY <1>2, <2>1, FS_Subset
    <2>3. Cardinality(Before(x)) \in Nat /\ Cardinality(Before(s)) \in Nat
        BY <1>2
    <2>4. Cardinality(Before(s)) < n
        BY <1>3
    <2> HIDE DEF Before
    <2> QED  BY <1>3, <2>2, <2>3, <2>4
<1>5. ASSUME Cardinality(M) <= n
      PROVE  FirstN(M, n) = M
    <2> SUFFICES ASSUME NEW s \in M PROVE Cardinality(Before(s)) < n
        BY <1>3
    <2>1. s \notin Before(s)
        BY <1>0
    <2>2. Cardinality(M) # Cardinality(Before(s))
        BY <1>2, <2>1
    <2> HIDE DEF Before
    <2> QED  BY <1>1, <1>2, <1>5, <2>2
<1>6. ASSUME Cardinality(M) > n
      PROVE  FirstN(M, n) # {}
    <2>1. M # {}
        BY <1>1, <1>6, FS_EmptySet
    <2>2. PICK m \in M : \A x \in M : m <= x
        BY <1>0, <2>1, LeastNat
    <2>3. Before(m) = {}
        <3>1. \A x \in M : x \in Nat /\ m \in Nat
            BY <1>0
        <3>2. \A x \in M : ~(x < m)
            BY <2>2, <3>1
        <3> QED  BY <3>2
    <2>4. Cardinality(Before(m)) = 0
        BY <2>3, FS_EmptySet
    <2> HIDE DEF Before
    <2> QED  BY <1>3, <2>4
<1>7. FirstN(M, n) \subseteq M
    BY <1>3
<1> QED  BY <1>4, <1>5, <1>6, <1>7
-----------------------------------------------------------------------------
(***************************************************************************)
(* Admission                                                               *)
(***************************************************************************)

\* build_config keeps the page size positive, so a page is never empty.
LEMMA PageSizePositive ==
    ASSUME TypeOK
    PROVE  cfg.page_size \in Nat \ {0}
<1>1. PICK s \in Settings : cfg = BuildConfig(s)
    BY DEF TypeOK
<1>2. /\ "page_size" \in DOMAIN s /\ s.page_size \in Int
      /\ cfg.page_size = AtLeast(1, s.page_size)
    BY <1>1, SettingAssumption DEF Limits, BuildConfig
<1> QED  BY <1>2 DEF AtLeast

\* An early return of do_POST answers with an error, never with a 200.
LEMMA RefusalIsError ==
    ASSUME NEW b \in Bodies, NEW c, ~Admissible(b, c)
    PROVE  Refusal(b, c) \in Outcomes \ {"none", "fresh", "duplicate"}
<1>1. PICK k \in Failing(b, c) : \A j \in Failing(b, c) : k <= j
    <2>1. Failing(b, c) \in SUBSET Nat /\ Failing(b, c) # {}
        BY DEF Admissible, Failing
    <2> QED  BY <2>1, LeastNat
<1> DEFINE i == CHOOSE i \in Failing(b, c) : \A j \in Failing(b, c) : i <= j
<1>2. i \in Failing(b, c)
    BY <1>1
<1>3. i \in 1..10 /\ Refusals(b, c)[i].if
    BY <1>2 DEF Failing
<1>4. Refusal(b, c) = Refusals(b, c)[i].then
    BY DEF Refusal
<1>5. b.transport \in Transports
    BY BodyAssumption
<1> HIDE DEF i
<1>6. \A n \in 1..10 : Refusals(b, c)[n].then \in
         Transports \cup {"too_large", "unsupported_assertion", "invalid_assertion", "policy"}
    BY <1>5 DEF Refusals
<1> QED  BY <1>3, <1>4, <1>6 DEF Outcomes, Transports

\* What do_POST hands to Store.add has passed verification.
LEMMA AdmissibleIsValid ==
    ASSUME NEW b \in Bodies, NEW c, Admissible(b, c)
    PROVE  b.verdict = "valid" /\ b.transport = "ok"
<1>1. \A i \in 1..10 : ~Refusals(b, c)[i].if
    BY DEF Admissible, Failing
<1>2. /\ ~Refusals(b, c)[1].if
      /\ ~Refusals(b, c)[3].if
      /\ ~Refusals(b, c)[4].if
    BY <1>1
<1>3. b.transport = "ok" /\ b.verdict # "unsupported" /\ b.verdict # "invalid"
    BY <1>2 DEF Refusals
<1>4. b.verdict \in Verdicts
    BY BodyAssumption
<1> QED  BY <1>3, <1>4 DEF Verdicts

-----------------------------------------------------------------------------
(***************************************************************************)
(* Type correctness                                                        *)
(***************************************************************************)

\* Init establishes TypeOK.
LEMMA InitType == Init => TypeOK
<1> SUFFICES ASSUME Init PROVE TypeOK
    OBVIOUS
<1>1. NoWalk \in Walks
    BY ConstantAssumption DEF NoWalk, Walks, Rowids
<1>2. "none" \in Outcomes
    BY DEF Outcomes
<1> QED  BY <1>1, <1>2, ConstantAssumption DEF Init, TypeOK, Rowids, NoWalk

\* Every step keeps TypeOK; Commit needs the lock holder to have a rowid left.
LEMMA NextType == TypeOK /\ TransactionInv /\ [Next]_vars => TypeOK'
<1> SUFFICES ASSUME TypeOK, TransactionInv, [Next]_vars PROVE TypeOK'
    OBVIOUS
<1> USE DEF TypeOK, db, txn, thread, hist
<1>0. MaxSeq \in Nat /\ Rowids \subseteq Nat /\ \A b \in Bodies : b.id \in Ids
    BY ConstantAssumption DEF Rowids, Ids
<1>1. ASSUME NEW t \in Threads, NEW b \in Bodies, Refuse(t, b) PROVE TypeOK'
    <2>1. Refusal(b, cfg) \in Outcomes
        BY <1>1, RefusalIsError DEF Refuse
    <2> QED  BY <1>1, <2>1 DEF Refuse
<1>2. ASSUME NEW t \in Threads, NEW b \in Bodies, Submit(t, b) PROVE TypeOK'
    BY <1>2 DEF Submit
<1>3. ASSUME NEW t \in Threads, InsertAssertion(t) PROVE TypeOK'
    BY <1>3 DEF InsertAssertion
<1>4. ASSUME NEW t \in Threads, InsertAdvertised(t) PROVE TypeOK'
    BY <1>0, <1>4 DEF InsertAdvertised
<1>5. ASSUME NEW t \in Threads, Commit(t) PROVE TypeOK'
    <2>1. lastSeq < MaxSeq
        BY <1>5, ConstantAssumption DEF Commit, TransactionInv
    <2>2. lastSeq + 1 \in 0..MaxSeq
        BY <1>0, <2>1
    <2>3. {"fresh", "duplicate"} \subseteq Outcomes
        BY DEF Outcomes
    <2> QED  BY <1>5, <2>2, <2>3 DEF Commit
<1>6. ASSUME NEW t \in Threads, AddFails(t) PROVE TypeOK'
    BY <1>6 DEF AddFails
<1>6a. ASSUME NEW t \in Threads, TransactionFails(t) PROVE TypeOK'
    BY <1>6a DEF TransactionFails
<1>7. ASSUME NEW t \in Threads, Reply(t) PROVE TypeOK'
    <2>1. "none" \in Outcomes /\ req[t].id \in Ids
        BY <1>0, <1>7 DEF Outcomes, Reply
    <2>2. firsts' \in [Ids -> Nat] /\ acked' \in SUBSET Ids
        BY <1>7, <2>1 DEF Reply
    <2> QED  BY <1>7, <2>1, <2>2 DEF Reply
<1>8. ASSUME NEW t \in Threads, ReplyLost(t) PROVE TypeOK'
    <2>1. "none" \in Outcomes
        BY DEF Outcomes
    <2> QED  BY <1>8, <2>1 DEF ReplyLost
<1>9. ASSUME NEW r \in Readers, NEW q \in Queries, StartWalk(r, q) PROVE TypeOK'
    <2>1. NewWalk(q) \in Walks
        BY <1>0 DEF NewWalk, Walks
    <2> QED  BY <1>9, <2>1 DEF StartWalk, NewWalk
<1>10. ASSUME NEW r \in Readers, GetPage(r) PROVE TypeOK'
    <2> DEFINE w    == reader[r]
               M    == After(Selected(w.query), w.cursor)
               page == FirstN(M, cfg.page_size)
               more == Cardinality(M) > cfg.page_size
    <2>1. M \in SUBSET Rowids
        BY DEF Selected, Used
    <2>2. cfg.page_size \in Nat \ {0}
        BY PageSizePositive
    <2>3. page \subseteq Rowids
        BY <2>1, <2>2, FirstNIsPrefix
    <2>4. more => Last(page) \in 0..MaxSeq
        <3>1. more => page # {}
            BY <2>1, <2>2, FirstNIsPrefix
        <3>2. page # {} => Last(page) \in page
            BY <2>3, LastIsLargest
        <3>3. more => Last(page) \in Rowids
            BY <2>3, <3>1, <3>2
        <3>4. Rowids \subseteq 0..MaxSeq
            BY <1>0 DEF Rowids
        <3> QED  BY <3>3, <3>4
    <2>5. reader' = [reader EXCEPT ![r] =
             [w EXCEPT !.phase = IF more THEN "walking" ELSE "done",
                       !.cursor = IF more THEN Last(page) ELSE @,
                       !.got = @ \cup page,
                       !.repeated = @ \/ page \cap w.got # {}]]
        BY <1>10 DEF GetPage
    <2>6. w \in Walks /\ w.query \in Queries
        BY <1>10 DEF GetPage
    <2> HIDE DEF M, page, more
    <2>7. reader'[r] \in Walks /\ reader'[r].query = w.query
        BY <2>3, <2>4, <2>5, <2>6 DEF Walks
    <2>8. reader' \in [Readers -> Walks]
        BY <2>5, <2>7
    <2> QED  BY <1>10, <2>5, <2>6, <2>7, <2>8 DEF GetPage
<1>11. ASSUME NEW r \in Readers, GetAssertion(r) PROVE TypeOK'
    <2>1. Selected(reader[r].query) \in SUBSET Rowids
        BY DEF Selected, Used
    <2>2. reader[r] \in Walks
        OBVIOUS
    <2>3. reader'[r] \in Walks /\ reader'[r].query = reader[r].query
        BY <1>11, <2>1, <2>2 DEF GetAssertion, Walks
    <2> QED  BY <1>11, <2>3 DEF GetAssertion
<1>12. ASSUME NEW r \in Readers, AbortWalk(r) PROVE TypeOK'
    <2>1. NoWalk \in Walks
        BY <1>0 DEF NoWalk, Walks
    <2> QED  BY <1>12, <2>1 DEF AbortWalk, NoWalk
<1>13. CASE Crash
    <2>1. "none" \in Outcomes
        BY DEF Outcomes
    <2> QED  BY <1>13, <2>1 DEF Crash
<1>14. CASE Restart
    BY <1>14 DEF Restart
<1>15. CASE UNCHANGED vars
    BY <1>15 DEF vars
<1> QED
    BY <1>1, <1>2, <1>3, <1>4, <1>5, <1>6, <1>6a, <1>7, <1>8, <1>9, <1>10, <1>11, <1>12,
       <1>13, <1>14, <1>15 DEF Next, ThreadStep
-----------------------------------------------------------------------------
(***************************************************************************)
(* What a step does to the committed tables                                *)
(***************************************************************************)

\* A step that writes neither table changes no lookup and no listing.
LEMMA SameTables ==
    ASSUME rows' = rows, advertised' = advertised
    PROVE  /\ Used' = Used
           /\ \A i : Stored(i)' <=> Stored(i)
           /\ \A q : Selected(q)' = Selected(q)
<1>1. Used' = Used
    BY DEF Used
<1> QED  BY <1>1 DEF Stored, Selected

\* COMMIT adds at most the transaction's row, behind all others.
LEMMA CommitEffect ==
    ASSUME TypeOK, TransactionInv, SeqInv, NEW t \in Threads, Commit(t)
    PROVE  /\ lastSeq + 1 \in Rowids /\ lastSeq + 1 \notin Used
           /\ \A s \in Used : s \in Used' /\ rows'[s] = rows[s]
           /\ Used' = IF txnRow = NoRow THEN Used ELSE Used \cup {lastSeq + 1}
           /\ rows'[lastSeq + 1] = txnRow
           /\ \A i : Stored(i)' <=> Stored(i) \/ (txnRow # NoRow /\ txnRow.id = i)
<1> DEFINE n == lastSeq + 1
<1>1. lastSeq < MaxSeq /\ lastSeq \in Nat /\ MaxSeq \in Nat
    BY ConstantAssumption DEF Commit, TransactionInv, TypeOK
<1>2. n \in Rowids /\ n \notin Used
    BY <1>1 DEF SeqInv, Rowids, Used
<1>3. rows' = [rows EXCEPT ![n] = txnRow] /\ rows \in [Rowids -> Bodies \cup {NoRow}]
    BY DEF Commit, TypeOK
<1>4. rows'[n] = txnRow /\ \A s \in Rowids : s # n => rows'[s] = rows[s]
    BY <1>2, <1>3
<1> HIDE DEF n
<1>5. \A s \in Used : s \in Used' /\ rows'[s] = rows[s]
    BY <1>2, <1>4 DEF Used
<1>6. Used' = IF txnRow = NoRow THEN Used ELSE Used \cup {n}
    BY <1>2, <1>4 DEF Used
<1>7. \A i : Stored(i)' <=> Stored(i) \/ (txnRow # NoRow /\ txnRow.id = i)
    BY <1>2, <1>4, <1>5, <1>6 DEF Stored
<1> QED  BY <1>2, <1>4, <1>5, <1>6, <1>7 DEF n

\* A listing grows at most by the row just committed.
LEMMA CommitSelected ==
    ASSUME TypeOK, StoreInv, NEW t \in Threads, Commit(t), NEW q
    PROVE  /\ Selected(q) \subseteq Selected(q)'
           /\ Selected(q)' \subseteq Selected(q) \cup {lastSeq + 1}
<1>1. TransactionInv /\ SeqInv
    BY DEF StoreInv
<1>2. /\ \A s \in Used : s \in Used' /\ rows'[s] = rows[s]
      /\ Used' \subseteq Used \cup {lastSeq + 1}
    BY <1>1, CommitEffect
<1>3. \A s \in Used : rows[s].id \in advertised' <=> rows[s].id \in advertised
    <2>1. advertised' = advertised \cup txnAdv
        BY DEF Commit
    <2>2. \A i \in txnAdv : ~Stored(i)
        BY <1>1, BodyAssumption DEF Commit, TransactionInv, TypeOK
    <2> QED  BY <2>1, <2>2 DEF Stored
<1>4. \A s \in Used : s \in Selected(q)' <=> s \in Selected(q)
    BY <1>2, <1>3 DEF Selected, Matches, ChannelOf
<1> QED  BY <1>2, <1>4 DEF Selected

-----------------------------------------------------------------------------
(***************************************************************************)
(* The store                                                               *)
(***************************************************************************)

\* The empty database satisfies the store's invariant.
LEMMA InitStore == Init => StoreInv
<1> SUFFICES ASSUME Init PROVE StoreInv
    OBVIOUS
<1>1. Used = {}
    BY DEF Init, Used
<1>2. TransactionInv
    BY ConstantAssumption DEF Init, TransactionInv
<1>3. SeqInv /\ UniqueIds /\ OnlyValid
    BY <1>1 DEF SeqInv, UniqueIds, OnlyValid
<1>4. AdvertisedExactly
    BY <1>1 DEF Init, AdvertisedExactly
<1> QED  BY <1>2, <1>3, <1>4 DEF StoreInv

\* A step that leaves the tables alone only has to keep TransactionInv.
LEMMA StoreFrame ==
    ASSUME StoreInv, UNCHANGED db, TransactionInv'
    PROVE  StoreInv'
<1>1. rows' = rows /\ lastSeq' = lastSeq /\ advertised' = advertised
    BY DEF db
<1>2. Used' = Used
    BY <1>1, SameTables
<1>3. SeqInv' /\ UniqueIds' /\ OnlyValid' /\ AdvertisedExactly'
    BY <1>1, <1>2 DEF StoreInv, SeqInv, UniqueIds, OnlyValid, AdvertisedExactly
<1> QED  BY <1>3 DEF StoreInv

\* Every step keeps the store's invariant.
LEMMA NextStore == TypeOK /\ StoreInv /\ [Next]_vars => StoreInv'
<1> SUFFICES ASSUME TypeOK, StoreInv, [Next]_vars PROVE StoreInv'
    OBVIOUS
<1> USE DEF txn, thread, hist
<1>0. TransactionInv /\ SeqInv /\ UniqueIds /\ OnlyValid /\ AdvertisedExactly
    BY DEF StoreInv
<1>1. ASSUME NEW t \in Threads, NEW b \in Bodies, Refuse(t, b) PROVE StoreInv'
    <2>1. \A i : Stored(i)' <=> Stored(i)
        BY <1>1, SameTables DEF Refuse, db
    <2>2. TransactionInv'
        BY <1>0, <1>1, <2>1 DEF Refuse, TransactionInv, TypeOK, db
    <2> QED  BY <1>1, <2>2, StoreFrame DEF Refuse
<1>2. ASSUME NEW t \in Threads, NEW b \in Bodies, Submit(t, b) PROVE StoreInv'
    <2>1. \A i : Stored(i)' <=> Stored(i)
        BY <1>2, SameTables DEF Submit, db
    <2>2. b.verdict = "valid" /\ b.transport = "ok"
        BY <1>2, AdmissibleIsValid DEF Submit
    <2>3. TransactionInv'
        BY <1>0, <1>2, <2>1, <2>2 DEF Submit, TransactionInv, TypeOK, db
    <2> QED  BY <1>2, <2>3, StoreFrame DEF Submit
<1>3. ASSUME NEW t \in Threads, InsertAssertion(t) PROVE StoreInv'
    <2>1. \A i : Stored(i)' <=> Stored(i)
        BY <1>3, SameTables DEF InsertAssertion, db
    <2>2. req[t] \in Bodies /\ req[t] # NoRow
        BY <1>3, BodyAssumption DEF InsertAssertion, TypeOK
    <2>3. TransactionInv'
        BY <1>0, <1>3, <2>1, <2>2, ConstantAssumption
        DEF InsertAssertion, TransactionInv, TypeOK, db
    <2> QED  BY <1>3, <2>3, StoreFrame DEF InsertAssertion
<1>4. ASSUME NEW t \in Threads, InsertAdvertised(t) PROVE StoreInv'
    <2>1. \A i : Stored(i)' <=> Stored(i)
        BY <1>4, SameTables DEF InsertAdvertised, db
    <2>2. TransactionInv'
        BY <1>0, <1>4, <2>1, ConstantAssumption DEF InsertAdvertised, TransactionInv, TypeOK, db
    <2> QED  BY <1>4, <2>2, StoreFrame DEF InsertAdvertised
<1>5. ASSUME NEW t \in Threads, Commit(t) PROVE StoreInv'
    <2>1. /\ lastSeq + 1 \in Rowids /\ lastSeq + 1 \notin Used
          /\ \A s \in Used : s \in Used' /\ rows'[s] = rows[s]
          /\ Used' = IF txnRow = NoRow THEN Used ELSE Used \cup {lastSeq + 1}
          /\ rows'[lastSeq + 1] = txnRow
          /\ \A i : Stored(i)' <=> Stored(i) \/ (txnRow # NoRow /\ txnRow.id = i)
        BY <1>0, <1>5, CommitEffect
    <2>2. writer = t /\ pc[t] = "commit" /\ req[t] \in Bodies
        BY <1>0, <1>5 DEF Commit, TransactionInv, TypeOK
    <2>3. /\ txnRow # NoRow => txnRow = req[t] /\ ~Stored(txnRow.id)
          /\ txnAdv = IF txnRow # NoRow /\ txnRow.type = "channel" THEN {txnRow.id} ELSE {}
        BY <1>0, <2>2, BodyAssumption DEF TransactionInv
    <2>4. TransactionInv'
        <3>1. \A u \in Threads : pc'[u] \in {"advertise", "commit"} => FALSE
            BY <1>0, <1>5, <2>2 DEF Commit, TransactionInv, TypeOK
        <3>2. writer' = NoThread /\ txnRow' = NoRow /\ txnAdv' = {}
            BY <1>5 DEF Commit
        <3>3. \A u \in Threads : pc'[u] = "begin" => pc[u] = "begin" /\ req'[u] = req[u]
            BY <1>5 DEF Commit, TypeOK
        <3> QED  BY <1>0, <3>1, <3>2, <3>3, ConstantAssumption DEF TransactionInv
    <2>5. SeqInv'
        <3>1. lastSeq' = lastSeq + 1 /\ lastSeq \in Nat /\ Used \subseteq Nat
            BY <1>5 DEF Commit, TypeOK, Used, Rowids
        <3>2. \A s \in Used : s \in Nat /\ s <= lastSeq
            BY <1>0, <3>1 DEF SeqInv
        <3>3. \A s \in Used' : s \in Used \/ s = lastSeq + 1
            BY <2>1
        <3>4. \A s \in Used' : s <= lastSeq + 1
            <4> SUFFICES ASSUME NEW s \in Used' PROVE s <= lastSeq + 1
                OBVIOUS
            <4>1. CASE s \in Used
                BY <3>1, <3>2, <4>1
            <4>2. CASE s = lastSeq + 1
                BY <3>1, <4>2
            <4> QED  BY <3>3, <4>1, <4>2
        <3> QED  BY <3>1, <3>4 DEF SeqInv
    <2>6. UniqueIds'
        <3>1. \A s \in Used : txnRow # NoRow => rows[s].id # txnRow.id
            BY <2>3 DEF Stored
        <3> QED  BY <1>0, <2>1, <3>1 DEF UniqueIds
    <2>7. OnlyValid'
        BY <1>0, <2>1, <2>2, <2>3 DEF OnlyValid, TransactionInv
    <2>8. AdvertisedExactly'
        <3>1. advertised' = advertised \cup txnAdv
            BY <1>5 DEF Commit
        <3>2. advertised = {rows[s].id : s \in {x \in Used : rows[x].type = "channel"}}
            BY <1>0 DEF AdvertisedExactly
        <3>3. advertised' = {rows'[s].id : s \in {x \in Used' : rows'[x].type = "channel"}}
            BY <2>1, <2>3, <3>1, <3>2
        <3> QED  BY <3>3 DEF AdvertisedExactly
    <2> QED  BY <2>4, <2>5, <2>6, <2>7, <2>8 DEF StoreInv
<1>6. ASSUME NEW t \in Threads, AddFails(t) PROVE StoreInv'
    <2>1. \A i : Stored(i)' <=> Stored(i)
        BY <1>6, SameTables DEF AddFails, db
    <2>2. TransactionInv'
        BY <1>0, <1>6, <2>1 DEF AddFails, TransactionInv, TypeOK, db
    <2> QED  BY <1>6, <2>2, StoreFrame DEF AddFails
<1>6a. ASSUME NEW t \in Threads, TransactionFails(t) PROVE StoreInv'
    <2>1. \A i : Stored(i)' <=> Stored(i)
        BY <1>6a, SameTables DEF TransactionFails, db
    <2>2. TransactionInv'
        BY <1>0, <1>6a, <2>1, ConstantAssumption DEF TransactionFails, TransactionInv, TypeOK, db
    <2> QED  BY <1>6a, <2>2, StoreFrame DEF TransactionFails
<1>7. ASSUME NEW t \in Threads, Reply(t) \/ ReplyLost(t) PROVE StoreInv'
    <2>1. \A i : Stored(i)' <=> Stored(i)
        BY <1>7, SameTables DEF Reply, ReplyLost, db
    <2>2. TransactionInv'
        BY <1>0, <1>7, <2>1 DEF Reply, ReplyLost, TransactionInv, TypeOK, db
    <2> QED  BY <1>7, <2>2, StoreFrame DEF Reply, ReplyLost
<1>8. ASSUME UNCHANGED <<db, txn, thread>> PROVE StoreInv'
    <2>1. \A i : Stored(i)' <=> Stored(i)
        BY <1>8, SameTables DEF db
    <2>2. TransactionInv'
        BY <1>0, <1>8, <2>1 DEF TransactionInv, db
    <2> QED  BY <1>8, <2>2, StoreFrame
<1>9. ASSUME NEW r \in Readers, NEW q \in Queries, StartWalk(r, q) PROVE StoreInv'
    BY <1>8, <1>9 DEF StartWalk
<1>10. ASSUME NEW r \in Readers, GetPage(r) \/ GetAssertion(r) \/ AbortWalk(r) PROVE StoreInv'
    BY <1>8, <1>10 DEF GetPage, GetAssertion, AbortWalk
<1>11. CASE Crash
    <2>1. TransactionInv'
        BY <1>11, ConstantAssumption DEF Crash, TransactionInv
    <2> QED  BY <1>11, <2>1, StoreFrame DEF Crash
<1>12. CASE Restart
    BY <1>8, <1>12 DEF Restart
<1>13. CASE UNCHANGED vars
    BY <1>8, <1>13 DEF vars
<1> QED
    BY <1>1, <1>2, <1>3, <1>4, <1>5, <1>6, <1>6a, <1>7, <1>9, <1>10, <1>11, <1>12, <1>13
    DEF Next, ThreadStep
-----------------------------------------------------------------------------
(***************************************************************************)
(* Answers                                                                 *)
(***************************************************************************)
AnswersInv == AnswerInv /\ AckedIsDurable /\ AtMostOneFresh

\* Nobody has been answered yet.
LEMMA InitAnswers == Init => AnswersInv
BY DEF Init, AnswersInv, AnswerInv, AckedIsDurable, AtMostOneFresh, Fresh

\* A step that makes no new answer and no row disappear keeps the answers true.
LEMMA AnswersFrame ==
    ASSUME AnswersInv, UNCHANGED hist,
           \A i : Stored(i) => Stored(i)',
           \A t \in Threads : pc'[t] = "reply" /\ outcome'[t] \in {"fresh", "duplicate"} =>
               pc'[t] = pc[t] /\ outcome'[t] = outcome[t] /\ req'[t] = req[t]
    PROVE  AnswersInv'
BY DEF AnswersInv, AnswerInv, AckedIsDurable, AtMostOneFresh, Fresh, hist

\* Every step keeps the answers true.
LEMMA NextAnswers == TypeOK /\ StoreInv /\ AnswersInv /\ [Next]_vars => AnswersInv'
<1> SUFFICES ASSUME TypeOK, StoreInv, AnswersInv, [Next]_vars PROVE AnswersInv'
    OBVIOUS
<1> USE DEF txn, thread
<1>0. TransactionInv /\ SeqInv
    BY DEF StoreInv
<1>1. ASSUME NEW t \in Threads, NEW b \in Bodies, Refuse(t, b) PROVE AnswersInv'
    <2>1. \A i : Stored(i)' <=> Stored(i)
        BY <1>1, SameTables DEF Refuse, db
    <2>2. Refusal(b, cfg) \notin {"fresh", "duplicate"}
        BY <1>1, RefusalIsError DEF Refuse
    <2> QED  BY <1>1, <2>1, <2>2, AnswersFrame DEF Refuse, TypeOK
<1>2. ASSUME NEW t \in Threads, NEW b \in Bodies, Submit(t, b) PROVE AnswersInv'
    <2>1. \A i : Stored(i)' <=> Stored(i)
        BY <1>2, SameTables DEF Submit, db
    <2> QED  BY <1>2, <2>1, AnswersFrame DEF Submit, TypeOK
<1>3. ASSUME NEW t \in Threads, \/ InsertAssertion(t) \/ InsertAdvertised(t)
                                \/ AddFails(t) \/ TransactionFails(t)
      PROVE  AnswersInv'
    <2>1. \A i : Stored(i)' <=> Stored(i)
        BY <1>3, SameTables DEF InsertAssertion, InsertAdvertised, AddFails, TransactionFails, db
    <2> QED
        BY <1>3, <2>1, AnswersFrame
        DEF InsertAssertion, InsertAdvertised, AddFails, TransactionFails, TypeOK
<1>4. ASSUME NEW t \in Threads, Commit(t) PROVE AnswersInv'
    <2>1. \A i : Stored(i)' <=> Stored(i) \/ (txnRow # NoRow /\ txnRow.id = i)
        BY <1>0, <1>4, CommitEffect
    <2>2. /\ writer = t /\ req[t] \in Bodies /\ req[t].id \in Ids
          /\ txnRow # NoRow => txnRow = req[t] /\ ~Stored(req[t].id)
          /\ txnRow = NoRow => Stored(req[t].id)
        BY <1>0, <1>4, BodyAssumption DEF Commit, TransactionInv, TypeOK, Ids
    <2>3. /\ pc' = [pc EXCEPT ![t] = "reply"] /\ req' = req /\ firsts' = firsts /\ acked' = acked
          /\ outcome' = [outcome EXCEPT ![t] = IF txnRow = NoRow THEN "duplicate" ELSE "fresh"]
        BY <1>4 DEF Commit, hist
    <2>4. /\ \A u \in Threads : pc'[u] = "reply" /\ outcome'[u] \in {"fresh", "duplicate"} =>
                Stored(req[u].id)'
          /\ \A u \in Threads : Fresh(u)' => firsts'[req'[u].id] = 0
        BY <2>1, <2>2, <2>3 DEF AnswersInv, AnswerInv, Fresh, TypeOK
    <2>5. \A u, v \in Threads : Fresh(u)' /\ Fresh(v)' /\ req'[u].id = req'[v].id => u = v
        BY <2>1, <2>2, <2>3 DEF AnswersInv, AnswerInv, Fresh, TypeOK
    <2>6. \A i \in Ids : firsts'[i] # 0 => Stored(i)'
        BY <2>1, <2>3 DEF AnswersInv, AnswerInv
    <2>7. AckedIsDurable' /\ AtMostOneFresh'
        BY <2>1, <2>3 DEF AnswersInv, AckedIsDurable, AtMostOneFresh
    <2> QED  BY <2>4, <2>5, <2>6, <2>7 DEF AnswersInv, AnswerInv
<1>5. ASSUME NEW t \in Threads, Reply(t) PROVE AnswersInv'
    <2>1. \A i : Stored(i)' <=> Stored(i)
        BY <1>5, SameTables DEF Reply, db
    <2>2. req[t] \in Bodies /\ req[t].id \in Ids
        BY <1>5 DEF Reply, TypeOK, Ids
    <2>3. /\ pc' = [pc EXCEPT ![t] = "idle"] /\ req' = [req EXCEPT ![t] = NoRow]
          /\ pc[t] = "reply" /\ outcome' = [outcome EXCEPT ![t] = "none"]
          /\ acked' = IF outcome[t] \in {"fresh", "duplicate"} THEN acked \cup {req[t].id} ELSE acked
          /\ firsts' = IF outcome[t] = "fresh" THEN [firsts EXCEPT ![req[t].id] = @ + 1] ELSE firsts
        BY <1>5 DEF Reply
    <2>4. \A u \in Threads : u # t => pc'[u] = pc[u] /\ req'[u] = req[u] /\ outcome'[u] = outcome[u]
        BY <2>3 DEF TypeOK
    <2>5. AckedIsDurable'
        BY <2>1, <2>3 DEF AnswersInv, AnswerInv, AckedIsDurable
    <2>6. \A i \in Ids : firsts[i] \in Nat /\ firsts'[i] =
             IF outcome[t] = "fresh" /\ i = req[t].id THEN firsts[i] + 1 ELSE firsts[i]
        BY <2>2, <2>3 DEF TypeOK
    <2>7. AtMostOneFresh'
        BY <2>2, <2>3, <2>6 DEF AnswersInv, AnswerInv, AtMostOneFresh, Fresh
    <2>8. \A i \in Ids : firsts'[i] # 0 => Stored(i)'
        BY <2>1, <2>3, <2>6 DEF AnswersInv, AnswerInv
    <2>9. \A u \in Threads : Fresh(u)' => Fresh(u) /\ u # t /\ req'[u] = req[u]
        BY <2>3, <2>4 DEF Fresh, TypeOK
    <2>10. \A u \in Threads : Fresh(u)' => firsts'[req'[u].id] = 0
        <3> SUFFICES ASSUME NEW u \in Threads, Fresh(u)' PROVE firsts'[req'[u].id] = 0
            OBVIOUS
        <3>1. req[u] \in Bodies /\ req[u].id \in Ids /\ firsts[req[u].id] = 0
            BY <2>9 DEF AnswersInv, AnswerInv, Fresh, TypeOK, Ids
        <3>2. outcome[t] = "fresh" => req[u].id # req[t].id
            BY <2>3, <2>9 DEF AnswersInv, AnswerInv, Fresh
        <3> QED  BY <2>6, <2>9, <3>1, <3>2
    <2>11. /\ \A u \in Threads : pc'[u] = "reply" /\ outcome'[u] \in {"fresh", "duplicate"} =>
                Stored(req[u].id)'
           /\ \A u, v \in Threads : Fresh(u)' /\ Fresh(v)' /\ req'[u].id = req'[v].id => u = v
        BY <2>1, <2>3, <2>4, <2>9 DEF AnswersInv, AnswerInv, TypeOK
    <2> QED  BY <2>5, <2>7, <2>8, <2>10, <2>11 DEF AnswersInv, AnswerInv
<1>6. ASSUME NEW t \in Threads, ReplyLost(t) PROVE AnswersInv'
    <2>1. \A i : Stored(i)' <=> Stored(i)
        BY <1>6, SameTables DEF ReplyLost, db
    <2> QED  BY <1>6, <2>1, AnswersFrame DEF ReplyLost, TypeOK
<1>7. ASSUME UNCHANGED <<db, thread, hist>> PROVE AnswersInv'
    <2>1. \A i : Stored(i)' <=> Stored(i)
        BY <1>7, SameTables DEF db
    <2> QED  BY <1>7, <2>1, AnswersFrame
<1>8. ASSUME NEW r \in Readers, NEW q \in Queries, StartWalk(r, q) PROVE AnswersInv'
    BY <1>7, <1>8 DEF StartWalk
<1>9. ASSUME NEW r \in Readers, GetPage(r) \/ GetAssertion(r) \/ AbortWalk(r) PROVE AnswersInv'
    BY <1>7, <1>9 DEF GetPage, GetAssertion, AbortWalk
<1>10. CASE Crash
    <2>1. \A i : Stored(i)' <=> Stored(i)
        BY <1>10, SameTables DEF Crash, db
    <2> QED  BY <1>10, <2>1, AnswersFrame DEF Crash
<1>11. CASE Restart
    BY <1>7, <1>11 DEF Restart
<1>12. CASE UNCHANGED vars
    BY <1>7, <1>12 DEF vars
<1> QED
    BY <1>1, <1>2, <1>3, <1>4, <1>5, <1>6, <1>8, <1>9, <1>10, <1>11, <1>12 DEF Next, ThreadStep
-----------------------------------------------------------------------------
(***************************************************************************)
(* Walks                                                                   *)
(***************************************************************************)

\* No walk has begun.
LEMMA InitWalks == Init => WalkInv
BY DEF Init, WalkInv, WalkOK, NoWalk

\* A walk that is left alone stays right as the relay's tables move on.
LEMMA WalkFrame ==
    ASSUME TypeOK, StoreInv, [Next]_vars, NEW w \in Walks, WalkOK(w)
    PROVE  WalkOK(w)'
<1> USE DEF txn, thread, hist
<1>1. ASSUME UNCHANGED db PROVE WalkOK(w)'
    <2>1. lastSeq' = lastSeq /\ \A q : Selected(q)' = Selected(q)
        BY <1>1, SameTables DEF db
    <2> QED  BY <2>1 DEF WalkOK
<1>2. ASSUME NEW t \in Threads, Commit(t) PROVE WalkOK(w)'
    <2>1. /\ Selected(w.query) \subseteq Selected(w.query)'
          /\ Selected(w.query)' \subseteq Selected(w.query) \cup {lastSeq + 1}
        BY <1>2, CommitSelected
    <2>2. lastSeq' = lastSeq + 1 /\ lastSeq \in Nat /\ w.start \in Nat /\ w.cursor \in Nat
        BY <1>2 DEF Commit, TypeOK, Walks
    <2>3. w.start <= lastSeq /\ w.cursor <= lastSeq
        BY DEF WalkOK
    <2>4. /\ ~(lastSeq + 1 <= w.start) /\ ~(lastSeq + 1 <= w.cursor)
          /\ w.start <= lastSeq' /\ w.cursor <= lastSeq'
        BY <2>2, <2>3
    <2> QED  BY <2>1, <2>4 DEF WalkOK
<1>3. (\E t \in Threads : Commit(t)) \/ UNCHANGED db
    BY DEF Next, ThreadStep, Refuse, Submit, InsertAssertion, InsertAdvertised, AddFails, Reply,
           TransactionFails, ReplyLost, StartWalk, GetPage, GetAssertion, AbortWalk, Crash, Restart, vars
<1> QED  BY <1>1, <1>2, <1>3

\* A page takes a walk from "everything up to the old cursor" to "everything
\* up to the new one", without repeats, or to the end of the listing.
LEMMA PageAdvances ==
    ASSUME TypeOK, StoreInv, WalkInv, NEW r \in Readers, GetPage(r)
    PROVE  WalkOK(reader'[r])
<1> DEFINE w    == reader[r]
           Q    == Selected(w.query)
           M    == After(Q, w.cursor)
           page == FirstN(M, cfg.page_size)
           more == Cardinality(M) > cfg.page_size
<1>1. /\ w.phase = "walking" /\ w \in Walks
      /\ reader' = [reader EXCEPT ![r] =
             [w EXCEPT !.phase = IF more THEN "walking" ELSE "done",
                       !.cursor = IF more THEN Last(page) ELSE @,
                       !.got = @ \cup page,
                       !.repeated = @ \/ page \cap w.got # {}]]
    BY DEF GetPage, TypeOK
<1>2. M \in SUBSET Rowids /\ cfg.page_size \in Nat \ {0} /\ Q \subseteq Used /\ Used \subseteq Nat
    BY PageSizePositive DEF Selected, Used, Rowids
<1>3. /\ page \subseteq M
      /\ \A s \in page, x \in M : x <= s => x \in page
      /\ ~more => page = M
      /\ more => page # {}
    <2>1. Cardinality(M) \in Nat
        BY <1>2, RowidsFinite
    <2>2. ~more => Cardinality(M) <= cfg.page_size
        BY <1>2, <2>1
    <2> HIDE DEF M
    <2> QED  BY <1>2, <2>2, FirstNIsPrefix
<1>4. more => Last(page) \in page /\ \A x \in page : x <= Last(page)
    BY <1>2, <1>3, LastIsLargest
<1>5. /\ w.got = {s \in Q : s <= w.cursor} /\ ~w.repeated
      /\ w.start <= lastSeq /\ w.cursor <= lastSeq
      /\ w.cursor \in Nat /\ w.start \in Nat /\ lastSeq \in Nat
    BY <1>1 DEF WalkInv, WalkOK, TypeOK, Walks
<1>6. page \cap w.got = {}
    <2>1. \A s \in M : s \in Nat /\ s > w.cursor
        BY <1>2
    <2>2. \A s \in M : ~(s <= w.cursor)
        BY <1>5, <2>1
    <2> QED  BY <1>3, <1>5, <2>2
<1> HIDE DEF more, page
<1> DEFINE v == reader'[r]
<1>7. /\ v.phase = IF more THEN "walking" ELSE "done"
      /\ v.cursor = IF more THEN Last(page) ELSE w.cursor
      /\ v.got = w.got \cup page
      /\ v.repeated = FALSE
      /\ v.query = w.query /\ v.start = w.start
    BY <1>1, <1>5, <1>6 DEF TypeOK, Walks
<1> HIDE DEF v
<1>8. CASE more
    <2> DEFINE c == Last(page)
    <2>1. c \in Used /\ c \in Nat /\ c > w.cursor /\ c \in M
        BY <1>2, <1>3, <1>4, <1>8
    <2>2. c <= lastSeq
        BY <2>1 DEF StoreInv, SeqInv
    <2> HIDE DEF c
    <2>3. \A s \in Q : s <= c <=> s <= w.cursor \/ s \in page
        <3> SUFFICES ASSUME NEW s \in Q PROVE s <= c <=> s <= w.cursor \/ s \in page
            OBVIOUS
        <3>1. s \in Nat
            BY <1>2
        <3>2. s <= w.cursor => s <= c
            BY <1>5, <2>1, <3>1
        <3>3. s \in page => s <= c
            BY <1>4, <1>8 DEF c
        <3>4. s <= c /\ ~(s <= w.cursor) => s \in page
            <4>1. ~(s <= w.cursor) => s \in M
                BY <1>5, <3>1
            <4> QED  BY <1>3, <1>4, <1>8, <4>1 DEF c
        <3> QED  BY <3>2, <3>3, <3>4
    <2>4. v.got = {s \in Q : s <= c}
        BY <1>3, <1>5, <1>7, <2>3
    <2>5. WalkOK(v)
        BY <1>5, <1>7, <1>8, <2>2, <2>4 DEF WalkOK, c
    <2> QED  BY <2>5 DEF v
<1>9. CASE ~more
    <2>1. v.got = Q
        <3>1. \A s \in Q : s \in Nat
            BY <1>2
        <3>2. \A s \in Q : s <= w.cursor \/ s > w.cursor
            BY <1>5, <3>1
        <3>3. w.got \cup M = Q
            BY <1>5, <3>2
        <3> QED  BY <1>3, <1>7, <1>9, <3>3
    <2>2. WalkOK(v)
        BY <1>5, <1>7, <1>9, <2>1 DEF WalkOK
    <2> QED  BY <2>2 DEF v
<1> QED  BY <1>8, <1>9

\* Every step keeps every walk right.
LEMMA NextWalks == TypeOK /\ StoreInv /\ WalkInv /\ [Next]_vars => WalkInv'
<1> SUFFICES ASSUME TypeOK, StoreInv, WalkInv, [Next]_vars, NEW r \in Readers
             PROVE  WalkOK(reader[r])'
    BY DEF WalkInv
<1> USE DEF txn, thread, hist
<1>1. reader[r] \in Walks /\ WalkOK(reader[r])
    BY DEF TypeOK, WalkInv
<1>2. ASSUME reader'[r] = reader[r] PROVE WalkOK(reader[r])'
    <2>1. ASSUME NEW w \in Walks, WalkOK(w) PROVE WalkOK(w)'
        BY <2>1, WalkFrame
    <2>2. PICK w \in Walks : w = reader[r]
        BY <1>1
    <2>3. WalkOK(w)'
        BY <1>1, <2>1, <2>2
    <2> QED  BY <1>2, <2>2, <2>3 DEF WalkOK
<1>3. ASSUME UNCHANGED db, WalkOK(reader'[r]) PROVE WalkOK(reader[r])'
    <2>1. lastSeq' = lastSeq /\ \A q : Selected(q)' = Selected(q)
        BY <1>3, SameTables DEF db
    <2> QED  BY <1>3, <2>1 DEF WalkOK
<1>4. ASSUME NEW q \in Queries, StartWalk(r, q) PROVE WalkOK(reader[r])'
    <2>1. reader'[r] = NewWalk(q)
        BY <1>4 DEF StartWalk, TypeOK
    <2>2. \A s \in Selected(q) : ~(s <= 0)
        BY DEF Selected, Used, Rowids
    <2>3. lastSeq \in Nat
        BY DEF TypeOK
    <2>4. WalkOK(NewWalk(q))
        BY <2>2, <2>3 DEF WalkOK, NewWalk
    <2> QED  BY <1>3, <1>4, <2>1, <2>4 DEF StartWalk
<1>5. ASSUME GetPage(r) PROVE WalkOK(reader[r])'
    <2>1. WalkOK(reader'[r])
        BY <1>5, PageAdvances
    <2> QED  BY <1>3, <1>5, <2>1 DEF GetPage
<1>6. ASSUME GetAssertion(r) PROVE WalkOK(reader[r])'
    <2>1. /\ reader'[r].phase = "done" /\ reader'[r].got = Selected(reader[r].query)
          /\ reader'[r].query = reader[r].query /\ reader'[r].start = reader[r].start
          /\ reader'[r].cursor = reader[r].cursor /\ reader'[r].repeated = reader[r].repeated
        BY <1>1, <1>6 DEF GetAssertion, TypeOK, Walks
    <2>2. WalkOK(reader'[r])
        BY <1>1, <2>1 DEF WalkOK
    <2> QED  BY <1>3, <1>6, <2>2 DEF GetAssertion
<1>7. ASSUME AbortWalk(r) PROVE WalkOK(reader[r])'
    <2>1. reader'[r] = NoWalk
        BY <1>7 DEF AbortWalk, TypeOK
    <2>2. lastSeq \in Nat
        BY DEF TypeOK
    <2>3. WalkOK(NoWalk)
        BY <2>2 DEF WalkOK, NoWalk
    <2> QED  BY <1>3, <1>7, <2>1, <2>3 DEF AbortWalk
<1>8. \/ reader'[r] = reader[r]
      \/ \E q \in Queries : StartWalk(r, q)
      \/ GetPage(r) \/ GetAssertion(r) \/ AbortWalk(r)
    <2>1. ASSUME NEW u \in Readers, u # r,
                 (\E q \in Queries : StartWalk(u, q)) \/ GetPage(u) \/ GetAssertion(u) \/ AbortWalk(u)
          PROVE  reader'[r] = reader[r]
        BY <2>1 DEF StartWalk, GetPage, GetAssertion, AbortWalk, TypeOK
    <2>2. ASSUME NEW t \in Threads, ThreadStep(t) \/ \E b \in Bodies : Refuse(t, b) \/ Submit(t, b)
          PROVE  reader' = reader
        BY <2>2 DEF ThreadStep, Refuse, Submit, InsertAssertion, InsertAdvertised, Commit,
                    AddFails, TransactionFails, Reply, ReplyLost
    <2>3. Crash \/ Restart \/ UNCHANGED vars => reader' = reader
        BY DEF Crash, Restart, vars
    <2> QED  BY <2>1, <2>2, <2>3 DEF Next
<1> QED  BY <1>2, <1>4, <1>5, <1>6, <1>7, <1>8

-----------------------------------------------------------------------------
(***************************************************************************)
(* The theorems                                                            *)
(***************************************************************************)

\* The conjunction of the invariants above is inductive, hence always true.
THEOREM RelayInvariant == Spec => []IInv
<1>1. Init => IInv
    BY InitType, InitStore, InitAnswers, InitWalks DEF IInv, AnswersInv
<1>2. IInv /\ [Next]_vars => IInv'
    <2> SUFFICES ASSUME IInv, [Next]_vars PROVE IInv'
        OBVIOUS
    <2>1. TypeOK /\ TransactionInv /\ StoreInv /\ AnswersInv /\ WalkInv
        BY DEF IInv, StoreInv, AnswersInv
    <2>2. TypeOK' /\ StoreInv' /\ AnswersInv' /\ WalkInv'
        BY <2>1, NextType, NextStore, NextAnswers, NextWalks
    <2> QED  BY <2>2 DEF IInv, AnswersInv
<1> QED  BY <1>1, <1>2, PTL DEF Spec

\* The tables, threads and clients of the relay always have their types; a
\* rowid never passes the largest one.
THEOREM TypeCorrect == Spec => []TypeOK
<1>1. IInv => TypeOK
    BY DEF IInv
<1> QED  BY <1>1, RelayInvariant, PTL

\* What do_POST has answered 200 for is in the committed table, for ever.
THEOREM AcknowledgedIsDurable == Spec => []AckedIsDurable
<1>1. IInv => AckedIsDurable
    BY DEF IInv
<1> QED  BY <1>1, RelayInvariant, PTL

\* At most one client is told duplicate=false for an assertion.
THEOREM FreshOnce == Spec => []AtMostOneFresh
<1>1. IInv => AtMostOneFresh
    BY DEF IInv
<1> QED  BY <1>1, RelayInvariant, PTL

\* Store.add stores no id twice.
THEOREM IdsAreUnique == Spec => []UniqueIds
<1>1. IInv => UniqueIds
    BY DEF IInv, StoreInv
<1> QED  BY <1>1, RelayInvariant, PTL

\* Store.add keeps its two tables in step.
THEOREM StoreConsistent == Spec => []AdvertisedExactly
<1>1. IInv => AdvertisedExactly
    BY DEF IInv, StoreInv
<1> QED  BY <1>1, RelayInvariant, PTL

\* The relay holds only what passed verification.
THEOREM HoldsOnlyValid == Spec => []OnlyValid
<1>1. IInv => OnlyValid
    BY DEF IInv, StoreInv
<1> QED  BY <1>1, RelayInvariant, PTL

\* A finished walk has everything stored when it began and only what belongs
\* to it.
THEOREM WalksAreComplete == Spec => []ListingComplete
<1>1. IInv => ListingComplete
    BY DEF IInv, WalkInv, WalkOK, ListingComplete
<1> QED  BY <1>1, RelayInvariant, PTL

\* No page of a walk repeats an item of an earlier one.
THEOREM WalksNeverRepeat == Spec => []NoItemTwice
<1>1. IInv => NoItemTwice
    BY DEF IInv, WalkInv, WalkOK, NoItemTwice
<1> QED  BY <1>1, RelayInvariant, PTL

\* Committed rows are never changed, and appear in rowid order.
THEOREM TableIsAppendOnly == Spec => AppendOnly
<1> DEFINE Step == \A s \in Rowids :
         /\ rows[s] # NoRow => rows'[s] = rows[s]
         /\ rows[s] = NoRow /\ rows'[s] # NoRow => \A x \in Used : x < s
<1>1. IInv /\ [Next]_vars => [Step]_vars
    <2> SUFFICES ASSUME IInv, Next PROVE Step
        BY DEF vars
    <2>1. TypeOK /\ TransactionInv /\ SeqInv
        BY DEF IInv, StoreInv
    <2>2. ASSUME NEW t \in Threads, Commit(t) PROVE Step
        <3>1. /\ lastSeq + 1 \in Rowids /\ lastSeq + 1 \notin Used
              /\ \A s \in Used : rows'[s] = rows[s]
              /\ Used' = IF txnRow = NoRow THEN Used ELSE Used \cup {lastSeq + 1}
            BY <2>1, <2>2, CommitEffect
        <3>2. \A x \in Used : x \in Nat /\ x < lastSeq + 1
            BY <2>1 DEF SeqInv, TypeOK, Used, Rowids
        <3> QED  BY <3>1, <3>2 DEF Used
    <2>3. (\E t \in Threads : Commit(t)) \/ rows' = rows
        BY DEF Next, ThreadStep, Refuse, Submit, InsertAssertion, InsertAdvertised, AddFails, Reply,
               TransactionFails, ReplyLost, StartWalk, GetPage, GetAssertion, AbortWalk, Crash, Restart, db
    <2> QED  BY <2>2, <2>3
<1> QED  BY <1>1, RelayInvariant, PTL DEF Spec, AppendOnly

\* A page that is not the last moves the cursor.
LEMMA PageMoves ==
    ASSUME TypeOK, NEW r \in Readers, GetPage(r), reader'[r].phase = "walking"
    PROVE  reader'[r].cursor > reader[r].cursor
<1> DEFINE w    == reader[r]
           M    == After(Selected(w.query), w.cursor)
           page == FirstN(M, cfg.page_size)
           more == Cardinality(M) > cfg.page_size
<1>1. /\ w \in Walks
      /\ reader'[r] = [w EXCEPT !.phase = IF more THEN "walking" ELSE "done",
                                !.cursor = IF more THEN Last(page) ELSE @,
                                !.got = @ \cup page,
                                !.repeated = @ \/ page \cap w.got # {}]
    BY DEF GetPage, TypeOK
<1>2. M \in SUBSET Rowids /\ cfg.page_size \in Nat \ {0}
    BY PageSizePositive DEF Selected, Used
<1>3. page \subseteq M /\ page \subseteq Rowids /\ (more => page # {})
    BY <1>2, FirstNIsPrefix
<1>4. more => Last(page) \in M
    BY <1>3, LastIsLargest
<1>5. \A s \in M : s > w.cursor
    OBVIOUS
<1> HIDE DEF M, page, more
<1>6. more /\ reader'[r].cursor = Last(page)
    BY <1>1 DEF Walks
<1> QED  BY <1>4, <1>5, <1>6

\* The pages of a walk move its cursor on, whatever happens between them.
THEOREM EveryPageMovesOn == Spec => PagesMoveOn
<1> DEFINE Moves == \A r \in Readers :
         /\ reader[r].phase = "walking" /\ reader'[r].phase = "walking"
         /\ reader'[r] # reader[r]
         => reader'[r].cursor > reader[r].cursor
<1>1. IInv /\ [Next]_vars => [Moves]_vars
    <2> SUFFICES ASSUME IInv, Next, NEW r \in Readers, reader[r].phase = "walking",
                        reader'[r].phase = "walking", reader'[r] # reader[r]
                 PROVE  reader'[r].cursor > reader[r].cursor
        BY DEF vars
    <2>1. TypeOK
        BY DEF IInv
    <2>2. PICK u \in Readers : \/ GetPage(u) \/ GetAssertion(u) \/ AbortWalk(u)
                               \/ \E q \in Queries : StartWalk(u, q)
        BY DEF Next, ThreadStep, Refuse, Submit, InsertAssertion, InsertAdvertised, Commit, AddFails, Reply,
               TransactionFails, ReplyLost, Crash, Restart
    <2>3. u = r
        BY <2>1, <2>2 DEF GetPage, GetAssertion, AbortWalk, StartWalk, TypeOK
    <2>4. reader \in [Readers -> Walks]
        BY <2>1 DEF TypeOK
    <2>5. GetPage(r)
        <3>1. ~GetAssertion(r)
            BY <2>4 DEF GetAssertion, Walks
        <3>2. ~AbortWalk(r)
            BY <2>4 DEF AbortWalk, NoWalk
        <3>3. ~\E q \in Queries : StartWalk(r, q)
            BY DEF StartWalk
        <3> QED  BY <2>2, <2>3, <3>1, <3>2, <3>3
    <2> QED  BY <2>1, <2>5, PageMoves
<1> QED  BY <1>1, RelayInvariant, PTL DEF Spec, PagesMoveOn

-----------------------------------------------------------------------------
(***************************************************************************)
(* The durable relay implements RelaySpec                                  *)
(***************************************************************************)

Held == {rows[s] : s \in Used}

\* The WHERE clauses, the join included, select what the query asks for.
LEMMA SelectedIsWanted ==
    ASSUME TypeOK, StoreInv, NEW q \in Queries, NEW s \in Used
    PROVE  s \in Selected(q) <=> Abstract!Wanted(q, rows[s])
<1>1. rows[s].id \in advertised <=> rows[s].type = "channel"
    <2>1. advertised = {rows[x].id : x \in {y \in Used : rows[y].type = "channel"}}
        BY DEF StoreInv, AdvertisedExactly
    <2>2. \A x \in Used : rows[x].id = rows[s].id => x = s
        BY DEF StoreInv, UniqueIds
    <2> QED  BY <2>1, <2>2
<1>2. q.kind \in Kinds
    BY ConstantAssumption
<1> QED  BY <1>1, <1>2 DEF Selected, Matches, ChannelOf, Abstract!Wanted, Kinds

\* Rows a query selects are the answer to it.
LEMMA SelectedIsAnswer ==
    ASSUME TypeOK, StoreInv, NEW q \in Queries
    PROVE  {rows[s] : s \in Selected(q)} = Abstract!Answer(q, Held)
<1>1. \A s \in Used : s \in Selected(q) <=> Abstract!Wanted(q, rows[s])
    BY SelectedIsWanted
<1>2. Selected(q) \subseteq Used
    BY DEF Selected
<1> QED  BY <1>1, <1>2 DEF Abstract!Answer, Held

\* Nothing a client sees changes when the tables and the walks do not.
LEMMA SameView ==
    ASSUME UNCHANGED <<db, reader>>
    PROVE  /\ Held' = Held
           /\ \A r \in Readers : ListingOf(r)' = ListingOf(r)
<1>1. /\ rows' = rows /\ reader' = reader /\ Used' = Used
      /\ \A q : Selected(q)' = Selected(q)
    BY SameTables DEF db
<1> QED  BY <1>1 DEF Held, ListingOf

\* The initial states of the relay are initial states of the promise.
LEMMA InitRefines == Init => Abstract!Init
<1> SUFFICES ASSUME Init PROVE Abstract!Init
    OBVIOUS
<1>1. Used = {}
    BY DEF Init, Used
<1>2. \A r \in Readers : ListingOf(r) = Abstract!NoListing
    BY DEF Init, ListingOf, NoWalk, Abstract!NoListing
<1>3. acked = {} /\ firsts = [i \in Abstract!Ids |-> 0]
    BY DEF Init, Ids, Abstract!Ids
<1> QED  BY <1>1, <1>2, <1>3 DEF Abstract!Init

\* COMMIT is Accept, or invisible when the assertion was there already.
LEMMA CommitRefines ==
    ASSUME IInv, NEW t \in Threads, Commit(t)
    PROVE  Abstract!Next \/ UNCHANGED Abstract!vars
<1>0. TypeOK /\ StoreInv /\ TransactionInv /\ SeqInv /\ WalkInv
    BY DEF IInv, StoreInv
<1>1. /\ \A s \in Used : s \in Used' /\ rows'[s] = rows[s]
      /\ Used' = IF txnRow = NoRow THEN Used ELSE Used \cup {lastSeq + 1}
      /\ rows'[lastSeq + 1] = txnRow
    BY <1>0, CommitEffect
<1>2. Held' = IF txnRow = NoRow THEN Held ELSE Held \cup {txnRow}
    BY <1>1 DEF Held
<1>3. reader' = reader /\ acked' = acked /\ firsts' = firsts
    BY DEF Commit, hist
<1>4. ASSUME NEW r \in Readers PROVE ListingOf(r)' = ListingOf(r)
    <2> DEFINE w == reader[r]
    <2>1. /\ w \in Walks /\ WalkOK(w) /\ w.start \in Nat /\ lastSeq \in Nat
          /\ w.start <= lastSeq
        BY <1>0 DEF TypeOK, WalkInv, WalkOK, Walks
    <2>2. /\ Selected(w.query) \subseteq Selected(w.query)'
          /\ Selected(w.query)' \subseteq Selected(w.query) \cup {lastSeq + 1}
          /\ Selected(w.query) \subseteq Used
        <3>1. \A q : /\ Selected(q) \subseteq Selected(q)'
                     /\ Selected(q)' \subseteq Selected(q) \cup {lastSeq + 1}
            BY <1>0, CommitSelected
        <3> QED  BY <1>3, <3>1 DEF Selected
    <2>3. ~(lastSeq + 1 <= w.start)
        BY <2>1
    <2>4. {rows'[s] : s \in {x \in Selected(w.query)' : x <= w.start}}
            = {rows[s] : s \in {x \in Selected(w.query) : x <= w.start}}
        BY <1>1, <2>2, <2>3
    <2>5. w.phase = "done" => {rows'[s] : s \in w.got} = {rows[s] : s \in w.got}
        BY <1>1, <2>1, <2>2 DEF WalkOK
    <2> QED  BY <1>3, <2>4, <2>5 DEF ListingOf
<1>5. [r \in Readers |-> ListingOf(r)]' = [r \in Readers |-> ListingOf(r)]
    BY <1>4
<1>6. CASE txnRow = NoRow
    BY <1>2, <1>3, <1>5, <1>6 DEF Abstract!vars, Held
<1>7. CASE txnRow # NoRow
    <2>1. txnRow \in Bodies /\ \A b \in Held : b.id # txnRow.id
        BY <1>0, <1>7 DEF TypeOK, TransactionInv, Stored, Held
    <2>2. PICK b \in Bodies : b = txnRow
        BY <2>1
    <2>3. Abstract!Accept(b)
        BY <1>2, <1>3, <1>5, <1>7, <2>1, <2>2 DEF Abstract!Accept, Held
    <2> QED  BY <2>3 DEF Abstract!Next
<1> QED  BY <1>6, <1>7

\* _send of a 200 is Acknowledge; of an error, invisible.
LEMMA ReplyRefines ==
    ASSUME IInv, NEW t \in Threads, Reply(t)
    PROVE  Abstract!Next \/ UNCHANGED Abstract!vars
<1>0. TypeOK /\ AnswerInv
    BY DEF IInv
<1>1. Held' = Held /\ [r \in Readers |-> ListingOf(r)]' = [r \in Readers |-> ListingOf(r)]
    BY SameView DEF Reply
<1>2. pc[t] = "reply" /\ req[t] \in Bodies
    BY <1>0 DEF Reply, TypeOK
<1>3. CASE outcome[t] \in {"fresh", "duplicate"}
    <2> DEFINE i == req[t].id
               fresh == outcome[t] = "fresh"
    <2>1. i \in Abstract!Ids
        BY <1>2 DEF Abstract!Ids
    <2>2. \E c \in Held : c.id = i
        BY <1>0, <1>2, <1>3 DEF AnswerInv, Stored, Held
    <2>3. fresh => firsts[i] = 0
        BY <1>0, <1>2 DEF AnswerInv, Fresh
    <2>4. /\ acked' = acked \cup {i}
          /\ firsts' = IF fresh THEN [firsts EXCEPT ![i] = @ + 1] ELSE firsts
        BY <1>3 DEF Reply
    <2>5. fresh \in BOOLEAN
        OBVIOUS
    <2> HIDE DEF i, fresh
    <2>6. Abstract!Acknowledge(i, fresh)
        BY <1>1, <2>2, <2>3, <2>4 DEF Abstract!Acknowledge, Held
    <2> QED  BY <2>1, <2>5, <2>6 DEF Abstract!Next
<1>4. CASE outcome[t] \notin {"fresh", "duplicate"}
    <2>1. acked' = acked /\ firsts' = firsts
        BY <1>4 DEF Reply
    <2> QED  BY <1>1, <2>1 DEF Abstract!vars, Held
<1> QED  BY <1>3, <1>4

\* A step of one reader's walk leaves the other readers' listings alone.
LEMMA OtherListings ==
    ASSUME TypeOK, UNCHANGED db, NEW r \in Readers, NEW v, reader' = [reader EXCEPT ![r] = v]
    PROVE  /\ Held' = Held
           /\ \A u \in Readers \ {r} : ListingOf(u)' = ListingOf(u)
           /\ reader'[r] = v
<1>1. rows' = rows /\ Used' = Used /\ \A q : Selected(q)' = Selected(q)
    BY SameTables DEF db
<1>2. reader'[r] = v /\ \A u \in Readers \ {r} : reader'[u] = reader[u]
    BY DEF TypeOK
<1> QED  BY <1>1, <1>2 DEF Held, ListingOf

\* The step that ends a walk is EndListing.
LEMMA EndRefines ==
    ASSUME IInv, IInv', UNCHANGED <<db, hist>>, NEW r \in Readers,
           NEW v, reader' = [reader EXCEPT ![r] = v],
           reader[r].phase = "walking", v.phase = "done",
           v.query = reader[r].query, v.start = reader[r].start
    PROVE  Abstract!Next
<1>0. TypeOK /\ StoreInv /\ WalkInv'
    BY DEF IInv
<1>1. /\ Held' = Held
      /\ \A u \in Readers \ {r} : ListingOf(u)' = ListingOf(u)
      /\ reader'[r] = v
    BY <1>0, OtherListings
<1>2. rows' = rows /\ \A q : Selected(q)' = Selected(q)
    BY SameTables DEF db
<1>3. reader[r].query \in Queries
    BY <1>0 DEF TypeOK
<1> DEFINE q == reader[r].query
           L == {rows[s] : s \in v.got}
           B == {rows[s] : s \in {x \in Selected(q) : x <= reader[r].start}}
<1>4. {s \in Selected(q) : s <= reader[r].start} \subseteq v.got /\ v.got \subseteq Selected(q)
    <2>1. WalkOK(reader[r])'
        BY <1>0 DEF WalkInv
    <2>2. /\ {s \in Selected(v.query)' : s <= v.start} \subseteq v.got
          /\ v.got \subseteq Selected(v.query)'
        BY <1>1, <1>2, <2>1 DEF WalkOK
    <2> QED  BY <1>2, <2>2
<1>5. ListingOf(r) = [phase |-> "open", query |-> q, base |-> B, result |-> {}]
    BY DEF ListingOf
<1>6. ListingOf(r)' = [phase |-> "closed", query |-> q, base |-> B, result |-> L]
    <2>1. /\ reader'[r].phase = "done" /\ reader'[r].query = q /\ reader'[r].got = v.got
          /\ reader'[r].start = reader[r].start
        BY <1>1
    <2>2. /\ Selected(reader[r].query)' = Selected(q)
          /\ {rows'[s] : s \in {x \in Selected(reader[r].query)' : x <= reader'[r].start}} = B
        BY <1>1, <1>2, <2>1 DEF Selected, Used, db
    <2>3. {rows'[s] : s \in reader'[r].got} = L
        BY <1>2, <2>1
    <2> HIDE DEF q, L, B
    <2> QED  BY <2>1, <2>2, <2>3 DEF ListingOf
<1>7. B \subseteq L /\ L \in SUBSET {rows[s] : s \in Selected(q)}
    BY <1>4
<1>8. {rows[s] : s \in Selected(q)} = Abstract!Answer(q, Held)
    BY <1>0, <1>3, SelectedIsAnswer
<1> DEFINE l == [u \in Readers |-> ListingOf(u)]
<1> HIDE DEF q, L, B
<1>9. l[r].phase = "open" /\ l[r].query = q /\ l[r].base = B
    BY <1>5
<1>10. l' = [l EXCEPT ![r] = [phase |-> "closed", query |-> @.query, base |-> @.base, result |-> L]]
    <2>1. l' = [u \in Readers |-> ListingOf(u)']
        OBVIOUS
    <2> QED  BY <1>1, <1>6, <1>9, <2>1
<1>11. acked' = acked /\ firsts' = firsts
    BY DEF hist
<1>12. Abstract!EndListing(r)
    BY <1>1, <1>7, <1>8, <1>9, <1>10, <1>11 DEF Abstract!EndListing, Held
<1> QED  BY <1>12 DEF Abstract!Next

\* Every step of the relay is a step of the promise, or invisible.
LEMMA NextRefines ==
    ASSUME IInv, IInv', [Next]_vars
    PROVE  Abstract!Next \/ UNCHANGED Abstract!vars
<1> USE DEF txn, thread
<1>0. TypeOK /\ StoreInv /\ SeqInv
    BY DEF IInv, StoreInv
<1>1. ASSUME UNCHANGED <<db, reader, hist>> PROVE UNCHANGED Abstract!vars
    <2>1. Held' = Held /\ [r \in Readers |-> ListingOf(r)]' = [r \in Readers |-> ListingOf(r)]
        BY <1>1, SameView
    <2> QED  BY <1>1, <2>1 DEF Abstract!vars, Held, hist
<1>2. ASSUME NEW t \in Threads, NEW b \in Bodies, Refuse(t, b) \/ Submit(t, b)
      PROVE  UNCHANGED Abstract!vars
    BY <1>1, <1>2 DEF Refuse, Submit
<1>3. ASSUME NEW t \in Threads,
             \/ InsertAssertion(t) \/ InsertAdvertised(t)
             \/ AddFails(t) \/ TransactionFails(t) \/ ReplyLost(t)
      PROVE  UNCHANGED Abstract!vars
    BY <1>1, <1>3 DEF InsertAssertion, InsertAdvertised, AddFails, TransactionFails, ReplyLost
<1>4. ASSUME NEW t \in Threads, Commit(t) PROVE Abstract!Next \/ UNCHANGED Abstract!vars
    BY <1>4, CommitRefines
<1>5. ASSUME NEW t \in Threads, Reply(t) PROVE Abstract!Next \/ UNCHANGED Abstract!vars
    BY <1>5, ReplyRefines
<1>6. ASSUME NEW r \in Readers, NEW q \in Queries, StartWalk(r, q) PROVE Abstract!Next
    <2> DEFINE l == [u \in Readers |-> ListingOf(u)]
    <2>1. UNCHANGED db /\ acked' = acked /\ firsts' = firsts /\ reader' = [reader EXCEPT ![r] = NewWalk(q)]
        BY <1>6 DEF StartWalk, hist
    <2>2. /\ Held' = Held
          /\ \A u \in Readers \ {r} : ListingOf(u)' = ListingOf(u)
          /\ reader'[r] = NewWalk(q)
        BY <1>0, <2>1, OtherListings
    <2>3. {x \in Selected(q) : x <= lastSeq} = Selected(q)
        BY <1>0 DEF Selected, SeqInv
    <2>4. {rows[s] : s \in Selected(q)} = Abstract!Answer(q, Held)
        BY <1>0, SelectedIsAnswer
    <2>5. /\ reader'[r].phase = "walking" /\ reader'[r].query = q /\ reader'[r].start = lastSeq
        BY <2>2 DEF NewWalk
    <2>6. /\ Selected(reader[r].query)' = Selected(q) /\ rows' = rows
          /\ {rows'[s] : s \in {x \in Selected(reader[r].query)' : x <= reader'[r].start}}
                = Abstract!Answer(q, Held)
        BY <2>1, <2>3, <2>4, <2>5 DEF Selected, Used, db
    <2>7. ListingOf(r)' = [phase |-> "open", query |-> q, base |-> Abstract!Answer(q, Held), result |-> {}]
        BY <2>5, <2>6 DEF ListingOf
    <2>8. l' = [l EXCEPT ![r] = [phase |-> "open", query |-> q,
                                 base |-> Abstract!Answer(q, Held), result |-> {}]]
        <3>1. l' = [u \in Readers |-> ListingOf(u)']
            OBVIOUS
        <3> QED  BY <2>2, <2>7, <3>1
    <2>9. Abstract!BeginListing(r, q)
        BY <2>1, <2>2, <2>8 DEF Abstract!BeginListing, Held
    <2> QED  BY <2>9 DEF Abstract!Next
<1>7. ASSUME NEW r \in Readers, GetPage(r) PROVE Abstract!Next \/ UNCHANGED Abstract!vars
    <2> DEFINE w == reader[r]
               M == After(Selected(w.query), w.cursor)
               more == Cardinality(M) > cfg.page_size
               page == FirstN(M, cfg.page_size)
               v == [w EXCEPT !.phase = IF more THEN "walking" ELSE "done",
                              !.cursor = IF more THEN Last(page) ELSE @,
                              !.got = @ \cup page,
                              !.repeated = @ \/ page \cap w.got # {}]
    <2>1. /\ UNCHANGED <<db, hist>> /\ w.phase = "walking" /\ w \in Walks
          /\ reader' = [reader EXCEPT ![r] = v]
        BY <1>0, <1>7 DEF GetPage, TypeOK
    <2> HIDE DEF M, more, page
    <2>2. /\ v.phase = IF more THEN "walking" ELSE "done"
          /\ v.query = w.query /\ v.start = w.start
        BY <2>1 DEF Walks
    <2> HIDE DEF v
    <2>3. CASE ~more
        BY <2>1, <2>2, <2>3, EndRefines
    <2>4. CASE more
        <3>1. /\ Held' = Held
              /\ \A u \in Readers \ {r} : ListingOf(u)' = ListingOf(u)
              /\ reader'[r] = v
            BY <1>0, <2>1, OtherListings
        <3>2. /\ reader'[r].phase = "walking" /\ reader'[r].query = w.query
              /\ reader'[r].start = w.start
            BY <2>2, <2>4, <3>1
        <3>3. Selected(reader[r].query)' = Selected(w.query) /\ rows' = rows
            BY <2>1, <3>2 DEF Selected, Used, db
        <3>4. ListingOf(r)' = ListingOf(r)
            BY <2>1, <3>2, <3>3 DEF ListingOf
        <3>5. [u \in Readers |-> ListingOf(u)]' = [u \in Readers |-> ListingOf(u)]
            BY <3>1, <3>4
        <3> QED  BY <2>1, <3>1, <3>5 DEF Abstract!vars, Held, hist
    <2> QED  BY <2>3, <2>4
<1>8. ASSUME NEW r \in Readers, GetAssertion(r) PROVE Abstract!Next
    <2> DEFINE v == [reader[r] EXCEPT !.phase = "done", !.got = Selected(reader[r].query)]
    <2>1. UNCHANGED <<db, hist>> /\ reader[r].phase = "walking" /\ reader[r] \in Walks
        BY <1>0, <1>8 DEF GetAssertion, TypeOK
    <2>2. reader' = [reader EXCEPT ![r] = v]
        BY <1>8 DEF GetAssertion
    <2>3. v.phase = "done" /\ v.query = reader[r].query /\ v.start = reader[r].start
        BY <2>1 DEF Walks
    <2> HIDE DEF v
    <2> QED  BY <2>1, <2>2, <2>3, EndRefines
<1>9. ASSUME NEW r \in Readers, AbortWalk(r) PROVE Abstract!Next
    <2> DEFINE l == [u \in Readers |-> ListingOf(u)]
    <2>1. UNCHANGED db /\ acked' = acked /\ firsts' = firsts /\ reader' = [reader EXCEPT ![r] = NoWalk]
        BY <1>9 DEF AbortWalk, hist
    <2>2. /\ Held' = Held
          /\ \A u \in Readers \ {r} : ListingOf(u)' = ListingOf(u)
          /\ reader'[r] = NoWalk
        BY <1>0, <2>1, OtherListings
    <2>3. ListingOf(r)' = Abstract!NoListing
        BY <2>2 DEF ListingOf, NoWalk, Abstract!NoListing
    <2>4. l' = [l EXCEPT ![r] = Abstract!NoListing]
        <3>1. l' = [u \in Readers |-> ListingOf(u)']
            OBVIOUS
        <3> QED  BY <2>2, <2>3, <3>1
    <2>5. l[r].phase = "open"
        BY <1>9 DEF AbortWalk, ListingOf
    <2>6. Abstract!DropListing(r)
        BY <2>1, <2>2, <2>4, <2>5 DEF Abstract!DropListing, Held
    <2> QED  BY <2>6 DEF Abstract!Next
<1>10. CASE Crash \/ Restart \/ UNCHANGED vars
    BY <1>1, <1>10 DEF Crash, Restart, vars
<1> QED
    BY <1>2, <1>3, <1>4, <1>5, <1>6, <1>7, <1>8, <1>9, <1>10 DEF Next, ThreadStep

\* Threads, transactions, pages, lost answers, crashes and restarts of the
\* durable relay are invisible: clients see the atomic relay of RelaySpec.
THEOREM Refinement == Spec => ImplementsRelaySpec
<1>1. Init => Abstract!Init
    BY InitRefines
<1>2. IInv /\ IInv' /\ [Next]_vars => [Abstract!Next]_(Abstract!vars)
    BY NextRefines
<1> QED  BY <1>1, <1>2, RelayInvariant, PTL DEF Spec, ImplementsRelaySpec, Abstract!Spec
=============================================================================
