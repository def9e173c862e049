---------------------------- MODULE PyRelayProofs ----------------------------
(***************************************************************************)
(* Proofs about PyRelay, for any number of handler threads and readers,    *)
(* any assertions, queries and settings.                                   *)
(*                                                                         *)
(* No lock orders the threads, so the invariant says of each thread alone  *)
(* what it may rely on while others run: an envelope, once set, is never   *)
(* removed, and a list only grows at its end.                              *)
(***************************************************************************)
EXTENDS PyRelay, MemRelayProofs

Envelopes ==
    /\ envelopes \in [Ids -> Bodies \cup {None}]
    /\ \A i \in Held : envelopes[i].id = i

Tables ==
    /\ lists \in [Lists -> Seq(Ids)]
    /\ \A l \in Lists : ToSet(lists[l]) \subseteq Held

ThreadTypes ==
    /\ pc \in [Threads -> {"idle", "put", "set", "append", "reply"}]
    /\ req \in [Threads -> Bodies \cup {None}]
    /\ existed \in [Threads -> BOOLEAN]
    /\ todo \in [Threads -> Seq(Lists)]
    /\ outcome = [t \in Threads |-> outcome[t]]

\* A thread that appends, or is about to answer 200, has its envelope set;
\* only a thread that appends has something left to append.
ThreadOK(t) ==
    /\ pc[t] \in {"put", "set", "append"} => req[t] \in Bodies
    /\ pc[t] = "append" => req[t].id \in Held /\ todo[t] # <<>>
    /\ pc[t] # "append" => todo[t] = <<>>
    /\ pc[t] = "reply" /\ outcome[t] \in {"fresh", "duplicate"} =>
         req[t] \in Bodies /\ req[t].id \in Held

\* A reader's walk w, when the relay holds H and its lists are LL.
ReaderOK(w, H, LL) ==
    /\ w \in WalkRecords
    /\ w.phase # "idle" => w.query \in Queries
    /\ w.phase # "idle" /\ w.query.kind # "assertion" => WalkOK(w, LL[w.query])
    /\ w.phase # "idle" /\ w.query.kind = "assertion" =>
         /\ w.phase # "sliced"
         /\ w.phase = "walking" => w.known \subseteq H \cap {w.query.key}
         /\ w.phase = "done" => w.known \subseteq ToSet(w.got)

ReadersOK ==
    /\ reader = [r \in Readers |-> reader[r]]
    /\ \A r \in Readers : ReaderOK(reader[r], Held, lists)

\* Where an assertion is, or is about to be, listed.
Pending(i, l) == \E t \in Threads : req[t] # None /\ req[t].id = i /\ l \in ToSet(todo[t])
Filing == \A i \in Held : \A l \in Home(envelopes[i]) : i \in ToSet(lists[l]) \/ Pending(i, l)

StoreInv ==
    /\ Envelopes /\ Tables /\ ThreadTypes
    /\ \A t \in Threads : ThreadOK(t)
    /\ acked \subseteq Held
    /\ Filing

PyInv == StoreInv /\ ReadersOK

-----------------------------------------------------------------------------
(***************************************************************************)
(* Handler threads                                                         *)
(***************************************************************************)

LEMMA StoreInit == Init => StoreInv
<1> SUFFICES ASSUME Init PROVE StoreInv
    OBVIOUS
<1>1. Held = {} /\ Envelopes
    BY DEF Init, Held, Envelopes
<1>2. <<>> \in Seq(Ids) /\ <<>> \in Seq(Lists) /\ ToSet(<<>>) = {}
    BY DEF ToSet
<1>3. Tables
    BY <1>1, <1>2 DEF Init, Tables
<1>4. ThreadTypes
    BY <1>2 DEF Init, ThreadTypes
<1>5. \A t \in Threads : ThreadOK(t)
    BY DEF Init, ThreadOK
<1> QED  BY <1>1, <1>3, <1>4, <1>5 DEF Init, StoreInv, Filing

\* Steps of a thread that leave the tables and what is to be appended alone.
LEMMA QuietThread ==
    ASSUME StoreInv, UNCHANGED <<envelopes, lists, todo>>, ThreadTypes',
           \A t \in Threads : ThreadOK(t)', acked' \subseteq Held,
           \A t \in Threads : todo[t] # <<>> => req'[t] = req[t]
    PROVE  StoreInv'
<1>1. Held' = Held
    BY DEF Held
<1>2. Envelopes' /\ Tables'
    BY <1>1 DEF StoreInv, Envelopes, Tables
<1>3. ASSUME NEW i, NEW l, Pending(i, l)
      PROVE  Pending(i, l)'
    <2>1. PICK t \in Threads : req[t] # None /\ req[t].id = i /\ l \in ToSet(todo[t])
        BY <1>3 DEF Pending
    <2>2. todo[t] # <<>>
        BY <2>1 DEF ToSet
    <2> QED  BY <2>1, <2>2 DEF Pending
<1>4. Filing'
    BY <1>1, <1>3 DEF StoreInv, Filing
<1> QED  BY <1>1, <1>2, <1>4 DEF StoreInv

LEMMA RefuseStep ==
    ASSUME StoreInv, NEW t \in Threads, NEW b \in Bodies, Refuse(t, b)
    PROVE  StoreInv'
<1>1. outcome'[t] \notin {"fresh", "duplicate"}
    BY RefusalFails DEF Refuse, StoreInv, ThreadTypes
<1>2. ThreadTypes' /\ pc'[t] = "reply" /\ pc[t] = "idle" /\ todo' = todo
    BY DEF Refuse, StoreInv, ThreadTypes
<1>3. ASSUME NEW u \in Threads, u # t
      PROVE  pc'[u] = pc[u] /\ req'[u] = req[u] /\ outcome'[u] = outcome[u]
    BY <1>3 DEF Refuse, StoreInv, ThreadTypes
<1>4. Held' = Held
    BY DEF Refuse, Held
<1>5. ASSUME NEW u \in Threads
      PROVE  ThreadOK(u)'
    BY <1>1, <1>2, <1>3, <1>4 DEF StoreInv, ThreadOK
<1>6. \A u \in Threads : todo[u] # <<>> => req'[u] = req[u]
    BY <1>2, <1>3 DEF StoreInv, ThreadOK
<1>7. UNCHANGED <<envelopes, lists, todo, acked>>
    BY DEF Refuse
<1> QED  BY <1>2, <1>5, <1>6, <1>7, QuietThread DEF StoreInv

LEMMA SubmitStep ==
    ASSUME StoreInv, NEW t \in Threads, NEW b \in Bodies, Submit(t, b)
    PROVE  StoreInv'
<1>1. ThreadTypes' /\ pc'[t] = "put" /\ pc[t] = "idle" /\ todo' = todo /\ req'[t] = b
    <2>1. (b.id \in Held) \in BOOLEAN
        OBVIOUS
    <2> QED  BY <2>1 DEF Submit, StoreInv, ThreadTypes
<1>2. ASSUME NEW u \in Threads, u # t
      PROVE  pc'[u] = pc[u] /\ req'[u] = req[u] /\ outcome'[u] = outcome[u]
    BY <1>2 DEF Submit, StoreInv, ThreadTypes
<1>3. Held' = Held
    BY DEF Submit, Held
<1>4. ASSUME NEW u \in Threads
      PROVE  ThreadOK(u)'
    BY <1>1, <1>2, <1>3 DEF StoreInv, ThreadOK
<1>5. \A u \in Threads : todo[u] # <<>> => req'[u] = req[u]
    BY <1>1, <1>2 DEF StoreInv, ThreadOK
<1>6. UNCHANGED <<envelopes, lists, todo, acked>>
    BY DEF Submit
<1> QED  BY <1>1, <1>4, <1>5, <1>6, QuietThread DEF StoreInv

LEMMA PutTestStep ==
    ASSUME StoreInv, NEW t \in Threads, PutTest(t)
    PROVE  StoreInv'
<1>1. /\ ThreadTypes' /\ pc[t] = "put" /\ todo' = todo /\ req' = req
      /\ pc'[t] = IF req[t].id \in Held THEN "reply" ELSE "set"
    BY DEF PutTest, StoreInv, ThreadTypes
<1>2. ASSUME NEW u \in Threads, u # t
      PROVE  pc'[u] = pc[u] /\ outcome'[u] = outcome[u]
    BY <1>2 DEF PutTest, StoreInv, ThreadTypes
<1>3. Held' = Held
    BY DEF PutTest, Held
<1>4. ASSUME NEW u \in Threads
      PROVE  ThreadOK(u)'
    BY <1>1, <1>2, <1>3 DEF StoreInv, ThreadOK
<1>5. UNCHANGED <<envelopes, lists, todo, acked>>
    BY DEF PutTest
<1> QED  BY <1>1, <1>4, <1>5, QuietThread DEF StoreInv

LEMMA FinishStep ==
    ASSUME StoreInv, NEW t \in Threads, NEW heard \in BOOLEAN, Finish(t, heard)
    PROVE  StoreInv'
<1>1. ThreadTypes' /\ pc[t] = "reply" /\ pc'[t] = "idle" /\ todo' = todo
    BY DEF Finish, StoreInv, ThreadTypes
<1>2. ASSUME NEW u \in Threads, u # t
      PROVE  pc'[u] = pc[u] /\ req'[u] = req[u] /\ outcome'[u] = outcome[u]
    BY <1>2 DEF Finish, StoreInv, ThreadTypes
<1>3. Held' = Held
    BY DEF Finish, Held
<1>4. ASSUME NEW u \in Threads
      PROVE  ThreadOK(u)'
    BY <1>1, <1>2, <1>3 DEF StoreInv, ThreadOK
<1>5. \A u \in Threads : todo[u] # <<>> => req'[u] = req[u]
    BY <1>1, <1>2 DEF StoreInv, ThreadOK
<1>6. acked' \subseteq Held
    BY <1>1 DEF Finish, StoreInv, ThreadOK
<1>7. UNCHANGED <<envelopes, lists, todo>>
    BY DEF Finish
<1> QED  BY <1>1, <1>4, <1>5, <1>6, <1>7, QuietThread

\* put sets the envelope: everything is still to be appended.
LEMMA SetEnvelopeStep ==
    ASSUME StoreInv, NEW t \in Threads, SetEnvelope(t)
    PROVE  StoreInv' /\ Held \subseteq Held'
<1> DEFINE b == req[t]
           work == <<Order>> \o ListedIn(b)
<1>1. pc[t] = "set" /\ b \in Bodies /\ b.id \in Ids /\ b # None /\ todo[t] = <<>>
    BY MemAssumption DEF SetEnvelope, StoreInv, ThreadOK, Ids
<1>2. work \in Seq(Lists) /\ work # <<>> /\ Home(b) \subseteq ToSet(work)
    <2>1. <<Order>> \in Seq(Lists) /\ Len(<<Order>>) = 1
        BY DEF Lists
    <2>2. ListedIn(b) \in Seq(Lists) /\ ToSet(ListedIn(b)) = Home(b)
        BY <1>1, Filed
    <2>3. /\ work \in Seq(Lists) /\ Len(work) = 1 + Len(ListedIn(b))
          /\ \A i \in 1..Len(ListedIn(b)) : work[1 + i] = ListedIn(b)[i]
        BY <2>1, <2>2
    <2>4. ASSUME NEW x \in ToSet(ListedIn(b))
          PROVE  x \in ToSet(work)
        <3>1. PICK i \in 1..Len(ListedIn(b)) : x = ListedIn(b)[i]
            BY <2>2 DEF ToSet
        <3>2. 1 + i \in DOMAIN work /\ work[1 + i] = x
            BY <2>2, <2>3, <3>1
        <3> HIDE DEF work
        <3> QED  BY <3>2 DEF ToSet
    <2> HIDE DEF work
    <2> QED  BY <2>2, <2>3, <2>4
<1> HIDE DEF work
<1>3. /\ envelopes' = [envelopes EXCEPT ![b.id] = b] /\ todo' = [todo EXCEPT ![t] = work]
      /\ pc' = [pc EXCEPT ![t] = "append"]
      /\ UNCHANGED <<lists, req, existed, outcome, acked>>
    BY DEF SetEnvelope, work
<1>4. Held' = Held \cup {b.id} /\ \A i \in Held : i # b.id => envelopes'[i] = envelopes[i]
    BY <1>1, <1>3 DEF Held, StoreInv, Envelopes
<1>5. Envelopes'
    <2>1. envelopes'[b.id] = b
        BY <1>1, <1>3 DEF StoreInv, Envelopes
    <2> QED  BY <1>1, <1>3, <1>4, <2>1 DEF StoreInv, Envelopes
<1>6. Tables'
    BY <1>3, <1>4 DEF StoreInv, Tables
<1>7. ThreadTypes' /\ todo'[t] = work /\ pc'[t] = "append"
    BY <1>2, <1>3 DEF StoreInv, ThreadTypes
<1>8. ASSUME NEW u \in Threads, u # t
      PROVE  pc'[u] = pc[u] /\ todo'[u] = todo[u]
    BY <1>3, <1>8 DEF StoreInv, ThreadTypes
<1>9. ASSUME NEW u \in Threads
      PROVE  ThreadOK(u)'
    BY <1>1, <1>2, <1>3, <1>4, <1>7, <1>8 DEF StoreInv, ThreadOK
<1>10. ASSUME NEW i, NEW l, Pending(i, l)
       PROVE  Pending(i, l)'
    <2>1. PICK u \in Threads : req[u] # None /\ req[u].id = i /\ l \in ToSet(todo[u])
        BY <1>10 DEF Pending
    <2>2. u # t
        BY <1>1, <2>1 DEF ToSet
    <2> QED  BY <1>3, <1>8, <2>1, <2>2 DEF Pending
<1>11. ASSUME NEW i, i = b.id, NEW l \in Home(b)
       PROVE  Pending(i, l)'
    BY <1>1, <1>2, <1>3, <1>7, <1>11 DEF Pending
<1>12. Filing'
    <2> SUFFICES ASSUME NEW i \in Held', NEW l \in Home(envelopes'[i])
                 PROVE  i \in ToSet(lists'[l]) \/ Pending(i, l)'
        BY DEF Filing
    <2>1. CASE i = b.id
        <3>1. envelopes'[i] = b
            BY <1>1, <1>3, <2>1 DEF StoreInv, Envelopes
        <3>2. l \in Home(b)
            BY <3>1
        <3> QED  BY <1>11, <2>1, <3>2
    <2>2. CASE i # b.id
        <3>1. i \in Held /\ envelopes'[i] = envelopes[i]
            BY <1>4, <2>2
        <3> QED  BY <1>3, <1>10, <3>1 DEF StoreInv, Filing
    <2> QED  BY <2>1, <2>2
<1>13. acked' \subseteq Held'
    BY <1>3, <1>4 DEF StoreInv
<1> QED  BY <1>4, <1>5, <1>6, <1>7, <1>9, <1>12, <1>13 DEF StoreInv

\* The next append moves one list from what is to be done to what is done.
LEMMA AppendStep ==
    ASSUME StoreInv, NEW t \in Threads, Append1(t)
    PROVE  /\ StoreInv' /\ Held' = Held
           /\ \A l \in Lists : Begins(lists[l], lists'[l])
<1> DEFINE h == Head(todo[t])
           i0 == req[t].id
<1>1. /\ pc[t] = "append" /\ req[t] \in Bodies /\ i0 \in Held /\ i0 \in Ids
      /\ todo[t] \in Seq(Lists) /\ todo[t] # <<>>
    BY DEF Append1, StoreInv, ThreadOK, ThreadTypes, Held
<1>2. h \in Lists /\ Tail(todo[t]) \in Seq(Lists)
    BY <1>1
<1>3. /\ lists' = [lists EXCEPT ![h] = Append(lists[h], i0)]
      /\ todo' = [todo EXCEPT ![t] = Tail(todo[t])]
      /\ UNCHANGED <<envelopes, req, existed, acked>>
    BY DEF Append1
<1>4. Held' = Held
    BY <1>3 DEF Held
<1>5. lists[h] \in Seq(Ids) /\ \A l \in Lists : lists[l] \in Seq(Ids)
    BY <1>2 DEF StoreInv, Tables
<1>6. /\ Append(lists[h], i0) \in Seq(Ids) /\ Begins(lists[h], Append(lists[h], i0))
      /\ ToSet(Append(lists[h], i0)) = ToSet(lists[h]) \cup {i0}
    BY <1>1, <1>5, AppendBegins
<1>7. \A l \in Lists : lists'[l] = IF l = h THEN Append(lists[h], i0) ELSE lists[l]
    BY <1>3 DEF StoreInv, Tables
<1>8. /\ \A l \in Lists : Begins(lists[l], lists'[l])
      /\ \A l \in Lists : ToSet(lists[l]) \subseteq ToSet(lists'[l])
      /\ i0 \in ToSet(lists'[h])
    <2>1. lists'[h] = Append(lists[h], i0)
        BY <1>2, <1>7
    <2>2. \A l \in Lists : l # h => lists'[l] = lists[l]
        BY <1>7
    <2>3. \A l \in Lists : Begins(lists[l], lists[l])
        BY <1>5 DEF Begins
    <2> QED  BY <1>6, <2>1, <2>2, <2>3
<1>9. Tables'
    <2>1. lists' \in [Lists -> Seq(Ids)]
        BY <1>2, <1>3, <1>6 DEF StoreInv, Tables
    <2>2. \A l \in Lists : ToSet(lists'[l]) \subseteq Held
        BY <1>1, <1>6, <1>7 DEF StoreInv, Tables
    <2> QED  BY <1>4, <2>1, <2>2 DEF Tables
<1>10. /\ todo'[t] = Tail(todo[t]) /\ \A u \in Threads : u # t => todo'[u] = todo[u]
       /\ todo' \in [Threads -> Seq(Lists)]
    BY <1>2, <1>3 DEF StoreInv, ThreadTypes
<1>11. /\ pc'[t] = (IF todo'[t] = <<>> THEN "reply" ELSE "append")
       /\ \A u \in Threads : u # t => pc'[u] = pc[u] /\ outcome'[u] = outcome[u]
       /\ pc' \in [Threads -> {"idle", "put", "set", "append", "reply"}]
       /\ outcome' = [u \in Threads |-> outcome'[u]]
    BY <1>1 DEF Append1, StoreInv, ThreadTypes
<1>12. ThreadTypes'
    BY <1>3, <1>10, <1>11 DEF StoreInv, ThreadTypes
<1>13. ASSUME NEW u \in Threads
       PROVE  ThreadOK(u)'
    BY <1>1, <1>3, <1>4, <1>10, <1>11 DEF StoreInv, ThreadOK
<1>14. ASSUME NEW i, NEW l, Pending(i, l)
       PROVE  (i = i0 /\ l = h) \/ Pending(i, l)'
    <2>1. PICK u \in Threads : req[u] # None /\ req[u].id = i /\ l \in ToSet(todo[u])
        BY <1>14 DEF Pending
    <2>2. CASE u # t
        BY <1>3, <1>10, <2>1, <2>2 DEF Pending
    <2>3. CASE u = t
        <3>1. PICK k \in 1..Len(todo[t]) : l = todo[t][k]
            BY <1>1, <2>1, <2>3 DEF ToSet
        <3>2. CASE k = 1
            BY <1>1, <2>1, <2>3, <3>1, <3>2
        <3>3. CASE k # 1
            <4>1. k - 1 \in DOMAIN Tail(todo[t]) /\ Tail(todo[t])[k - 1] = l
                BY <1>1, <3>1, <3>3
            <4>2. l \in ToSet(todo'[t])
                BY <1>10, <4>1 DEF ToSet
            <4> QED  BY <1>3, <2>1, <2>3, <4>2 DEF Pending
        <3> QED  BY <3>2, <3>3
    <2> QED  BY <2>2, <2>3
<1>15. Filing'
    <2> SUFFICES ASSUME NEW i \in Held, NEW l \in Home(envelopes[i])
                 PROVE  i \in ToSet(lists'[l]) \/ Pending(i, l)'
        BY <1>3, <1>4 DEF Filing
    <2>1. l \in Lists
        BY Filed DEF Held, StoreInv, Envelopes
    <2>2. i \in ToSet(lists[l]) \/ Pending(i, l)
        BY DEF StoreInv, Filing
    <2> QED  BY <1>8, <1>14, <2>1, <2>2
<1>16. Envelopes' /\ acked' \subseteq Held'
    BY <1>3, <1>4 DEF StoreInv, Envelopes
<1> QED  BY <1>4, <1>8, <1>9, <1>12, <1>13, <1>15, <1>16 DEF StoreInv

-----------------------------------------------------------------------------
(***************************************************************************)
(* Readers                                                                 *)
(***************************************************************************)

\* Lists that grow and envelopes that stay leave the walks as they are.
LEMMA GrownReaders ==
    ASSUME StoreInv, ReadersOK, UNCHANGED reader, Held \subseteq Held',
           lists' \in [Lists -> Seq(Ids)], \A l \in Lists : Begins(lists[l], lists'[l])
    PROVE  ReadersOK'
<1> SUFFICES ASSUME NEW r \in Readers PROVE ReaderOK(reader[r], Held', lists')
    BY DEF ReadersOK
<1> DEFINE w == reader[r]
<1>1. ReaderOK(w, Held, lists)
    BY DEF ReadersOK
<1>2. CASE w.phase # "idle" /\ w.query.kind # "assertion"
    <2>1. w.query \in Lists
        BY <1>1, <1>2, QueryLists DEF ReaderOK
    <2>2. WalkOK(w, lists'[w.query])
        BY <1>1, <1>2, <2>1, GrownWalk DEF ReaderOK, StoreInv, Tables
    <2> QED  BY <1>1, <1>2, <2>2 DEF ReaderOK
<1> QED  BY <1>1, <1>2 DEF ReaderOK

\* A step of one reader.
LEMMA ReaderStepOf ==
    ASSUME StoreInv, ReadersOK, NEW r \in Readers, NEW n, reader' = [reader EXCEPT ![r] = n],
           UNCHANGED <<envelopes, lists>>, ReaderOK(n, Held, lists)
    PROVE  ReadersOK'
<1>1. Held' = Held
    BY DEF Held
<1> QED  BY <1>1 DEF ReadersOK

LEMMA StartWalkStep ==
    ASSUME StoreInv, ReadersOK, NEW r \in Readers, NEW q \in Queries, StartWalk(r, q)
    PROVE  ReadersOK'
<1> DEFINE k == IF q.kind = "assertion" THEN Held \cap {q.key} ELSE ToSet(lists[q])
           n == Walk(q, k)
<1>1. reader' = [reader EXCEPT ![r] = n] /\ UNCHANGED <<envelopes, lists>>
    BY DEF StartWalk
<1>2. CASE q.kind = "assertion"
    <2>1. k \in SUBSET Ids /\ k \subseteq Held \cap {q.key}
        BY <1>2 DEF Held
    <2>2. n \in WalkRecords /\ n.query = q /\ n.phase = "walking" /\ n.known = k
        <3>1. PICK L \in Seq(Ids) : k \subseteq ToSet(L)
            <4>1. CASE k = {}
                <5>1. <<>> \in Seq(Ids)
                    OBVIOUS
                <5> QED  BY <4>1, <5>1
            <4>2. CASE k # {}
                <5>1. q.key \in Ids /\ k \subseteq {q.key}
                    BY <2>1, <4>2
                <5>2. <<q.key>> \in Seq(Ids) /\ q.key \in ToSet(<<q.key>>)
                    BY <5>1 DEF ToSet
                <5> QED  BY <5>1, <5>2
            <4> QED  BY <4>1, <4>2
        <3> HIDE DEF k
        <3> QED  BY <2>1, <3>1, StartOK
    <2>3. ReaderOK(n, Held, lists)
        <3> HIDE DEF n, k
        <3> QED  BY <1>2, <2>1, <2>2 DEF ReaderOK
    <2> HIDE DEF n
    <2> QED  BY <1>1, <2>3, ReaderStepOf
<1>3. CASE q.kind # "assertion"
    <2>1. q \in Lists /\ lists[q] \in Seq(Ids) /\ k = ToSet(lists[q])
        BY <1>3, QueryLists DEF StoreInv, Tables
    <2>2. k \in SUBSET Ids
        BY <2>1 DEF StoreInv, Tables, Held
    <2> HIDE DEF k
    <2>3. /\ n \in WalkRecords /\ WalkOK(n, lists[q]) /\ n.query = q /\ n.phase = "walking"
        BY <2>1, <2>2, StartOK
    <2> HIDE DEF n
    <2>4. ReaderOK(n, Held, lists)
        BY <1>3, <2>3 DEF ReaderOK
    <2> QED  BY <1>1, <2>4, ReaderStepOf
<1> QED  BY <1>2, <1>3

\* A page of the advertised list, cut and measured at once.
LEMMA GetAdvertisedStep ==
    ASSUME StoreInv, ReadersOK, NEW r \in Readers, GetAdvertised(r)
    PROVE  ReadersOK'
<1> DEFINE w == reader[r]
           L == lists[Advertised]
           n == Turn(w, Chunk(L, w.offset), Len(L))
<1>1. ReaderOK(w, Held, lists) /\ w.phase = "walking" /\ w.query = Advertised /\ w.query.kind # "assertion"
    BY DEF ReadersOK, GetAdvertised, Advertised
<1>2. L \in Seq(Ids)
    BY DEF StoreInv, Tables, Lists
<1>3. /\ w \in WalkRecords /\ w.got \in Seq(Ids) /\ w.offset = Len(w.got)
      /\ Begins(w.got, L) /\ w.known \subseteq ToSet(L) /\ w.query \in Queries
    BY <1>1 DEF ReaderOK, WalkOK, WalkRecords
<1>4. Chunk(L, w.offset) \in Seq(Ids) /\ Begins(w.got \o Chunk(L, w.offset), L)
    BY <1>2, <1>3, ChunkNext
<1>5. n \in WalkRecords /\ WalkOK(n, L) /\ n.phase \in {"walking", "done"} /\ n.query = w.query
    BY <1>2, <1>3, <1>4, TurnOK
<1>6. reader' = [reader EXCEPT ![r] = n] /\ UNCHANGED <<envelopes, lists>>
    BY DEF GetAdvertised
<1> HIDE DEF n
<1>7. ReaderOK(n, Held, lists)
    BY <1>1, <1>3, <1>5 DEF ReaderOK
<1> QED  BY <1>6, <1>7, ReaderStepOf

\* The slice of a page ...
LEMMA SliceStep ==
    ASSUME StoreInv, ReadersOK, NEW r \in Readers, Slice(r)
    PROVE  ReadersOK'
<1> DEFINE w == reader[r]
           L == lists[w.query]
           c == Chunk(L, w.offset)
           n == [w EXCEPT !.phase = "sliced", !.chunk = c]
<1>1. ReaderOK(w, Held, lists) /\ w.phase = "walking" /\ w.query.kind # "assertion"
    BY DEF ReadersOK, Slice
<1>2. L \in Seq(Ids)
    BY <1>1, QueryLists DEF StoreInv, Tables, ReaderOK
<1>3. /\ w \in WalkRecords /\ w.got \in Seq(Ids) /\ w.offset = Len(w.got)
      /\ Begins(w.got, L) /\ w.known \subseteq ToSet(L) /\ w.query \in Queries
    BY <1>1 DEF ReaderOK, WalkOK, WalkRecords
<1>4. c \in Seq(Ids) /\ Begins(w.got \o c, L)
    BY <1>2, <1>3, ChunkNext
<1>5. reader' = [reader EXCEPT ![r] = n] /\ UNCHANGED <<envelopes, lists>>
    BY DEF Slice, ReadersOK
<1> HIDE DEF c
<1>6. n \in WalkRecords
    BY <1>3, <1>4 DEF WalkRecords
<1>7. /\ n.phase = "sliced" /\ n.chunk = c /\ n.query = w.query /\ n.offset = w.offset
      /\ n.got = w.got /\ n.known = w.known
    BY <1>3 DEF WalkRecords
<1> HIDE DEF n
<1>8. ReaderOK(n, Held, lists)
    BY <1>1, <1>3, <1>4, <1>6, <1>7 DEF ReaderOK, WalkOK
<1> QED  BY <1>5, <1>8, ReaderStepOf

\* ... and the length of a list that may have grown since.
LEMMA EndPageStep ==
    ASSUME StoreInv, ReadersOK, NEW r \in Readers, EndPage(r)
    PROVE  ReadersOK'
<1> DEFINE w == reader[r]
           L == lists[w.query]
           n == Turn(w, w.chunk, Len(L))
<1>1. ReaderOK(w, Held, lists) /\ w.phase = "sliced"
    BY DEF ReadersOK, EndPage
<1>2. w.query \in Queries /\ w.query.kind # "assertion" /\ WalkOK(w, L)
    BY <1>1 DEF ReaderOK
<1>3. L \in Seq(Ids)
    BY <1>2, QueryLists DEF StoreInv, Tables
<1>4. /\ w \in WalkRecords /\ w.chunk \in Seq(Ids) /\ w.offset = Len(w.got)
      /\ Begins(w.got \o w.chunk, L) /\ w.known \subseteq ToSet(L)
    BY <1>1, <1>2 DEF ReaderOK, WalkOK, WalkRecords
<1>5. n \in WalkRecords /\ WalkOK(n, L) /\ n.phase \in {"walking", "done"} /\ n.query = w.query
    BY <1>3, <1>4, TurnOK
<1>6. reader' = [reader EXCEPT ![r] = n] /\ UNCHANGED <<envelopes, lists>>
    BY DEF EndPage
<1> HIDE DEF n
<1>7. ReaderOK(n, Held, lists)
    BY <1>2, <1>5 DEF ReaderOK
<1> QED  BY <1>6, <1>7, ReaderStepOf

LEMMA GetAssertionStep ==
    ASSUME StoreInv, ReadersOK, NEW r \in Readers, GetAssertion(r)
    PROVE  ReadersOK'
<1> DEFINE w == reader[r]
           k == w.query.key
           g == IF k \in Held THEN <<k>> ELSE <<>>
           n == [w EXCEPT !.phase = "done", !.got = g]
<1>1. ReaderOK(w, Held, lists) /\ w.phase = "walking" /\ w.query.kind = "assertion"
    BY DEF ReadersOK, GetAssertion
<1>2. w \in WalkRecords /\ w.query \in Queries /\ w.known \subseteq Held \cap {k}
    BY <1>1 DEF ReaderOK
<1>3. g \in Seq(Ids) /\ (k \in Held => k \in ToSet(g))
    <2>1. CASE k \in Held
        <3>1. k \in Ids /\ g = <<k>>
            BY <2>1 DEF Held
        <3> QED  BY <3>1 DEF ToSet
    <2>2. CASE k \notin Held
        <3>1. <<>> \in Seq(Ids)
            OBVIOUS
        <3> QED  BY <2>2, <3>1
    <2> QED  BY <2>1, <2>2
<1>4. reader' = [reader EXCEPT ![r] = n] /\ UNCHANGED <<envelopes, lists>>
    BY DEF GetAssertion, ReadersOK
<1> HIDE DEF g
<1>5. n \in WalkRecords
    BY <1>2, <1>3 DEF WalkRecords
<1>6. n.phase = "done" /\ n.got = g /\ n.query = w.query /\ n.known = w.known
    BY <1>2 DEF WalkRecords
<1> HIDE DEF n
<1>7. ReaderOK(n, Held, lists)
    BY <1>1, <1>2, <1>3, <1>5, <1>6 DEF ReaderOK
<1> QED  BY <1>4, <1>7, ReaderStepOf

-----------------------------------------------------------------------------
(***************************************************************************)
(* The theorems                                                            *)
(***************************************************************************)

LEMMA PyInit == Init => PyInv
<1> SUFFICES ASSUME Init PROVE PyInv
    OBVIOUS
<1>1. NoWalk \in WalkRecords /\ NoWalk.phase = "idle"
    <2>1. <<>> \in Seq(Ids)
        OBVIOUS
    <2> DEFINE e == <<>>
    <2>2. e \in Seq(Ids) /\ NoWalk = [phase |-> "idle", query |-> None, offset |-> 0, chunk |-> e,
                                     got |-> e, known |-> {}]
        BY <2>1 DEF NoWalk
    <2> HIDE DEF e
    <2> QED  BY <2>2 DEF WalkRecords
<1>2. ReadersOK
    BY <1>1 DEF Init, ReadersOK, ReaderOK
<1> QED  BY <1>2, StoreInit DEF PyInv

\* The steps that readers take change nothing else.
LEMMA ReaderLeavesStore ==
    ASSUME StoreInv, UNCHANGED <<envelopes, lists, thread, acked, firsts>>
    PROVE  StoreInv'
<1>1. Held' = Held
    BY DEF Held
<1>2. Filing' /\ Envelopes' /\ Tables'
    BY <1>1 DEF thread, StoreInv, Filing, Pending, Envelopes, Tables
<1>3. ThreadTypes' /\ \A t \in Threads : ThreadOK(t)'
    BY <1>1 DEF thread, StoreInv, ThreadTypes, ThreadOK
<1> QED  BY <1>1, <1>2, <1>3 DEF StoreInv

\* The invariant holds whatever the threads interleave.
THEOREM PyInvariant == Spec => []PyInv
<1>1. PyInv /\ [Next]_vars => PyInv'
    <2> SUFFICES ASSUME PyInv, [Next]_vars PROVE PyInv'
        OBVIOUS
    <2>1. StoreInv /\ ReadersOK /\ lists \in [Lists -> Seq(Ids)]
        BY DEF PyInv, StoreInv, Tables
    <2>2. ASSUME UNCHANGED <<envelopes, lists, reader>>, StoreInv'
          PROVE  PyInv'
        <3>1. Held' = Held
            BY <2>2 DEF Held
        <3> QED  BY <2>1, <2>2, <3>1 DEF PyInv, ReadersOK
    <2>3. ASSUME NEW t \in Threads, NEW b \in Bodies, Refuse(t, b) \/ Submit(t, b)
          PROVE  PyInv'
        BY <2>1, <2>2, <2>3, RefuseStep, SubmitStep DEF Refuse, Submit
    <2>4. ASSUME NEW t \in Threads, PutTest(t)
          PROVE  PyInv'
        BY <2>1, <2>2, <2>4, PutTestStep DEF PutTest
    <2>5. ASSUME NEW t \in Threads, SetEnvelope(t)
          PROVE  PyInv'
        <3>1. StoreInv' /\ Held \subseteq Held'
            BY <2>1, <2>5, SetEnvelopeStep
        <3>2. lists' = lists /\ reader' = reader
            BY <2>5 DEF SetEnvelope
        <3>3. \A l \in Lists : Begins(lists[l], lists'[l])
            BY <2>1, <3>2 DEF Begins
        <3> QED  BY <2>1, <3>1, <3>2, <3>3, GrownReaders DEF PyInv
    <2>6. ASSUME NEW t \in Threads, Append1(t)
          PROVE  PyInv'
        <3>1. /\ StoreInv' /\ Held' = Held /\ lists' \in [Lists -> Seq(Ids)]
              /\ \A l \in Lists : Begins(lists[l], lists'[l])
            BY <2>1, <2>6, AppendStep DEF StoreInv, Tables
        <3>2. reader' = reader
            BY <2>6 DEF Append1
        <3> QED  BY <2>1, <3>1, <3>2, GrownReaders DEF PyInv
    <2>7. ASSUME NEW t \in Threads, Reply(t) \/ ReplyLost(t)
          PROVE  PyInv'
        <3>1. PICK heard \in BOOLEAN : Finish(t, heard)
            BY <2>7 DEF Reply, ReplyLost
        <3> QED  BY <2>1, <2>2, <3>1, FinishStep DEF Finish
    <2>8. ASSUME NEW r \in Readers, NEW q \in Queries, StartWalk(r, q)
          PROVE  PyInv'
        BY <2>1, <2>8, StartWalkStep, ReaderLeavesStore DEF StartWalk, PyInv
    <2>9. ASSUME NEW r \in Readers, ReaderStep(r)
          PROVE  PyInv'
        <3>1. UNCHANGED <<envelopes, lists, thread, acked, firsts>>
            BY <2>9 DEF ReaderStep, GetAdvertised, Slice, EndPage, GetAssertion
        <3>2. ReadersOK'
            BY <2>1, <2>9, GetAdvertisedStep, SliceStep, EndPageStep, GetAssertionStep DEF ReaderStep
        <3> QED  BY <2>1, <3>1, <3>2, ReaderLeavesStore DEF PyInv
    <2>10. CASE UNCHANGED vars
        BY <2>1, <2>2, <2>10, ReaderLeavesStore DEF vars
    <2> QED
        BY <2>3, <2>4, <2>5, <2>6, <2>7, <2>8, <2>9, <2>10 DEF Next, ThreadStep
<1> QED  BY <1>1, PyInit, PTL DEF Spec

\* Every id in a list, and every id that was answered with 200, has its
\* envelope, so that do_GET never looks for one that is missing.
THEOREM PromiseHeld == Spec => []PromisedIsHeld
<1>1. PyInv => PromisedIsHeld
    BY DEF PyInv, StoreInv, Tables, PromisedIsHeld
<1> QED  BY <1>1, PyInvariant, PTL

\* A walk over the pages of a list, between which and within which others
\* append, ends with all that was there when it began and without a gap.
THEOREM CompleteListing == Spec => []ListingComplete
<1>1. PyInv => ListingComplete
    <2> SUFFICES ASSUME PyInv, NEW r \in Readers, reader[r].phase = "done"
                 PROVE  /\ reader[r].known \subseteq ToSet(reader[r].got)
                        /\ reader[r].query.kind # "assertion" =>
                             IsPrefix(reader[r].got, lists[reader[r].query])
        BY DEF ListingComplete
    <2>1. ReaderOK(reader[r], Held, lists)
        BY DEF PyInv, ReadersOK
    <2>2. reader[r].known \subseteq ToSet(reader[r].got)
        BY <2>1 DEF ReaderOK, WalkOK
    <2>3. CASE reader[r].query.kind # "assertion"
        <3>1. lists[reader[r].query] \in Seq(Ids) /\ reader[r].got \in Seq(Ids)
            BY <2>1, <2>3, QueryLists DEF ReaderOK, WalkRecords, PyInv, StoreInv, Tables
        <3>2. Begins(reader[r].got, lists[reader[r].query])
            BY <2>1, <2>3 DEF ReaderOK, WalkOK
        <3> QED  BY <2>2, <3>1, <3>2, BeginsIsPrefix
    <2> QED  BY <2>2, <2>3
<1> QED  BY <1>1, PyInvariant, PTL

\* An assertion that is held is in all its lists, or a thread is about to
\* append it: what a thread that came second leaves out, the first one does.
THEOREM HeldListed == Spec => []HeldIsListed
<1>1. PyInv => HeldIsListed
    <2> SUFFICES ASSUME PyInv, NEW i \in Held,
                        NEW l \in {InChannel(IF envelopes[i].type = "channel" THEN i ELSE envelopes[i].channel)}
                          \cup (IF envelopes[i].object # None THEN {OfObject(envelopes[i].object)} ELSE {})
                          \cup (IF envelopes[i].type = "channel" THEN {Advertised} ELSE {})
                 PROVE  \/ i \in ToSet(lists[l])
                        \/ \E t \in Threads : req[t] # None /\ req[t].id = i /\ l \in ToSet(todo[t])
        BY DEF HeldIsListed
    <2>1. envelopes[i].id = i
        BY DEF PyInv, StoreInv, Envelopes
    <2>2. l \in Home(envelopes[i])
        BY <2>1 DEF Home
    <2> QED  BY <2>2 DEF PyInv, StoreInv, Filing, Pending
<1> QED  BY <1>1, PyInvariant, PTL
=============================================================================
