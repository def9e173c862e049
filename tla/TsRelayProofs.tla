---------------------------- MODULE TsRelayProofs ----------------------------
(***************************************************************************)
(* Proofs about TsRelay, for any number of connections and readers, any    *)
(* assertions, queries and settings: no list names an assertion twice, and *)
(* the event loop implements RelaySpec.                                    *)
(*                                                                         *)
(* A callback runs alone, so the tables agree with each other in every     *)
(* state; what has to be carried from one callback to the next is what a   *)
(* connection with an answer on its way, and a reader between two pages,   *)
(* may rely on.                                                            *)
(***************************************************************************)
EXTENDS TsRelay, MemRelayProofs

Envelopes ==
    /\ envelopes \in [Ids -> Bodies \cup {None}]
    /\ \A i \in Held : envelopes[i].id = i

\* A list names, once each, the assertions that are filed in it.
Tables ==
    /\ lists \in [Lists -> Seq(Ids)]
    /\ \A l \in Lists : IsInjective(lists[l])
    /\ \A l \in Lists : ToSet(lists[l]) = {i \in Held : l \in Home(envelopes[i])}

ConnTypes ==
    /\ pc \in [Conns -> {"idle", "reading", "reply"}]
    /\ req \in [Conns -> Bodies \cup {None}]
    /\ outcome = [k \in Conns |-> outcome[k]]
    /\ firsts \in [Ids -> Nat]

\* A connection that is about to answer duplicate=false.
Owes(k) == pc[k] = "reply" /\ outcome[k] = "fresh"

\* What is answered with 200 is held, and duplicate=false is owed for an
\* assertion by one connection, before it was ever said.
ConnOK(k) ==
    /\ pc[k] = "reading" => req[k] \in Bodies
    /\ pc[k] = "reply" /\ outcome[k] \in {"fresh", "duplicate"} =>
         req[k] \in Bodies /\ req[k].id \in Held
    /\ Owes(k) => firsts[req[k].id] = 0
    /\ Owes(k) => \A j \in Conns \ {k} : Owes(j) => req[j].id # req[k].id

Unheard == \A i \in Ids \ Held : firsts[i] = 0

\* A reader's walk w, when the relay holds H and its lists are LL.
ReaderOK(w, H, LL) ==
    /\ w \in WalkRecords /\ w.phase # "sliced" /\ w.known \subseteq H
    /\ w.phase # "idle" => w.query \in Queries
    /\ w.phase # "idle" /\ w.query.kind # "assertion" => WalkOK(w, LL[w.query])
    /\ w.phase # "idle" /\ w.query.kind = "assertion" => w.known \subseteq {w.query.key}
    /\ w.phase = "done" => ToSet(w.got) \subseteq H

ReadersOK ==
    /\ reader = [r \in Readers |-> reader[r]]
    /\ \A r \in Readers : ReaderOK(reader[r], Held, lists)

TableInv == Envelopes /\ Tables
ConnInv  == ConnTypes /\ Unheard /\ \A k \in Conns : ConnOK(k)

TsInv == TableInv /\ ConnInv /\ ReadersOK

-----------------------------------------------------------------------------
(***************************************************************************)
(* The tables                                                              *)
(***************************************************************************)

\* A new element at the end of a list without repetitions.
LEMMA NoRepeatAfterAppend ==
    ASSUME NEW L \in Seq(Ids), NEW e \in Ids, IsInjective(L), e \notin ToSet(L)
    PROVE  IsInjective(Append(L, e))
<1> SUFFICES \A i, j \in DOMAIN Append(L, e) : Append(L, e)[i] = Append(L, e)[j] => i = j
    BY DEF IsInjective
<1>1. DOMAIN Append(L, e) = 1..(Len(L) + 1) /\ DOMAIN L = 1..Len(L) /\ Len(L) \in Nat
    OBVIOUS
<1>2. \A i \in 1..Len(L) : Append(L, e)[i] = L[i] /\ L[i] # e
    BY <1>1 DEF ToSet
<1>3. Append(L, e)[Len(L) + 1] = e
    OBVIOUS
<1>4. \A i, j \in 1..Len(L) : L[i] = L[j] => i = j
    BY <1>1 DEF IsInjective
<1>5. ASSUME NEW i \in 1..(Len(L) + 1), NEW j \in 1..(Len(L) + 1), Append(L, e)[i] = Append(L, e)[j]
      PROVE  i = j
    <2>1. CASE i \in 1..Len(L) /\ j \in 1..Len(L)
        BY <1>2, <1>4, <1>5, <2>1
    <2>2. CASE i = Len(L) + 1 /\ j \in 1..Len(L)
        BY <1>2, <1>3, <1>5, <2>2
    <2>3. CASE i \in 1..Len(L) /\ j = Len(L) + 1
        BY <1>2, <1>3, <1>5, <2>3
    <2>4. CASE i = Len(L) + 1 /\ j = Len(L) + 1
        BY <2>4
    <2> QED  BY <1>1, <2>1, <2>2, <2>3, <2>4
<1> QED  BY <1>1, <1>5

\* store of an assertion that is not there.
LEMMA StoreNew ==
    ASSUME TableInv, NEW b \in Bodies, b.id \notin Held,
           envelopes' = [envelopes EXCEPT ![b.id] = b], lists' = Push(b)
    PROVE  /\ TableInv' /\ Held' = Held \cup {b.id}
           /\ \A i \in Held : envelopes'[i] = envelopes[i]
           /\ envelopes'[b.id] = b
           /\ \A l \in Lists : Begins(lists[l], lists'[l])
<1> DEFINE i0 == b.id
<1>1. i0 \in Ids /\ b # None
    BY MemAssumption DEF Ids
<1>2. /\ envelopes' \in [Ids -> Bodies \cup {None}] /\ envelopes'[i0] = b
      /\ \A i \in Ids \ {i0} : envelopes'[i] = envelopes[i]
    BY <1>1 DEF TableInv, Envelopes
<1>3. Held' = Held \cup {i0} /\ \A i \in Held : envelopes'[i] = envelopes[i]
    BY <1>1, <1>2 DEF Held
<1>4. Envelopes'
    BY <1>2, <1>3 DEF TableInv, Envelopes
<1>5. ASSUME NEW l \in Lists
      PROVE  /\ lists'[l] \in Seq(Ids) /\ IsInjective(lists'[l]) /\ Begins(lists[l], lists'[l])
             /\ ToSet(lists'[l]) = {i \in Held' : l \in Home(envelopes'[i])}
    <2>1. lists[l] \in Seq(Ids) /\ IsInjective(lists[l])
        BY DEF TableInv, Tables
    <2>2. ToSet(lists[l]) = {i \in Held : l \in Home(envelopes[i])}
        BY DEF TableInv, Tables
    <2>3. i0 \notin ToSet(lists[l])
        BY <2>2
    <2>4. {i \in Held' : l \in Home(envelopes'[i])}
            = ToSet(lists[l]) \cup (IF l \in Home(b) THEN {i0} ELSE {})
        BY <1>2, <1>3, <2>2
    <2>5. CASE l \in Home(b)
        <3>1. lists'[l] = Append(lists[l], i0)
            BY <2>5, Filed DEF Push
        <3>2. /\ Append(lists[l], i0) \in Seq(Ids) /\ Begins(lists[l], Append(lists[l], i0))
              /\ ToSet(Append(lists[l], i0)) = ToSet(lists[l]) \cup {i0}
            BY <1>1, <2>1, AppendBegins
        <3>3. IsInjective(Append(lists[l], i0))
            BY <1>1, <2>1, <2>3, NoRepeatAfterAppend
        <3> QED  BY <2>4, <2>5, <3>1, <3>2, <3>3
    <2>6. CASE l \notin Home(b)
        <3>1. lists'[l] = lists[l]
            BY <2>6, Filed DEF Push
        <3>2. Begins(lists[l], lists[l])
            BY <2>1 DEF Begins
        <3> QED  BY <2>1, <2>4, <2>6, <3>1, <3>2
    <2> QED  BY <2>5, <2>6
<1>6. lists' \in [Lists -> Seq(Ids)]
    <2>1. lists' = [l \in Lists |-> lists'[l]]
        BY DEF Push
    <2> QED  BY <1>5, <2>1
<1>7. Tables'
    BY <1>5, <1>6 DEF Tables
<1> QED  BY <1>2, <1>3, <1>4, <1>5, <1>7 DEF TableInv

LEMMA TsInit == Init => TsInv
<1> SUFFICES ASSUME Init PROVE TsInv
    OBVIOUS
<1>1. Held = {} /\ Envelopes
    BY DEF Init, Held, Envelopes
<1>2. <<>> \in Seq(Ids) /\ ToSet(<<>>) = {} /\ IsInjective(<<>>)
    BY DEF ToSet, IsInjective
<1>3. Tables
    <2> DEFINE e == <<>>
    <2>1. e \in Seq(Ids) /\ ToSet(e) = {} /\ IsInjective(e) /\ lists = [l \in Lists |-> e]
        BY <1>2 DEF Init
    <2> HIDE DEF e
    <2> QED  BY <1>1, <2>1 DEF Tables
<1>4. ConnInv
    BY DEF Init, ConnInv, ConnTypes, Unheard, ConnOK, Owes
<1>5. NoWalk \in WalkRecords /\ NoWalk.phase = "idle" /\ NoWalk.known = {}
    <2> DEFINE e == <<>>
    <2>1. e \in Seq(Ids) /\ NoWalk = [phase |-> "idle", query |-> None, offset |-> 0, chunk |-> e,
                                     got |-> e, known |-> {}]
        BY <1>2 DEF NoWalk
    <2> HIDE DEF e
    <2> QED  BY <2>1 DEF WalkRecords
<1>6. ReadersOK
    BY <1>5 DEF Init, ReadersOK, ReaderOK
<1> QED  BY <1>1, <1>3, <1>4, <1>6 DEF TsInv, TableInv

-----------------------------------------------------------------------------
(***************************************************************************)
(* Connections                                                             *)
(***************************************************************************)

\* A refusal on the headers is no success.
LEMMA HeaderRefusalFails ==
    ASSUME NEW b, NEW declared
    PROVE  HeaderRefusal(b, declared) \in {"not_found", "bad_encoding", "bad_type", "too_large", "none"}
<1>1. CASE b.transport \in {"not_found", "bad_encoding", "bad_type"}
    BY <1>1 DEF HeaderRefusal
<1>2. CASE b.transport \notin {"not_found", "bad_encoding", "bad_type"} /\ declared > MaxRecord
    BY <1>2 DEF HeaderRefusal
<1>3. CASE b.transport \notin {"not_found", "bad_encoding", "bad_type"} /\ ~(declared > MaxRecord)
    BY <1>3 DEF HeaderRefusal
<1> QED  BY <1>1, <1>2, <1>3

\* A step of one connection that answers no success leaves the others as
\* they are.
LEMMA QuietConn ==
    ASSUME ConnInv, Held' = Held, UNCHANGED firsts, NEW k \in Conns, ConnTypes', ~Owes(k)',
           pc'[k] = "reading" => req'[k] \in Bodies,
           pc'[k] = "reply" => outcome'[k] \notin {"fresh", "duplicate"},
           \A j \in Conns \ {k} : pc'[j] = pc[j] /\ req'[j] = req[j] /\ outcome'[j] = outcome[j]
    PROVE  ConnInv'
<1>1. \A j \in Conns \ {k} : Owes(j)' <=> Owes(j)
    BY DEF Owes
<1>2. ASSUME NEW j \in Conns PROVE ConnOK(j)'
    BY <1>1 DEF ConnInv, ConnOK
<1> QED  BY <1>2 DEF ConnInv, Unheard

LEMMA ReceiveStep ==
    ASSUME ConnInv, NEW k \in Conns, NEW b \in Bodies, NEW declared, Receive(k, b, declared)
    PROVE  ConnInv'
<1> DEFINE refusal == HeaderRefusal(b, declared)
<1>1. refusal \notin {"fresh", "duplicate"}
    BY HeaderRefusalFails
<1>2. /\ pc' = [pc EXCEPT ![k] = IF refusal = "none" THEN "reading" ELSE "reply"]
      /\ req' = [req EXCEPT ![k] = b] /\ outcome' = [outcome EXCEPT ![k] = refusal]
      /\ UNCHANGED <<envelopes, firsts>>
    BY DEF Receive
<1> HIDE DEF refusal
<1>3. ConnTypes' /\ req'[k] = b /\ outcome'[k] = refusal
    BY <1>2 DEF ConnInv, ConnTypes
<1>4. \A j \in Conns \ {k} : pc'[j] = pc[j] /\ req'[j] = req[j] /\ outcome'[j] = outcome[j]
    BY <1>2 DEF ConnInv, ConnTypes
<1>5. Held' = Held /\ ~Owes(k)'
    BY <1>1, <1>2, <1>3 DEF Held, Owes
<1> QED  BY <1>1, <1>2, <1>3, <1>4, <1>5, QuietConn

LEMMA BodyFailsStep ==
    ASSUME ConnInv, NEW k \in Conns, BodyFails(k)
    PROVE  ConnInv'
<1>1. /\ pc' = [pc EXCEPT ![k] = "idle"] /\ req' = [req EXCEPT ![k] = None]
      /\ UNCHANGED <<envelopes, outcome, firsts>>
    BY DEF BodyFails
<1>2. ConnTypes' /\ pc'[k] = "idle"
    BY <1>1 DEF ConnInv, ConnTypes
<1>3. \A j \in Conns \ {k} : pc'[j] = pc[j] /\ req'[j] = req[j] /\ outcome'[j] = outcome[j]
    BY <1>1 DEF ConnInv, ConnTypes
<1>4. Held' = Held /\ ~Owes(k)'
    BY <1>1, <1>2 DEF Held, Owes
<1> QED  BY <1>1, <1>2, <1>3, <1>4, QuietConn

\* readBody resolves: the test, the store and the answer are one callback.
LEMMA BodyEndsStep ==
    ASSUME TableInv, ConnInv, NEW k \in Conns, BodyEnds(k)
    PROVE  /\ TableInv' /\ ConnInv' /\ Held \subseteq Held'
           /\ \A i \in Held : envelopes'[i] = envelopes[i]
           /\ \A l \in Lists : Begins(lists[l], lists'[l])
<1> DEFINE b == req[k]
<1>1. pc[k] = "reading" /\ b \in Bodies /\ b.id \in Ids
    BY DEF BodyEnds, ConnInv, ConnOK, Ids
<1>2. /\ pc' = [pc EXCEPT ![k] = "reply"] /\ req' = req /\ firsts' = firsts
    BY DEF BodyEnds
<1>3. /\ pc' \in [Conns -> {"idle", "reading", "reply"}] /\ pc'[k] = "reply"
      /\ \A j \in Conns \ {k} : pc'[j] = pc[j]
    BY <1>2 DEF ConnInv, ConnTypes
<1>4. PICK v : outcome' = [outcome EXCEPT ![k] = v]
    BY DEF BodyEnds
<1>5. outcome'[k] = v /\ \A j \in Conns \ {k} : outcome'[j] = outcome[j]
    BY <1>4 DEF ConnInv, ConnTypes
<1>6. ConnTypes'
    <2>1. outcome' = [j \in Conns |-> outcome'[j]]
        BY <1>4 DEF ConnInv, ConnTypes
    <2> QED  BY <1>2, <1>3, <2>1 DEF ConnInv, ConnTypes
<1>7. CASE Admissible(b) /\ b.id \notin Held
    <2>1. /\ envelopes' = [envelopes EXCEPT ![b.id] = b] /\ lists' = Push(b)
          /\ outcome'[k] = "fresh"
        BY <1>7 DEF BodyEnds, Store, Answer, ConnInv, ConnTypes
    <2> HIDE DEF b
    <2>2. /\ TableInv' /\ Held' = Held \cup {b.id}
          /\ \A i \in Held : envelopes'[i] = envelopes[i]
          /\ \A l \in Lists : Begins(lists[l], lists'[l])
        BY <1>1, <1>7, <2>1, StoreNew
    <2> USE DEF b
    <2>3. firsts[b.id] = 0 /\ Unheard'
        BY <1>1, <1>2, <1>7, <2>2 DEF ConnInv, Unheard
    <2>4. \A j \in Conns \ {k} : Owes(j)' <=> Owes(j)
        BY <1>3, <1>5 DEF Owes
    <2>5. \A j \in Conns \ {k} : Owes(j) => req[j].id # b.id
        BY <1>7 DEF ConnInv, ConnOK, Owes
    <2>6. ASSUME NEW j \in Conns PROVE ConnOK(j)'
        BY <1>1, <1>2, <1>3, <1>5, <2>1, <2>2, <2>3, <2>4, <2>5 DEF ConnInv, ConnOK
    <2> QED  BY <1>6, <2>2, <2>3, <2>6 DEF ConnInv
<1>8. CASE ~(Admissible(b) /\ b.id \notin Held)
    <2>1. UNCHANGED <<envelopes, lists>>
        BY <1>8 DEF BodyEnds, Store
    <2>2. Held' = Held /\ TableInv' /\ \A l \in Lists : Begins(lists[l], lists'[l])
        BY <2>1 DEF Held, TableInv, Envelopes, Tables, Begins
    <2>3. outcome'[k] # "fresh" /\ (outcome'[k] = "duplicate" => b.id \in Held)
        <3>1. CASE Admissible(b)
            BY <1>8, <3>1 DEF BodyEnds, Answer, ConnInv, ConnTypes
        <3>2. CASE ~Admissible(b)
            <4>1. outcome'[k] = Refusal(b)
                BY <3>2 DEF BodyEnds, ConnInv, ConnTypes
            <4> QED  BY <3>2, <4>1, RefusalFails
        <3> QED  BY <3>1, <3>2
    <2>4. ~Owes(k)' /\ \A j \in Conns \ {k} : Owes(j)' <=> Owes(j)
        BY <1>3, <1>5, <2>3 DEF Owes
    <2>5. ASSUME NEW j \in Conns PROVE ConnOK(j)'
        BY <1>1, <1>2, <1>3, <1>5, <2>2, <2>3, <2>4 DEF ConnInv, ConnOK
    <2>6. Unheard'
        BY <1>2, <2>2 DEF ConnInv, Unheard
    <2> QED  BY <1>6, <2>1, <2>2, <2>5, <2>6 DEF ConnInv
<1> QED  BY <1>7, <1>8

LEMMA FinishStep ==
    ASSUME ConnInv, NEW k \in Conns, NEW heard \in BOOLEAN, Finish(k, heard)
    PROVE  ConnInv'
<1> DEFINE i0 == req[k].id
           said == heard /\ outcome[k] = "fresh"
<1>1. /\ pc[k] = "reply" /\ pc' = [pc EXCEPT ![k] = "idle"] /\ req' = [req EXCEPT ![k] = None]
      /\ outcome' = [outcome EXCEPT ![k] = "none"] /\ envelopes' = envelopes
      /\ firsts' = IF said THEN [firsts EXCEPT ![i0] = @ + 1] ELSE firsts
    BY DEF Finish
<1>2. /\ pc'[k] = "idle" /\ Held' = Held /\ ~Owes(k)'
    BY <1>1 DEF ConnInv, ConnTypes, Held, Owes
<1>3. \A j \in Conns \ {k} : pc'[j] = pc[j] /\ req'[j] = req[j] /\ outcome'[j] = outcome[j]
    BY <1>1 DEF ConnInv, ConnTypes
<1>4. \A j \in Conns \ {k} : Owes(j)' <=> Owes(j)
    BY <1>3 DEF Owes
<1>5. said => i0 \in Held /\ \A j \in Conns \ {k} : Owes(j) => req[j].id # i0
    BY <1>1 DEF ConnInv, ConnOK, Owes
<1> HIDE DEF said, i0
<1>6. /\ firsts' \in [Ids -> Nat]
      /\ \A i \in Ids : ~(said /\ i = i0) => firsts'[i] = firsts[i]
    <2>1. firsts \in [Ids -> Nat]
        BY DEF ConnInv, ConnTypes
    <2>2. CASE said
        BY <1>1, <1>5, <2>1, <2>2 DEF Held
    <2>3. CASE ~said
        BY <1>1, <2>1, <2>3
    <2> QED  BY <2>2, <2>3
<1>7. ConnTypes'
    BY <1>1, <1>6 DEF ConnInv, ConnTypes
<1>8. ASSUME NEW j \in Conns PROVE ConnOK(j)'
    <2>1. CASE j = k
        BY <1>2, <2>1 DEF ConnOK
    <2>2. CASE j # k
        <3>1. ConnOK(j) /\ (Owes(j) => req[j].id \in Ids /\ ~(said /\ req[j].id = i0))
            BY <1>5, <2>2 DEF ConnInv, ConnOK, Owes, Held
        <3>2. Owes(j) => firsts'[req[j].id] = 0
            BY <1>6, <3>1 DEF ConnOK
        <3> QED  BY <1>2, <1>3, <1>4, <2>2, <3>1, <3>2 DEF ConnOK
    <2> QED  BY <2>1, <2>2
<1>9. Unheard'
    BY <1>2, <1>5, <1>6 DEF ConnInv, Unheard
<1> QED  BY <1>7, <1>8, <1>9 DEF ConnInv

-----------------------------------------------------------------------------
(***************************************************************************)
(* Readers                                                                 *)
(***************************************************************************)

Bodied(S) == {envelopes[i] : i \in S}

\* What a query reads is what RelaySpec says it asks for.
LEMMA ItemsAnswer ==
    ASSUME TableInv, NEW q \in Queries
    PROVE  /\ Items(q) \in Seq(Ids) /\ ToSet(Items(q)) \subseteq Held
           /\ Bodied(ToSet(Items(q))) = Abstract!Answer(q, Bodied(Held))
<1>1. CASE q.kind = "assertion"
    <2>1. Items(q) \in Seq(Ids) /\ ToSet(Items(q)) = Held \cap {q.key}
        <3>1. CASE q.key \in Held
            <4>1. q.key \in Ids /\ Items(q) = <<q.key>>
                BY <1>1, <3>1 DEF Held, Items
            <4> QED  BY <3>1, <4>1 DEF ToSet
        <3>2. CASE q.key \notin Held
            <4>1. Items(q) = <<>>
                BY <1>1, <3>2 DEF Items
            <4>2. Items(q) \in Seq(Ids) /\ ToSet(Items(q)) = {}
                BY <4>1 DEF ToSet
            <4> QED  BY <3>2, <4>2
        <3> QED  BY <3>1, <3>2
    <2>2. \A i \in Held : Abstract!Wanted(q, envelopes[i]) <=> i = q.key
        BY <1>1 DEF TableInv, Envelopes, Abstract!Wanted
    <2> QED  BY <2>1, <2>2 DEF Bodied, Abstract!Answer
<1>2. CASE q.kind # "assertion"
    <2>1. q \in Lists /\ Items(q) = lists[q]
        BY <1>2, QueryLists DEF Items
    <2>2. lists[q] \in Seq(Ids) /\ ToSet(lists[q]) = {i \in Held : q \in Home(envelopes[i])}
        BY <2>1 DEF TableInv, Tables
    <2>3. q \in {Advertised, InChannel(q.key), OfObject(q.key)}
        <3>1. [kind |-> "assertion", key |-> q.key].kind = "assertion"
            OBVIOUS
        <3> QED  BY <1>2, <3>1, QueryAssumption
    <2>4. ASSUME NEW b
          PROVE  q \in Home(b) <=> Abstract!Wanted(q, b)
        <3>1. CASE q = Advertised
            BY <3>1 DEF Home, Advertised, InChannel, OfObject, Abstract!Wanted
        <3>2. CASE q = InChannel(q.key)
            <4>1. q.kind = "channel"
                BY <3>2 DEF InChannel
            <4>2. \A x : q = InChannel(x) <=> x = q.key
                BY <3>2 DEF InChannel
            <4>3. \A x : q # OfObject(x) /\ q # Advertised
                BY <4>1 DEF OfObject, Advertised
            <4> QED  BY <4>1, <4>2, <4>3 DEF Home, Abstract!Wanted
        <3>3. CASE q = OfObject(q.key)
            <4>1. q.kind = "object"
                BY <3>3 DEF OfObject
            <4>2. \A x : q = OfObject(x) <=> x = q.key
                BY <3>3 DEF OfObject
            <4>3. \A x : q # InChannel(x) /\ q # Advertised
                BY <4>1 DEF InChannel, Advertised
            <4> QED  BY <4>1, <4>2, <4>3 DEF Home, Abstract!Wanted
        <3> QED  BY <2>3, <3>1, <3>2, <3>3
    <2> QED  BY <2>1, <2>2, <2>4 DEF Bodied, Abstract!Answer
<1> QED  BY <1>1, <1>2

\* Lists that grow and envelopes that stay leave the walks as they are.
LEMMA GrownReaders ==
    ASSUME TableInv, TableInv', ReadersOK, UNCHANGED reader, Held \subseteq Held',
           \A l \in Lists : Begins(lists[l], lists'[l])
    PROVE  ReadersOK'
<1> SUFFICES ASSUME NEW r \in Readers PROVE ReaderOK(reader[r], Held', lists')
    BY DEF ReadersOK
<1> DEFINE w == reader[r]
<1>1. ReaderOK(w, Held, lists)
    BY DEF ReadersOK
<1>2. CASE w.phase # "idle" /\ w.query.kind # "assertion"
    <2>1. w.query \in Lists
        BY <1>1, <1>2, QueryLists DEF ReaderOK
    <2>2. WalkOK(w, lists'[w.query])
        BY <1>1, <1>2, <2>1, GrownWalk DEF ReaderOK, TableInv, Tables
    <2> QED  BY <1>1, <1>2, <2>2 DEF ReaderOK
<1> QED  BY <1>1, <1>2 DEF ReaderOK

\* A step of one reader.
LEMMA ReaderStepOf ==
    ASSUME ReadersOK, NEW r \in Readers, NEW n, reader' = [reader EXCEPT ![r] = n],
           UNCHANGED <<envelopes, lists>>, ReaderOK(n, Held, lists)
    PROVE  ReadersOK'
<1>1. Held' = Held
    BY DEF Held
<1> QED  BY <1>1 DEF ReadersOK

LEMMA StartWalkStep ==
    ASSUME TableInv, ReadersOK, NEW r \in Readers, NEW q \in Queries, StartWalk(r, q)
    PROVE  ReadersOK'
<1> DEFINE L == Items(q)
           n == Walk(q, ToSet(L))
<1>1. reader' = [reader EXCEPT ![r] = n] /\ UNCHANGED <<envelopes, lists>>
    BY DEF StartWalk
<1>2. L \in Seq(Ids) /\ ToSet(L) \subseteq Held /\ ToSet(L) \in SUBSET Ids
    BY ItemsAnswer DEF Held
<1>3. q.kind = "assertion" => ToSet(L) \subseteq {q.key}
    BY DEF Items, ToSet
<1>4. q.kind # "assertion" => L = lists[q]
    BY DEF Items
<1> HIDE DEF L
<1>5. /\ n \in WalkRecords /\ WalkOK(n, L) /\ n.query = q /\ n.phase = "walking"
      /\ n.known = ToSet(L)
    BY <1>2, StartOK
<1> HIDE DEF n
<1>6. ReaderOK(n, Held, lists)
    BY <1>2, <1>3, <1>4, <1>5 DEF ReaderOK
<1> QED  BY <1>1, <1>6, ReaderStepOf

\* A page leaves the walk on its query, and the last page completes it.
LEMMA GetPageStep ==
    ASSUME TableInv, ReadersOK, NEW r \in Readers, GetPage(r)
    PROVE  LET w == reader[r]
               n == reader'[r]
           IN  /\ ReadersOK' /\ reader' = [reader EXCEPT ![r] = n]
               /\ w.query \in Queries /\ n.query = w.query /\ n.known = w.known
               /\ n.phase \in {"walking", "done"}
               /\ n.phase = "done" => ToSet(n.got) = ToSet(Items(w.query)) /\ n.known \subseteq ToSet(n.got)
<1> DEFINE w == reader[r]
           L == Items(w.query)
           n == Turn(w, Chunk(L, w.offset), Len(L))
<1>1. ReaderOK(w, Held, lists) /\ w.phase = "walking" /\ w.query.kind # "assertion"
    BY DEF ReadersOK, GetPage
<1>2. w.query \in Queries /\ w \in WalkRecords /\ L = lists[w.query] /\ WalkOK(w, L)
    BY <1>1 DEF ReaderOK, Items
<1>3. L \in Seq(Ids) /\ ToSet(L) \subseteq Held
    BY <1>2, ItemsAnswer
<1>4. reader' = [reader EXCEPT ![r] = n] /\ UNCHANGED <<envelopes, lists>>
    BY DEF GetPage
<1> HIDE DEF L
<1>5. /\ w.got \in Seq(Ids) /\ w.offset = Len(w.got)
      /\ Begins(w.got, L) /\ w.known \subseteq ToSet(L)
    BY <1>1, <1>2 DEF WalkOK, WalkRecords
<1>6. Chunk(L, w.offset) \in Seq(Ids) /\ Begins(w.got \o Chunk(L, w.offset), L)
    BY <1>3, <1>5, ChunkNext
<1>7. /\ n \in WalkRecords /\ WalkOK(n, L) /\ n.phase \in {"walking", "done"}
      /\ n.query = w.query /\ n.known = w.known
      /\ n.phase = "done" => ToSet(n.got) = ToSet(L)
    BY <1>2, <1>3, <1>5, <1>6, TurnOK
<1> HIDE DEF n
<1>8. reader'[r] = n
    BY <1>4 DEF ReadersOK
<1>9. ReaderOK(n, Held, lists)
    BY <1>1, <1>2, <1>3, <1>7 DEF ReaderOK
<1>10. ReadersOK'
    BY <1>4, <1>9, ReaderStepOf
<1>11. n.phase = "done" => n.known \subseteq ToSet(n.got)
    BY <1>7 DEF WalkOK
<1> QED  BY <1>2, <1>4, <1>7, <1>8, <1>10, <1>11 DEF L

LEMMA GetAssertionStep ==
    ASSUME TableInv, ReadersOK, NEW r \in Readers, GetAssertion(r)
    PROVE  LET w == reader[r]
               n == reader'[r]
           IN  /\ ReadersOK' /\ reader' = [reader EXCEPT ![r] = n]
               /\ w.query \in Queries /\ n.query = w.query /\ n.known = w.known
               /\ n.phase = "done"
               /\ ToSet(n.got) = ToSet(Items(w.query)) /\ n.known \subseteq ToSet(n.got)
<1> DEFINE w == reader[r]
           L == Items(w.query)
           n == [w EXCEPT !.phase = "done", !.got = L]
<1>1. ReaderOK(w, Held, lists) /\ w.phase = "walking" /\ w.query.kind = "assertion"
    BY DEF ReadersOK, GetAssertion
<1>2. w.query \in Queries /\ w \in WalkRecords /\ w.known \subseteq Held \cap {w.query.key}
    BY <1>1 DEF ReaderOK
<1>3. L \in Seq(Ids) /\ ToSet(L) \subseteq Held
    BY <1>2, ItemsAnswer
<1>4. w.known \subseteq ToSet(L)
    BY <1>1, <1>2 DEF Items, ToSet
<1>5. reader' = [reader EXCEPT ![r] = n] /\ UNCHANGED <<envelopes, lists>>
    BY DEF GetAssertion, ReadersOK
<1> HIDE DEF L
<1>6. n \in WalkRecords
    BY <1>2, <1>3 DEF WalkRecords
<1>7. n.phase = "done" /\ n.got = L /\ n.query = w.query /\ n.known = w.known
    BY <1>2 DEF WalkRecords
<1> HIDE DEF n
<1>8. reader'[r] = n
    BY <1>5 DEF ReadersOK
<1>9. ReaderOK(n, Held, lists)
    BY <1>1, <1>2, <1>3, <1>6, <1>7 DEF ReaderOK
<1>10. ReadersOK'
    BY <1>5, <1>9, ReaderStepOf
<1> QED  BY <1>2, <1>4, <1>5, <1>7, <1>8, <1>10 DEF L

-----------------------------------------------------------------------------
(***************************************************************************)
(* The invariant                                                           *)
(***************************************************************************)

\* Steps that leave the tables alone, and steps that leave the connections.
LEMMA SameTables ==
    ASSUME TableInv, UNCHANGED <<envelopes, lists>>
    PROVE  TableInv' /\ Held' = Held /\ \A S : Bodied(S)' = Bodied(S)
    BY DEF TableInv, Envelopes, Tables, Held, Bodied

LEMMA SameConns ==
    ASSUME ConnInv, UNCHANGED <<envelopes, conn, firsts>>
    PROVE  ConnInv'
<1>1. Held' = Held
    BY DEF Held
<1>2. \A k \in Conns : ConnOK(k)'
    BY <1>1 DEF ConnInv, ConnOK, Owes, conn
<1> QED  BY <1>1, <1>2 DEF ConnInv, ConnTypes, Unheard, conn

LEMMA SameReaders ==
    ASSUME ReadersOK, UNCHANGED <<envelopes, lists, reader>>
    PROVE  ReadersOK'
<1>1. Held' = Held
    BY DEF Held
<1> QED  BY <1>1 DEF ReadersOK

LEMMA TsStep == TsInv /\ [Next]_vars => TsInv'
<1> SUFFICES ASSUME TsInv, [Next]_vars PROVE TsInv'
    OBVIOUS
<1>0. TableInv /\ ConnInv /\ ReadersOK
    BY DEF TsInv
<1>1. ASSUME UNCHANGED <<envelopes, lists, reader>>, ConnInv'
      PROVE  TsInv'
    BY <1>0, <1>1, SameTables, SameReaders DEF TsInv
<1>2. ASSUME NEW k \in Conns, NEW b \in Bodies, NEW declared, Receive(k, b, declared)
      PROVE  TsInv'
    BY <1>0, <1>1, <1>2, ReceiveStep DEF Receive
<1>3. ASSUME NEW k \in Conns, BodyEnds(k)
      PROVE  TsInv'
    <2>1. UNCHANGED reader
        BY <1>3 DEF BodyEnds
    <2> QED  BY <1>0, <1>3, <2>1, BodyEndsStep, GrownReaders DEF TsInv
<1>4. ASSUME NEW k \in Conns, BodyFails(k)
      PROVE  TsInv'
    BY <1>0, <1>1, <1>4, BodyFailsStep DEF BodyFails
<1>5. ASSUME NEW k \in Conns, NEW heard \in BOOLEAN, Finish(k, heard)
      PROVE  TsInv'
    BY <1>0, <1>1, <1>5, FinishStep DEF Finish
<1>6. ASSUME NEW r \in Readers, NEW q \in Queries, StartWalk(r, q)
      PROVE  TsInv'
    BY <1>0, <1>6, StartWalkStep, SameTables, SameConns DEF TsInv, StartWalk
<1>7. ASSUME NEW r \in Readers, GetPage(r) \/ GetAssertion(r)
      PROVE  TsInv'
    <2>1. UNCHANGED <<envelopes, lists, conn, firsts>>
        BY <1>7 DEF GetPage, GetAssertion
    <2> QED  BY <1>0, <1>7, <2>1, GetPageStep, GetAssertionStep, SameTables, SameConns DEF TsInv
<1>8. CASE UNCHANGED vars
    BY <1>0, <1>1, <1>8, SameConns DEF vars
<1> QED  BY <1>2, <1>3, <1>4, <1>5, <1>6, <1>7, <1>8 DEF Next

\* The tables agree with each other, and with what every connection and
\* every reader relies on, whatever the event loop interleaves.
THEOREM TsInvariant == Spec => []TsInv
    BY TsInit, TsStep, PTL DEF Spec

\* However many connections were waiting with the same assertion when the
\* first of them was stored, store's test keeps the lists without
\* repetitions.
THEOREM ListedOnce == Spec => []IndexedOnce
<1>1. TsInv => IndexedOnce
    BY DEF TsInv, TableInv, Tables, IndexedOnce
<1> QED  BY <1>1, TsInvariant, PTL

-----------------------------------------------------------------------------
(***************************************************************************)
(* The refinement: the store of a new assertion is Accept, an answer that  *)
(* is heard is Acknowledge, the last page of a walk is EndListing, and     *)
(* every other step is invisible.                                          *)
(***************************************************************************)

Listings == [u \in Readers |-> ListingOf(u)]

\* Bodies that stay leave a listing as it is.
LEMMA StableListing ==
    ASSUME ReadersOK, UNCHANGED reader, \A i \in Held : envelopes'[i] = envelopes[i]
    PROVE  Listings' = Listings
<1>1. ASSUME NEW r \in Readers PROVE ListingOf(r)' = ListingOf(r)
    <2> DEFINE w == reader[r]
    <2>1. w.known \subseteq Held /\ (w.phase = "done" => ToSet(w.got) \subseteq Held)
        BY DEF ReadersOK, ReaderOK
    <2>2. {envelopes'[i] : i \in w.known} = {envelopes[i] : i \in w.known}
        BY <2>1
    <2>3. w.phase = "done" => {envelopes'[i] : i \in ToSet(w.got)} = {envelopes[i] : i \in ToSet(w.got)}
        BY <2>1
    <2> QED  BY <2>2, <2>3 DEF ListingOf
<1>2. Listings' = [u \in Readers |-> ListingOf(u)']
    BY DEF Listings
<1> QED  BY <1>1, <1>2 DEF Listings

\* A step of one reader's walk leaves the other listings alone.
LEMMA OtherListings ==
    ASSUME ReadersOK, UNCHANGED <<envelopes, lists>>, NEW r \in Readers, NEW n,
           reader' = [reader EXCEPT ![r] = n]
    PROVE  /\ reader'[r] = n /\ \A S : Bodied(S)' = Bodied(S)
           /\ \A u \in Readers \ {r} : ListingOf(u)' = ListingOf(u)
<1>1. reader'[r] = n /\ \A u \in Readers \ {r} : reader'[u] = reader[u]
    BY DEF ReadersOK
<1> QED  BY <1>1 DEF ListingOf, Bodied

LEMMA TsInitRefines == Init => Abstract!Init
<1> SUFFICES ASSUME Init PROVE Abstract!Init
    OBVIOUS
<1>1. Held = {}
    BY DEF Init, Held
<1>2. \A r \in Readers : ListingOf(r) = Abstract!NoListing
    BY DEF Init, ListingOf, NoWalk, Abstract!NoListing
<1>3. acked = {} /\ firsts = [i \in Abstract!Ids |-> 0]
    BY DEF Init, Ids, Abstract!Ids
<1> QED  BY <1>1, <1>2, <1>3 DEF Abstract!Init

LEMMA BodyEndsRefines ==
    ASSUME TsInv, NEW k \in Conns, BodyEnds(k)
    PROVE  Abstract!Next \/ UNCHANGED Abstract!vars
<1> DEFINE b == req[k]
<1>0. TableInv /\ ConnInv /\ ReadersOK
    BY DEF TsInv
<1>1. b \in Bodies /\ b.id \in Ids
    BY <1>0 DEF BodyEnds, ConnInv, ConnOK, Ids
<1>2. acked' = acked /\ firsts' = firsts /\ reader' = reader
    BY DEF BodyEnds
<1>3. Listings' = Listings
    BY <1>0, <1>2, BodyEndsStep, StableListing
<1>4. CASE Admissible(b) /\ b.id \notin Held
    <2>1. envelopes' = [envelopes EXCEPT ![b.id] = b] /\ lists' = Push(b)
        BY <1>4 DEF BodyEnds, Store
    <2>2. PICK c \in Bodies : c = b
        BY <1>1
    <2>3. /\ Held' = Held \cup {c.id} /\ envelopes'[c.id] = c
          /\ \A i \in Held : envelopes'[i] = envelopes[i]
        BY <1>0, <1>4, <2>1, <2>2, StoreNew
    <2>4. Bodied(Held)' = Bodied(Held) \cup {c}
        BY <2>3 DEF Bodied
    <2>5. \A d \in Bodied(Held) : d.id # c.id
        BY <1>0, <1>4, <2>2 DEF Bodied, TableInv, Envelopes
    <2>6. Abstract!Accept(c)
        BY <1>2, <1>3, <2>4, <2>5 DEF Abstract!Accept, Bodied, Listings
    <2> QED  BY <2>6 DEF Abstract!Next
<1>5. CASE ~(Admissible(b) /\ b.id \notin Held)
    <2>1. UNCHANGED <<envelopes, lists>>
        BY <1>5 DEF BodyEnds, Store
    <2>2. Bodied(Held)' = Bodied(Held)
        BY <2>1 DEF Bodied, Held
    <2> QED  BY <1>2, <1>3, <2>2 DEF Abstract!vars, Bodied, Listings
<1> QED  BY <1>4, <1>5

LEMMA FinishRefines ==
    ASSUME TsInv, NEW k \in Conns, NEW heard \in BOOLEAN, Finish(k, heard)
    PROVE  Abstract!Next \/ UNCHANGED Abstract!vars
<1>0. TableInv /\ ConnInv /\ ReadersOK
    BY DEF TsInv
<1>1. UNCHANGED <<envelopes, lists, reader>> /\ pc[k] = "reply"
    BY DEF Finish
<1>2. Bodied(Held)' = Bodied(Held) /\ Listings' = Listings
    BY <1>0, <1>1, StableListing DEF Bodied, Held
<1>3. CASE heard /\ outcome[k] \in {"fresh", "duplicate"}
    <2>1. req[k] \in Bodies /\ req[k].id \in Held
        BY <1>0, <1>1, <1>3 DEF ConnInv, ConnOK
    <2>2. PICK i \in Abstract!Ids : i = req[k].id
        BY <2>1 DEF Abstract!Ids
    <2>3. PICK fresh \in BOOLEAN : fresh = (outcome[k] = "fresh")
        OBVIOUS
    <2>4. \E c \in Bodied(Held) : c.id = i
        BY <1>0, <2>1, <2>2 DEF Bodied, TableInv, Envelopes
    <2>5. fresh => firsts[i] = 0
        BY <1>0, <1>1, <2>2, <2>3 DEF ConnInv, ConnOK, Owes
    <2>6. /\ acked' = acked \cup {i}
          /\ firsts' = IF fresh THEN [firsts EXCEPT ![i] = @ + 1] ELSE firsts
        BY <1>3, <2>2, <2>3 DEF Finish
    <2>7. Abstract!Acknowledge(i, fresh)
        BY <1>2, <2>4, <2>5, <2>6 DEF Abstract!Acknowledge, Bodied, Listings
    <2> QED  BY <2>7 DEF Abstract!Next
<1>4. CASE ~(heard /\ outcome[k] \in {"fresh", "duplicate"})
    <2>1. acked' = acked /\ firsts' = firsts
        BY <1>4 DEF Finish
    <2> QED  BY <1>2, <2>1 DEF Abstract!vars, Bodied, Listings
<1> QED  BY <1>3, <1>4

LEMMA StartWalkRefines ==
    ASSUME TsInv, NEW r \in Readers, NEW q \in Queries, StartWalk(r, q)
    PROVE  Abstract!Next
<1> DEFINE K == ToSet(Items(q))
<1>0. TableInv /\ ReadersOK
    BY DEF TsInv
<1>1. /\ UNCHANGED <<envelopes, lists>> /\ acked' = acked /\ firsts' = firsts
      /\ reader' = [reader EXCEPT ![r] = Walk(q, K)]
    BY DEF StartWalk
<1>2. Bodied(K) = Abstract!Answer(q, Bodied(Held))
    BY <1>0, ItemsAnswer
<1> HIDE DEF K
<1>3. /\ reader'[r] = Walk(q, K)
      /\ \A u \in Readers \ {r} : ListingOf(u)' = ListingOf(u)
    BY <1>0, <1>1, OtherListings
<1>4. Bodied(Held)' = Bodied(Held)
    BY <1>1 DEF Bodied, Held
<1>5. reader'[r].phase = "walking" /\ reader'[r].query = q /\ reader'[r].known = K
    BY <1>3 DEF Walk, NoWalk
<1>6. ListingOf(r)' = [phase |-> "open", query |-> q, base |-> Abstract!Answer(q, Bodied(Held)),
                       result |-> {}]
    <2>1. {envelopes'[i] : i \in reader'[r].known} = Abstract!Answer(q, Bodied(Held))
        BY <1>1, <1>2, <1>5 DEF Bodied
    <2> QED  BY <1>5, <2>1 DEF ListingOf
<1>7. Listings' = [Listings EXCEPT ![r] = [phase |-> "open", query |-> q,
                     base |-> Abstract!Answer(q, Bodied(Held)), result |-> {}]]
    <2>1. Listings' = [u \in Readers |-> ListingOf(u)']
        BY DEF Listings
    <2> QED  BY <1>3, <1>6, <2>1 DEF Listings
<1>8. Abstract!BeginListing(r, q)
    BY <1>1, <1>4, <1>7 DEF Abstract!BeginListing, Bodied, Listings
<1> QED  BY <1>8 DEF Abstract!Next

\* The step that ends a walk.
LEMMA EndRefines ==
    ASSUME TsInv, UNCHANGED <<envelopes, lists, acked, firsts>>, NEW r \in Readers, NEW n,
           reader' = [reader EXCEPT ![r] = n], reader[r].phase = "walking", reader[r].query \in Queries,
           n.phase = "done", n.query = reader[r].query, n.known = reader[r].known,
           ToSet(n.got) = ToSet(Items(reader[r].query)), n.known \subseteq ToSet(n.got)
    PROVE  Abstract!Next
<1>0. TableInv /\ ReadersOK
    BY DEF TsInv
<1>1. reader'[r] = n /\ \A u \in Readers \ {r} : ListingOf(u)' = ListingOf(u)
    BY <1>0, OtherListings
<1>2. Bodied(Held)' = Bodied(Held)
    BY DEF Bodied, Held
<1> DEFINE q == reader[r].query
           B == Bodied(n.known)
           L == Bodied(ToSet(n.got))
<1>3. L = Abstract!Answer(q, Bodied(Held)) /\ B \subseteq L
    BY <1>0, ItemsAnswer DEF Bodied
<1>4. ListingOf(r) = [phase |-> "open", query |-> q, base |-> B, result |-> {}]
    BY DEF ListingOf, Bodied
<1>5. ListingOf(r)' = [phase |-> "closed", query |-> q, base |-> B, result |-> L]
    <2>1. {envelopes'[i] : i \in reader'[r].known} = B /\ {envelopes'[i] : i \in ToSet(reader'[r].got)} = L
        BY <1>1 DEF Bodied
    <2>2. reader'[r].phase = "done" /\ reader'[r].query = q
        BY <1>1
    <2> HIDE DEF q, B, L
    <2> QED  BY <2>1, <2>2 DEF ListingOf
<1> HIDE DEF q, B, L
<1>6. Listings[r].phase = "open" /\ Listings[r].query = q /\ Listings[r].base = B
    BY <1>4 DEF Listings
<1>7. Listings' = [Listings EXCEPT ![r] = [phase |-> "closed", query |-> @.query,
                                           base |-> @.base, result |-> L]]
    <2>1. Listings' = [u \in Readers |-> ListingOf(u)']
        BY DEF Listings
    <2> QED  BY <1>1, <1>5, <1>6, <2>1 DEF Listings
<1>8. Abstract!EndListing(r)
    BY <1>2, <1>3, <1>6, <1>7 DEF Abstract!EndListing, Bodied, Listings
<1> QED  BY <1>8 DEF Abstract!Next

LEMMA GetPageRefines ==
    ASSUME TsInv, NEW r \in Readers, GetPage(r)
    PROVE  Abstract!Next \/ UNCHANGED Abstract!vars
<1> DEFINE w == reader[r]
<1>0. TableInv /\ ReadersOK
    BY DEF TsInv
<1>1. UNCHANGED <<envelopes, lists, acked, firsts>> /\ w.phase = "walking"
    BY DEF GetPage
<1>2. PICK n : n = reader'[r]
    OBVIOUS
<1>3. /\ reader' = [reader EXCEPT ![r] = n] /\ w.query \in Queries
      /\ n.query = w.query /\ n.known = w.known /\ n.phase \in {"walking", "done"}
      /\ n.phase = "done" => ToSet(n.got) = ToSet(Items(w.query)) /\ n.known \subseteq ToSet(n.got)
    BY <1>0, <1>2, GetPageStep
<1>4. CASE n.phase = "done"
    BY <1>1, <1>3, <1>4, EndRefines
<1>5. CASE n.phase = "walking"
    <2>1. reader'[r] = n /\ \A u \in Readers \ {r} : ListingOf(u)' = ListingOf(u)
        BY <1>0, <1>1, <1>3, OtherListings
    <2>2. ListingOf(r)' = ListingOf(r)
        <3>1. /\ reader'[r].phase = "walking" /\ reader'[r].query = w.query
              /\ reader'[r].known = w.known
            BY <1>3, <1>5, <2>1
        <3>2. {envelopes'[i] : i \in reader'[r].known} = {envelopes[i] : i \in w.known}
            BY <1>1, <3>1
        <3> QED  BY <1>1, <3>1, <3>2 DEF ListingOf
    <2>3. Listings' = Listings
        BY <2>1, <2>2 DEF Listings
    <2>4. Bodied(Held)' = Bodied(Held)
        BY <1>1 DEF Bodied, Held
    <2> QED  BY <1>1, <2>3, <2>4 DEF Abstract!vars, Bodied, Listings
<1> QED  BY <1>3, <1>4, <1>5

LEMMA GetAssertionRefines ==
    ASSUME TsInv, NEW r \in Readers, GetAssertion(r)
    PROVE  Abstract!Next
<1>0. TableInv /\ ReadersOK
    BY DEF TsInv
<1>1. UNCHANGED <<envelopes, lists, acked, firsts>> /\ reader[r].phase = "walking"
    BY DEF GetAssertion
<1>2. PICK n : n = reader'[r]
    OBVIOUS
<1>3. /\ reader' = [reader EXCEPT ![r] = n] /\ reader[r].query \in Queries
      /\ n.query = reader[r].query /\ n.known = reader[r].known /\ n.phase = "done"
      /\ ToSet(n.got) = ToSet(Items(reader[r].query)) /\ n.known \subseteq ToSet(n.got)
    BY <1>0, <1>2, GetAssertionStep
<1> QED  BY <1>1, <1>3, EndRefines

\* Every callback is a step of the promise, or invisible.
LEMMA TsNextRefines ==
    ASSUME TsInv, [Next]_vars
    PROVE  Abstract!Next \/ UNCHANGED Abstract!vars
<1>1. ASSUME UNCHANGED <<envelopes, lists, reader, acked, firsts>> PROVE UNCHANGED Abstract!vars
    <2>1. Bodied(Held)' = Bodied(Held) /\ Listings' = Listings
        BY <1>1, StableListing DEF Bodied, Held, TsInv
    <2> QED  BY <1>1, <2>1 DEF Abstract!vars, Bodied, Listings
<1>2. ASSUME NEW k \in Conns, NEW b \in Bodies, NEW declared, Receive(k, b, declared)
      PROVE  UNCHANGED Abstract!vars
    BY <1>1, <1>2 DEF Receive
<1>3. ASSUME NEW k \in Conns, BodyFails(k) PROVE UNCHANGED Abstract!vars
    BY <1>1, <1>3 DEF BodyFails
<1>4. ASSUME NEW r \in Readers, GetPage(r) \/ GetAssertion(r)
      PROVE  Abstract!Next \/ UNCHANGED Abstract!vars
    BY <1>4, GetPageRefines, GetAssertionRefines
<1>5. CASE UNCHANGED vars
    BY <1>1, <1>5 DEF vars
<1> QED
    BY <1>2, <1>3, <1>4, <1>5, BodyEndsRefines, FinishRefines, StartWalkRefines DEF Next

\* Waiting bodies, broken connections, lost answers and pages are
\* invisible: the clients of the TypeScript relay see the atomic relay of
\* RelaySpec.
THEOREM TsRefinement == Spec => ImplementsRelaySpec
<1>1. TsInv /\ [Next]_vars => [Abstract!Next]_(Abstract!vars)
    BY TsNextRefines
<1> QED  BY <1>1, TsInitRefines, TsInvariant, PTL DEF Spec, ImplementsRelaySpec, Abstract!Spec
=============================================================================
