--------------------------- MODULE MemRelayProofs ---------------------------
(***************************************************************************)
(* Lemmas about what the two in-memory relays share: the lists that an     *)
(* assertion is filed under, the refusals, and a client's walk over a list *)
(* that others append to.                                                  *)
(***************************************************************************)
EXTENDS MemRelay, TLAPS

\* L begins with s, element by element.
Begins(s, L) == Len(s) <= Len(L) /\ \A i \in 1..Len(s) : s[i] = L[i]

WalkRecords ==
    [phase : {"idle", "walking", "sliced", "done"}, query : Queries \cup {None}, offset : Nat,
     chunk : Seq(Ids), got : Seq(Ids), known : SUBSET Ids]

\* A walk over the list L has read its front up to the offset, a page that
\* was cut is what comes next, and a walk that is done has what was there
\* when it began.
WalkOK(w, L) ==
    /\ w.phase \in {"walking", "sliced"} =>
         w.offset = Len(w.got) /\ Begins(w.got, L) /\ w.known \subseteq ToSet(L)
    /\ w.phase = "sliced" => Begins(w.got \o w.chunk, L)
    /\ w.phase = "done" => Begins(w.got, L) /\ w.known \subseteq ToSet(w.got)

\* Where an assertion is filed.
Home(b) ==
    {InChannel(IF b.type = "channel" THEN b.id ELSE b.channel)}
      \cup (IF b.object # None THEN {OfObject(b.object)} ELSE {})
      \cup (IF b.type = "channel" THEN {Advertised} ELSE {})

LEMMA BeginsIsPrefix ==
    ASSUME NEW S, NEW s \in Seq(S), NEW L \in Seq(S), Begins(s, L)
    PROVE  IsPrefix(s, L)
    BY DEF Begins, IsPrefix

LEMMA BeginsTransitive ==
    ASSUME NEW S, NEW s \in Seq(S), NEW L \in Seq(S), NEW M \in Seq(S), Begins(s, L), Begins(L, M)
    PROVE  Begins(s, M)
    BY DEF Begins

LEMMA BeginsElements ==
    ASSUME NEW S, NEW L \in Seq(S), NEW M \in Seq(S), Begins(L, M)
    PROVE  ToSet(L) \subseteq ToSet(M)
    BY DEF Begins, ToSet

LEMMA AppendBegins ==
    ASSUME NEW S, NEW L \in Seq(S), NEW e \in S
    PROVE  /\ Append(L, e) \in Seq(S) /\ Begins(L, Append(L, e))
           /\ ToSet(Append(L, e)) = ToSet(L) \cup {e}
<1>1. Append(L, e) \in Seq(S) /\ Begins(L, Append(L, e))
    BY DEF Begins
<1>2. DOMAIN Append(L, e) = 1..(Len(L) + 1) /\ DOMAIN L = 1..Len(L) /\ Len(L) \in Nat
    OBVIOUS
<1>3. \A i \in 1..Len(L) : Append(L, e)[i] = L[i]
    OBVIOUS
<1>4. Append(L, e)[Len(L) + 1] = e
    OBVIOUS
<1>5. ASSUME NEW x \in ToSet(Append(L, e))
      PROVE  x \in ToSet(L) \cup {e}
    BY <1>2, <1>3, <1>4 DEF ToSet
<1>6. ASSUME NEW x \in ToSet(L) \cup {e}
      PROVE  x \in ToSet(Append(L, e))
    BY <1>2, <1>3, <1>4 DEF ToSet
<1> QED  BY <1>1, <1>5, <1>6

\* A list that grows leaves a walk over it as it is.
LEMMA GrownWalk ==
    ASSUME NEW w \in WalkRecords, NEW L \in Seq(Ids), NEW M \in Seq(Ids), Begins(L, M), WalkOK(w, L)
    PROVE  WalkOK(w, M)
<1>1. w.got \in Seq(Ids) /\ w.got \o w.chunk \in Seq(Ids)
    BY DEF WalkRecords
<1>2. ToSet(L) \subseteq ToSet(M)
    BY BeginsElements
<1> QED  BY <1>1, <1>2, BeginsTransitive DEF WalkOK

\* A page is what comes next in its list.
LEMMA ChunkNext ==
    ASSUME NEW L \in Seq(Ids), NEW got \in Seq(Ids), Begins(got, L)
    PROVE  /\ Chunk(L, Len(got)) \in Seq(Ids)
           /\ Begins(got \o Chunk(L, Len(got)), L)
<1> DEFINE k == Len(got)
           m == Min({k + PageSize, Len(L)})
<1>1. k \in Nat /\ Len(L) \in Nat /\ PageSize \in Nat /\ k <= Len(L)
    BY MemAssumption DEF Begins
<1>2. m \in Nat /\ k <= m /\ m <= Len(L)
    BY <1>1 DEF Min
<1>3. Chunk(L, k) = SubSeq(L, k + 1, m)
    BY DEF Chunk
<1> HIDE DEF m, k
<1>4. /\ SubSeq(L, k + 1, m) \in Seq(Ids) /\ Len(SubSeq(L, k + 1, m)) = m - k
      /\ \A i \in 1..(m - k) : SubSeq(L, k + 1, m)[i] = L[k + i]
    BY <1>1, <1>2
<1> DEFINE C == SubSeq(L, k + 1, m)
<1>5. C \in Seq(Ids) /\ Len(C) = m - k /\ \A i \in 1..(m - k) : C[i] = L[k + i]
    BY <1>4
<1>6. Chunk(L, Len(got)) = C
    BY <1>3 DEF k
<1> HIDE DEF C
<1>7. /\ Len(got \o C) = m
      /\ \A i \in 1..k : (got \o C)[i] = got[i]
      /\ \A i \in (k + 1)..m : (got \o C)[i] = C[i - k]
    BY <1>1, <1>2, <1>5 DEF k
<1>8. \A i \in 1..k : got[i] = L[i]
    BY DEF Begins, k
<1>9. ASSUME NEW i \in 1..m  PROVE  (got \o C)[i] = L[i]
    <2>1. CASE i \in 1..k
        BY <2>1, <1>7, <1>8
    <2>2. CASE i \in (k + 1)..m
        <3> DEFINE j == i - k
        <3>1. j \in 1..(m - k) /\ k + j = i
            BY <2>2, <1>1, <1>2
        <3>2. C[j] = L[k + j]
            BY <3>1, <1>5
        <3> QED  BY <2>2, <3>1, <3>2, <1>7
    <2>3. i \in 1..k \/ i \in (k + 1)..m
        BY <1>1, <1>2
    <2> QED  BY <2>1, <2>2, <2>3
<1>10. Begins(got \o C, L)
    BY <1>2, <1>7, <1>9 DEF Begins
<1> QED  BY <1>5, <1>6, <1>10

\* The walk goes on behind a page, or has read all there is.
LEMMA TurnOK ==
    ASSUME NEW w \in WalkRecords, NEW chunk \in Seq(Ids), NEW L \in Seq(Ids),
           w.offset = Len(w.got), Begins(w.got \o chunk, L), w.known \subseteq ToSet(L)
    PROVE  LET n == Turn(w, chunk, Len(L)) IN
           /\ n \in WalkRecords /\ WalkOK(n, L)
           /\ n.phase \in {"walking", "done"} /\ n.query = w.query /\ n.known = w.known
           /\ n.phase = "done" => ToSet(n.got) = ToSet(L)
<1> DEFINE nxt == w.offset + Len(chunk)
           n == Turn(w, chunk, Len(L))
<1>1. w.got \in Seq(Ids) /\ w.got \o chunk \in Seq(Ids) /\ nxt \in Nat /\ Len(w.got \o chunk) = nxt
    BY DEF WalkRecords
<1>2. n = [w EXCEPT !.phase  = IF nxt < Len(L) THEN "walking" ELSE "done",
                    !.offset = IF nxt < Len(L) THEN nxt ELSE @,
                    !.got    = @ \o chunk,
                    !.chunk  = <<>>]
    BY DEF Turn, NextOffset
<1> HIDE DEF nxt
<1>3. n \in WalkRecords
    <2>1. <<>> \in Seq(Ids)
        OBVIOUS
    <2> DEFINE e == <<>>
               g == w.got \o chunk
    <2>2. e \in Seq(Ids) /\ g \in Seq(Ids)
        BY <1>1, <2>1
    <2>3. n = [w EXCEPT !.phase  = IF nxt < Len(L) THEN "walking" ELSE "done",
                    !.offset = IF nxt < Len(L) THEN nxt ELSE @,
                    !.got    = g, !.chunk  = e]
        BY <1>2
    <2> HIDE DEF e, g, n
    <2> QED  BY <1>1, <2>2, <2>3 DEF WalkRecords
<1>4. /\ n.phase = (IF nxt < Len(L) THEN "walking" ELSE "done") /\ n.query = w.query /\ n.known = w.known
      /\ n.got = w.got \o chunk /\ (nxt < Len(L) => n.offset = nxt)
    BY <1>2 DEF WalkRecords
<1> HIDE DEF n
<1>5. n.phase = "done" => Len(n.got) = Len(L) /\ \A i \in 1..Len(L) : n.got[i] = L[i]
    BY <1>1, <1>4 DEF Begins
<1>6. n.phase = "done" => ToSet(n.got) = ToSet(L)
    <2>1. DOMAIN L = 1..Len(L) /\ DOMAIN n.got = 1..Len(n.got)
        BY <1>1, <1>4
    <2> QED  BY <1>5, <2>1 DEF ToSet
<1>7. WalkOK(n, L)
    BY <1>1, <1>4, <1>6 DEF WalkOK
<1> QED  BY <1>3, <1>4, <1>6, <1>7 DEF n

\* A client starts on a list.
LEMMA StartOK ==
    ASSUME NEW q \in Queries, NEW k \in SUBSET Ids, NEW L \in Seq(Ids), k \subseteq ToSet(L)
    PROVE  /\ Walk(q, k) \in WalkRecords /\ WalkOK(Walk(q, k), L)
           /\ Walk(q, k).query = q /\ Walk(q, k).phase = "walking" /\ Walk(q, k).known = k
<1> DEFINE n == Walk(q, k)
<1>1. n \in WalkRecords
    <2>1. <<>> \in Seq(Ids)
        OBVIOUS
    <2> DEFINE e == <<>>
    <2>2. e \in Seq(Ids) /\ NoWalk = [phase |-> "idle", query |-> None, offset |-> 0, chunk |-> e,
                                     got |-> e, known |-> {}]
        BY <2>1 DEF NoWalk
    <2> HIDE DEF e
    <2> QED  BY <2>2 DEF Walk, WalkRecords
<1>2. n.phase = "walking" /\ n.query = q /\ n.offset = 0 /\ n.got = <<>> /\ n.known = k
    BY DEF Walk, NoWalk
<1> HIDE DEF n
<1>3. WalkOK(n, L)
    BY <1>2 DEF WalkOK, Begins
<1> QED  BY <1>1, <1>2, <1>3 DEF n

\* The early returns answer no success.
LEMMA RefusalFails ==
    ASSUME NEW b, ~Admissible(b)
    PROVE  Refusal(b) \in {"too_large", "unsupported_assertion", "invalid_assertion", "policy"}
<1>1. \E i \in Failing(b) : \A j \in Failing(b) : i <= j
    <2>1. PICK i \in Failing(b) : TRUE
        BY DEF Admissible
    <2> QED  BY <2>1 DEF Failing
<1>2. PICK i \in 1..6 : Refusal(b) = Refusals(b)[i].then
    BY <1>1 DEF Refusal, Failing
<1> QED  BY <1>2 DEF Refusals

\* An assertion is filed in lists there are, and in all its homes.
LEMMA Filed ==
    ASSUME NEW b \in Bodies
    PROVE  /\ ListedIn(b) \in Seq(Lists) /\ ToSet(ListedIn(b)) = Home(b)
           /\ ListedIn(b) # <<>> /\ Home(b) \subseteq Lists
<1> DEFINE ch == InChannel(IF b.type = "channel" THEN b.id ELSE b.channel)
           ob == OfObject(b.object)
<1>1. ch \in Lists /\ ob \in Lists /\ Advertised \in Lists
    <2>1. b.id \in Ids
        BY DEF Ids
    <2>2. {InChannel(b.channel), OfObject(b.object)} \in {{InChannel(c.channel), OfObject(c.object)} : c \in Bodies}
        OBVIOUS
    <2> QED  BY <2>1, <2>2 DEF Lists
<1>2. Home(b) \subseteq Lists
    BY <1>1 DEF Home
<1> HIDE DEF ch, ob
<1>3. CASE b.type = "channel" /\ b.object = None
    <2>1. Home(b) = {Advertised, ch}
        BY <1>3 DEF Home, ch
    <2>2. ListedIn(b) = <<Advertised, ch>> \o <<>>
        BY <1>3 DEF ListedIn, ch
    <2>3. /\ ListedIn(b) \in Seq(Lists) /\ Len(ListedIn(b)) = 2
          /\ ListedIn(b)[1] = Advertised /\ ListedIn(b)[2] = ch
        BY <1>1, <2>2
    <2> QED  BY <1>2, <2>1, <2>3 DEF ToSet
<1>4. CASE b.type = "channel" /\ b.object # None
    <2>1. Home(b) = {Advertised, ch, ob}
        BY <1>4 DEF Home, ch, ob
    <2>2. ListedIn(b) = <<Advertised, ch>> \o <<ob>>
        BY <1>4 DEF ListedIn, ch, ob
    <2>3. /\ ListedIn(b) \in Seq(Lists) /\ Len(ListedIn(b)) = 3
          /\ ListedIn(b)[1] = Advertised /\ ListedIn(b)[2] = ch /\ ListedIn(b)[3] = ob
        BY <1>1, <2>2
    <2>4. DOMAIN ListedIn(b) = 1..3
        BY <2>3
    <2>5. \A x : x \in ToSet(ListedIn(b)) <=> x \in {Advertised, ch, ob}
        BY <2>3, <2>4 DEF ToSet
    <2> QED  BY <1>2, <2>1, <2>3, <2>5
<1>5. CASE b.type # "channel" /\ b.object = None
    <2>1. Home(b) = {ch}
        BY <1>5 DEF Home, ch
    <2>2. ListedIn(b) = <<ch>> \o <<>>
        BY <1>5 DEF ListedIn, ch
    <2>3. ListedIn(b) \in Seq(Lists) /\ Len(ListedIn(b)) = 1 /\ ListedIn(b)[1] = ch
        BY <1>1, <2>2
    <2> QED  BY <1>2, <2>1, <2>3 DEF ToSet
<1>6. CASE b.type # "channel" /\ b.object # None
    <2>1. Home(b) = {ch, ob}
        BY <1>6 DEF Home, ch, ob
    <2>2. ListedIn(b) = <<ch>> \o <<ob>>
        BY <1>6 DEF ListedIn, ch, ob
    <2>3. /\ ListedIn(b) \in Seq(Lists) /\ Len(ListedIn(b)) = 2
          /\ ListedIn(b)[1] = ch /\ ListedIn(b)[2] = ob
        BY <1>1, <2>2
    <2>4. DOMAIN ListedIn(b) = 1..2
        BY <2>3
    <2>5. \A x : x \in ToSet(ListedIn(b)) <=> x \in {ch, ob}
        BY <2>3, <2>4 DEF ToSet
    <2> QED  BY <1>2, <2>1, <2>3, <2>5
<1> QED  BY <1>3, <1>4, <1>5, <1>6

\* A list that a query names is a list of the store.
LEMMA QueryLists ==
    ASSUME NEW q \in Queries, q.kind # "assertion"
    PROVE  q \in Lists
    BY DEF Lists
=============================================================================
