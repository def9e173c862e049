------------------------------- MODULE TsRelay -------------------------------
(***************************************************************************)
(* The TypeScript in-memory relay, implementations/typescript/src/relay.ts. *)
(* Node runs one callback at a time, so the tables change only in steps    *)
(* that nothing interrupts; what interleaves is the waiting: a submission  *)
(* is suspended in readBody while its body comes in, and everything it     *)
(* decides about the tables it decides after that, in one step.            *)
(***************************************************************************)
EXTENDS MemRelay

CONSTANTS Conns, Readers    \* open connections with a submission; clients

VARIABLES
    envelopes,  \* Map id -> body, or None
    lists,      \* advertised, channelOf, objectOf
    pc, req,    \* per connection: where its handler is, and the body
    outcome,    \* per connection: the answer on its way
    reader,     \* per reader: the walk it is on
    acked,      \* history: ids some client was answered 200 for
    firsts      \* history: number of duplicate=false answers per id

conn == <<pc, req, outcome>>
vars == <<envelopes, lists, conn, reader, acked, firsts>>

Held == {i \in Ids : envelopes[i] # None}

Init ==
    /\ envelopes = [i \in Ids |-> None]
    /\ lists = [l \in Lists |-> <<>>]
    /\ pc = [k \in Conns |-> "idle"]
    /\ req = [k \in Conns |-> None]
    /\ outcome = [k \in Conns |-> "none"]
    /\ reader = [r \in Readers |-> NoWalk]
    /\ acked = {}
    /\ firsts = [i \in Ids |-> 0]

-----------------------------------------------------------------------------
\* The early returns on the headers; declared is Content-Length, 0 when the
\* body is sent in chunks or the header is not a number.
HeaderRefusal(b, declared) ==
    IF b.transport \in {"not_found", "bad_encoding", "bad_type"} THEN b.transport
    ELSE IF declared > MaxRecord THEN "too_large"
    ELSE "none"

\* The handler up to the end, or up to "await readBody".
Receive(k, b, declared) ==
    LET refusal == HeaderRefusal(b, declared) IN
    /\ pc[k] = "idle"
    /\ pc' = [pc EXCEPT ![k] = IF refusal = "none" THEN "reading" ELSE "reply"]
    /\ req' = [req EXCEPT ![k] = b]
    /\ outcome' = [outcome EXCEPT ![k] = refusal]
    /\ UNCHANGED <<envelopes, lists, reader, acked, firsts>>

\* readBody gives up: the body outgrows max_record_bytes and the request is
\* destroyed, or the connection breaks.  The error answer reaches nobody.
BodyFails(k) ==
    /\ pc[k] = "reading"
    /\ pc' = [pc EXCEPT ![k] = "idle"]
    /\ req' = [req EXCEPT ![k] = None]
    /\ UNCHANGED <<envelopes, lists, outcome, reader, acked, firsts>>

\* store: nothing for an assertion that is there, else the envelope and one
\* push per list.
Push(b) ==
    [l \in Lists |-> IF l \in ToSet(ListedIn(b)) THEN Append(lists[l], b.id) ELSE lists[l]]

Store_NoTest(b) ==
    /\ envelopes' = [envelopes EXCEPT ![b.id] = b]
    /\ lists' = Push(b)

Store(b) ==
    IF b.id \in Held
    THEN UNCHANGED <<envelopes, lists>>
    ELSE /\ envelopes' = [envelopes EXCEPT ![b.id] = b]
         /\ lists' = Push(b)

Answer_AlwaysNew(b) == "fresh"
Answer(b) == IF b.id \in Held THEN "duplicate" ELSE "fresh"

\* The body is complete and readBody resolves: validate, policy, existed,
\* store and send, without another await.
BodyEnds(k) ==
    LET b == req[k] IN
    /\ pc[k] = "reading"
    /\ b.size <= MaxRecord
    /\ pc' = [pc EXCEPT ![k] = "reply"]
    /\ IF Admissible(b)
       THEN /\ Store(b)
            /\ outcome' = [outcome EXCEPT ![k] = Answer(b)]
       ELSE /\ UNCHANGED <<envelopes, lists>>
            /\ outcome' = [outcome EXCEPT ![k] = Refusal(b)]
    /\ UNCHANGED <<req, reader, acked, firsts>>

\* The end of the connection: the client hears the answer, or not.
Finish(k, heard) ==
    /\ pc[k] = "reply"
    /\ pc' = [pc EXCEPT ![k] = "idle"]
    /\ req' = [req EXCEPT ![k] = None]
    /\ outcome' = [outcome EXCEPT ![k] = "none"]
    /\ acked' = IF heard /\ outcome[k] \in {"fresh", "duplicate"}
                THEN acked \cup {req[k].id} ELSE acked
    /\ firsts' = IF heard /\ outcome[k] = "fresh"
                 THEN [firsts EXCEPT ![req[k].id] = @ + 1] ELSE firsts
    /\ UNCHANGED <<envelopes, lists, reader>>

-----------------------------------------------------------------------------
\* What a query reads, in one callback.
Items(q) ==
    IF q.kind = "assertion" THEN (IF q.key \in Held THEN <<q.key>> ELSE <<>>) ELSE lists[q]

\* A client starts on a query, without a cursor.
StartWalk(r, q) ==
    /\ reader[r].phase \in {"idle", "done"}
    /\ reader' = [reader EXCEPT ![r] = Walk(q, ToSet(Items(q)))]
    /\ UNCHANGED <<envelopes, lists, conn, acked, firsts>>

\* slicePage: a page of a list and whether the list goes on behind it.
GetPage(r) ==
    LET w == reader[r] IN
    /\ w.phase = "walking" /\ w.query.kind # "assertion"
    /\ reader' = [reader EXCEPT ![r] =
         Turn(w, Chunk(Items(w.query), w.offset), Len(Items(w.query)))]
    /\ UNCHANGED <<envelopes, lists, conn, acked, firsts>>

\* GET of one assertion by id: found, or 404.
GetAssertion(r) ==
    /\ reader[r].phase = "walking" /\ reader[r].query.kind = "assertion"
    /\ reader' = [reader EXCEPT ![r].phase = "done", ![r].got = Items(reader[r].query)]
    /\ UNCHANGED <<envelopes, lists, conn, acked, firsts>>

Next ==
    \/ \E k \in Conns, b \in Bodies : \E declared \in {0, b.size} : Receive(k, b, declared)
    \/ \E k \in Conns : BodyEnds(k) \/ BodyFails(k)
    \/ \E k \in Conns, heard \in BOOLEAN : Finish(k, heard)
    \/ \E r \in Readers, q \in Queries : StartWalk(r, q)
    \/ \E r \in Readers : GetPage(r) \/ GetAssertion(r)

Spec == Init /\ [][Next]_vars

-----------------------------------------------------------------------------
\* The abstract state of a reader's walk.
ListingOf(r) ==
    LET w == reader[r] IN
    [phase  |-> CASE w.phase = "idle"    -> "idle"
                  [] w.phase = "walking" -> "open"
                  [] w.phase = "done"    -> "closed",
     query  |-> w.query,
     base   |-> {envelopes[i] : i \in w.known},
     result |-> IF w.phase = "done" THEN {envelopes[i] : i \in ToSet(w.got)} ELSE {}]

Abstract == INSTANCE RelaySpec WITH
    held    <- {envelopes[i] : i \in Held},
    listing <- [r \in Readers |-> ListingOf(r)]

\* No list names an assertion twice, however many connections were waiting
\* with the same assertion when the first of them was stored.
IndexedOnce == \A l \in Lists : IsInjective(lists[l])

\* Every behaviour of the event loop is one of the relay that handles a
\* submission and a listing at once: what is answered is held, duplicate is
\* false once, and a listing misses nothing and invents nothing.
ImplementsRelaySpec == Abstract!Spec
=============================================================================
