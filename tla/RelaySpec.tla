------------------------------ MODULE RelaySpec ------------------------------
(***************************************************************************)
(* What a relay promises its clients, with no threads, transactions, pages *)
(* or crashes in sight: assertions are accepted one at a time, a client is *)
(* told about an assertion only once it is held, "not a duplicate" is said *)
(* at most once, and a listing contains everything held when it was asked  *)
(* for and nothing that is not held when it is answered.                   *)
(***************************************************************************)
EXTENDS Integers

CONSTANTS Readers, Bodies, Queries, None

VARIABLES
    held,     \* accepted assertions, one body per id
    acked,    \* ids some client was answered 200 for
    firsts,   \* number of duplicate=false answers per id
    listing   \* per reader: [phase, query, base, result]

vars == <<held, acked, firsts, listing>>

Ids == {b.id : b \in Bodies}

\* What a query asks for, in terms of the assertion alone.
Wanted(q, b) ==
    \/ q.kind = "assertion"  /\ b.id = q.key
    \/ q.kind = "channel"    /\ (IF b.type = "channel" THEN b.id ELSE b.channel) = q.key
    \/ q.kind = "object"     /\ b.object # None /\ b.object = q.key
    \/ q.kind = "advertised" /\ b.type = "channel"

Answer(q, S) == {b \in S : Wanted(q, b)}

NoListing == [phase |-> "idle", query |-> None, base |-> {}, result |-> {}]

Init ==
    /\ held = {}
    /\ acked = {}
    /\ firsts = [i \in Ids |-> 0]
    /\ listing = [r \in Readers |-> NoListing]

Accept(b) ==
    /\ \A c \in held : c.id # b.id
    /\ held' = held \cup {b}
    /\ UNCHANGED <<acked, firsts, listing>>

Acknowledge(i, fresh) ==
    /\ \E c \in held : c.id = i
    /\ fresh => firsts[i] = 0
    /\ acked' = acked \cup {i}
    /\ firsts' = IF fresh THEN [firsts EXCEPT ![i] = @ + 1] ELSE firsts
    /\ UNCHANGED <<held, listing>>

BeginListing(r, q) ==
    /\ listing' = [listing EXCEPT ![r] = [phase |-> "open", query |-> q,
                                          base |-> Answer(q, held), result |-> {}]]
    /\ UNCHANGED <<held, acked, firsts>>

EndListing(r) ==
    /\ listing[r].phase = "open"
    /\ \E L \in SUBSET Answer(listing[r].query, held) :
        /\ listing[r].base \subseteq L
        /\ listing' = [listing EXCEPT ![r] = [phase |-> "closed", query |-> @.query,
                                              base |-> @.base, result |-> L]]
    /\ UNCHANGED <<held, acked, firsts>>

DropListing(r) ==
    /\ listing[r].phase = "open"
    /\ listing' = [listing EXCEPT ![r] = NoListing]
    /\ UNCHANGED <<held, acked, firsts>>

Next ==
    \/ \E b \in Bodies : Accept(b)
    \/ \E i \in Ids, fresh \in BOOLEAN : Acknowledge(i, fresh)
    \/ \E r \in Readers : EndListing(r) \/ DropListing(r)
    \/ \E r \in Readers, q \in Queries : BeginListing(r, q)

Spec == Init /\ [][Next]_vars
=============================================================================
