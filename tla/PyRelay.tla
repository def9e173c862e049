------------------------------- MODULE PyRelay -------------------------------
(***************************************************************************)
(* The Python in-memory relay, implementations/python/relay.py: a          *)
(* ThreadingHTTPServer whose handler threads share one Store and take no   *)
(* lock.  Under CPython a single dict or list operation is atomic and the  *)
(* interpreter may switch threads between any two of them, so each one is  *)
(* an action: the existed test of do_POST, the test at the head of put,    *)
(* the assignment of the envelope and every append.                        *)
(***************************************************************************)
EXTENDS MemRelay

CONSTANTS Threads, Readers

VARIABLES
    envelopes,  \* STORE.envelopes: id -> body, or None
    lists,      \* STORE.order, advertised, channel_of, object_of
    pc, req,    \* per thread: where it is in do_POST, and the body
    existed,    \* per thread: the local variable of do_POST
    todo,       \* per thread: appends of put not yet done
    outcome,    \* per thread: the answer on its way
    reader,     \* per reader: the walk it is on
    acked,      \* history: ids some client was answered 200 for
    firsts      \* history: number of duplicate=false answers per id

thread == <<pc, req, existed, todo, outcome>>
vars   == <<envelopes, lists, thread, reader, acked, firsts>>

Held == {i \in Ids : envelopes[i] # None}

Init ==
    /\ envelopes = [i \in Ids |-> None]
    /\ lists = [l \in Lists |-> <<>>]
    /\ pc = [t \in Threads |-> "idle"]
    /\ req = [t \in Threads |-> None]
    /\ existed = [t \in Threads |-> FALSE]
    /\ todo = [t \in Threads |-> <<>>]
    /\ outcome = [t \in Threads |-> "none"]
    /\ reader = [r \in Readers |-> NoWalk]
    /\ acked = {}
    /\ firsts = [i \in Ids |-> 0]

-----------------------------------------------------------------------------
\* do_POST up to an early return.
Refuse(t, b) ==
    /\ pc[t] = "idle"
    /\ b.transport \in {"not_found", "bad_encoding", "bad_type"}
         \/ (b.transport = "ok" /\ ~Admissible(b))
    /\ pc' = [pc EXCEPT ![t] = "reply"]
    /\ req' = [req EXCEPT ![t] = b]
    /\ outcome' = [outcome EXCEPT ![t] =
                     IF b.transport = "ok" THEN Refusal(b) ELSE b.transport]
    /\ UNCHANGED <<envelopes, lists, existed, todo, reader, acked, firsts>>

\* do_POST on an admissible body, up to and with existed = ... in envelopes.
Submit(t, b) ==
    /\ pc[t] = "idle"
    /\ b.transport = "ok" /\ Admissible(b)
    /\ pc' = [pc EXCEPT ![t] = "put"]
    /\ req' = [req EXCEPT ![t] = b]
    /\ existed' = [existed EXCEPT ![t] = b.id \in Held]
    /\ UNCHANGED <<envelopes, lists, todo, outcome, reader, acked, firsts>>

Answer(t) == IF existed[t] THEN "duplicate" ELSE "fresh"

\* put: "if digest in self.envelopes: return", or on to the assignment.
PutTest(t) ==
    /\ pc[t] = "put"
    /\ IF req[t].id \in Held
       THEN /\ pc' = [pc EXCEPT ![t] = "reply"]
            /\ outcome' = [outcome EXCEPT ![t] = Answer(t)]
       ELSE /\ pc' = [pc EXCEPT ![t] = "set"]
            /\ UNCHANGED outcome
    /\ UNCHANGED <<envelopes, lists, req, existed, todo, reader, acked, firsts>>

\* put: self.envelopes[digest] = env, ahead of every append.
SetEnvelope_Later(t) ==
    /\ pc[t] = "set"
    /\ todo' = [todo EXCEPT ![t] = <<Order>> \o ListedIn(req[t])]
    /\ pc' = [pc EXCEPT ![t] = "append"]
    /\ UNCHANGED <<envelopes, lists, req, existed, outcome, reader, acked, firsts>>

SetEnvelope(t) ==
    /\ pc[t] = "set"
    /\ envelopes' = [envelopes EXCEPT ![req[t].id] = req[t]]
    /\ todo' = [todo EXCEPT ![t] = <<Order>> \o ListedIn(req[t])]
    /\ pc' = [pc EXCEPT ![t] = "append"]
    /\ UNCHANGED <<lists, req, existed, outcome, reader, acked, firsts>>

\* put: the next append; after the last one do_POST sends its answer.
Append1(t) ==
    /\ pc[t] = "append"
    /\ lists' = [lists EXCEPT ![Head(todo[t])] = Append(@, req[t].id)]
    /\ todo' = [todo EXCEPT ![t] = Tail(@)]
    /\ IF todo'[t] = <<>>
       THEN /\ pc' = [pc EXCEPT ![t] = "reply"]
            /\ outcome' = [outcome EXCEPT ![t] = Answer(t)]
       ELSE UNCHANGED <<pc, outcome>>
    /\ UNCHANGED <<envelopes, req, existed, reader, acked, firsts>>

\* The end of the handler: the answer reaches the client (heard) or not.
Finish(t, heard) ==
    /\ pc[t] = "reply"
    /\ pc' = [pc EXCEPT ![t] = "idle"]
    /\ req' = [req EXCEPT ![t] = None]
    /\ existed' = [existed EXCEPT ![t] = FALSE]
    /\ outcome' = [outcome EXCEPT ![t] = "none"]
    /\ acked' = IF heard /\ outcome[t] \in {"fresh", "duplicate"}
                THEN acked \cup {req[t].id} ELSE acked
    /\ firsts' = IF heard /\ outcome[t] = "fresh"
                 THEN [firsts EXCEPT ![req[t].id] = @ + 1] ELSE firsts
    /\ UNCHANGED <<envelopes, lists, todo, reader>>

\* _send, and the connection that breaks while the answer is written.
Reply(t)     == Finish(t, TRUE)
ReplyLost(t) == Finish(t, FALSE)

-----------------------------------------------------------------------------
\* A client starts on a listing, without a cursor.
StartWalk(r, q) ==
    /\ reader[r].phase \in {"idle", "done"}
    /\ reader' = [reader EXCEPT ![r] =
         Walk(q, IF q.kind = "assertion" THEN Held \cap {q.key}
                                         ELSE ToSet(lists[q]))]
    /\ UNCHANGED <<envelopes, lists, thread, acked, firsts>>

\* GET /v1/channels: page works on a copy of the advertised list.
GetAdvertised(r) ==
    /\ reader[r].phase = "walking" /\ reader[r].query = Advertised
    /\ reader' = [reader EXCEPT ![r] =
         Turn(@, Chunk(lists[Advertised], @.offset), Len(lists[Advertised]))]
    /\ UNCHANGED <<envelopes, lists, thread, acked, firsts>>

\* page on a channel's or an object's list: the slice at the cursor ...
Slice(r) ==
    /\ reader[r].phase = "walking" /\ reader[r].query.kind \in {"channel", "object"}
    /\ reader' = [reader EXCEPT ![r].phase = "sliced",
                    ![r].chunk = Chunk(lists[reader[r].query], reader[r].offset)]
    /\ UNCHANGED <<envelopes, lists, thread, acked, firsts>>

\* ... and a second look at the list, which may have grown, for its length.
EndPage(r) ==
    /\ reader[r].phase = "sliced"
    /\ reader' = [reader EXCEPT ![r] = Turn(@, @.chunk, Len(lists[@.query]))]
    /\ UNCHANGED <<envelopes, lists, thread, acked, firsts>>

\* GET of one assertion by id: found, or 404 (got is empty).
GetAssertion(r) ==
    /\ reader[r].phase = "walking" /\ reader[r].query.kind = "assertion"
    /\ reader' = [reader EXCEPT ![r].phase = "done",
                    ![r].got = IF reader[r].query.key \in Held
                               THEN <<reader[r].query.key>> ELSE <<>>]
    /\ UNCHANGED <<envelopes, lists, thread, acked, firsts>>

\* A request with a Content-Length that is not a number ends in an exception
\* and leaves no trace.
ThreadStep(t) ==
    PutTest(t) \/ SetEnvelope(t) \/ Append1(t) \/ Reply(t) \/ ReplyLost(t)

ReaderStep(r) == GetAdvertised(r) \/ Slice(r) \/ EndPage(r) \/ GetAssertion(r)

Next ==
    \/ \E t \in Threads : ThreadStep(t)
    \/ \E t \in Threads, b \in Bodies : Refuse(t, b) \/ Submit(t, b)
    \/ \E r \in Readers, q \in Queries : StartWalk(r, q)
    \/ \E r \in Readers : ReaderStep(r)

Spec == Init /\ [][Next]_vars

-----------------------------------------------------------------------------
\* Every id in a list, and every id a client was answered 200 for, has its
\* envelope.  do_GET looks the ids of a page up without a test, and a missing
\* one is a KeyError and no answer; what was answered "accepted and
\* immediately retrievable by GET" (section 28) can be had at once, even when
\* put found that another thread, still at its appends, had been faster.
PromisedIsHeld == (acked \cup (UNION {ToSet(lists[l]) : l \in Lists})) \subseteq Held

\* A finished walk has read its list from the front without a gap, with all
\* that was in it when the walk began, although page looks at the list twice
\* and other threads append in between.
ListingComplete ==
    \A r \in Readers : reader[r].phase = "done" =>
        /\ reader[r].known \subseteq ToSet(reader[r].got)
        /\ reader[r].query.kind # "assertion" => IsPrefix(reader[r].got, lists[reader[r].query])

\* An assertion whose envelope is in the store is in all the lists it
\* belongs to (its channel's, its object's and, for a channel description,
\* the advertised one), or a thread is still on its way to append it there:
\* a submission that is turned back as a duplicate leaves nothing undone.
HeldIsListed ==
    \A i \in Held :
        LET b    == envelopes[i]
            home == {InChannel(IF b.type = "channel" THEN i ELSE b.channel)}
                      \cup (IF b.object # None THEN {OfObject(b.object)} ELSE {})
                      \cup (IF b.type = "channel" THEN {Advertised} ELSE {})
        IN  \A l \in home :
              \/ i \in ToSet(lists[l])
              \/ \E t \in Threads : req[t] # None /\ req[t].id = i /\ l \in ToSet(todo[t])

\* Submitting what the relay holds changes nothing (section 28: "MUST be
\* idempotent"): no list a client can read names an assertion twice.  put's
\* test and its assignment are two steps, so two threads may pass the test.
Idempotent == \A l \in Lists \ {Order} : IsInjective(lists[l])
=============================================================================
