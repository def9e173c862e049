----------------------- MODULE DurableRelayRefinement -----------------------
(***************************************************************************)
(* The durable relay implements RelaySpec: the committed table is the set  *)
(* held, Commit of a new row is Accept, Reply is Acknowledge, the last     *)
(* page of a walk is EndListing, and every other step - the inserts inside *)
(* the transaction, inner pages, crash and restart - is invisible.         *)
(***************************************************************************)
EXTENDS DurableRelay

\* The abstract state of a reader's walk.  What it was entitled to when it
\* began is recovered from the rowid counter at that moment.
ListingOf(r) ==
    LET w == reader[r] IN
    [phase  |-> CASE w.phase = "idle"    -> "idle"
                  [] w.phase = "walking" -> "open"
                  [] w.phase = "done"    -> "closed",
     query  |-> w.query,
     base   |-> IF w.phase = "idle" THEN {}
                ELSE {rows[s] : s \in {x \in Selected(w.query) : x <= w.start}},
     result |-> IF w.phase = "done" THEN {rows[s] : s \in w.got} ELSE {}]

Abstract == INSTANCE RelaySpec WITH
    held    <- {rows[s] : s \in Used},
    listing <- [r \in Readers |-> ListingOf(r)]

\* Every behaviour of the threaded, crashing, paginating relay is a
\* behaviour of the atomic one.
ImplementsRelaySpec == Abstract!Spec
=============================================================================
