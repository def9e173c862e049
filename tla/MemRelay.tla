------------------------------ MODULE MemRelay ------------------------------
(***************************************************************************)
(* What the two in-memory relays share: implementations/python/relay.py    *)
(* (module PyRelay) and implementations/typescript/src/relay.ts (module    *)
(* TsRelay) keep the same tables, file an assertion under the same lists   *)
(* and cut a list into pages by offset.  They differ in what runs between  *)
(* two accesses to the tables, which is what the two modules are about.    *)
(*                                                                         *)
(* A definition Op_What beside Op is Op with a plausible mistake in it, as *)
(* in DurableRelay.                                                        *)
(***************************************************************************)
EXTENDS Integers, Sequences, FiniteSets, SequencesExt

CONSTANTS
    Bodies,        \* submissions the clients may make
    Queries,       \* what readers ask for: [kind, key]
    PageSize,      \* SPP_PAGE_SIZE, at least 1
    MaxRecord,     \* SPP_MAX_RECORD_BYTES
    Multiplier,    \* SPP_POW_MULTIPLIER, at least 1
    BlockActor, BlockChannel,   \* None when the setting is empty
    MaxH, UnitScale,            \* 2^256-1 and 65536 in the code
    None           \* an absent field, an id the relay does not hold

ASSUME MemAssumption ==
    /\ PageSize \in Nat \ {0} /\ Multiplier \in Nat \ {0}
    /\ MaxRecord \in Int /\ MaxH \in Nat /\ UnitScale \in Nat \ {0}
    /\ None \notin Bodies
    /\ \A b, c \in Bodies : b.id = c.id =>
         /\ b.type = c.type /\ b.actor = c.actor
         /\ b.channel = c.channel /\ b.object = c.object

Ids == {b.id : b \in Bodies}

\* The lists of the store, named as a query names them; order is written by
\* the Python relay and read by nobody.
Order         == [kind |-> "order", key |-> None]
Advertised    == [kind |-> "advertised", key |-> None]
InChannel(ch) == [kind |-> "channel", key |-> ch]
OfObject(ob)  == [kind |-> "object", key |-> ob]

\* The four GET routes of both relays that read the tables.
ASSUME QueryAssumption ==
    \A q \in Queries : q \in {Advertised, InChannel(q.key), OfObject(q.key),
                             [kind |-> "assertion", key |-> q.key]}

Lists == {Order, Advertised} \cup {InChannel(i) : i \in Ids}
           \cup (UNION {{InChannel(b.channel), OfObject(b.object)} : b \in Bodies})
           \cup {q \in Queries : q.kind # "assertion"}

\* The lists an accepted assertion is appended to, in the order of the code.
ListedIn_NotItsOwn(b) ==
    (IF b.type = "channel" THEN <<Advertised>> ELSE <<InChannel(b.channel)>>)
    \o (IF b.object = None THEN <<>> ELSE <<OfObject(b.object)>>)
ListedIn(b) ==
    (IF b.type = "channel" THEN <<Advertised, InChannel(b.id)>> ELSE <<InChannel(b.channel)>>)
    \o (IF b.object = None THEN <<>> ELSE <<OfObject(b.object)>>)

LocalWorkOk(b) == b.h <= MaxH \div (b.units * UnitScale * Multiplier)

\* The early returns behind the headers, in the order the handlers meet them.
Refusals(b) == <<
    [if |-> b.size > MaxRecord,             then |-> "too_large"],
    [if |-> b.verdict = "unsupported",      then |-> "unsupported_assertion"],
    [if |-> b.verdict = "invalid",          then |-> "invalid_assertion"],
    [if |-> BlockActor # None /\ b.actor = BlockActor,       then |-> "policy"],
    [if |-> BlockChannel # None /\ b.channel = BlockChannel, then |-> "policy"],
    [if |-> ~LocalWorkOk(b),                then |-> "policy"] >>

Failing(b)    == {i \in 1..6 : Refusals(b)[i].if}
Admissible(b) == Failing(b) = {}
Refusal(b)    == Refusals(b)[CHOOSE i \in Failing(b) : \A j \in Failing(b) : i <= j].then

\* A page of a list: what is at offset start, and the offset after it.
Chunk(items, start) == SubSeq(items, start + 1, Min({start + PageSize, Len(items)}))
NextOffset_FullPage(start, chunk) == start + PageSize
NextOffset(start, chunk)          == start + Len(chunk)

\* A reader's walk over the pages of a query.  known is history: what the
\* list held when the walk began.
NoWalk     == [phase |-> "idle", query |-> None, offset |-> 0, chunk |-> <<>>,
               got |-> <<>>, known |-> {}]
Walk(q, k) == [NoWalk EXCEPT !.phase = "walking", !.query = q, !.known = k]

\* The walk after a page: it goes on when the list, now of length len, does.
Turn(w, chunk, len) ==
    LET nxt == NextOffset(w.offset, chunk) IN
    [w EXCEPT !.phase  = IF nxt < len THEN "walking" ELSE "done",
              !.offset = IF nxt < len THEN nxt ELSE @,
              !.got    = @ \o chunk,
              !.chunk  = <<>>]
=============================================================================
