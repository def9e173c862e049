---------------------------- MODULE DurableRelay ----------------------------
(***************************************************************************)
(* The durable relay: the threaded HTTP server of                          *)
(* implementations/relay/server.py over the SQLite store of                *)
(* implementations/relay/store.py.                                         *)
(*                                                                         *)
(* Every request runs on a thread of its own.  A submission is validated   *)
(* and held against the relay's policy on the thread alone; what other     *)
(* threads can see happens in Store.add: one SQLite transaction, taken     *)
(* under SQLite's single write lock, that inserts the assertion row, the   *)
(* advertised-channel row of a channel description, and commits.  Readers  *)
(* walk a listing page by page with a cursor; each page is one SELECT over *)
(* the committed rows.  The process may be killed at any step and started  *)
(* again, with other settings, on the same database file.                  *)
(*                                                                         *)
(* A definition Op_What beside Op is Op with a plausible mistake in it;    *)
(* nothing uses it, and TLC finds a property violated when it replaces Op. *)
(***************************************************************************)
EXTENDS Integers, FiniteSets

CONSTANTS
    Threads,    \* handler threads, each serving one submission at a time
    Readers,    \* clients that read listings
    Bodies,     \* submissions the clients may make (see BodyFields)
    Queries,    \* what readers ask for: [kind, key]
    Settings,   \* SPP_* settings the process may be started with
    MaxSeq,     \* largest rowid (2^63-1 in SQLite); bounds the model
    MaxH,       \* largest hash value (2^256-1 in the code)
    UnitScale,  \* work per unit (65536 in the code)
    NoRow,      \* no body: an unused rowid, an idle thread's request
    NoThread,   \* nobody holds the write lock
    None        \* an absent field: no channel, no object, nothing blocked

Transports == {"ok", "not_found", "bad_encoding", "bad_type", "bad_length"}
Verdicts   == {"valid", "unsupported", "invalid"}
Kinds      == {"assertion", "channel", "object", "advertised"}

(***************************************************************************)
(* What the handler tells apart in a request.  id is the hash of the       *)
(* unsigned assertion, so the fields it covers are a function of it; env   *)
(* (the signed canonical bytes) is not, because the signature is outside   *)
(* the hash.                                                               *)
(***************************************************************************)
BodyFields == {"transport", "size", "verdict", "id", "env", "type", "actor",
               "channel", "object", "h", "units", "locators",
               "locator_bytes", "parents"}

ASSUME BodyAssumption ==
    /\ NoRow \notin Bodies
    /\ \A b \in Bodies :
        /\ DOMAIN b = BodyFields
        /\ b.transport \in Transports
        /\ b.verdict \in Verdicts
        /\ b.type \in {"channel", "pointer"}
        /\ b.type = "channel" => b.channel = None
        /\ b.size \in Int /\ b.h \in Nat /\ b.units \in Nat \ {0}
        /\ b.locators \in Nat /\ b.locator_bytes \in Nat /\ b.parents \in Nat
    /\ \A b, c \in Bodies : b.id = c.id =>
        /\ b.type = c.type /\ b.actor = c.actor
        /\ b.channel = c.channel /\ b.object = c.object
        /\ b.h = c.h

ASSUME ConstantAssumption ==
    /\ MaxSeq \in Nat /\ MaxH \in Nat /\ UnitScale \in Nat \ {0}
    /\ NoThread \notin Threads
    /\ \A q \in Queries : q.kind \in Kinds

Limits == {"max_record_bytes", "max_locators", "max_locator_bytes",
           "max_parents", "page_size", "pow_multiplier"}

ASSUME SettingAssumption ==
    /\ Settings # {}
    /\ \A c \in Settings :
        /\ DOMAIN c = Limits \cup {"block_actor", "block_channel"}
        /\ \A l \in Limits : c[l] \in Int

VARIABLES
    up,         \* the relay process is running
    cfg,        \* Handler.cfg of the running (or last) process
    rows,       \* table assertions, committed: rowid -> body or NoRow
    lastSeq,    \* sqlite_sequence: the last rowid given out
    advertised, \* table advertised_channels, committed: set of ids
    writer,     \* thread whose connection holds the write lock
    txnRow,     \* assertion row the open transaction has inserted
    txnAdv,     \* advertised_channels rows the open transaction inserted
    pc, req, outcome,  \* per thread: where it is, its request, its answer
    reader,     \* per reader: the walk it is on
    acked,      \* history: ids some client was answered 200 for
    firsts      \* history: number of duplicate=false answers per id

db     == <<rows, lastSeq, advertised>>
txn    == <<writer, txnRow, txnAdv>>
thread == <<pc, req, outcome>>
hist   == <<acked, firsts>>
vars   == <<up, cfg, db, txn, thread, reader, hist>>

Ids == {b.id : b \in Bodies}

-----------------------------------------------------------------------------
(***************************************************************************)
(* Settings and admission                                                  *)
(***************************************************************************)
AtLeast(n, x) == IF x < n THEN n ELSE x
LocalLimit(x, protoMax) == AtLeast(0, IF x < protoMax THEN x ELSE protoMax)

\* build_config: the settings clamped to what the protocol allows.
BuildConfig(s) ==
    [s EXCEPT !.page_size         = AtLeast(1, @),
              !.pow_multiplier    = AtLeast(1, @),
              !.max_locators      = LocalLimit(@, 256),
              !.max_locator_bytes = LocalLimit(@, 8192),
              !.max_parents       = LocalLimit(@, 1024)]

LocalWorkOk(b, multiplier) == b.h <= MaxH \div (b.units * UnitScale * multiplier)

\* do_POST's early returns, in the order the handler meets them.
Refusals(b, c) == <<
    [if |-> b.transport # "ok",                       then |-> b.transport],
    [if |-> b.size < 0 \/ b.size > c.max_record_bytes, then |-> "too_large"],
    [if |-> b.verdict = "unsupported",                then |-> "unsupported_assertion"],
    [if |-> b.verdict = "invalid",                    then |-> "invalid_assertion"],
    [if |-> c.block_actor # None /\ b.actor = c.block_actor, then |-> "policy"],
    [if |-> c.block_channel # None /\ b.channel = c.block_channel, then |-> "policy"],
    [if |-> ~LocalWorkOk(b, c.pow_multiplier),        then |-> "policy"],
    [if |-> b.locators > c.max_locators,              then |-> "policy"],
    [if |-> b.locators > 0 /\ b.locator_bytes > c.max_locator_bytes, then |-> "policy"],
    [if |-> b.parents > c.max_parents,                then |-> "policy"] >>

Failing(b, c)    == {i \in 1..10 : Refusals(b, c)[i].if}
Admissible(b, c) == Failing(b, c) = {}
Refusal(b, c)    ==
    Refusals(b, c)[CHOOSE i \in Failing(b, c) : \A j \in Failing(b, c) : i <= j].then

-----------------------------------------------------------------------------
(***************************************************************************)
(* The indexes and a page of a listing                                     *)
(***************************************************************************)
Rowids     == 1..MaxSeq
Used       == {s \in Rowids : rows[s] # NoRow}
Stored(i)  == \E s \in Used : rows[s].id = i

\* The channel column: a channel description is filed under its own id.
ChannelOf(b) == IF b.type = "channel" THEN b.id ELSE b.channel

Matches(q, b) ==
    \/ q.kind = "assertion"  /\ b.id = q.key
    \/ q.kind = "channel"    /\ ChannelOf(b) = q.key
    \/ q.kind = "object"     /\ b.object # None /\ b.object = q.key

\* Rowids the WHERE clause of query q selects, the advertised listing by
\* its join with advertised_channels.
Selected(q) ==
    {s \in Used : IF q.kind = "advertised" THEN rows[s].id \in advertised
                                           ELSE Matches(q, rows[s])}

\* ORDER BY seq LIMIT n: the n smallest of a finite set of rowids.
FirstN(M, n) == {s \in M : Cardinality({x \in M : x < s}) < n}
Last(P)      == CHOOSE m \in P : \A x \in P : x <= m

\* WHERE seq > ?: the rows behind a cursor.
After_Inclusive(M, c) == {s \in M : s >= c}
After(M, c)           == {s \in M : s > c}

\* _paginate's next: the last of the n rows kept, not the extra one fetched.
NextCursor_OfExtraRow(M, n) == Last(FirstN(M, n + 1))
NextCursor(M, n)            == Last(FirstN(M, n))

-----------------------------------------------------------------------------
NoWalk == [phase |-> "idle", query |-> None, cursor |-> 0, got |-> {},
           start |-> 0, repeated |-> FALSE]

\* The walk of a client that starts on query q now.
NewWalk(q) == [phase |-> "walking", query |-> q, cursor |-> 0, got |-> {},
               start |-> lastSeq, repeated |-> FALSE]

\* A fresh database file, created by the first start of the relay.
Init ==
    /\ up = TRUE
    /\ cfg \in {BuildConfig(s) : s \in Settings}
    /\ rows = [s \in Rowids |-> NoRow]
    /\ lastSeq = 0
    /\ advertised = {}
    /\ writer = NoThread /\ txnRow = NoRow /\ txnAdv = {}
    /\ pc = [t \in Threads |-> "idle"]
    /\ req = [t \in Threads |-> NoRow]
    /\ outcome = [t \in Threads |-> "none"]
    /\ reader = [r \in Readers |-> NoWalk]
    /\ acked = {}
    /\ firsts = [i \in Ids |-> 0]

(***************************************************************************)
(* Submissions                                                             *)
(***************************************************************************)
\* Both actions below begin where do_POST has the whole body: rfile.read has
\* no timeout, so a client that never sends its body leaves its thread where
\* it is, which is idle here and holds nothing another thread waits for.

\* do_POST up to an early return: an error answer, nothing stored.
Refuse(t, b) ==
    /\ up /\ pc[t] = "idle"
    /\ ~Admissible(b, cfg)
    /\ pc' = [pc EXCEPT ![t] = "reply"]
    /\ req' = [req EXCEPT ![t] = b]
    /\ outcome' = [outcome EXCEPT ![t] = Refusal(b, cfg)]
    /\ UNCHANGED <<up, cfg, db, txn, reader, hist>>

\* do_POST up to the call of Store.add, which opens a connection.
Submit(t, b) ==
    /\ up /\ pc[t] = "idle"
    /\ Admissible(b, cfg)
    /\ pc' = [pc EXCEPT ![t] = "begin"]
    /\ req' = [req EXCEPT ![t] = b]
    /\ UNCHANGED <<up, cfg, db, txn, outcome, reader, hist>>

\* AUTOINCREMENT has no rowid left; the insert raises SQLITE_FULL.
Full_Never == FALSE
Full       == lastSeq = MaxSeq

\* INSERT OR IGNORE: a row of the same id makes it insert nothing.
InsertedRow(b) == IF Stored(b.id) THEN NoRow ELSE b

\* The INSERT takes the write lock; rowcount 0 skips the second one.
InsertAssertion(t) ==
    /\ pc[t] = "begin"
    /\ writer = NoThread
    /\ ~Full
    /\ writer' = t
    /\ txnRow' = InsertedRow(req[t])
    /\ pc' = [pc EXCEPT ![t] = IF txnRow' # NoRow /\ req[t].type = "channel"
                               THEN "advertise" ELSE "commit"]
    /\ UNCHANGED <<up, cfg, db, txnAdv, req, outcome, reader, hist>>

\* INSERT OR IGNORE INTO advertised_channels, in the same transaction.
InsertAdvertised(t) ==
    /\ pc[t] = "advertise"
    /\ txnAdv' = {req[t].id}
    /\ pc' = [pc EXCEPT ![t] = "commit"]
    /\ UNCHANGED <<up, cfg, db, writer, txnRow, req, outcome, reader, hist>>

\* The table with row b (or none) under the next rowid.
TableWith_Uncommitted(b) == rows
TableWith(b)             == [rows EXCEPT ![lastSeq + 1] = b]

\* What add returns, as do_POST puts it in the answer.
AddAnswer_IgnoresRowcount(b) == "fresh"
AddAnswer(b)                 == IF b = NoRow THEN "duplicate" ELSE "fresh"

\* The end of "with conn": COMMIT makes the rows and the used-up rowid
\* visible together and releases the lock.
Commit(t) ==
    /\ pc[t] = "commit"
    /\ rows' = TableWith(txnRow)
    /\ lastSeq' = lastSeq + 1
    /\ advertised' = advertised \cup txnAdv
    /\ writer' = NoThread /\ txnRow' = NoRow /\ txnAdv' = {}
    /\ pc' = [pc EXCEPT ![t] = "reply"]
    /\ outcome' = [outcome EXCEPT ![t] = AddAnswer(txnRow)]
    /\ UNCHANGED <<up, cfg, req, reader, hist>>

\* The thread ends with an exception; the client gets no answer.
EndThread(t) ==
    /\ pc' = [pc EXCEPT ![t] = "idle"]
    /\ req' = [req EXCEPT ![t] = NoRow]
    /\ UNCHANGED outcome

\* The lock is not had within busy_timeout, or no rowid is left: sqlite3
\* raises OperationalError.
AddFails(t) ==
    /\ pc[t] = "begin"
    /\ writer # NoThread \/ Full
    /\ EndThread(t)
    /\ UNCHANGED <<up, cfg, db, txn, reader, hist>>

\* A statement or the COMMIT itself fails (disk full, I/O error): "with conn"
\* rolls the transaction back and the exception ends the thread.
TransactionFails_Autocommit(t) ==
    /\ pc[t] \in {"advertise", "commit"}
    /\ rows' = TableWith(txnRow)
    /\ lastSeq' = lastSeq + 1
    /\ advertised' = advertised \cup txnAdv
    /\ writer' = NoThread /\ txnRow' = NoRow /\ txnAdv' = {}
    /\ EndThread(t)
    /\ UNCHANGED <<up, cfg, reader, hist>>

TransactionFails(t) ==
    /\ pc[t] \in {"advertise", "commit"}
    /\ writer' = NoThread /\ txnRow' = NoRow /\ txnAdv' = {}
    /\ EndThread(t)
    /\ UNCHANGED <<up, cfg, db, reader, hist>>

\* _send: the answer reaches the client.
Reply(t) ==
    /\ pc[t] = "reply"
    /\ pc' = [pc EXCEPT ![t] = "idle"]
    /\ req' = [req EXCEPT ![t] = NoRow]
    /\ outcome' = [outcome EXCEPT ![t] = "none"]
    /\ acked' = IF outcome[t] \in {"fresh", "duplicate"} THEN acked \cup {req[t].id} ELSE acked
    /\ firsts' = IF outcome[t] = "fresh" THEN [firsts EXCEPT ![req[t].id] = @ + 1] ELSE firsts
    /\ UNCHANGED <<up, cfg, db, txn, reader>>

\* The connection breaks while the answer is written: nobody hears it.
ReplyLost(t) ==
    /\ pc[t] = "reply"
    /\ pc' = [pc EXCEPT ![t] = "idle"]
    /\ req' = [req EXCEPT ![t] = NoRow]
    /\ outcome' = [outcome EXCEPT ![t] = "none"]
    /\ UNCHANGED <<up, cfg, db, txn, reader, hist>>

(***************************************************************************)
(* Reads                                                                   *)
(***************************************************************************)
\* A client starts on a query, without a cursor.
StartWalk(r, q) ==
    /\ reader[r].phase \in {"idle", "done"}
    /\ reader' = [reader EXCEPT ![r] = NewWalk(q)]
    /\ UNCHANGED <<up, cfg, db, txn, thread, hist>>

\* GET of a listing: one SELECT of page_size+1 rows after the cursor, cut to
\* a page by _paginate; next is the last row kept when there are more.
GetPage(r) ==
    LET w    == reader[r]
        M    == After(Selected(w.query), w.cursor)
        more == Cardinality(M) > cfg.page_size
        page == FirstN(M, cfg.page_size)
    IN  /\ up /\ w.phase = "walking" /\ w.query.kind # "assertion"
        /\ reader' = [reader EXCEPT ![r] =
             [w EXCEPT !.phase = IF more THEN "walking" ELSE "done",
                       !.cursor = IF more THEN NextCursor(M, cfg.page_size) ELSE @,
                       !.got = @ \cup page,
                       !.repeated = @ \/ page \cap w.got # {}]]
        /\ UNCHANGED <<up, cfg, db, txn, thread, hist>>

\* GET of one assertion by id: 200 with the row, or 404 (got = {}).
GetAssertion(r) ==
    /\ up /\ reader[r].phase = "walking" /\ reader[r].query.kind = "assertion"
    /\ reader' = [reader EXCEPT ![r].phase = "done",
                                ![r].got = Selected(reader[r].query)]
    /\ UNCHANGED <<up, cfg, db, txn, thread, hist>>

\* The request fails or times out and the client gives up the walk.
AbortWalk(r) ==
    /\ reader[r].phase = "walking"
    /\ reader' = [reader EXCEPT ![r] = NoWalk]
    /\ UNCHANGED <<up, cfg, db, txn, thread, hist>>

(***************************************************************************)
(* The process                                                             *)
(***************************************************************************)
\* The process is killed: threads die, SQLite rolls an open transaction back.
Crash ==
    /\ up
    /\ up' = FALSE
    /\ writer' = NoThread /\ txnRow' = NoRow /\ txnAdv' = {}
    /\ pc' = [t \in Threads |-> "idle"]
    /\ req' = [t \in Threads |-> NoRow]
    /\ outcome' = [t \in Threads |-> "none"]
    /\ UNCHANGED <<cfg, db, reader, hist>>

\* main: settings are read again; _initialize leaves existing tables alone.
Restart_Recreates ==
    /\ ~up
    /\ up' = TRUE
    /\ cfg' \in {BuildConfig(s) : s \in Settings}
    /\ rows' = [s \in Rowids |-> NoRow] /\ lastSeq' = 0 /\ advertised' = {}
    /\ UNCHANGED <<txn, thread, reader, hist>>

Restart ==
    /\ ~up
    /\ up' = TRUE
    /\ cfg' \in {BuildConfig(s) : s \in Settings}
    /\ UNCHANGED <<db, txn, thread, reader, hist>>

ThreadStep(t) ==
    \/ InsertAssertion(t)
    \/ InsertAdvertised(t)
    \/ Commit(t)
    \/ AddFails(t)
    \/ TransactionFails(t)
    \/ Reply(t)
    \/ ReplyLost(t)

\* What a client that is neither answered wrongly nor cut off goes on to do:
\* read the next page, or give up because the relay is down.
ReaderStep(r) == GetPage(r) \/ GetAssertion(r) \/ (~up /\ AbortWalk(r))

Next ==
    \/ \E t \in Threads : ThreadStep(t)
    \/ \E t \in Threads, b \in Bodies : Refuse(t, b) \/ Submit(t, b)
    \/ \E r \in Readers : GetPage(r) \/ GetAssertion(r) \/ AbortWalk(r)
    \/ \E r \in Readers, q \in Queries : StartWalk(r, q)
    \/ Crash
    \/ Restart

Spec == Init /\ [][Next]_vars

\* A client that walks a listing asks for the next page until it has the
\* last one or the relay is down (the loops of list_channel in the federation
\* worker and of poll in agent B), and a running relay answers.  Nothing is
\* assumed of submissions, whose bodies may never come, or of crashes and
\* restarts.
Fairness == \A r \in Readers : WF_vars(ReaderStep(r))

FairSpec == Spec /\ Fairness

-----------------------------------------------------------------------------
(***************************************************************************)
(* Properties                                                              *)
(***************************************************************************)
Outcomes == {"none", "fresh", "duplicate", "too_large", "unsupported_assertion",
             "invalid_assertion", "policy"} \cup Transports

Walks == [phase : {"idle", "walking", "done"}, query : Queries \cup {None},
          cursor : 0..MaxSeq, got : SUBSET Rowids, start : 0..MaxSeq,
          repeated : BOOLEAN]

\* The values the relay's tables, threads and clients take; in particular
\* a rowid never passes SQLite's largest one.
TypeOK ==
    /\ up \in BOOLEAN
    /\ cfg \in {BuildConfig(s) : s \in Settings}
    /\ rows \in [Rowids -> Bodies \cup {NoRow}]
    /\ lastSeq \in 0..MaxSeq
    /\ advertised \in SUBSET Ids
    /\ writer \in Threads \cup {NoThread}
    /\ txnRow \in Bodies \cup {NoRow}
    /\ txnAdv \in SUBSET Ids
    /\ pc \in [Threads -> {"idle", "begin", "advertise", "commit", "reply"}]
    /\ req \in [Threads -> Bodies \cup {NoRow}]
    /\ \A t \in Threads : pc[t] # "idle" => req[t] \in Bodies
    /\ outcome \in [Threads -> Outcomes]
    /\ reader \in [Readers -> Walks]
    /\ \A r \in Readers : reader[r].phase # "idle" => reader[r].query \in Queries
    /\ acked \in SUBSET Ids
    /\ firsts \in [Ids -> Nat]

\* What a client was answered 200 for is in the committed table and stays
\* there, through lost answers, crashes and restarts: do_POST answers only
\* after the transaction of Store.add has committed.
AckedIsDurable == \A i \in acked : Stored(i)

\* However many threads submit an assertion at once, and however often it
\* is retried after a crash or a lost answer, at most one client is ever
\* told duplicate=false for it (do_POST, section 28's idempotence).
AtMostOneFresh == \A i \in Ids : firsts[i] <= 1

\* No assertion has two rows: INSERT OR IGNORE decides under the write lock.
UniqueIds ==
    \A s1, s2 \in Used : rows[s1].id = rows[s2].id => s1 = s2

\* The relay never holds what verification turned away, under whichever
\* settings it ran at the time.
OnlyValid == \A s \in Used : rows[s].verdict = "valid" /\ rows[s].transport = "ok"

\* The advertised channels are exactly the channel descriptions held: the
\* two inserts of Store.add commit together or not at all.
AdvertisedExactly ==
    advertised = {rows[s].id : s \in {x \in Used : rows[x].type = "channel"}}

\* A finished listing has everything that was stored when the client began
\* it, and nothing that does not belong to it, whatever was inserted,
\* killed and restarted (with another page size) between its pages.
ListingComplete ==
    \A r \in Readers : reader[r].phase = "done" =>
        /\ {s \in Selected(reader[r].query) : s <= reader[r].start} \subseteq reader[r].got
        /\ reader[r].got \subseteq Selected(reader[r].query)

\* No page of a walk repeats an item of an earlier page.
NoItemTwice == \A r \in Readers : ~reader[r].repeated

\* Committed rows are never changed or dropped, and rowids are committed in
\* increasing order: a row never appears behind a cursor already given out.
AppendOnly ==
    [][\A s \in Rowids :
         /\ rows[s] # NoRow => rows'[s] = rows[s]
         /\ rows[s] = NoRow /\ rows'[s] # NoRow => \A x \in Used : x < s]_vars

\* A walk goes on for ever only if rows are inserted for ever: the client's
\* loop follows next until it is null, and that it ever is depends on every
\* page moving the cursor on, whatever is inserted, killed and restarted
\* with another page size between two pages.
WalkEnds ==
    \A r \in Readers : \/ []<>(reader[r].phase # "walking")
                       \/ []<><<lastSeq' # lastSeq>>_vars

\* A page of a walk, the last one apart, moves its cursor on.
PagesMoveOn ==
    [][\A r \in Readers :
         /\ reader[r].phase = "walking" /\ reader'[r].phase = "walking"
         /\ reader'[r] # reader[r]
         => reader'[r].cursor > reader[r].cursor]_vars
-----------------------------------------------------------------------------
(***************************************************************************)
(* The inductive invariant behind the safety properties                    *)
(***************************************************************************)
Fresh(t) == pc[t] = "reply" /\ outcome[t] = "fresh"

\* The write lock and the open transaction: only its holder is between
\* INSERT and COMMIT, and what it is about to commit is not there yet.
TransactionInv ==
    /\ \A t \in Threads : writer = t <=> pc[t] \in {"advertise", "commit"}
    /\ writer = NoThread => txnRow = NoRow /\ txnAdv = {}
    /\ writer # NoThread => lastSeq < MaxSeq
    /\ txnRow # NoRow => ~Stored(txnRow.id)
    /\ \A t \in Threads :
        /\ pc[t] \in {"begin", "advertise", "commit"} =>
             req[t].verdict = "valid" /\ req[t].transport = "ok"
        /\ pc[t] = "advertise" =>
             txnRow = req[t] /\ req[t].type = "channel" /\ txnAdv = {}
        /\ pc[t] = "commit" =>
             \/ txnRow = NoRow /\ txnAdv = {} /\ Stored(req[t].id)
             \/ txnRow = req[t] /\ txnAdv = IF req[t].type = "channel" THEN {req[t].id} ELSE {}

\* No row is ahead of the rowid counter.
SeqInv == \A s \in Used : s <= lastSeq

\* Answers on their way, and answers given, are about stored assertions, and
\* an assertion is answered as new, or about to be, at most once.
AnswerInv ==
    /\ \A t \in Threads : pc[t] = "reply" /\ outcome[t] \in {"fresh", "duplicate"} =>
         Stored(req[t].id)
    /\ \A t \in Threads : Fresh(t) => firsts[req[t].id] = 0
    /\ \A t, u \in Threads : Fresh(t) /\ Fresh(u) /\ req[t].id = req[u].id => t = u
    /\ \A i \in Ids : firsts[i] # 0 => Stored(i)

\* A walk under way has read exactly what is selected up to its cursor.
WalkOK(w) ==
    /\ ~w.repeated
    /\ w.start <= lastSeq /\ w.cursor <= lastSeq
    /\ w.phase = "walking" => w.got = {s \in Selected(w.query) : s <= w.cursor}
    /\ w.phase = "done" =>
         /\ {s \in Selected(w.query) : s <= w.start} \subseteq w.got
         /\ w.got \subseteq Selected(w.query)

WalkInv == \A r \in Readers : WalkOK(reader[r])

StoreInv == TransactionInv /\ SeqInv /\ UniqueIds /\ OnlyValid /\ AdvertisedExactly

\* Inductive: it holds initially and every step of Next preserves it.
IInv == TypeOK /\ StoreInv /\ AnswerInv /\ AckedIsDurable /\ AtMostOneFresh /\ WalkInv
=============================================================================
