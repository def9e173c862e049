# TLA+ models of the SPP v1 relays, federation worker, clients and validators

This directory holds a verification development for the Swarm Pointer Protocol
(SPP v1) repository: TLA+ modules translated from the code under
`implementations/` and `examples/`, TLC configurations that check them on
small instances, and TLAPS proofs that hold for every instance.

## 1. The system

SPP moves *assertions*: signed JSON objects, each identified by the hash of its
unsigned part and carrying proof of work. A *channel* assertion describes a
channel and is filed under its own id; a *pointer* assertion belongs to a
channel and refers to an object by hash.

| Part | Code | State | Operations |
|---|---|---|---|
| durable relay | `implementations/relay/server.py`, `store.py`, `schema.sql` | SQLite file: table `assertions` (rowid, id, channel, object), table `advertised_channels`, the AUTOINCREMENT counter; per process its settings; per request a thread | POST an assertion; GET one, GET three kinds of listing with a cursor; start on an existing file |
| Python in-memory relay | `implementations/python/relay.py` | dicts and lists of one `Store`, shared by threads without a lock | the same, cursors are offsets |
| TypeScript in-memory relay | `implementations/typescript/src/relay.ts` | Maps and arrays, one event loop | the same |
| federation worker | `implementations/relay/federation/sync.py` | per run: channels, gathered items, processed ids, counters | list a source, check every item, post to a destination, print a summary |
| agents A and B | `examples/agent-a/agent.py`, `examples/agent-b/agent.ts` | `state.json` (seen ids, published ids, objects), `objects/`, `published/`, `key.hex` | init, publish, publish-channel, submit, poll; status and serve only read |
| miners of the agents | `mine` of the same files | nonce width, nonce, target per width | search a nonce, sign |
| verifiers | `protocol.py`, `check.ts`, `verify.go` with `ident.go` | none | validate an assertion |
| JSON parsers | `json_input.py`, `scan.ts`, `value.go` | a stack of open containers, while a text is read | text to value, or a rejection |
| JCS canonicalisation | `jcs.py`, `canon.ts`, `jcs.go` | a stack, while a value is written | value to canonical text |
| Ed25519 | `ed25519_spp.py`, `curve.ts`, `ed25519.go` | none | key from a private key, sign, verify under one profile |
| cursors | `store.py`, `relay.ts` | none | number to token and back |
| command line tools | `spp_verify.py`, `cli.ts`, `main.go`, `suite.go` | none | verdict of a file, batch, diagnostic, conformance suite |

Clients, agents and federation workers talk to relays over HTTP only; relays
never talk to each other. Inside a relay, handlers share the store: through
SQLite's single write lock (durable), through unlocked Python dicts (Python),
or through a single-threaded event loop with one `await` (TypeScript).

What is hard: concurrent submissions of one assertion, the process dying
between a commit and its answer, a transaction failing between its two inserts,
cursors used after inserts and restarts, a body awaited while other requests
run, GETs and POSTs of a worker that fail half way or whose answer is lost,
several workers at once, sources that serve anything; and, where nothing is
concurrent, that several programs written differently have to give every input
the same answer. `PROJECT.json` lists
each hazard at its line with the properties that catch it going wrong.

What makes each part correct:

* **A relay** never loses what it answered 200 for, says "not a duplicate" at
  most once per assertion, holds only what verifies, and lists everything that
  was held when a walk began, without repeating an item. `RelaySpec` says this
  without threads, transactions, pages or crashes.
* **The federation worker**, when a run reports ok and `rejected` 0, has brought
  over everything its source held at the beginning. Over all runs an assertion
  is counted as forwarded at most once, but for answers 200 whose body could not
  be read. A report adds up and claims nothing the destination does not hold.
  From an honest source, a run in the advertised mode carries nothing of a
  channel the source does not describe; a dishonest source can have it carry
  any valid assertion, which the checks of the worker do not exclude.
* **An agent** delivers an item once, leaves out nothing that a poll without
  errors could have seen, calls an object stored or an assertion published only
  when it is, and can always read its own state.
* **The verifiers** are three programs that must give every message the same
  status, the one the specification asks for.
* **A miner** produces valid assertions, and gives up only after all nonces.
  `mine_and_sign` produces one from an object without `id` and `sig` and the key
  of its actor, which it does not check.
* **Parsers and canonicalisers** accept exactly JSON without duplicate names,
  read the same value, and write it the same way; the canonical text is read as
  the value it was made of, which is what lets a relay store it in place of the
  bytes it received.
* **Signature checks** accept exactly the profile of section 8A of the
  specification, in all three programs, and accept what `sign` makes.
* **The verification tool** explains the verdict the validator gives, and it is
  known what each class and expectation of a passing case of a suite shows.

## 2. Modules

| Module | Models | Composes |
|---|---|---|
| `DurableRelay` | `server.py`, `store.py`, `schema.sql` | |
| `RelaySpec` | the promise of a relay (abstract) | |
| `DurableRelayRefinement` | the mapping from `DurableRelay` to `RelaySpec` | `DurableRelay`, `RelaySpec` |
| `MemRelay` | what the two in-memory relays share: admission, lists, pages | |
| `PyRelay` | `implementations/python/relay.py` | `MemRelay` |
| `TsRelay` | `implementations/typescript/src/relay.ts` | `MemRelay`, `RelaySpec` |
| `Federation` | `federation/sync.py` between relays as `RelaySpec` describes them | |
| `Agent` | the commands of both agents on one state directory | |
| `Verifier` | the three validators, and what the protocol asks, as operators | |
| `Assertion` | `mine` of the agents, `mine_and_sign`, and what arrives at the validators | `Verifier` |
| `SppVerify` | `spp_verify.py` around the Python validator | `Assertion` |
| `JsonParsers` | `parse_document` of `json_input.py`; `tokenize` and `buildValue` of `value.go` | |
| `Jcs` | `canonicalize` of `jcs.py`, `Canonicalize` of `jcs.go` | `JsonParsers` |
| `JsonText` | a text read and canonicalised, as ids are computed and envelopes stored | `Jcs` |
| `JsonScalars` | strings and numbers below the parsers and canonicalisers | |
| `Cursor` | `encode_cursor`, `decode_cursor`; `b64url`, `fromCursor` | |
| `Ed25519` | `ed25519_spp.py`, `curve.ts`, `ed25519.go` | |
| `Encodings` | the conversions side by side | `JsonText`, `JsonScalars`, `Cursor`, `Ed25519` |
| `DurableRelayProofs`, `PyRelayProofs`, `TsRelayProofs`, `FederationProofs`, `AgentProofs` | proofs about the module of that name | |
| `MemRelayProofs` | lemmas of both in-memory relays | |
| `AssertionProofs` | proofs about `Assertion`, `SppVerify`, `Ed25519` and `JsonScalars` | |
| `EncodingsProofs` | proofs about `JsonParsers`, `JsonText`, `Jcs` and `Cursor` | |
| `MC*` | instances for TLC | |

A definition `Op_What` beside `Op` is `Op` with a plausible mistake. Nothing
uses it; `PROJECT.json` ("mutants") says which property TLC finds violated when
it stands in for `Op`, so that every property is known to be able to fail.

### DurableRelay

The committed tables are `rows` (a function from rowids), `lastSeq` (the
AUTOINCREMENT counter) and `advertised`; the open transaction is `writer` (the
holder of SQLite's write lock), `txnRow`, `txnAdv`. A handler thread has `pc`,
`req` and `outcome`; a reader has the walk it is on. `acked` and `firsts` are
history variables: what clients were told.

| Action | Code |
|---|---|
| `Submit`, `Refuse` | `Handler.do_POST` up to `store.add`: the ladder of refusals |
| `InsertAssertion`, `InsertAdvertised`, `Commit` | the statements of `Store.add` in their transaction; a duplicate returns before the second insert |
| `AddFails`, `TransactionFails` | lock timeout, full table, I/O error; rollback |
| `Reply`, `ReplyLost` | `Handler._send`, and a client that is gone |
| `StartWalk`, `GetPage`, `GetAssertion`, `AbortWalk` | `Handler.do_GET` with `Store.channel_assertions` and its siblings, `_paginate` |
| `Crash`, `Restart` | the process killed; `main` on the existing file, with other settings |

A rowid used by a duplicate is not given back, one used by a rolled back
transaction is. `do_POST` takes a missing Content-Length for 0, answers
`bad_length` to one that is no number and `too_large` to one that is negative or
beyond `max_record_bytes`, and then waits for that many bytes without a timeout.
`Submit` and `Refuse` begin where it has them: a thread whose client never sends
its body stays idle here, so nothing is claimed about submissions that end.
(`do_POST` of the Python in-memory relay reads to the end of the stream when the
number is negative, and raises, before anything changes, when it is none.)
Cursors are the integers the relay itself gave out; their text is the
subject of `Cursor`.

### PyRelay, TsRelay

`PyRelay` lets threads switch between any two operations on the shared dicts
and lists: the membership test, the assignment to `envelopes`, each append, the
slice of a page and the `len` after it. `SetEnvelope` assigns unconditionally,
as the code does. `TsRelay` has one atomic step per callback of the event loop:
the headers, the end of the awaited body with everything after it, a page.

### Federation

`deployment` is what is set up and stays: the relays that serve what they hold
(`honest`; the others serve anything), the workers with their source and
destination, the assertions there are, what clients publish where, and the
policies. `run` of a worker is the state of one call of `sync`: mode, channels to list,
items gathered, ids processed, the counters of the summary. A listing is a begin
and an end between which the source may take more, as `RelaySpec` allows; it may
fail half way with the items read so far. A POST fails before or after the
destination stored the assertion, or brings the status and no body that can be
read (`Heard`; `http_post_json` returns `None` for the body). `sync` takes a 200
without a body for one without `duplicate` and counts the id as forwarded
although the destination may have held it (`Booked`). `unread` counts these
answers, `origin` remembers who brought an assertion to a relay; both are
history. The worker re-encodes every item before
it checks it: the verdict of an item is the verdict of that form. A channel id
with no colon (`BadChannel`) raises in `NextChannel` and ends the run.

### Agent

A command is a process with its copy of `state.json`; saving is opening, which
empties the file, writing, and for agent A the rename. `Savers` says which of
the two ways of saving a run looks at. `Init` is a directory whose first init
has ended. Relays are asked in any order; considering the items of a relay after
its last page instead of in between commutes with everything other processes do.

### Verifier, Assertion

A message is a record of its members, each a JSON value by what the checks tell
apart (kind, grammar, length, value), with what its bytes determine: what is
wrong with them as JSON (a byte order mark, the encoding or a character, the
syntax), the length of the canonical form, its hash as a number, does the id
match, does the signature verify. `PyInput` and `TsInput` give the reason in the
order of `json_input.py` and of `scan.ts`. `PyVerdict`, `TsVerdict` and `GoVerdict` are
the ladders of the three programs in their own orders. `Status` is what the
specification asks, without an order. In `Assertion` a miner goes through widths
and nonces; any hash may come out; a message may then be altered in any member.
`mine` finds the place of the nonce by the first `"nonce":"` of the template,
which is right because the agents build no `ext`; `DraftsAssumption` says so.
The self check at the end of `mine` never fails, by `MinedIsValid`.
`MineAndSign` is `mine_and_sign` of `protocol.py`, which recomputes the length,
the units and the target for every nonce. It is handed any message that has
arrived, with or without its `id` and `sig`, and any key (`mine.py` signs with a
test key unless told otherwise). It takes only the nonce out of the object, so
`id` and `sig` are hashed, and then replaced by the new ones: whoever takes them
away computes another hash. `given` remembers what it was given, and
`SignedIsValid` says which verdict the envelope has in each case. That a signature verifies is one fact
of a message here, the same for the three validators; whether they agree on that
fact is the subject of `Ed25519`, and the finding of section 7 is about it.

### SppVerify

The checks `run_diagnostic` writes out a second time (`Diagnostic`), the exit
codes, the lines of `--batch`, and the cases of a suite that judge a message.
`SuiteTellsTruth` states what a passing case shows and no more: one of class
`json-input`, `schema` or `length` that expects `unsupported` passes also with a
message the class accepts, because only `invalid` is looked at there; a case of
class
`schema` calls `check_schema` without the early test of the version, so that a
message of version 2 with an unknown member is `invalid` there and `unsupported`
to the validator; a case of class `length` looks at the length only when it
expects `invalid`; a case of class `jcs` never looks at `expect`.

### JsonParsers, Jcs, JsonText

A text is a sequence of tokens, the same for both parsers. `py` is the loop of
`parse_document`: its phase, its stack of frames, the finished value; `obj_open`
and `arr_open` are its looks ahead behind a brace and a bracket. `go` is
`buildValue`: its stack of frames and a heap of nodes, because Go attaches a
container to its parent when it is opened and fills it through a pointer. Go
rejects a repeated name where it stands, Python after the value behind it;
between the two moments the text is `Doomed`. `parseDocument` of `scan.ts` has
the phases, frames and delivery of `json_input.py` and is not repeated.
A text goes on behind the token at which it is rejected, so that what is compared
with the grammar is always a whole text. `JsonText` then runs the two canonicalisers over what was read, one iteration of
their loops at a time, and compares with `IsJson`, a grammar read off the text
without a stack (which parts of the text are values, lists and members after one
application of the rules, two, and so on), and with the order of UTF-16 units.

### JsonScalars

Literals are spelt out one element at a time; `PyString`, `GoString`,
`PyNumber`, `GoNumber` read them, `Escape`, `EsNumber`, `FormatNumber` write
values. `StringLoop` is the loop both string readers have, as a function from
rounds to states; `ElementAssumption` says what a lexer can meet. A binary64 is represented by its shortest decimal, which is what `repr`
and `FormatFloat` compute. Rounding is left out, which matters for literals of
more than 15 digits and, with fewer, for subnormal numbers; overflow and underflow
are kept with smaller exponents, at a power of ten and not at the largest and
smallest binary64.

### Ed25519

All arithmetic of `ed25519_spp.py` is there, with the prime, the curve, the base
point and the order as constants. What the two libraries accept is modelled from
how `curve.ts` and `ed25519.go` use them. A hash is any number. `InProfile` says
what section 8A asks without arithmetic on points: `A` and `R` are encodings of
multiples of the base point and the scalars fit. What the profile takes from
number theory is assumed, by name: `CurveAssumption` (sizes and residues of the
constants), `FieldAssumption` (P is a prime, the candidate of `_xrecover` is a
root up to the sign, -1/D is no square) and `GroupAssumption` (the points are a
commutative group under `PointAdd`, and those of order L are the multiples of the
base point). All hold of edwards25519; TLC evaluates them on the small curve.

## 3. Runs

| Run | Shows |
|---|---|
| `durable_writers` | Two threads submit new, repeated, re-signed, invalid and blocked assertions; crashes, lost answers, failing transactions, restarts with other settings, a full table. Nothing answered is lost, no assertion is stored or announced new twice, a channel is advertised exactly when it is held, committed rows never change; and the threads implement `RelaySpec`. |
| `durable_readers` | A client walks every kind of listing while rows are added behind and ahead of its cursor and the relay restarts with another page size: complete, without repetition; a walk ends unless rows are added for ever; and the relay with its pages implements `RelaySpec`. |
| `py_relay` | Two unlocked threads and a reader: a listed id has its envelope, an answered one is retrievable, a stored one gets into all its lists, pages leave no gap. |
| `py_relay_idempotent` | *violation*, see section 7 |
| `ts_relay` | Two suspended connections and a reader: no list names an assertion twice, and the relay implements `RelaySpec`. |
| `federation` | Two workers in opposite directions with clients on both relays, and one worker in both modes over a source that is honest or serves anything, to a destination that blocks; lost answers and bodies of answers, kills and reruns. Complete when ok with `rejected` 0; counted as forwarded once but for unread answers; reports add up and claim no more than is held; what came of a capability channel came from a source that describes it or is dishonest, or in a run that was given it. |
| `agent_sequential` | One command at a time of agent A against two relays, killed at every step: delivered once, nothing left out, the state always readable. |
| `agent_concurrent` | Two commands at once, of either agent, sharing `state.json` and `state.json.tmp`: whichever copy wins, it calls published only what a relay took. |
| `agent_objects` | *violation*, see section 7 |
| `assertion` | Miners and altered messages: the validators agree on the status, Python and `--diagnostic` on the first fault, TypeScript too but for a byte order mark before bad bytes; what was mined is valid, what `mine_and_sign` makes is exactly when it got a bare object and its actor's key; giving up means all nonces were tried; what a passing case of each class and expectation shows. |
| `encodings` | Every token text up to the bound: the parsers agree, with each other and with the grammar, on the text and on its value; the canonical text is the same, in order, and reads back. String and number literals across the edges of UTF-16 and of ECMAScript's notation; cursors of every length; every key, `R` and `S` of a small curve. |
| `ed25519_python` | *violation*, see section 7 |

Deadlock is checked everywhere but in `agent_concurrent`, where a torn
`state.json` of agent B really ends everything, because no command can load it
again, and in `encodings` and `ed25519_python`, whose behaviours end
with the end of the text or with the signature.

## 4. Bounds

* `MaxSeq` 4 is the largest rowid: more than the ids plus duplicates it takes to
  use rowids up, and small enough that the full table is reached. In
  `durable_readers` it is 3 with one submitting thread, so that a row comes
  between two pages of a walk; two threads are in `durable_writers`. `MaxH` 8 and `UnitScale` 2 give hashes on both sides of the
  target. Page sizes 0 (raised to 1), 1 and 2 give first, middle, last and
  exactly full pages. `ListingComplete`, `NoItemTwice`, the refinement and that
  every page moves on are proved for any number of rows; that walks end is
  checked here only.
* Two threads, connections, workers or processes: the conflicts here are
  between two. The theorems about the relays, the worker and what an agent
  records hold for any number.
* One reader: readers change nothing another reader sees.
* `maxUnread` 1 answer without a body for each relay and id is enough for two
  claims of one id, which is what `ForwardedOnce` allows then.
* Two relays for the worker and for agent A: source and destination, and the
  same item from two places.
* `MaxChanges` 2: a message that differs from a valid one in two members, over
  values on both sides of every limit, of an assertion of each type; pairs are
  what an order of checks can tell apart. `MaxNonce` 11 with two digits has the
  cut of the last width, `EnvelopeSize` 100 puts an object with an `id` or `sig`
  past a kilobyte, `MaxJcs` 2048 a second kilobyte that the second digit
  of a nonce starts. The theorems remove these bounds.
* `MaxTokens` 11 has objects of two members, and a duplicate whose value is
  itself a container; three names whose order by code points is not the one by
  UTF-16 units. A text both parsers have rejected goes on to `MaxRejected` 5
  tokens, enough for a list of two and an object of one. `AgreeOnDocuments` and
  `ReadsExactlyJson` are proved for every length and for every continuation.
* Strings of four elements have both halves of two surrogate pairs; numbers of
  seven characters with `MaxPoint` 23 and `MinPoint` 8 reach 10^21 and 10^-6,
  repr's 10^-4, overflow and underflow. The change of `repr` at 10^16 and the
  bound 2^53 of safe integers take more digits than a literal of the run has;
  `NumbersAlwaysExact` covers them. Cursors of up to six digits
  have every length of padding twice. Strings, numbers and cursors are proved
  for every length.
* The curve has P = 29, D = 27 and 40 = 8 L points, so that there are points of
  small and of mixed order, and with `SignBit` 32 encodings of y + P and negative
  zeros; all 64 strings are tried for `A` and `R`. `Digests` has a multiple of L and
  a number beyond it. Like the real one, it has 8 L > `SignBit`, which keeps a
  clamped key from being a multiple of L. The theorems are about every curve the
  assumptions hold of.
* Symmetry is used for threads, processes and relays that are interchangeable
  in the instance, in runs without temporal properties.

## 5. Fairness

Only `durable_readers` assumes any: weak fairness of each reader's next request.
A client that walks a listing asks until `next` is null or the relay is down, and
a running relay answers. Nothing is assumed of submissions, whose bodies may never
come, or of crashes and restarts. `WalkEnds` is conditional: a walk ends, or rows
are inserted for ever, which no bound of the code excludes but the largest rowid.

## 6. Proofs

All proofs are checked by TLAPS with its SMT, Zenon and LS4 back ends.

**DurableRelayProofs**, from `BodyAssumption`, `ConstantAssumption` and
`SettingAssumption`, for any threads, readers, bodies, queries and settings. The
invariants are not inductive on their own: that a row is unique depends on the
transaction that is about to commit it, that an answered assertion is durable on
the answers under way, that a walk is complete on where its cursor stands. `IInv`
adds `TransactionInv` (the lock, and what an open transaction may contain),
`SeqInv` (no row beyond the counter), `AnswerInv` (an outcome of 200 is already
committed, at most one thread is about to say "not a duplicate") and `WalkInv`
(a walk has exactly what lies at or before its cursor). Each action has a lemma
for each part it disturbs. From `IInv`: `TypeCorrect`, `AcknowledgedIsDurable`,
`FreshOnce`, `IdsAreUnique`, `HoldsOnlyValid`, `StoreConsistent`,
`WalksAreComplete`, `WalksNeverRepeat`, and the action properties
`TableIsAppendOnly` and `EveryPageMovesOn`, the step on which `WalkEnds` rests. `IdsAreUnique` and `HoldsOnlyValid` are stated by the proofs
alone.

Its second part shows `Refinement`: the relay implements `RelaySpec`. `held` is the set of committed rows, `listing` the walks; the commit
of a new row is `Accept`, an answer is `Acknowledge`, the last page ends a
listing, and everything else, crash and restart too, is a stutter.

**FederationProofs**, from `FederationAssumption`, for any relays, workers,
assertions, policies and sources. All its invariants follow from `FInv`, whose
heart is `RunOK`, a statement about one run and what the relays hold. What makes
`SyncComplete` inductive is `Due`: an assertion that a run owes is in a channel
still to be listed, in the listing under way, among the gathered items, or at the
destination; each action of the worker moves it from one of these places to a
later one, unless a listing fails or the destination does not answer, which the
run records. Everything others do, other workers, clients and reruns, is the one
lemma `MoreHeld`: relays only ever hold more. `ForwardsOnce` needs that an id is
counted only when it was not held at that moment or the answer could not be read
(`ClaimsOK`); `BooksBalance` that what is not booked as rejected has arrived.
`CapabilitiesStayHidden` follows an assertion from where it is at a relay back to
the listing it was gathered from (`OriginOK`, `Hidden`), with every source allowed;
only an honest one gives its items the channel that was asked for. Types are stated
by the proofs alone.

**AssertionProofs**, from `LimitsAssumption`, `AssertionAssumption` and
`DraftsAssumption`. `ValidatorsAgree` is about every message: `PyExact` and
`GoExact` show that each ladder ends in "valid" exactly for `Valid` messages,
because each of its stages, whatever its order, lets pass exactly what
`WellFormed` asks, and that the units of a well-formed message are counted alike
(the two roundings to kilobytes are equal, `Kilobytes`); `TsSame` shows that the
TypeScript ladder names the same fault as the Python one once both have parsed the
bytes, and `InputReasons` when they do not name the same fault before. `StatusAgreement`,
`ReportAgreement` and `TypeCorrect` carry this over to the behaviours.
`MiningIsSound` and `SigningIsSound` need an invariant that remembers of which
draft, width and nonce an unaltered message is, that `units` belongs to that
width and that its hash was below that target; `TemplateUnitsExact` then says
that a template's units are those of every candidate of its width. What
`mine_and_sign` returns is followed through the three ladders for any object and
key (`SignedReport`): everything before the id is in order because `check_schema`
and the length were looked at, and then it is the id, the signature, or nothing.
`ExhaustionIsTotal` rests on `TriedInv`: a miner has tried every nonce below the
one it is at, also across widths, because a width begins where the one before it
ended (`WidthsAreAdjacent`).

`DiagnosticAgreement` and `SuiteIsSound` are about `SppVerify`, for every
message: the diagnostic, with its checks written out a second time, ends where
the validator ends; and what each class and expectation lets pass (`ClassFaults`).

Its next part is about signatures, from the three assumptions of `Ed25519`, for
every prime, curve and hash: `VerifiersAlwaysExact` and `SignedAlwaysVerifies`. That
the recursive functions of the model exist is shown by induction over sets of
naturals (`RecursionOn`). `_point_mul` adds up the multiple of a point because
what a round has added and what it leaves to add make up the whole (`MulInv`);
`mulByL`, which starts from the high bit, gives the same (`MulFromHighIs`).
`_xrecover` finds the even one of the two x of a y, or there is none (`Recovered`),
so that a decoder that encodes what it found and compares accepts encodings of
points and nothing else (`Decoded`); of `decode_point` this is true but for negative
zeros. In the subgroup of order L the equation of the verifiers is one of scalars
(`ChecksExact`). What was signed verifies because a clamped scalar is a multiple of
8 below 8 L and L is odd, hence no multiple of L (`ClampIs`). `SigInv` remembers of
which seed a key and a signature are.

Its last part is about the literals all of them read. `StringsAlwaysExact`, from
`ElementAssumption`, is about string literals of any
length. After every round the state of Go's reader stands for the UTF-16 units
read so far, or it has given up and they are not well formed (`Fits`, `GoReads`).
Python keeps noncharacters until the end and looks for them afterwards; the two
readers are in step but for that (`SameRead`, `PythonIsGo`). The canonical spelling
reads back element by element (`EscapeReads`). `NumbersAlwaysExact`, from
`ScalarAssumption`, is about number literals of any length. Each reader's scan ends
where the grammar divides the literal (`Marks`, `ReadersAgree`); the value has no
zeros at its ends; `repr` rewritten by `EsNumber` and `FormatNumber` both spell it
in one of the four forms of ECMAScript (`Form`), although they change to an
exponent at other sizes; and a scan of each form finds sign, digits and exponent
again (`Spells`, `ReadBack`). Inductions over lengths are done by hand, over sets of
naturals (`NaturalsOf`), because the library's induction rules take an operator.

**EncodingsProofs** shows `DocumentsAgree`, for texts of any length, names and
nesting, from `ParserInv`: as long as Go reads on, its stack mirrors Python's
frame by frame (`Mirror`), with one frame more where Python has not yet looked
behind a brace or bracket; and once Go has rejected a text, Python has too or
has, in some open object, a pending name that is there already (`Doomed`), which
no continuation takes away. `ValuesAgree` needs more of the heap (`TreeInv`): there is
a valuation of its nodes in which a closed node has the value of its children, and
every frame of Python holds exactly the values of the complete children of the node
Go's frame points to (`Tree`); a node has one parent with a smaller number, so that
the recursion of `GoValue` ends (`EvaluatesTo`).

`ParsersExact` says that what is accepted is JSON, whatever its length, its names
and the depth of its nesting: a complete text is accepted exactly when `IsJson`
derives it. Since a text goes on behind a rejection, this is also so of every
continuation of a text that was rejected early. One
direction goes up the derivation: whatever n applications of the rules derive is
read, from any frame that waits for it, into that frame (`ReadsAll`,
`ReadsDerived`). The other goes along the text: each open frame has a place where
its content begins, and what was read since is derived (`Ground`, `Reached`,
`RunReaches`); closing a frame is an application of the rule for its container. The
derivation is a function of the number of applications, which exists by induction
(`StepwiseExists`) and only grows (`DerivedGrows`), and a part of k tokens is
derived after k of them (`SimpleValue` to `NextMember`, one lemma for each rule).

`NamesOrderedAlike` is about names of any length without surrogates: `jcs.py`
compares the bytes of the whole names in UTF-16, `utf16Less` the units of the
first character that differs, and both orders are the same and total. Equal
beginnings have equal bytes (`KeyBegins`), no character's units begin with another's
(`NotAUnit`), and the two bytes of a unit are ordered as the unit (`ByteOrder`); the
converse follows since no two sequences are each less than the other.

`CursorsReadBack`, from `CursorAssumption`: base64url
without padding reads back for any bytes (`Base64ReadsBack`), because a group of
three bytes and of four characters are one number of 24 bits and a token of a
decimal never has the one length that cannot be padded.

**PyRelayProofs**, from `MemAssumption` and `QueryAssumption`, for any threads,
readers, bodies and settings. No lock orders the threads, so `PyInv` says of each
thread alone what it may rely on at its program counter (`ThreadOK`): an envelope,
once set, is never removed, and a list only grows at its end. From it
`PromiseHeld`, and with `Begins` (a page is what it was, however the list grew)
`CompleteListing`. `HeldListed` needs `Filing`: what is held and missing from one
of its lists is in the appends a thread still has to make. That no list repeats
an id is not true of this relay (section 7).

**TsRelayProofs**, from the same assumptions. A callback runs alone, so the tables
agree exactly in every state (`TableInv`: each list is the held assertions it
should have, each once), which is `ListedOnce`; what is carried from one callback
to the next is what a connection with its answer under way and a reader between
two pages rely on. `TsRefinement` maps storing to `Accept`, the end of an answer
to `Acknowledge`, the first and the last page to the two ends of a listing;
headers, waiting bodies, broken connections and other pages are stutters.

**AgentProofs**, from `AgentAssumption` (own items are valid, pointers have an
object) and `FileAssumption` (a torn or missing file does not read as a state).
`state.json` is a copy of what some command had in memory, so `DirectoryInv` is
stated of every copy, in memory, in the temporary file, in the file: what it
records as published or as an object is so. Relays and files are never taken
back, hence another command's step keeps it (`GrownRecorded`). `PublishedHeld` and
`RecordedStored` follow for any number of commands at once and for both ways of
saving. `DeliverOnce`, `CompletePoll` and `ReadableState` are about commands that
run one at a time and may be killed at any step (`OneCommand`, the condition of
run `agent_sequential`; two commands at once do deliver twice, since each has its
own copy): `SequentialInv` says that what was delivered is marked in the file
already, and where the command's memory and the file may differ.
`ReadableState` is about agent A.

Only model-checked: liveness (temporal reasoning with ENABLED is beyond the
prover), and what the canonicalisers write (`SameCanonicalText`,
`CanonicalReadsBack`). Both canonicalisers sort with operators that come down to
`SortSeq` of the standard module TLC, which has no definition the prover can
expand; what is proved of them is the order they sort by. Every other property of
a passing run has a theorem.

## 7. Findings

* `py_relay_idempotent`: `Store.put` of the Python relay tests and then stores
  without a lock under a threading server. Two concurrent submissions of one
  assertion are both answered `duplicate: false`, and it is listed twice; the
  specification asks for idempotence.
* `agent_objects`: both agents write an object file in place and never again
  when it exists; one killed during the write leaves a short file that the next
  command records as the object.
* Agent B writes `state.json` in place: killed during the write, it leaves a
  file that no later command loads. `StateReadable` is checked for agent A, and
  `SaveTarget_InPlace`, agent B's way, violates it.
* A source relay that serves a channel id without a colon makes the federation
  worker raise (`sync.py:165`) where line 33 of the file promises a diagnostics
  object. `Federation` has the step.
* `ed25519_python`: `decode_point` of `ed25519_spp.py` (lines 79 to 82) applies
  the sign to x before it compares x with zero. The encoding of x = 0 with the
  sign bit, which RFC 8032 has decoding refuse, becomes x = P; with y = 1 this is
  the identity, which `_is_ident` does not recognise. So the Python validator
  accepts keys and `R`s there that section 8A, `curve.ts` and `ed25519.go`
  refuse. `VerifiersExact` shows that there is no other difference.
* `scan.ts:23` looks for a byte order mark before it decodes, `json_input.py:355`
  decodes and looks at all characters first and meets the mark in the parser. Where
  both are wrong they name different reasons, `invalid-json` and `invalid-utf8` or
  `noncharacter`; the status is the same. `SameReport` says that this is the only
  difference. `tests/conformance/diff_verify.py` compares only the PASS and FAIL
  lines of the suite.
* `mine_and_sign` (`protocol.py:210-211`) admits an object with `id` or `sig` and
  does not compare the key with `actor`, and `mine.py` signs with a test key by
  default and does not validate what it prints: it then exits 0 with an envelope
  that every validator refuses (`SignedIsValid`).
* `http_post_json` (`sync.py:83-86`) gives a 200 with an unreadable body as
  `(200, None)`, and `sync.py:222` counts that as forwarded: an id the destination
  held already is then counted again (`ForwardedOnce`).
* `sync` never compares the channel of an item with the one it asked for, so that a
  dishonest source has it carry assertions of any channel (`CapabilityStaysHidden`).
* `decode_cursor` (`store.py:46`) has no upper bound; SQLite refuses an integer
  beyond 64 bits with an exception and the client gets no answer. A relay gives
  out no such cursor, and `Cursor` has none.

## 8. Not modelled

SHA-256 and SHA-512 (a hash is any number), UTF-8 decoding, white space, and the
rounding of decimals to binary64. `scan.ts` and `canon.ts`, which
have the loops of their Python counterparts; `mine.ts`, which has the loop of
`mine_and_sign`. The command line programs other than `spp_verify.py`, test
drivers, CI and deployment scripts (no state). The relays' configuration file and
discovery manifest (copied to an answer). Bytes of answers: order of members,
headers, wording. The first init of an agent, which writes `key.hex` in place.
That a command of an agent undoes what another saved meanwhile is in the model,
but the repository promises nothing about it. A source that always gives a
`next` keeps a worker listing for ever (`sync.py:109`); a listing is one begin and
one end in `Federation`. Lengths of bodies and of canonical forms are not related:
a number such as 1e20 is longer in the second.

## 9. Plan

Done, with proofs: the durable relay and the TypeScript relay with their
refinements of the abstract specification; the Python relay; federation; agents;
verifiers, miners and the verification tool; the parsers, what they
accept and the values they read, the order of names, strings, numbers, cursors and signatures. Done,
model-checked: the canonical form of documents.

Left, in this order:

1. `SppSystem`: agents, a relay and a federation worker together, end to end from
   publish on one relay to poll on another.
2. The first init of an agent and `key.hex`.
