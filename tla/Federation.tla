----------------------------- MODULE Federation -----------------------------
(***************************************************************************)
(* The federation worker of implementations/relay/federation/sync.py, run  *)
(* over and over between relays that clients go on publishing to.          *)
(*                                                                         *)
(* A worker is a client: it lists a source relay, checks every item itself *)
(* and posts the valid ones to a destination.  A relay appears here as     *)
(* RelaySpec describes it: a set of assertions, with a listing that has    *)
(* everything held when it was begun.  A GET may fail half way, a POST may *)
(* fail before or after the destination stored the assertion, an answer    *)
(* may come without a body that can be read, the worker may be killed,     *)
(* several workers may run at once, and a relay outside honest may serve   *)
(* anything at all.                                                        *)
(*                                                                         *)
(* Op_What beside Op is Op with a plausible mistake, as in DurableRelay.   *)
(***************************************************************************)
EXTENDS Integers, FiniteSets

CONSTANTS
    Relays,
    Deployments,      \* what may be set up:
                      \*   honest     the relays that serve what they hold
                      \*   from, to   per worker, --source and --destination
                      \*   bodies     assertions: [id, type, channel, verdict]
                      \*   clients    per relay, what its clients may publish
                      \*   channels   what --channel may name, if anything
                      \*   blocked    per relay, ids its policy turns away
                      \*   maxUnread  bound: answers 200 without a readable body,
                      \*              per relay and id
    BadChannel,       \* a channel id with no colon in it
    None              \* no --channel: the advertised mode

ASSUME FederationAssumption ==
    \A d \in Deployments :
        /\ d.from \in [DOMAIN d.from -> Relays] /\ d.to \in [DOMAIN d.from -> d.honest]
        /\ d.honest \subseteq Relays
        /\ d.clients \in [Relays -> SUBSET d.bodies] /\ d.maxUnread \in Nat
        /\ d.blocked \in [Relays -> SUBSET {b.id : b \in d.bodies}]
        /\ None \notin d.channels /\ BadChannel \notin {b.id : b \in d.bodies}
        /\ \A b \in d.bodies : b.verdict \in {"valid", "invalid"} /\ b.type \in {"channel", "pointer"}
        /\ \A b, c \in d.bodies : b.id = c.id => b.type = c.type /\ b.channel = c.channel

VARIABLES
    deployment,  \* what is set up; fixed
    held,        \* per relay: the assertions it has accepted
    run,         \* per worker: the state of its current or last run
    claims,      \* history: per relay and id, how often a run counted it forwarded
    unread,      \* history: per relay and id, how often its 200 had no readable body
    origin       \* history: per relay and id, who brought it there

vars == <<deployment, held, run, claims, unread, origin>>

honest   == deployment.honest
From     == deployment.from
To       == deployment.to
Bodies   == deployment.bodies
Channels == deployment.channels
Clients  == deployment.clients
MaxUnread == deployment.maxUnread
Blocked  == deployment.blocked
Workers  == DOMAIN deployment.from   \* processes running sync

Ids        == {b.id : b \in Bodies}
HeldIds(r) == {b.id : b \in held[r]}

\* Who brings an assertion: a client, or a worker in one of its modes.
Client        == [by |-> "client"]
Brought(w, m) == [by |-> "worker", worker |-> w, mode |-> m]

ChannelOf(b)     == IF b.type = "channel" THEN b.id ELSE b.channel
AdvertisedBy_AnyChannel(r) == {ChannelOf(b) : b \in held[r]}
AdvertisedBy(r)  == {b.id : b \in {c \in held[r] : c.type = "channel"}}
InChannel(r, ch) == {b \in held[r] : ChannelOf(b) = ch}

NoRun == [pc |-> "idle", mode |-> None, todo |-> {}, channel |-> None, base |-> {},
          errors |-> FALSE, gathered |-> {}, processed |-> {}, arrived |-> {},
          valid |-> 0, invalid |-> 0, forwarded |-> 0, duplicates |-> 0,
          rejected |-> 0, owed |-> {}]

Init ==
    /\ deployment \in Deployments
    /\ held = [r \in Relays |-> {}]
    /\ run = [w \in Workers |-> NoRun]
    /\ claims = [r \in Relays |-> [i \in Ids |-> 0]]
    /\ unread = claims
    /\ origin = [r \in Relays |-> [i \in Ids |-> None]]

\* Relay r accepts b: it verifies, no policy is against it, and its id is new.
Admits(r, b) == b.verdict = "valid" /\ b.id \notin Blocked[r]
Accept(r, b) == IF Admits(r, b) /\ b.id \notin HeldIds(r)
                THEN [held EXCEPT ![r] = @ \cup {b}] ELSE held
Credit(r, b, who) == IF Admits(r, b) /\ b.id \notin HeldIds(r)
                     THEN [origin EXCEPT ![r][b.id] = who] ELSE origin

\* Somebody publishes on a relay.
Publish(r, b) ==
    /\ Admits(r, b) /\ b.id \notin HeldIds(r)
    /\ held' = Accept(r, b) /\ origin' = Credit(r, b, Client)
    /\ UNCHANGED <<deployment, run, claims, unread>>

-----------------------------------------------------------------------------
Step(w, next) ==
    /\ run' = [run EXCEPT ![w] = next]
    /\ UNCHANGED <<deployment, held, claims, unread, origin>>

\* sync begins.  owed is history: what the source, if it is honest, has to
\* offer to this run.
StartAdvertised(w) ==
    LET r == From[w] IN
    /\ run[w].pc \in {"idle", "done"}
    /\ Step(w, [NoRun EXCEPT !.pc = "advertised", !.base = AdvertisedBy(r),
                  !.owed = UNION {InChannel(r, ch) : ch \in AdvertisedBy(r)}])

\* sync --channel; a value that is no channel id ends the run at once.
StartChannel(w, ch) ==
    /\ run[w].pc \in {"idle", "done"}
    /\ Step(w, [NoRun EXCEPT !.pc = "channels", !.mode = ch, !.todo = {ch},
                  !.owed = InChannel(From[w], ch)])

\* What a listing of relay r can bring: everything due was held when the
\* listing began, now is what there is at its end; a page that fails leaves
\* the items of the pages before it.
Listed_FirstPage(r, due, now, all, failed) ==
    IF r \notin honest THEN SUBSET all ELSE SUBSET now
Listed(r, due, now, all, failed) ==
    IF r \notin honest THEN SUBSET all
    ELSE {L \in SUBSET now : failed \/ due \subseteq L}

\* list_advertised returns.
EndAdvertised(w, failed) ==
    LET v == run[w] IN
    /\ v.pc = "advertised"
    /\ \E C \in Listed(From[w], v.base, AdvertisedBy(From[w]),
                       Ids \cup {BadChannel}, failed) :
         Step(w, [v EXCEPT !.pc = "channels", !.todo = C, !.base = {}, !.errors = failed])

\* The next channel: cid.split(":", 1)[1] raises on an id without a colon,
\* and nothing catches it; else list_channel begins.
NextChannel(w, ch) ==
    LET v == run[w] IN
    /\ v.pc = "channels" /\ ch \in v.todo
    /\ IF ch = BadChannel
       THEN Step(w, [NoRun EXCEPT !.pc = "raised"])
       ELSE Step(w, [v EXCEPT !.pc = "listing", !.channel = ch, !.todo = @ \ {ch},
                        !.base = InChannel(From[w], ch)])

Gathered(ch, via, L) == {[channel |-> ch, via |-> via, body |-> b] : b \in L}

\* list_channel returns; in the advertised mode the description comes next.
EndListing(w, failed) ==
    LET v == run[w] IN
    /\ v.pc = "listing"
    /\ \E L \in Listed(From[w], v.base, InChannel(From[w], v.channel), Bodies, failed) :
         Step(w, [v EXCEPT !.pc = IF v.mode = None THEN "describe" ELSE "channels",
                           !.gathered = @ \cup Gathered(v.channel, "list", L),
                           !.base = {}, !.errors = @ \/ failed])

\* GET of the channel description; that it fails is not recorded anywhere.
Describe(w) ==
    LET v      == run[w]
        one    == {b \in held[From[w]] : b.id = v.channel}
        offers == IF From[w] \in honest THEN {one, {}} ELSE {{}} \cup {{b} : b \in Bodies}
    IN  /\ v.pc = "describe"
        /\ \E L \in offers :
             Step(w, [v EXCEPT !.pc = "channels", !.channel = None,
                               !.gathered = @ \cup Gathered(v.channel, "get", L)])

\* All channels listed: on to the second loop of sync.
Gather(w) ==
    /\ run[w].pc = "channels" /\ run[w].todo = {}
    /\ Step(w, [run[w] EXCEPT !.pc = "process", !.channel = None])

-----------------------------------------------------------------------------
\* validate_bytes on the re-encoded item.
Verified(b) == b.verdict = "valid"

\* An item that does not verify is counted and passed over.
Discard(w, g) ==
    LET v == run[w] IN
    /\ v.pc = "process" /\ g \in v.gathered
    /\ ~Verified(g.body)
    /\ Step(w, [v EXCEPT !.gathered = @ \ {g}, !.invalid = @ + 1])

\* A valid item whose id this run has posted before.
Repeat(w, g) ==
    LET v == run[w] IN
    /\ v.pc = "process" /\ g \in v.gathered
    /\ Verified(g.body) /\ g.body.id \in v.processed
    /\ Step(w, [v EXCEPT !.gathered = @ \ {g}, !.valid = @ + 1])

\* How the destination's answer is booked: its status, and the duplicate
\* member of its body, which an unreadable body does not have.
Booked_IgnoresDuplicate(code, duplicate) ==
    [forwarded |-> code = 200, duplicate |-> FALSE, rejected |-> code # 200]
Booked_AnyAnswer(code, duplicate) ==
    [forwarded |-> code # 0 /\ ~duplicate, duplicate |-> duplicate, rejected |-> code = 0]
Booked(code, duplicate) ==
    [forwarded |-> code = 200 /\ ~duplicate, duplicate |-> code = 200 /\ duplicate,
     rejected  |-> code # 200]

\* What http_post_json makes of an answer: nothing (status 0), the status with
\* a body that cannot be read, or both.
Heard == {"nothing", "status", "all"}

\* A valid item is posted; the destination refuses it or takes it.
Post(w, g, sent, heard) ==
    LET v      == run[w]
        b      == g.body
        d      == To[w]
        code   == IF heard = "nothing" THEN 0 ELSE IF Admits(d, b) THEN 200 ELSE 400
        book   == Booked(code, heard = "all" /\ code = 200 /\ b.id \in HeldIds(d))
        one(p) == IF p THEN 1 ELSE 0
    IN  /\ v.pc = "process" /\ g \in v.gathered
        /\ Verified(b) /\ b.id \notin v.processed
        /\ sent \/ heard = "nothing"
        /\ heard = "status" => unread[d][b.id] < MaxUnread
        /\ UNCHANGED deployment
        /\ held' = IF sent THEN Accept(d, b) ELSE held
        /\ origin' = IF sent THEN Credit(d, b, Brought(w, v.mode)) ELSE origin
        /\ claims' = [claims EXCEPT ![d][b.id] = @ + one(book.forwarded)]
        /\ unread' = [unread EXCEPT ![d][b.id] = @ + one(heard = "status" /\ code = 200)]
        /\ run' = [run EXCEPT ![w] =
             [v EXCEPT !.gathered = @ \ {g}, !.valid = @ + 1, !.processed = @ \cup {b.id},
                       !.arrived = IF book.rejected THEN @ ELSE @ \cup {b.id},
                       !.forwarded = @ + one(book.forwarded),
                       !.duplicates = @ + one(book.duplicate),
                       !.rejected = @ + one(book.rejected)]]

\* The summary is printed: ok unless a listing failed.
Summary(w) ==
    /\ run[w].pc = "process" /\ run[w].gathered = {}
    /\ Step(w, [run[w] EXCEPT !.pc = "done"])

\* The worker is killed, or is started again after it raised.
Kill(w) ==
    /\ run[w].pc \notin {"idle", "done"}
    /\ Step(w, NoRun)

WorkerStep(w) ==
    \/ \E failed \in BOOLEAN : EndAdvertised(w, failed) \/ EndListing(w, failed)
    \/ \E ch \in run[w].todo : NextChannel(w, ch)
    \/ Describe(w)
    \/ Gather(w)
    \/ \E g \in run[w].gathered : Discard(w, g) \/ Repeat(w, g)
    \/ \E g \in run[w].gathered, sent \in BOOLEAN, heard \in Heard :
         Post(w, g, sent, heard)
    \/ Summary(w)

Next ==
    \/ \E r \in honest : \E b \in Clients[r] : Publish(r, b)
    \/ \E w \in Workers : WorkerStep(w) \/ StartAdvertised(w) \/ Kill(w)
    \/ \E w \in Workers, ch \in Channels : StartChannel(w, ch)

Spec == Init /\ [][Next]_vars

-----------------------------------------------------------------------------
\* The values of the relays' tables and of the workers' runs.
TypeOK ==
    /\ deployment \in Deployments /\ held \in [Relays -> SUBSET Bodies]
    /\ claims \in [Relays -> [Ids -> Nat]] /\ unread \in [Relays -> [Ids -> 0 .. MaxUnread]]
    /\ \A w \in Workers :
        /\ run[w].pc \in {"idle", "advertised", "channels", "listing", "describe",
                          "process", "done", "raised"}
        /\ run[w].todo \subseteq Ids \cup Channels \cup {BadChannel}
        /\ run[w].pc \in {"process", "done"} => run[w].todo = {} /\ run[w].channel = None
        /\ run[w].processed \subseteq Ids
        /\ \A g \in run[w].gathered : g.body \in Bodies

\* A run from an honest source that reports ok and no rejections has brought
\* the destination everything the source's channels in question held when
\* the run began, although clients and other workers publish meanwhile, the
\* GET of a description may fail unnoticed, and earlier runs were killed.
SyncComplete ==
    \A w \in Workers :
        run[w].pc = "done" /\ From[w] \in honest /\ ~run[w].errors /\ run[w].rejected = 0
            => \A b \in run[w].owed : b.id \in HeldIds(To[w])

\* Reruns, several workers and clients never both claim an assertion: at one
\* relay an id is counted as forwarded at most once, but for the answers 200
\* whose body could not be read, each of which is counted although the relay
\* may have held the id (sync counts a body of None as no duplicate).
ForwardedOnce == \A r \in Relays, i \in Ids : claims[r][i] <= 1 + unread[r][i]

\* A report never says too much and its numbers add up: every id that was
\* posted is forwarded, a duplicate or rejected and none is posted twice, and
\* what is reported with a destination_status of 200 is at the destination,
\* although answers are lost, cannot be read, or are refusals by a policy.
Accounts ==
    \A w \in Workers : LET v == run[w] IN
        /\ v.arrived \subseteq v.processed /\ v.arrived \subseteq HeldIds(To[w])
        /\ v.forwarded + v.duplicates = Cardinality(v.arrived)
        /\ v.rejected = Cardinality(v.processed) - Cardinality(v.arrived)
        /\ v.valid >= Cardinality(v.processed)

\* How far the assertions of a capability channel travel.  What is at a relay
\* was published there by a client, or a worker brought it: from a source
\* that is not honest, which can have a worker carry any valid assertion of
\* any channel (sync never compares an item's channel with the one it asked
\* for); or from an honest one, and then because the source holds the
\* channel's description or because the run was given that very channel.
CapabilityStaysHidden ==
    \A r \in Relays : \A b \in held[r] : LET o == origin[r][b.id] IN
        \/ o = Client
        \/ /\ o.by = "worker" /\ To[o.worker] = r
           /\ \/ From[o.worker] \notin honest
              \/ o.mode = ChannelOf(b)
              \/ /\ o.mode = None
                 /\ \E d \in held[From[o.worker]] : d.type = "channel" /\ d.id = ChannelOf(b)
=============================================================================
