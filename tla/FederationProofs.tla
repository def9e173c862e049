--------------------------- MODULE FederationProofs ---------------------------
(***************************************************************************)
(* Proofs about Federation, for any relays, workers, assertions and        *)
(* policies, and any source.                                               *)
(*                                                                         *)
(* What a run has to remember about the assertions it owes is spread over  *)
(* its program counter: an assertion is in a channel still to be listed,   *)
(* in the listing under way, gathered, or at the destination already.  The *)
(* invariant is stated of one run, as an operator of the run's record and  *)
(* of what the relays hold, so that what other workers and clients do to   *)
(* it is one lemma: relays only ever hold more.                            *)
(***************************************************************************)
EXTENDS Federation, FiniteSetTheorems, TLAPS

IdsOf(d)   == {b.id : b \in d.bodies}
Names(d)   == IdsOf(d) \cup d.channels \cup {BadChannel}
Counters   == {"idle", "advertised", "channels", "listing", "describe", "process", "done", "raised"}
Parts(d)   == [channel : Names(d) \cup {None}, via : {"list", "get"}, body : d.bodies]

RunRecords(d) ==
    [pc : Counters, mode : d.channels \cup {None}, todo : SUBSET Names(d),
     channel : Names(d) \cup {None}, base : SUBSET (Names(d) \cup d.bodies),
     errors : BOOLEAN, gathered : SUBSET Parts(d), processed : SUBSET IdsOf(d),
     arrived : SUBSET IdsOf(d), valid : Nat, invalid : Nat, forwarded : Nat, duplicates : Nat, rejected : Nat,
     owed : SUBSET d.bodies]

IdsAt(H, r)        == {b.id : b \in H[r]}
Advertised(H, r)   == {b.id : b \in {c \in H[r] : c.type = "channel"}}

Members(H, r, ch)  == {b \in H[r] : ChannelOf(b) = ch}

\* Relays hold assertions that verified.
HeldOK(d, H) ==
    /\ H \in [Relays -> SUBSET d.bodies]
    /\ \A r \in Relays : \A b \in H[r] : b.verdict = "valid"

\* Where an assertion that a run owes is.
Due(b, v, w, d, H) ==
    /\ b \in H[d.from[w]]
    /\ \/ v.pc = "advertised" /\ ChannelOf(b) \in v.base
       \/ v.pc \in {"channels", "listing", "describe"} /\ ChannelOf(b) \in v.todo
       \/ v.pc = "listing" /\ v.channel = ChannelOf(b) /\ b \in v.base
       \/ \E g \in v.gathered : g.body = b
       \/ b.id \in IdsAt(H, d.to[w])

Complete(v, w, d, H) ==
    d.from[w] \in d.honest /\ ~v.errors /\ v.rejected = 0 => \A b \in v.owed : Due(b, v, w, d, H)

\* What was answered 200 is at the destination, and if nothing was rejected
\* that is all that was posted.
Arrived(v, w, d, H) ==
    /\ v.arrived \subseteq IdsAt(H, d.to[w])
    /\ v.rejected = 0 => v.processed \subseteq IdsAt(H, d.to[w])

\* A run in the advertised mode meets advertised channels only, another one
\* the channel it was given, if the source is honest.
Meets(v, w, d, H) == IF v.mode = None THEN Advertised(H, d.from[w]) ELSE {v.mode}
Hidden(v, w, d, H) ==
    d.from[w] \in d.honest =>
        /\ v.todo \subseteq Meets(v, w, d, H)
        /\ v.pc \in {"listing", "describe"} => v.channel \in Meets(v, w, d, H)
        /\ \A g \in v.gathered : ChannelOf(g.body) \in Meets(v, w, d, H)

Balanced(v) ==
    /\ IsFiniteSet(v.processed) /\ IsFiniteSet(v.arrived) /\ v.arrived \subseteq v.processed
    /\ v.forwarded + v.duplicates + v.rejected = Cardinality(v.processed)
    /\ v.forwarded + v.duplicates = Cardinality(v.arrived)
    /\ v.valid >= Cardinality(v.processed)

Phases(v) ==
    /\ v.pc \in {"process", "done"} => v.todo = {} /\ v.channel = None
    /\ v.pc = "done" => v.gathered = {}
    /\ v.pc = "advertised" => ~v.errors
    /\ v.pc \in {"advertised", "describe"} => v.mode = None

RunOK(v, w, d, H) ==
    /\ v \in RunRecords(d) /\ Phases(v) /\ Balanced(v)
    /\ Complete(v, w, d, H) /\ Arrived(v, w, d, H) /\ Hidden(v, w, d, H)

\* An id is counted as forwarded when it came to a relay, which is once, and
\* once for every answer that could not be read.
ClaimsOK(C, U, d, H) ==
    /\ C \in [Relays -> [IdsOf(d) -> Nat]] /\ U \in [Relays -> [IdsOf(d) -> 0 .. d.maxUnread]]
    /\ \A r \in Relays, i \in IdsOf(d) :
         C[r][i] <= U[r][i] \/ (C[r][i] = 1 + U[r][i] /\ i \in IdsAt(H, r))

\* Why an assertion is where it is.
Explained(o, b, r, d, H) ==
    \/ o = Client
    \/ /\ o.by = "worker" /\ o.worker \in DOMAIN d.from /\ d.to[o.worker] = r
       /\ \/ d.from[o.worker] \notin d.honest
          \/ o.mode = ChannelOf(b)
          \/ o.mode = None /\ ChannelOf(b) \in Advertised(H, d.from[o.worker])

\* Who may have brought an assertion.
Carriers(d) == {Client} \cup {Brought(w, m) : w \in DOMAIN d.from, m \in d.channels \cup {None}}

OriginOK(O, d, H) ==
    /\ O \in [Relays -> [IdsOf(d) -> {None} \cup Carriers(d)]]
    /\ \A r \in Relays : \A b \in H[r] : Explained(O[r][b.id], b, r, d, H)

FInv ==
    /\ deployment \in Deployments
    /\ HeldOK(deployment, held)
    /\ run = [w \in Workers |-> run[w]]
    /\ \A w \in Workers : RunOK(run[w], w, deployment, held)
    /\ ClaimsOK(claims, unread, deployment, held)
    /\ OriginOK(origin, deployment, held)

-----------------------------------------------------------------------------
(***************************************************************************)
(* Lemmas about one run                                                    *)
(***************************************************************************)

\* What the assumption says of one deployment.
LEMMA Deployment ==
    ASSUME NEW d \in Deployments
    PROVE  /\ \A w \in DOMAIN d.from : d.from[w] \in Relays /\ d.to[w] \in d.honest /\ d.to[w] \in Relays
           /\ d.honest \subseteq Relays
           /\ d.clients \in [Relays -> SUBSET d.bodies]
           /\ None \notin d.channels /\ d.maxUnread \in Nat
           /\ \A b, c \in d.bodies : b.id = c.id => b.type = c.type /\ b.channel = c.channel
    BY FederationAssumption

\* Relays that hold more leave a run as it is.
LEMMA MoreHeld ==
    ASSUME NEW d \in Deployments, NEW H, NEW G, NEW v, NEW w \in DOMAIN d.from,
           \A r \in Relays : H[r] \subseteq G[r],
           RunOK(v, w, d, H)
    PROVE  RunOK(v, w, d, G)
<1>1. d.from[w] \in Relays /\ d.to[w] \in Relays
    BY Deployment
<1>2. IdsAt(H, d.to[w]) \subseteq IdsAt(G, d.to[w])
    BY <1>1 DEF IdsAt
<1>3. Advertised(H, d.from[w]) \subseteq Advertised(G, d.from[w])
    BY <1>1 DEF Advertised
<1>4. ASSUME NEW b, Due(b, v, w, d, H)
      PROVE  Due(b, v, w, d, G)
    BY <1>1, <1>2, <1>4 DEF Due
<1>5. Complete(v, w, d, G)
    BY <1>4 DEF Complete, RunOK
<1>6. Arrived(v, w, d, G)
    BY <1>2 DEF Arrived, RunOK
<1>7. Hidden(v, w, d, G)
    BY <1>3 DEF Hidden, RunOK, Meets
<1> QED  BY <1>5, <1>6, <1>7 DEF RunOK

\* A run that is over, or not begun, owes nothing.
LEMMA NoRunOK ==
    ASSUME NEW d \in Deployments, NEW H, NEW w \in DOMAIN d.from,
           NEW n \in {NoRun, [NoRun EXCEPT !.pc = "raised"]}
    PROVE  RunOK(n, w, d, H)
<1>1. n \in RunRecords(d)
    <2>1. NoRun \in RunRecords(d)
        BY DEF NoRun, RunRecords, Counters
    <2>2. [NoRun EXCEPT !.pc = "raised"] \in RunRecords(d)
        BY <2>1 DEF RunRecords, Counters
    <2> QED  BY <2>1, <2>2
<1>2. /\ n.pc \in {"idle", "raised"} /\ n.todo = {} /\ n.gathered = {} /\ n.processed = {} /\ n.arrived = {}
      /\ n.valid = 0 /\ n.forwarded = 0 /\ n.duplicates = 0 /\ n.rejected = 0 /\ n.owed = {}
    BY DEF NoRun
<1>3. Balanced(n)
    BY <1>2, FS_EmptySet DEF Balanced
<1>4. Phases(n) /\ Complete(n, w, d, H) /\ Arrived(n, w, d, H) /\ Hidden(n, w, d, H)
    BY <1>2 DEF Phases, Complete, Arrived, Hidden, Meets
<1> QED  BY <1>1, <1>3, <1>4 DEF RunOK

\* sync begins in the advertised mode.
LEMMA StartAdvertisedOK ==
    ASSUME NEW d \in Deployments, NEW H, HeldOK(d, H), NEW w \in DOMAIN d.from
    PROVE  LET r == d.from[w] IN
           RunOK([NoRun EXCEPT !.pc = "advertised", !.base = Advertised(H, r),
                    !.owed = UNION {Members(H, r, ch) : ch \in Advertised(H, r)}], w, d, H)
<1> DEFINE r == d.from[w]
           n == [NoRun EXCEPT !.pc = "advertised", !.base = Advertised(H, r),
                   !.owed = UNION {Members(H, r, ch) : ch \in Advertised(H, r)}]
<1>1. r \in Relays /\ H[r] \subseteq d.bodies
    BY Deployment DEF HeldOK
<1>2. Advertised(H, r) \subseteq Names(d)
    BY <1>1 DEF Advertised, Names, IdsOf
<1>3. UNION {Members(H, r, ch) : ch \in Advertised(H, r)} \subseteq d.bodies
    BY <1>1 DEF Members
<1>4. n \in RunRecords(d)
    BY <1>2, <1>3 DEF NoRun, RunRecords, Counters
<1>5. /\ n.pc = "advertised" /\ n.mode = None /\ n.todo = {} /\ n.gathered = {} /\ n.processed = {} /\ n.arrived = {}
      /\ n.valid = 0 /\ n.forwarded = 0 /\ n.duplicates = 0 /\ n.rejected = 0
      /\ n.base = Advertised(H, r) /\ ~n.errors
      /\ n.owed = UNION {Members(H, r, ch) : ch \in Advertised(H, r)}
    BY DEF NoRun
<1> HIDE DEF n
<1>6. Balanced(n)
    BY <1>5, FS_EmptySet DEF Balanced
<1>7. Phases(n) /\ Arrived(n, w, d, H) /\ Hidden(n, w, d, H)
    BY <1>5 DEF Phases, Arrived, Hidden, Meets
<1>8. ASSUME NEW b \in n.owed
      PROVE  Due(b, n, w, d, H)
    BY <1>5, <1>8 DEF Due, Members
<1>9. RunOK(n, w, d, H)
    BY <1>4, <1>6, <1>7, <1>8 DEF RunOK, Complete
<1> QED  BY <1>9 DEF n

\* sync --channel begins.
LEMMA StartChannelOK ==
    ASSUME NEW d \in Deployments, NEW H, HeldOK(d, H), NEW w \in DOMAIN d.from, NEW ch \in d.channels
    PROVE  RunOK([NoRun EXCEPT !.pc = "channels", !.mode = ch, !.todo = {ch},
                    !.owed = Members(H, d.from[w], ch)], w, d, H)
<1> DEFINE n == [NoRun EXCEPT !.pc = "channels", !.mode = ch, !.todo = {ch},
                   !.owed = Members(H, d.from[w], ch)]
<1>1. d.from[w] \in Relays /\ H[d.from[w]] \subseteq d.bodies /\ ch # None
    BY Deployment DEF HeldOK
<1>2. Members(H, d.from[w], ch) \subseteq d.bodies /\ ch \in Names(d)
    BY <1>1 DEF Members, Names
<1>3. n \in RunRecords(d)
    BY <1>2 DEF NoRun, RunRecords, Counters
<1>4. /\ n.pc = "channels" /\ n.mode = ch /\ n.todo = {ch} /\ n.gathered = {} /\ n.processed = {} /\ n.arrived = {}
      /\ n.valid = 0 /\ n.forwarded = 0 /\ n.duplicates = 0 /\ n.rejected = 0
      /\ n.owed = Members(H, d.from[w], ch)
    BY DEF NoRun
<1> HIDE DEF n
<1>5. Balanced(n)
    BY <1>4, FS_EmptySet DEF Balanced
<1>6. Phases(n) /\ Arrived(n, w, d, H) /\ Hidden(n, w, d, H)
    BY <1>1, <1>4 DEF Phases, Arrived, Hidden, Meets
<1>7. ASSUME NEW b \in n.owed
      PROVE  Due(b, n, w, d, H)
    BY <1>4, <1>7 DEF Due, Members
<1>8. RunOK(n, w, d, H)
    BY <1>3, <1>5, <1>6, <1>7 DEF RunOK, Complete
<1> QED  BY <1>8 DEF n

\* list_advertised returns the channels C.
LEMMA EndAdvertisedOK ==
    ASSUME NEW d \in Deployments, NEW H, HeldOK(d, H), NEW w \in DOMAIN d.from,
           NEW v, RunOK(v, w, d, H), v.pc = "advertised",
           NEW failed \in BOOLEAN, NEW C \in SUBSET (IdsOf(d) \cup {BadChannel}),
           d.from[w] \in d.honest => /\ C \subseteq Advertised(H, d.from[w])
                                     /\ failed \/ v.base \subseteq C
    PROVE  RunOK([v EXCEPT !.pc = "channels", !.todo = C, !.base = {}, !.errors = failed], w, d, H)
<1> DEFINE n == [v EXCEPT !.pc = "channels", !.todo = C, !.base = {}, !.errors = failed]
<1>1. C \subseteq Names(d)
    BY DEF Names
<1>2. n \in RunRecords(d)
    BY <1>1 DEF RunOK, RunRecords, Counters
<1>3. /\ n.pc = "channels" /\ n.mode = v.mode /\ n.todo = C /\ n.gathered = v.gathered
      /\ n.processed = v.processed /\ n.arrived = v.arrived /\ n.valid = v.valid /\ n.forwarded = v.forwarded
      /\ n.duplicates = v.duplicates /\ n.rejected = v.rejected /\ n.owed = v.owed /\ n.errors = failed
    BY DEF RunOK, RunRecords
<1> HIDE DEF n
<1>4. Balanced(n) /\ Phases(n) /\ Arrived(n, w, d, H)
    BY <1>3 DEF RunOK, Balanced, Phases, Arrived
<1>5. Hidden(n, w, d, H)
    BY <1>3 DEF RunOK, Hidden, Meets, Phases
<1>6. Complete(n, w, d, H)
    <2> SUFFICES ASSUME d.from[w] \in d.honest, ~failed, v.rejected = 0, NEW b \in v.owed
                 PROVE  Due(b, n, w, d, H)
        BY <1>3 DEF Complete
    <2> QED  BY <1>3 DEF Due, RunOK, Complete, Phases
<1>7. RunOK(n, w, d, H)
    BY <1>2, <1>4, <1>5, <1>6 DEF RunOK
<1> QED  BY <1>7 DEF n

\* list_channel begins.
LEMMA NextChannelOK ==
    ASSUME NEW d \in Deployments, NEW H, HeldOK(d, H), NEW w \in DOMAIN d.from,
           NEW v, RunOK(v, w, d, H), v.pc = "channels", NEW ch \in v.todo
    PROVE  RunOK([v EXCEPT !.pc = "listing", !.channel = ch, !.todo = @ \ {ch},
                           !.base = Members(H, d.from[w], ch)], w, d, H)
<1> DEFINE n == [v EXCEPT !.pc = "listing", !.channel = ch, !.todo = @ \ {ch},
                          !.base = Members(H, d.from[w], ch)]
<1>1. Members(H, d.from[w], ch) \subseteq d.bodies
    BY Deployment DEF HeldOK, Members
<1>2. n \in RunRecords(d)
    BY <1>1 DEF RunOK, RunRecords, Counters
<1>3. /\ n.pc = "listing" /\ n.mode = v.mode /\ n.todo = v.todo \ {ch} /\ n.gathered = v.gathered
      /\ n.processed = v.processed /\ n.arrived = v.arrived /\ n.valid = v.valid /\ n.forwarded = v.forwarded
      /\ n.duplicates = v.duplicates /\ n.rejected = v.rejected /\ n.owed = v.owed
      /\ n.errors = v.errors /\ n.channel = ch /\ n.base = Members(H, d.from[w], ch)
    BY DEF RunOK, RunRecords
<1> HIDE DEF n
<1>4. Balanced(n) /\ Phases(n) /\ Arrived(n, w, d, H)
    BY <1>3 DEF RunOK, Balanced, Phases, Arrived
<1>5. Hidden(n, w, d, H)
    BY <1>3 DEF RunOK, Hidden, Meets, Phases
<1>6. Complete(n, w, d, H)
    <2> SUFFICES ASSUME d.from[w] \in d.honest, ~v.errors, v.rejected = 0, NEW b \in v.owed
                 PROVE  Due(b, n, w, d, H)
        BY <1>3 DEF Complete
    <2>1. Due(b, v, w, d, H)
        BY DEF RunOK, Complete
    <2> QED  BY <1>3, <2>1 DEF Due, Members
<1>7. RunOK(n, w, d, H)
    BY <1>2, <1>4, <1>5, <1>6 DEF RunOK
<1> QED  BY <1>7 DEF n

\* A GET brings the items L of the channel under way: a listing, or the
\* description.
LEMMA GatheredOK ==
    ASSUME NEW d \in Deployments, NEW H, HeldOK(d, H), NEW w \in DOMAIN d.from,
           NEW v, RunOK(v, w, d, H), v.pc \in {"listing", "describe"},
           NEW via, NEW failed \in BOOLEAN, NEW L \in SUBSET d.bodies,
           d.from[w] \in d.honest => \A b \in L : ChannelOf(b) \in Meets(v, w, d, H),
           d.from[w] \in d.honest /\ v.pc = "listing" => failed \/ v.base \subseteq L,
           NEW n \in RunRecords(d),
           /\ n.pc = "channels" \/ (n.pc = "describe" /\ n.channel = v.channel /\ v.mode = None)
           /\ n.mode = v.mode /\ n.todo = v.todo
           /\ n.gathered = v.gathered \cup Gathered(v.channel, via, L)
           /\ n.processed = v.processed /\ n.arrived = v.arrived /\ n.valid = v.valid /\ n.forwarded = v.forwarded
           /\ n.duplicates = v.duplicates /\ n.rejected = v.rejected /\ n.owed = v.owed
           /\ n.errors <=> v.errors \/ failed
    PROVE  RunOK(n, w, d, H)
<1>1. Balanced(n) /\ Phases(n) /\ Arrived(n, w, d, H)
    BY DEF RunOK, Balanced, Phases, Arrived
<1>2. Hidden(n, w, d, H)
    BY DEF RunOK, Hidden, Gathered, Meets, Phases
<1>3. Complete(n, w, d, H)
    <2> SUFFICES ASSUME d.from[w] \in d.honest, ~v.errors, ~failed, v.rejected = 0, NEW b \in v.owed
                 PROVE  Due(b, n, w, d, H)
        BY DEF Complete
    <2>1. Due(b, v, w, d, H)
        BY DEF RunOK, Complete
    <2>2. ASSUME b \in L
          PROVE  \E g \in n.gathered : g.body = b
        <3> DEFINE g == [channel |-> v.channel, via |-> via, body |-> b]
        <3>1. g \in Gathered(v.channel, via, L) /\ g.body = b
            BY <2>2 DEF Gathered
        <3> QED  BY <3>1
    <2>3. v.pc = "listing" => v.base \subseteq L
        OBVIOUS
    <2> QED  BY <2>1, <2>2, <2>3 DEF Due
<1> QED  BY <1>1, <1>2, <1>3 DEF RunOK

\* The second loop begins.
LEMMA GatherOK ==
    ASSUME NEW d \in Deployments, NEW H, NEW w \in DOMAIN d.from,
           NEW v, RunOK(v, w, d, H), v.pc = "channels", v.todo = {}
    PROVE  RunOK([v EXCEPT !.pc = "process", !.channel = None], w, d, H)
<1> DEFINE n == [v EXCEPT !.pc = "process", !.channel = None]
<1>1. n \in RunRecords(d)
    BY DEF RunOK, RunRecords, Counters
<1>2. /\ n.pc = "process" /\ n.mode = v.mode /\ n.todo = {} /\ n.gathered = v.gathered
      /\ n.processed = v.processed /\ n.arrived = v.arrived /\ n.valid = v.valid /\ n.forwarded = v.forwarded
      /\ n.duplicates = v.duplicates /\ n.rejected = v.rejected /\ n.owed = v.owed
      /\ n.errors = v.errors /\ n.channel = None
    BY DEF RunOK, RunRecords
<1> HIDE DEF n
<1>3. Balanced(n) /\ Phases(n) /\ Arrived(n, w, d, H) /\ Hidden(n, w, d, H)
    BY <1>2 DEF RunOK, Balanced, Phases, Arrived, Hidden, Meets
<1>4. Complete(n, w, d, H)
    BY <1>2 DEF RunOK, Complete, Due
<1>5. RunOK(n, w, d, H)
    BY <1>1, <1>3, <1>4 DEF RunOK
<1> QED  BY <1>5 DEF n

\* An item is passed over: it does not verify, or was processed before.
LEMMA PassedOverOK ==
    ASSUME NEW d \in Deployments, NEW H, HeldOK(d, H), NEW w \in DOMAIN d.from,
           NEW v, RunOK(v, w, d, H), v.pc = "process", NEW g \in v.gathered,
           NEW i \in Nat, NEW j \in Nat, j >= v.valid,
           g.body.verdict # "valid" \/ g.body.id \in v.processed
    PROVE  RunOK([v EXCEPT !.gathered = @ \ {g}, !.valid = j, !.invalid = i], w, d, H)
<1> DEFINE n == [v EXCEPT !.gathered = @ \ {g}, !.valid = j, !.invalid = i]
<1>1. n \in RunRecords(d)
    BY DEF RunOK, RunRecords
<1>2. /\ n.pc = "process" /\ n.mode = v.mode /\ n.todo = v.todo /\ n.gathered = v.gathered \ {g}
      /\ n.processed = v.processed /\ n.arrived = v.arrived /\ n.valid = j /\ n.forwarded = v.forwarded
      /\ n.duplicates = v.duplicates /\ n.rejected = v.rejected /\ n.owed = v.owed
      /\ n.errors = v.errors /\ n.channel = v.channel
    BY DEF RunOK, RunRecords
<1> HIDE DEF n
<1>3. Phases(n) /\ Arrived(n, w, d, H) /\ Hidden(n, w, d, H)
    BY <1>2 DEF RunOK, Phases, Arrived, Hidden, Meets
<1>4. Balanced(n)
    <2>1. v.valid \in Nat /\ Balanced(v) /\ Cardinality(v.processed) \in Nat
        BY FS_CardinalityType DEF RunOK, RunRecords, Balanced
    <2> QED  BY <1>2, <2>1 DEF Balanced
<1>5. Complete(n, w, d, H)
    <2> SUFFICES ASSUME d.from[w] \in d.honest, ~v.errors, v.rejected = 0, NEW b \in v.owed
                 PROVE  Due(b, n, w, d, H)
        BY <1>2 DEF Complete
    <2>1. Due(b, v, w, d, H) /\ v.processed \subseteq IdsAt(H, d.to[w])
        BY DEF RunOK, Complete, Arrived
    <2>2. b.verdict = "valid"
        BY <2>1, Deployment DEF Due, HeldOK
    <2>3. CASE g.body = b
        BY <1>2, <2>1, <2>2, <2>3 DEF Due
    <2>4. CASE g.body # b
        BY <1>2, <2>1, <2>4 DEF Due
    <2> QED  BY <2>3, <2>4
<1>6. RunOK(n, w, d, H)
    BY <1>1, <1>3, <1>4, <1>5 DEF RunOK
<1> QED  BY <1>6 DEF n

\* A POST of g turns the record v of a run into n while the relays go from H
\* to G; one of forwarded, duplicates and rejected grows.
PostedFrom(v, n, g, f, u, x, w, d, H, G) ==
    /\ d \in Deployments /\ w \in DOMAIN d.from /\ \A r \in Relays : H[r] \subseteq G[r]
    /\ RunOK(v, w, d, H) /\ v.pc = "process" /\ g \in v.gathered
    /\ g.body.id \notin v.processed
    /\ f \in {0, 1} /\ u \in {0, 1} /\ x \in {0, 1} /\ f + u + x = 1
    /\ x = 0 => g.body.id \in IdsAt(G, d.to[w])
    /\ n \in RunRecords(d)
    /\ n.pc = "process" /\ n.mode = v.mode /\ n.todo = v.todo /\ n.gathered = v.gathered \ {g}
    /\ n.processed = v.processed \cup {g.body.id} /\ n.valid = v.valid + 1
    /\ n.arrived = (IF x = 1 THEN v.arrived ELSE v.arrived \cup {g.body.id})
    /\ n.forwarded = v.forwarded + f /\ n.duplicates = v.duplicates + u
    /\ n.rejected = v.rejected + x /\ n.owed = v.owed
    /\ n.errors = v.errors /\ n.channel = v.channel

LEMMA OneMore ==
    ASSUME NEW S, IsFiniteSet(S), NEW e, e \notin S
    PROVE  IsFiniteSet(S \cup {e}) /\ Cardinality(S \cup {e}) = Cardinality(S) + 1
    BY FS_AddElement

\* An item is posted.
LEMMA PostedOK ==
    ASSUME NEW v, NEW n, NEW g, NEW f, NEW u, NEW x, NEW w, NEW d, NEW H, NEW G,
           PostedFrom(v, n, g, f, u, x, w, d, H, G)
    PROVE  RunOK(n, w, d, G)
<1>0. /\ v \in RunRecords(d) /\ Balanced(v)
      /\ v.valid \in Nat /\ v.forwarded \in Nat /\ v.duplicates \in Nat /\ v.rejected \in Nat
    BY DEF PostedFrom, RunOK, RunRecords
<1>1. RunOK(v, w, d, G)
    BY MoreHeld DEF PostedFrom
<1>2. /\ n \in RunRecords(d) /\ x \in {0, 1} /\ f \in {0, 1} /\ u \in {0, 1} /\ f + u + x = 1
      /\ v.pc = "process" /\ g.body.id \notin v.processed
      /\ x = 0 => g.body.id \in IdsAt(G, d.to[w])
    BY DEF PostedFrom
<1>3. /\ n.pc = "process" /\ n.mode = v.mode /\ n.todo = v.todo /\ n.gathered = v.gathered \ {g}
      /\ n.processed = v.processed \cup {g.body.id} /\ n.valid = v.valid + 1
      /\ n.arrived = (IF x = 1 THEN v.arrived ELSE v.arrived \cup {g.body.id})
      /\ n.forwarded = v.forwarded + f /\ n.duplicates = v.duplicates + u
      /\ n.rejected = v.rejected + x /\ n.owed = v.owed
      /\ n.errors = v.errors /\ n.channel = v.channel
    BY DEF PostedFrom
<1>4. Phases(n) /\ Hidden(n, w, d, G)
    BY <1>1, <1>2, <1>3 DEF RunOK, Phases, Hidden, Meets
<1>5. n.rejected = 0 => v.rejected = 0 /\ x = 0
    BY <1>0, <1>2, <1>3
<1>6. Arrived(n, w, d, G)
    BY <1>1, <1>2, <1>3, <1>5 DEF RunOK, Arrived
<1>7. Balanced(n)
    <2>1. /\ IsFiniteSet(n.processed)
          /\ Cardinality(n.processed) = Cardinality(v.processed) + 1
        BY <1>0, <1>2, <1>3, OneMore DEF Balanced
    <2>2. Cardinality(v.processed) \in Nat
        BY <1>0, FS_CardinalityType DEF Balanced
    <2>3. Cardinality(v.arrived) \in Nat /\ g.body.id \notin v.arrived
        BY <1>0, <1>2, FS_CardinalityType DEF Balanced
    <2>4. CASE x = 1
        BY <1>0, <1>2, <1>3, <2>1, <2>2, <2>3, <2>4 DEF Balanced
    <2>5. CASE x = 0
        <3>1. /\ IsFiniteSet(n.arrived) /\ Cardinality(n.arrived) = Cardinality(v.arrived) + 1
              /\ n.arrived \subseteq n.processed
            BY <1>0, <1>3, <2>3, <2>5, OneMore DEF Balanced
        <3> QED  BY <1>0, <1>2, <1>3, <2>1, <2>2, <2>3, <2>5, <3>1 DEF Balanced
    <2> QED  BY <1>2, <2>4, <2>5
<1>8. Complete(n, w, d, G)
    <2> SUFFICES ASSUME d.from[w] \in d.honest, ~v.errors, n.rejected = 0, NEW b \in v.owed
                 PROVE  Due(b, n, w, d, G)
        BY <1>3 DEF Complete
    <2>1. Due(b, v, w, d, G)
        BY <1>1, <1>5 DEF RunOK, Complete
    <2>2. CASE g.body = b
        BY <1>2, <1>3, <1>5, <2>1, <2>2 DEF Due
    <2>3. CASE g.body # b
        BY <1>2, <1>3, <2>1, <2>3 DEF Due
    <2> QED  BY <2>2, <2>3
<1>9. RunOK(n, w, d, G)
    BY <1>2, <1>4, <1>6, <1>7, <1>8 DEF RunOK
<1> QED  BY <1>9

\* The summary is printed.
LEMMA SummaryOK ==
    ASSUME NEW d \in Deployments, NEW H, NEW w \in DOMAIN d.from,
           NEW v, RunOK(v, w, d, H), v.pc = "process", v.gathered = {}
    PROVE  RunOK([v EXCEPT !.pc = "done"], w, d, H)
<1> DEFINE n == [v EXCEPT !.pc = "done"]
<1>1. n \in RunRecords(d)
    BY DEF RunOK, RunRecords, Counters
<1>2. /\ n.pc = "done" /\ n.mode = v.mode /\ n.todo = v.todo /\ n.gathered = v.gathered
      /\ n.processed = v.processed /\ n.arrived = v.arrived /\ n.valid = v.valid /\ n.forwarded = v.forwarded
      /\ n.duplicates = v.duplicates /\ n.rejected = v.rejected /\ n.owed = v.owed
      /\ n.errors = v.errors /\ n.channel = v.channel
    BY DEF RunOK, RunRecords
<1> HIDE DEF n
<1>3. Balanced(n) /\ Phases(n) /\ Arrived(n, w, d, H) /\ Hidden(n, w, d, H)
    BY <1>2 DEF RunOK, Balanced, Phases, Arrived, Hidden, Meets
<1>4. Complete(n, w, d, H)
    BY <1>2 DEF RunOK, Complete, Due
<1>5. RunOK(n, w, d, H)
    BY <1>1, <1>3, <1>4 DEF RunOK
<1> QED  BY <1>5 DEF n

-----------------------------------------------------------------------------
(***************************************************************************)
(* The steps                                                               *)
(***************************************************************************)

\* Nothing is held, run or counted at first.
LEMMA InitFInv == Init => FInv
<1> SUFFICES ASSUME Init
             PROVE  FInv
    OBVIOUS
<1> DEFINE d == deployment
<1>1. d \in Deployments /\ HeldOK(d, held)
    BY DEF Init, HeldOK
<1>2. run = [w \in Workers |-> run[w]] /\ \A w \in Workers : run[w] = NoRun
    BY DEF Init
<1>3. \A w \in Workers : RunOK(run[w], w, d, held)
    BY <1>1, <1>2, NoRunOK DEF Workers
<1>4. ClaimsOK(claims, unread, d, held)
    <2>1. d.maxUnread \in Nat /\ IdsOf(d) = Ids
        BY <1>1, Deployment DEF Ids, Bodies, IdsOf
    <2> QED  BY <2>1 DEF Init, ClaimsOK
<1>5. OriginOK(origin, d, held)
    BY DEF Init, OriginOK, Ids, Bodies, IdsOf
<1> QED  BY <1>1, <1>2, <1>3, <1>4, <1>5 DEF FInv

\* A worker goes on to a record that is in order, and nothing else changes.
LEMMA StepKeeps ==
    ASSUME FInv, NEW w \in Workers, NEW next, RunOK(next, w, deployment, held), Step(w, next)
    PROVE  FInv'
<1>1. /\ run' = [run EXCEPT ![w] = next] /\ deployment' = deployment /\ held' = held
      /\ claims' = claims /\ unread' = unread /\ origin' = origin
    BY DEF Step
<1>2. \A u \in DOMAIN deployment.from : RunOK(run'[u], u, deployment, held)
    BY <1>1 DEF FInv, Workers
<1>3. run' = [u \in DOMAIN deployment.from |-> run'[u]]
    BY <1>1 DEF FInv, Workers
<1> QED  BY <1>1, <1>2, <1>3 DEF FInv, Workers

\* A relay accepts what verifies and holds more from then on.
LEMMA AcceptGrows ==
    ASSUME FInv, NEW r \in Relays, NEW b \in Bodies
    PROVE  LET G == Accept(r, b) IN
           /\ HeldOK(deployment, G) /\ \A q \in Relays : held[q] \subseteq G[q]
           /\ Admits(r, b) => b.id \in IdsAt(G, r)
<1>1. held \in [Relays -> SUBSET deployment.bodies] /\ b \in deployment.bodies
    BY DEF FInv, HeldOK, Bodies
<1>2. CASE Admits(r, b) /\ b.id \notin HeldIds(r)
    <2> DEFINE G == [held EXCEPT ![r] = @ \cup {b}]
    <2>1. Accept(r, b) = G
        BY <1>2 DEF Accept
    <2>2. G \in [Relays -> SUBSET deployment.bodies] /\ G[r] = held[r] \cup {b}
        BY <1>1
    <2>3. \A q \in Relays : q # r => G[q] = held[q]
        BY <1>1
    <2>4. b.verdict = "valid"
        BY <1>2 DEF Admits
    <2> HIDE DEF G
    <2>5. HeldOK(deployment, G)
        BY <2>2, <2>3, <2>4 DEF FInv, HeldOK
    <2> QED  BY <2>1, <2>2, <2>3, <2>5 DEF IdsAt
<1>3. CASE ~(Admits(r, b) /\ b.id \notin HeldIds(r))
    <2>1. Accept(r, b) = held
        BY <1>3 DEF Accept
    <2> QED  BY <1>3, <2>1 DEF FInv, IdsAt, HeldIds
<1> QED  BY <1>2, <1>3

\* What explains an assertion explains it still when relays hold more.
LEMMA ExplainedMore ==
    ASSUME NEW d \in Deployments, NEW H, NEW G, \A r \in Relays : H[r] \subseteq G[r],
           NEW o, NEW b, NEW r, Explained(o, b, r, d, H)
    PROVE  Explained(o, b, r, d, G)
<1>1. \A w \in DOMAIN d.from : Advertised(H, d.from[w]) \subseteq Advertised(G, d.from[w])
    BY Deployment DEF Advertised
<1> QED  BY <1>1 DEF Explained

\* A relay accepts an assertion that is explained.
LEMMA CreditExplains ==
    ASSUME FInv, NEW r \in Relays, NEW b \in Bodies, NEW o \in Carriers(deployment),
           Explained(o, b, r, deployment, held)
    PROVE  OriginOK(Credit(r, b, o), deployment, Accept(r, b))
<1> DEFINE d == deployment
           G == Accept(r, b)
           O == Credit(r, b, o)
           V == [IdsOf(d) -> {None} \cup Carriers(d)]
<1>1. /\ d \in Deployments /\ held \in [Relays -> SUBSET d.bodies]
      /\ b \in d.bodies /\ b.id \in IdsOf(d) /\ origin \in [Relays -> V]
      /\ \A q \in Relays : held[q] \subseteq G[q]
    <2>1. d \in Deployments /\ held \in [Relays -> SUBSET d.bodies] /\ origin \in [Relays -> V]
        BY DEF FInv, HeldOK, OriginOK
    <2>2. \A q \in Relays : held[q] \subseteq G[q]
        BY AcceptGrows
    <2> QED  BY <2>1, <2>2 DEF Bodies, IdsOf
<1>2. \A q \in Relays : \A c \in held[q] : Explained(origin[q][c.id], c, q, d, G)
    BY <1>1, ExplainedMore DEF FInv, OriginOK
<1>3. CASE Admits(r, b) /\ b.id \notin HeldIds(r)
    <2>1. G = [held EXCEPT ![r] = @ \cup {b}] /\ O = [origin EXCEPT ![r][b.id] = o]
        BY <1>3 DEF Accept, Credit
    <2>2. O \in [Relays -> V]
        BY <1>1, <2>1
    <2>3. G[r] = held[r] \cup {b} /\ \A q \in Relays : q # r => G[q] = held[q]
        BY <1>1, <2>1
    <2>4. \A q \in Relays, i \in IdsOf(d) :
            O[q][i] = IF q = r /\ i = b.id THEN o ELSE origin[q][i]
        BY <1>1, <2>1
    <2>5. \A c \in held[r] : c.id # b.id
        BY <1>3 DEF HeldIds
    <2>6. \A q \in Relays : \A c \in held[q] : c.id \in IdsOf(d)
        BY <1>1 DEF IdsOf
    <2>7. Explained(o, b, r, d, G)
        BY <1>1, ExplainedMore
    <2> HIDE DEF G, O, d, V
    <2>8. \A q \in Relays : \A c \in G[q] : Explained(O[q][c.id], c, q, d, G)
        BY <1>1, <1>2, <2>3, <2>4, <2>5, <2>6, <2>7
    <2> QED  BY <2>2, <2>8 DEF OriginOK, Carriers, V, G, O, d
<1>4. CASE ~(Admits(r, b) /\ b.id \notin HeldIds(r))
    BY <1>2, <1>4 DEF Accept, Credit, FInv, OriginOK
<1> QED  BY <1>3, <1>4

\* Clients publish.
LEMMA PublishKeeps ==
    ASSUME FInv, NEW r \in honest, NEW b \in Clients[r], Publish(r, b)
    PROVE  FInv'
<1>1. r \in Relays /\ deployment \in Deployments /\ b \in Bodies
    BY Deployment DEF FInv, honest, Clients, Bodies
<1>2. /\ held' = Accept(r, b) /\ deployment' = deployment /\ run' = run
      /\ origin' = Credit(r, b, Client) /\ claims' = claims /\ unread' = unread
    BY DEF Publish
<1>3. HeldOK(deployment, held') /\ \A q \in Relays : held[q] \subseteq held'[q]
    BY <1>1, <1>2, AcceptGrows
<1>4. \A w \in DOMAIN deployment.from : RunOK(run[w], w, deployment, held')
    BY <1>1, <1>3, MoreHeld DEF FInv, Workers
<1>5. ClaimsOK(claims, unread, deployment, held')
    BY <1>3 DEF FInv, ClaimsOK, IdsAt
<1>6. OriginOK(origin', deployment, held')
    <2>1. Client \in Carriers(deployment) /\ Explained(Client, b, r, deployment, held)
        BY DEF Carriers, Explained
    <2> QED  BY <1>1, <1>2, <2>1, CreditExplains
<1> QED  BY <1>1, <1>2, <1>3, <1>4, <1>5, <1>6 DEF FInv, Workers

\* What a listing can bring.
LEMMA ListedIs ==
    ASSUME NEW r, NEW due, NEW now, NEW all, NEW failed, NEW L \in Listed(r, due, now, all, failed),
           now \subseteq all
    PROVE  L \subseteq all /\ (r \in honest => L \subseteq now /\ (failed \/ due \subseteq L))
    BY DEF Listed

\* The first loop of sync.
LEMMA GatheringKeeps ==
    ASSUME FInv, NEW w \in Workers,
           \/ StartAdvertised(w)
           \/ \E ch \in Channels : StartChannel(w, ch)
           \/ \E failed \in BOOLEAN : EndAdvertised(w, failed) \/ EndListing(w, failed)
           \/ \E ch \in run[w].todo : NextChannel(w, ch)
           \/ Describe(w)
           \/ Gather(w)
    PROVE  FInv'
<1> DEFINE d == deployment
           v == run[w]
           r == d.from[w]
<1>1. /\ d \in Deployments /\ HeldOK(d, held) /\ w \in DOMAIN d.from /\ RunOK(v, w, d, held)
      /\ r \in Relays /\ held[r] \subseteq d.bodies
    BY Deployment DEF FInv, Workers, HeldOK
<1>2. /\ AdvertisedBy(r) = Advertised(held, r) /\ From[w] = r /\ Bodies = d.bodies /\ Ids = IdsOf(d)
      /\ honest = d.honest /\ Channels = d.channels
      /\ \A ch : InChannel(r, ch) = Members(held, r, ch)
    BY DEF AdvertisedBy, Advertised, From, Bodies, Ids, IdsOf, honest, Channels, InChannel, Members
<1>3. CASE StartAdvertised(w)
    <2> DEFINE n == [NoRun EXCEPT !.pc = "advertised", !.base = Advertised(held, r),
                       !.owed = UNION {Members(held, r, ch) : ch \in Advertised(held, r)}]
    <2>1. Step(w, n)
        BY <1>2, <1>3 DEF StartAdvertised
    <2>2. RunOK(n, w, d, held)
        BY <1>1, StartAdvertisedOK
    <2> QED  BY <2>1, <2>2, StepKeeps
<1>4. ASSUME NEW ch \in Channels, StartChannel(w, ch)
      PROVE  FInv'
    <2> DEFINE n == [NoRun EXCEPT !.pc = "channels", !.mode = ch, !.todo = {ch},
                       !.owed = Members(held, r, ch)]
    <2>1. Step(w, n)
        BY <1>2, <1>4 DEF StartChannel
    <2>2. RunOK(n, w, d, held)
        BY <1>1, <1>2, StartChannelOK
    <2> QED  BY <2>1, <2>2, StepKeeps
<1>5. ASSUME NEW failed \in BOOLEAN, EndAdvertised(w, failed)
      PROVE  FInv'
    <2>1. PICK C \in Listed(r, v.base, Advertised(held, r), IdsOf(d) \cup {BadChannel}, failed) :
            /\ v.pc = "advertised"
            /\ Step(w, [v EXCEPT !.pc = "channels", !.todo = C, !.base = {}, !.errors = failed])
        BY <1>2, <1>5 DEF EndAdvertised
    <2>2. Advertised(held, r) \subseteq IdsOf(d) \cup {BadChannel}
        BY <1>1 DEF Advertised, IdsOf
    <2>3. /\ C \in SUBSET (IdsOf(d) \cup {BadChannel})
          /\ r \in d.honest => C \subseteq Advertised(held, r) /\ (failed \/ v.base \subseteq C)
        BY <1>2, <2>2, ListedIs
    <2>4. RunOK([v EXCEPT !.pc = "channels", !.todo = C, !.base = {}, !.errors = failed], w, d, held)
        BY <1>1, <2>1, <2>3, EndAdvertisedOK
    <2> QED  BY <2>1, <2>4, StepKeeps
<1>6. ASSUME NEW ch \in run[w].todo, NextChannel(w, ch)
      PROVE  FInv'
    <2>1. CASE ch = BadChannel
        <3>1. Step(w, [NoRun EXCEPT !.pc = "raised"])
            BY <1>6, <2>1 DEF NextChannel
        <3>2. RunOK([NoRun EXCEPT !.pc = "raised"], w, d, held)
            BY <1>1, NoRunOK
        <3> QED  BY <3>1, <3>2, StepKeeps
    <2>2. CASE ch # BadChannel
        <3> DEFINE n == [v EXCEPT !.pc = "listing", !.channel = ch, !.todo = @ \ {ch},
                           !.base = Members(held, r, ch)]
        <3>1. Step(w, n) /\ v.pc = "channels"
            BY <1>2, <1>6, <2>2 DEF NextChannel
        <3>2. RunOK(n, w, d, held)
            BY <1>1, <1>6, <3>1, NextChannelOK
        <3> QED  BY <3>1, <3>2, StepKeeps
    <2> QED  BY <2>1, <2>2
<1>7. ASSUME NEW failed \in BOOLEAN, EndListing(w, failed)
      PROVE  FInv'
    <2> DEFINE p == IF v.mode = None THEN "describe" ELSE "channels"
               n(L) == [v EXCEPT !.pc = p, !.gathered = @ \cup Gathered(v.channel, "list", L),
                          !.base = {}, !.errors = @ \/ failed]
    <2>1. PICK L \in Listed(r, v.base, Members(held, r, v.channel), d.bodies, failed) :
            v.pc = "listing" /\ Step(w, n(L))
        BY <1>2, <1>7 DEF EndListing
    <2>2. Members(held, r, v.channel) \subseteq d.bodies
        BY <1>1 DEF Members
    <2>3. /\ L \in SUBSET d.bodies
          /\ r \in d.honest => L \subseteq Members(held, r, v.channel) /\ (failed \/ v.base \subseteq L)
        BY <1>2, <2>2, ListedIs
    <2>4. r \in d.honest => \A b \in L : ChannelOf(b) \in Meets(v, w, d, held)
        BY <1>1, <2>1, <2>3 DEF RunOK, Hidden, Members
    <2>5. Gathered(v.channel, "list", L) \in SUBSET Parts(d)
        BY <1>1, <2>3 DEF RunOK, RunRecords, Gathered, Parts
    <2>6. n(L) \in RunRecords(d)
        BY <1>1, <2>5 DEF RunOK, RunRecords, Counters
    <2>7. /\ n(L).pc = p /\ n(L).channel = v.channel /\ n(L).mode = v.mode /\ n(L).todo = v.todo
          /\ n(L).gathered = v.gathered \cup Gathered(v.channel, "list", L)
          /\ n(L).processed = v.processed /\ n(L).arrived = v.arrived /\ n(L).valid = v.valid /\ n(L).forwarded = v.forwarded
          /\ n(L).duplicates = v.duplicates /\ n(L).rejected = v.rejected /\ n(L).owed = v.owed
          /\ n(L).errors <=> v.errors \/ failed
        BY <1>1 DEF RunOK, RunRecords
    <2> HIDE DEF n
    <2>8. RunOK(n(L), w, d, held)
        BY <1>1, <2>1, <2>3, <2>4, <2>6, <2>7, GatheredOK
    <2> QED  BY <2>1, <2>8, StepKeeps
<1>8. CASE Describe(w)
    <2> DEFINE n(L) == [v EXCEPT !.pc = "channels", !.channel = None,
                          !.gathered = @ \cup Gathered(v.channel, "get", L)]
               one == {b \in held[r] : b.id = v.channel}
    <2>1. PICK L \in IF r \in d.honest THEN {one, {}} ELSE {{}} \cup {{b} : b \in d.bodies} :
            v.pc = "describe" /\ Step(w, n(L))
        BY <1>2, <1>8 DEF Describe
    <2>2. L \in SUBSET d.bodies /\ (r \in d.honest => L \subseteq one)
        BY <1>1
    <2>3. ASSUME r \in d.honest, NEW b \in L
          PROVE  ChannelOf(b) \in Meets(v, w, d, held)
        <3>1. /\ b \in held[r] /\ b.id = v.channel /\ v.mode = None
              /\ v.channel \in Advertised(held, r)
            BY <1>1, <2>1, <2>2, <2>3 DEF RunOK, Hidden, Phases, Meets
        <3>2. PICK c \in held[r] : c.type = "channel" /\ c.id = v.channel
            BY <3>1 DEF Advertised
        <3>3. b.type = "channel"
            BY <1>1, <3>1, <3>2, Deployment
        <3> QED  BY <3>1, <3>3 DEF ChannelOf, Meets
    <2>4. Gathered(v.channel, "get", L) \in SUBSET Parts(d)
        BY <1>1, <2>2 DEF RunOK, RunRecords, Gathered, Parts
    <2>5. n(L) \in RunRecords(d)
        BY <1>1, <2>4 DEF RunOK, RunRecords, Counters
    <2>6. /\ n(L).pc = "channels" /\ n(L).mode = v.mode /\ n(L).todo = v.todo
          /\ n(L).gathered = v.gathered \cup Gathered(v.channel, "get", L)
          /\ n(L).processed = v.processed /\ n(L).arrived = v.arrived /\ n(L).valid = v.valid /\ n(L).forwarded = v.forwarded
          /\ n(L).duplicates = v.duplicates /\ n(L).rejected = v.rejected /\ n(L).owed = v.owed
          /\ n(L).errors = v.errors
        BY <1>1 DEF RunOK, RunRecords
    <2> HIDE DEF n
    <2>7. PICK failed \in BOOLEAN : ~failed
        OBVIOUS
    <2>8. /\ n(L).errors <=> v.errors \/ failed
          /\ r \in d.honest => \A b \in L : ChannelOf(b) \in Meets(v, w, d, held)
          /\ v.pc \in {"listing", "describe"} /\ v.pc # "listing"
        BY <2>1, <2>3, <2>6, <2>7
    <2>9. RunOK(n(L), w, d, held)
        BY <1>1, <2>2, <2>5, <2>6, <2>8, GatheredOK
    <2> QED  BY <2>1, <2>9, StepKeeps
<1>9. CASE Gather(w)
    <2>1. Step(w, [v EXCEPT !.pc = "process", !.channel = None]) /\ v.pc = "channels" /\ v.todo = {}
        BY <1>9 DEF Gather
    <2>2. RunOK([v EXCEPT !.pc = "process", !.channel = None], w, d, held)
        BY <1>1, <2>1, GatherOK
    <2> QED  BY <2>1, <2>2, StepKeeps
<1> QED  BY <1>3, <1>4, <1>5, <1>6, <1>7, <1>8, <1>9

\* The second loop of sync, but for the posts, and the end of a run.
LEMMA ProcessingKeeps ==
    ASSUME FInv, NEW w \in Workers,
           \/ \E g \in run[w].gathered : Discard(w, g) \/ Repeat(w, g)
           \/ Summary(w)
           \/ Kill(w)
    PROVE  FInv'
<1> DEFINE d == deployment
           v == run[w]
<1>1. /\ d \in Deployments /\ HeldOK(d, held) /\ w \in DOMAIN d.from /\ RunOK(v, w, d, held)
      /\ v \in RunRecords(d) /\ v.valid \in Nat /\ v.invalid \in Nat
    BY DEF FInv, Workers, RunOK, RunRecords
<1>2. ASSUME NEW g \in run[w].gathered, Discard(w, g)
      PROVE  FInv'
    <2> DEFINE n == [v EXCEPT !.gathered = @ \ {g}, !.invalid = @ + 1]
    <2>1. Step(w, n) /\ v.pc = "process" /\ g.body.verdict # "valid"
        BY <1>2 DEF Discard, Verified
    <2>2. v.invalid + 1 \in Nat /\ v.valid \in Nat /\ v.valid >= v.valid
        BY <1>1
    <2>3. RunOK([v EXCEPT !.gathered = @ \ {g}, !.valid = v.valid, !.invalid = v.invalid + 1], w, d, held)
        BY <1>1, <2>1, <2>2, PassedOverOK
    <2>4. n = [v EXCEPT !.gathered = @ \ {g}, !.valid = v.valid, !.invalid = v.invalid + 1]
        BY <1>1 DEF RunRecords
    <2> QED  BY <2>1, <2>3, <2>4, StepKeeps
<1>3. ASSUME NEW g \in run[w].gathered, Repeat(w, g)
      PROVE  FInv'
    <2> DEFINE n == [v EXCEPT !.gathered = @ \ {g}, !.valid = @ + 1]
    <2>1. Step(w, n) /\ v.pc = "process" /\ g.body.id \in v.processed
        BY <1>3 DEF Repeat
    <2>2. v.valid + 1 \in Nat /\ v.valid + 1 >= v.valid
        BY <1>1
    <2>3. RunOK([v EXCEPT !.gathered = @ \ {g}, !.valid = v.valid + 1, !.invalid = v.invalid], w, d, held)
        BY <1>1, <2>1, <2>2, PassedOverOK
    <2>4. n = [v EXCEPT !.gathered = @ \ {g}, !.valid = v.valid + 1, !.invalid = v.invalid]
        BY <1>1 DEF RunRecords
    <2> QED  BY <2>1, <2>3, <2>4, StepKeeps
<1>4. CASE Summary(w)
    <2>1. Step(w, [v EXCEPT !.pc = "done"]) /\ v.pc = "process" /\ v.gathered = {}
        BY <1>4 DEF Summary
    <2>2. RunOK([v EXCEPT !.pc = "done"], w, d, held)
        BY <1>1, <2>1, SummaryOK
    <2> QED  BY <2>1, <2>2, StepKeeps
<1>5. CASE Kill(w)
    <2>1. Step(w, NoRun)
        BY <1>5 DEF Kill
    <2>2. RunOK(NoRun, w, d, held)
        BY <1>1, NoRunOK
    <2> QED  BY <2>1, <2>2, StepKeeps
<1> QED  BY <1>2, <1>3, <1>4, <1>5

\* A POST, heard or not.
LEMMA PostKeeps ==
    ASSUME FInv, NEW w \in Workers, NEW g \in run[w].gathered,
           NEW sent \in BOOLEAN, NEW heard \in Heard, Post(w, g, sent, heard)
    PROVE  FInv'
<1> DEFINE d      == deployment
           v      == run[w]
           b      == g.body
           t      == d.to[w]
           code   == IF heard = "nothing" THEN 0 ELSE IF Admits(t, b) THEN 200 ELSE 400
           dup    == heard = "all" /\ code = 200 /\ b.id \in HeldIds(t)
           f      == IF code = 200 /\ ~dup THEN 1 ELSE 0
           u      == IF code = 200 /\ dup THEN 1 ELSE 0
           x      == IF code # 200 THEN 1 ELSE 0
           lost   == IF heard = "status" /\ code = 200 THEN 1 ELSE 0
           n      == [v EXCEPT !.gathered = @ \ {g}, !.valid = @ + 1,
                        !.processed = @ \cup {b.id},
                        !.arrived = IF code # 200 THEN @ ELSE @ \cup {b.id},
                        !.forwarded = @ + f, !.duplicates = @ + u, !.rejected = @ + x]
<1>1. /\ d \in Deployments /\ w \in DOMAIN d.from /\ RunOK(v, w, d, held)
      /\ t \in Relays /\ v \in RunRecords(d)
    BY Deployment DEF FInv, Workers, RunOK
<1>2. b \in d.bodies /\ b \in Bodies /\ b.id \in IdsOf(d)
    BY <1>1 DEF RunRecords, Parts, Bodies, IdsOf
<1>3. /\ v.pc = "process" /\ b.verdict = "valid" /\ b.id \notin v.processed
      /\ sent \/ heard = "nothing"
      /\ heard = "status" => unread[t][b.id] < d.maxUnread
      /\ deployment' = d /\ held' = (IF sent THEN Accept(t, b) ELSE held)
      /\ origin' = (IF sent THEN Credit(t, b, Brought(w, v.mode)) ELSE origin)
      /\ claims' = [claims EXCEPT ![t][b.id] = @ + f]
      /\ unread' = [unread EXCEPT ![t][b.id] = @ + lost]
      /\ run' = [run EXCEPT ![w] = n]
    <2>1. /\ v.pc = "process" /\ b.verdict = "valid" /\ b.id \notin v.processed
          /\ sent \/ heard = "nothing"
          /\ heard = "status" => unread[t][b.id] < d.maxUnread
          /\ deployment' = d /\ held' = (IF sent THEN Accept(t, b) ELSE held)
          /\ origin' = (IF sent THEN Credit(t, b, Brought(w, v.mode)) ELSE origin)
        BY DEF Post, To, Verified, MaxUnread
    <2> DEFINE book == Booked(code, dup)
    <2>2. /\ book.forwarded <=> (code = 200 /\ ~dup)
          /\ book.duplicate <=> (code = 200 /\ dup)
          /\ book.rejected <=> code # 200
        BY DEF Booked
    <2> DEFINE one(p) == IF p THEN 1 ELSE 0
    <2>3. /\ claims' = [claims EXCEPT ![t][b.id] = @ + one(book.forwarded)]
          /\ unread' = [unread EXCEPT ![t][b.id] = @ + one(heard = "status" /\ code = 200)]
          /\ run' = [run EXCEPT ![w] =
               [v EXCEPT !.gathered = @ \ {g}, !.valid = @ + 1, !.processed = @ \cup {b.id},
                         !.arrived = IF book.rejected THEN @ ELSE @ \cup {b.id},
                         !.forwarded = @ + one(book.forwarded),
                         !.duplicates = @ + one(book.duplicate),
                         !.rejected = @ + one(book.rejected)]]
        BY DEF Post, To
    <2>4. /\ one(book.forwarded) = f /\ one(book.duplicate) = u /\ one(book.rejected) = x
          /\ one(heard = "status" /\ code = 200) = lost
        BY <2>2
    <2>5. \A S : (IF book.rejected THEN S ELSE S \cup {b.id})
                  = (IF code # 200 THEN S ELSE S \cup {b.id})
        BY <2>2
    <2> HIDE DEF book, one, f, u, x, lost, code, dup
    <2> QED  BY <2>1, <2>3, <2>4, <2>5
<1>4. /\ HeldOK(d, held') /\ \A q \in Relays : held[q] \subseteq held'[q]
      /\ sent /\ Admits(t, b) => b.id \in IdsAt(held', t)
    <2>1. CASE sent
        BY <1>1, <1>2, <1>3, <2>1, AcceptGrows
    <2>2. CASE ~sent
        BY <1>3, <2>2 DEF FInv
    <2> QED  BY <2>1, <2>2
<1>5. /\ f \in {0, 1} /\ u \in {0, 1} /\ x \in {0, 1} /\ f + u + x = 1
      /\ x = 0 => sent /\ Admits(t, b)
    BY <1>3
<1>6. /\ lost \in {0, 1} /\ (lost = 1 => f = 1 /\ unread[t][b.id] < d.maxUnread)
      /\ f = 1 /\ lost = 0 => b.id \notin IdsAt(held, t)
      /\ f = 1 => x = 0
    BY <1>3 DEF Heard, HeldIds, IdsAt
<1>12. code # 200 <=> x = 1
    OBVIOUS
<1> HIDE DEF code, dup, f, u, x, lost
<1>7. RunOK(n, w, d, held')
    <2>1. b.id \notin v.processed /\ (x = 0 => b.id \in IdsAt(held', d.to[w]))
        BY <1>3, <1>4, <1>5
    <2>2. \A r \in Relays : held[r] \subseteq held'[r]
        BY <1>4
    <2>3. /\ v.valid + 1 \in Nat /\ v.forwarded + f \in Nat /\ v.duplicates + u \in Nat
          /\ v.rejected + x \in Nat
        BY <1>1, <1>5 DEF RunRecords
    <2>4. n \in RunRecords(d)
        <3>1. /\ v.gathered \ {g} \in SUBSET Parts(d) /\ v.processed \cup {b.id} \in SUBSET IdsOf(d)
              /\ (IF code # 200 THEN v.arrived ELSE v.arrived \cup {b.id}) \in SUBSET IdsOf(d)
            BY <1>1, <1>2 DEF RunRecords
        <3> QED  BY <1>1, <2>3, <3>1 DEF RunRecords
    <2>5. PostedFrom(v, n, g, f, u, x, w, d, held, held')
        <3>1. /\ n.pc = "process" /\ n.mode = v.mode /\ n.todo = v.todo
              /\ n.gathered = v.gathered \ {g} /\ n.processed = v.processed \cup {g.body.id}
              /\ n.arrived = (IF x = 1 THEN v.arrived ELSE v.arrived \cup {g.body.id})
              /\ n.valid = v.valid + 1 /\ n.forwarded = v.forwarded + f
              /\ n.duplicates = v.duplicates + u /\ n.rejected = v.rejected + x
              /\ n.owed = v.owed /\ n.errors = v.errors /\ n.channel = v.channel
            BY <1>1, <1>3, <1>12 DEF RunRecords
        <3> HIDE DEF n
        <3> QED  BY <1>1, <1>3, <1>5, <2>1, <2>2, <2>4, <3>1 DEF PostedFrom
    <2> HIDE DEF n
    <2> QED  BY <2>5, PostedOK
<1> HIDE DEF n
<1>8. \A q \in DOMAIN d.from : RunOK(run'[q], q, d, held')
    <2> SUFFICES ASSUME NEW q \in DOMAIN d.from
                 PROVE  RunOK(run'[q], q, d, held')
        OBVIOUS
    <2>1. CASE q = w
        BY <1>1, <1>3, <1>7, <2>1 DEF FInv, Workers
    <2>2. CASE q # w
        <3>1. run'[q] = run[q] /\ RunOK(run[q], q, d, held)
            BY <1>3, <2>2 DEF FInv, Workers
        <3> QED  BY <1>1, <1>4, <3>1, MoreHeld
    <2> QED  BY <2>1, <2>2
<1>9. run' = [q \in DOMAIN d.from |-> run'[q]]
    BY <1>1, <1>3 DEF FInv, Workers
<1>10. ClaimsOK(claims', unread', d, held')
    <2>1. /\ claims \in [Relays -> [IdsOf(d) -> Nat]] /\ d.maxUnread \in Nat
          /\ unread \in [Relays -> [IdsOf(d) -> 0 .. d.maxUnread]]
        BY <1>1, Deployment DEF FInv, ClaimsOK
    <2> DEFINE C == claims[t][b.id]
               U == unread[t][b.id]
    <2>2. /\ C \in Nat /\ U \in 0 .. d.maxUnread
          /\ C <= U \/ (C = 1 + U /\ b.id \in IdsAt(held, t))
        BY <1>1, <1>2, <2>1 DEF FInv, ClaimsOK
    <2>3. \A r \in Relays, i \in IdsOf(d) : i \in IdsAt(held, r) => i \in IdsAt(held', r)
        BY <1>4 DEF IdsAt
    <2>4. /\ claims'[t][b.id] = C + f /\ unread'[t][b.id] = U + lost
          /\ C + f \in Nat /\ U + lost \in 0 .. d.maxUnread
        <3>1. C + f \in Nat /\ U + lost \in 0 .. d.maxUnread
            BY <1>5, <1>6, <2>1, <2>2
        <3> QED  BY <1>1, <1>2, <1>3, <2>1, <3>1
    <2>5. /\ claims' \in [Relays -> [IdsOf(d) -> Nat]]
          /\ unread' \in [Relays -> [IdsOf(d) -> 0 .. d.maxUnread]]
        BY <1>1, <1>2, <1>3, <2>1, <2>4
    <2>6. \A r \in Relays, i \in IdsOf(d) :
            (r # t \/ i # b.id) => claims'[r][i] = claims[r][i] /\ unread'[r][i] = unread[r][i]
        BY <1>1, <1>2, <1>3, <2>1
    <2>7. f = 1 => b.id \in IdsAt(held', t)
        BY <1>4, <1>5, <1>6
    <2>8. C + f <= U + lost \/ (C + f = 1 + (U + lost) /\ b.id \in IdsAt(held', t))
        BY <1>1, <1>2, <1>5, <1>6, <2>2, <2>3, <2>7
    <2>9. ASSUME NEW r \in Relays, NEW i \in IdsOf(d)
          PROVE  \/ claims'[r][i] <= unread'[r][i]
                 \/ claims'[r][i] = 1 + unread'[r][i] /\ i \in IdsAt(held', r)
        <3>1. CASE r = t /\ i = b.id
            BY <2>4, <2>8, <3>1
        <3>2. CASE r # t \/ i # b.id
            BY <2>3, <2>6, <2>9, <3>2 DEF FInv, ClaimsOK
        <3> QED  BY <3>1, <3>2
    <2> QED  BY <2>5, <2>9 DEF ClaimsOK
<1>11. OriginOK(origin', d, held')
    <2>1. CASE ~sent
        BY <1>3, <2>1 DEF FInv
    <2>2. CASE sent
        <3>1. v.mode \in d.channels \cup {None} /\ w \in Workers
            BY <1>1 DEF RunRecords
        <3>2. Brought(w, v.mode) \in Carriers(d)
            BY <1>1, <3>1 DEF Carriers
        <3>3. /\ d.from[w] \in d.honest /\ v.mode # None => v.mode = ChannelOf(b)
              /\ d.from[w] \in d.honest /\ v.mode = None =>
                   ChannelOf(b) \in Advertised(held, d.from[w])
            BY <1>1 DEF RunOK, Hidden, Meets
        <3>4. Explained(Brought(w, v.mode), b, t, d, held)
            BY <1>1, <3>3 DEF Explained, Brought
        <3> QED  BY <1>1, <1>2, <1>3, <2>2, <3>2, <3>4, CreditExplains
    <2> QED  BY <2>1, <2>2
<1> QED  BY <1>1, <1>2, <1>3, <1>4, <1>8, <1>9, <1>10, <1>11 DEF FInv, Workers

\* Every step keeps the invariant.
LEMMA NextFInv == FInv /\ [Next]_vars => FInv'
<1> SUFFICES ASSUME FInv, [Next]_vars
             PROVE  FInv'
    OBVIOUS
<1>1. ASSUME UNCHANGED vars
      PROVE  FInv'
    BY <1>1 DEF vars, FInv, Workers
<1>2. ASSUME NEW w \in Workers, WorkerStep(w) \/ StartAdvertised(w) \/ Kill(w)
      PROVE  FInv'
    BY <1>2, GatheringKeeps, ProcessingKeeps, PostKeeps DEF WorkerStep
<1> QED  BY <1>1, <1>2, PublishKeeps, GatheringKeeps DEF Next

\* What a run remembers of what it owes is right in every reachable state.
THEOREM FederationInvariant == Spec => []FInv
<1> QED  BY InitFInv, NextFInv, PTL DEF Spec

\* Relays, runs and counts always have their types.
THEOREM FederationTypes == Spec => []TypeOK
<1>1. FInv => TypeOK
    <2> SUFFICES ASSUME FInv
                 PROVE  TypeOK
        OBVIOUS
    <2>1. \A w \in Workers : run[w] \in RunRecords(deployment) /\ Phases(run[w])
        BY DEF FInv, RunOK
    <2> QED  BY <2>1 DEF FInv, TypeOK, HeldOK, ClaimsOK, RunRecords, Phases, Parts, Counters, Names,
                         IdsOf, Ids, Bodies, Channels, MaxUnread
<1> QED  BY <1>1, FederationInvariant, PTL

\* A run of sync that reports neither errors nor rejections has carried over
\* all that the channels of an honest source held when it began, whatever
\* other workers and clients do.
THEOREM SyncIsComplete == Spec => []SyncComplete
<1>1. FInv => SyncComplete
    <2> SUFFICES ASSUME FInv, NEW w \in Workers, run[w].pc = "done", From[w] \in honest,
                        ~run[w].errors, run[w].rejected = 0, NEW b \in run[w].owed
                 PROVE  b.id \in HeldIds(To[w])
        BY DEF SyncComplete
    <2>1. Due(b, run[w], w, deployment, held) /\ run[w].gathered = {}
        BY DEF FInv, RunOK, Complete, Phases, From, honest
    <2> QED  BY <2>1 DEF Due, IdsAt, HeldIds, To
<1> QED  BY <1>1, FederationInvariant, PTL

\* No two runs of sync claim to have forwarded the same assertion to a relay,
\* unless the body of an answer 200 could not be read.
THEOREM ForwardsOnce == Spec => []ForwardedOnce
<1>1. FInv => ForwardedOnce
    <2> SUFFICES ASSUME FInv, NEW r \in Relays, NEW i \in Ids
                 PROVE  claims[r][i] <= 1 + unread[r][i]
        BY DEF ForwardedOnce
    <2>1. deployment.maxUnread \in Nat /\ i \in IdsOf(deployment)
        BY Deployment DEF FInv, Ids, IdsOf, Bodies
    <2>2. /\ claims[r][i] \in Nat /\ unread[r][i] \in 0 .. deployment.maxUnread
          /\ claims[r][i] <= unread[r][i] \/ claims[r][i] = 1 + unread[r][i]
        BY <2>1 DEF FInv, ClaimsOK
    <2> QED  BY <2>1, <2>2
<1> QED  BY <1>1, FederationInvariant, PTL

\* The diagnostics of sync add up and name nothing as arrived that is not.
THEOREM BooksBalance == Spec => []Accounts
<1>1. FInv => Accounts
    <2> SUFFICES ASSUME FInv, NEW w \in Workers
                 PROVE  LET v == run[w] IN
                        /\ v.arrived \subseteq v.processed /\ v.arrived \subseteq HeldIds(To[w])
                        /\ v.forwarded + v.duplicates = Cardinality(v.arrived)
                        /\ v.rejected = Cardinality(v.processed) - Cardinality(v.arrived)
                        /\ v.valid >= Cardinality(v.processed)
        BY DEF Accounts
    <2> DEFINE v == run[w]
    <2>1. v \in RunRecords(deployment) /\ Balanced(v) /\ Arrived(v, w, deployment, held)
        BY DEF FInv, RunOK
    <2>2. v.forwarded \in Nat /\ v.duplicates \in Nat /\ v.rejected \in Nat
        BY <2>1 DEF RunRecords
    <2>3. v.arrived \subseteq HeldIds(To[w])
        BY <2>1 DEF Arrived, IdsAt, HeldIds, To
    <2> HIDE DEF v
    <2>4. /\ v.arrived \subseteq v.processed /\ v.valid >= Cardinality(v.processed)
          /\ v.forwarded + v.duplicates + v.rejected = Cardinality(v.processed)
          /\ v.forwarded + v.duplicates = Cardinality(v.arrived)
        BY <2>1 DEF Balanced
    <2>5. v.rejected = Cardinality(v.processed) - Cardinality(v.arrived)
        BY <2>2, <2>4
    <2> QED  BY <2>3, <2>4, <2>5 DEF v
<1> QED  BY <1>1, FederationInvariant, PTL

\* How an assertion came to a relay: from a client, from a source that is not
\* honest, or from an honest one along a described or a named channel.
THEOREM CapabilitiesStayHidden == Spec => []CapabilityStaysHidden
<1>1. FInv => CapabilityStaysHidden
    <2> SUFFICES ASSUME FInv, NEW r \in Relays, NEW b \in held[r]
                 PROVE  LET o == origin[r][b.id] IN
                        \/ o = Client
                        \/ /\ o.by = "worker" /\ To[o.worker] = r
                           /\ \/ From[o.worker] \notin honest
                              \/ o.mode = ChannelOf(b)
                              \/ /\ o.mode = None
                                 /\ \E d \in held[From[o.worker]] :
                                      d.type = "channel" /\ d.id = ChannelOf(b)
        BY DEF CapabilityStaysHidden
    <2>1. Explained(origin[r][b.id], b, r, deployment, held)
        BY DEF FInv, OriginOK
    <2>2. \A q : ChannelOf(b) \in Advertised(held, q) =>
            \E d \in held[q] : d.type = "channel" /\ d.id = ChannelOf(b)
        BY DEF Advertised
    <2> QED  BY <2>1, <2>2 DEF Explained, From, To, honest
<1> QED  BY <1>1, FederationInvariant, PTL
=============================================================================
