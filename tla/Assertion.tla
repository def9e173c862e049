------------------------------ MODULE Assertion ------------------------------
(***************************************************************************)
(* An assertion from the miner to the validators: mine of the agents       *)
(* (examples/agent-a/agent.py, examples/agent-b/agent.ts) searches a       *)
(* nonce, and what arrives at the validators of module Verifier is what it *)
(* made or a message that differs from it in some respects.  Such a        *)
(* message, as it is or without its id and sig, may also be handed to      *)
(* mine_and_sign of protocol.py, which takes any object and any key.       *)
(*                                                                         *)
(* The hash of a candidate is any member of Hashes.  A message is altered  *)
(* in whole: an altered one may be as well mined and signed as the first,  *)
(* or not, because jcs, h, id and sig are altered too.                     *)
(***************************************************************************)
EXTENDS Verifier

CONSTANTS
    Drafts,      \* messages to be mined, with jcs the length without a nonce
    Hashes,
    Alterations, \* per member the values it may have instead
    EnvelopeSize, \* what an id or a sig adds to a canonical form
    MaxChanges,  \* bound: in how many respects a message differs
    Nonces,      \* bound: where mine_and_sign may find what it looks for
    Pow10        \* powers of ten: [0..NonceDigits -> Nat]

VARIABLES
    draft,    \* what is being mined
    phase,    \* "mining", "mined", "exhausted" or "signed"
    width,    \* digits of the nonce
    nonce,    \* the next candidate
    units,    \* work units of the template of this width
    tried,    \* history: the nonces that were tried
    msg,      \* what the validators get
    changes,  \* in how many respects it differs from what was mined
    given     \* history: what mine_and_sign was given

vars == <<draft, phase, width, nonce, units, tried, msg, changes, given>>

\* Was the object without id and sig (bare), the key that of its actor (own)?
NothingGiven == [bare |-> TRUE, own |-> TRUE]

ASSUME AssertionAssumption ==
    /\ Hashes \subseteq Nat /\ MaxChanges \in Nat /\ EnvelopeSize \in Nat /\ Nonces \subseteq 0..MaxNonce
    /\ Pow10 \in [0..NonceDigits -> Nat] /\ Pow10[0] = 1
    /\ \A w \in 1..NonceDigits : Pow10[w] = 10 * Pow10[w - 1]
    /\ MaxNonce < Pow10[NonceDigits]
    /\ \A n \in DOMAIN Alterations : n \in Members /\ \A x \in Alterations[n] : IsMember(n, x)

\* U as an agent builds it: of version 1 and well formed but for its nonce,
\* which mine adds, with room for that below the largest canonical form.  It
\* has no ext: mine looks for the first "nonce":" of the template, and ext
\* comes before the nonce there.
ASSUME DraftsAssumption ==
    \A d \in Drafts :
        /\ IsMessage(d) /\ Clean(d) /\ d.v.kind = "number" /\ IsOne(d.v) /\ ~Has(d.ext)
        /\ \A w \in 1..NonceDigits, n \in 0..MaxNonce :
             WellFormed([d EXCEPT !.nonce = [kind |-> "string", form |-> "decimal",
                                             digits |-> w, value |-> n],
                                  !.jcs = @ + w])

\* The nonces of one width.
Lo(w) == IF w = 1 THEN 0 ELSE Pow10[w - 1]
Hi_OffByOne(w)  == IF Pow10[w] - 1 > MaxNonce THEN MaxNonce ELSE Pow10[w] - 2
Hi(w)           == IF Pow10[w] - 1 > MaxNonce THEN MaxNonce ELSE Pow10[w] - 1

\* The canonical form with a nonce of this width, and the envelope around
\* it: is its id the hash of what it encloses, does its sig verify?
Sealed(d, w, n, h, match, verifies) ==
    [d EXCEPT !.nonce = [kind |-> "string", form |-> "decimal", digits |-> w, value |-> n],
              !.jcs = @ + w, !.h = h,
              !.id = [kind |-> "string", form |-> "sha256", match |-> match],
              !.sig = [kind |-> "string", form |-> "hex128", verifies |-> verifies]]

\* An agent encloses the object it has hashed, and signs as its actor.
Envelope(d, w, n, h) == Sealed(d, w, n, h, TRUE, TRUE)

\* The units of the template, computed once per width.
TemplateUnits_OfFirstWidth(d, w) == PyUnits(Envelope(d, 1, Lo(1), 0))
TemplateUnits(d, w)              == PyUnits(Envelope(d, w, Lo(w), 0))

Mining(d) ==
    /\ draft' = d /\ phase' = "mining" /\ msg' = d
    /\ width' = 1 /\ nonce' = Lo(1) /\ units' = TemplateUnits(d, 1)
    /\ tried' = {} /\ changes' = 0 /\ given' = NothingGiven

Init ==
    /\ draft \in Drafts /\ phase = "mining" /\ msg = draft
    /\ width = 1 /\ nonce = Lo(1) /\ units = TemplateUnits(draft, 1)
    /\ tried = {} /\ changes = 0 /\ given = NothingGiven

\* A candidate that has the work for its width is signed and sent.
Found(h) ==
    /\ phase = "mining" /\ h <= Target(units)
    /\ phase' = "mined"
    /\ msg' = Envelope(draft, width, nonce, h)
    /\ tried' = tried \cup {nonce}
    /\ UNCHANGED <<draft, width, nonce, units, changes, given>>

\* One that has not is followed by the next of its width ...
Missed(h) ==
    /\ phase = "mining" /\ h > Target(units) /\ nonce < Hi(width)
    /\ nonce' = nonce + 1
    /\ tried' = tried \cup {nonce}
    /\ UNCHANGED <<draft, phase, width, units, msg, changes, given>>

\* ... or the first of the next width, or there is none left.
WidthDone(h) ==
    /\ phase = "mining" /\ h > Target(units) /\ nonce >= Hi(width)
    /\ tried' = tried \cup {nonce}
    /\ IF width = NonceDigits \/ Lo(width + 1) > MaxNonce
       THEN phase' = "exhausted" /\ UNCHANGED <<width, nonce, units>>
       ELSE /\ width' = width + 1
            /\ nonce' = Lo(width + 1)
            /\ units' = TemplateUnits(draft, width + 1)
            /\ UNCHANGED phase
    /\ UNCHANGED <<draft, msg, changes, given>>

\* Another message arrives that differs from this one in one more respect.
Alter(member, value) ==
    /\ phase = "mined" /\ changes < MaxChanges
    /\ msg[member] # value
    /\ msg' = [msg EXCEPT ![member] = value]
    /\ changes' = changes + 1
    /\ UNCHANGED <<draft, phase, width, nonce, units, tried, given>>

\* mine_and_sign takes the nonce out of the object and nothing else: a
\* candidate has its id and sig, which become part of what is hashed.
Bare(u)     == ~Has(u.id) /\ ~Has(u.sig)
Strip(m)    == [m EXCEPT !.id = Absent, !.sig = Absent]
WithNonce(u) ==
    IF Has(u.nonce) THEN u
    ELSE [u EXCEPT !.nonce = [kind |-> "string", form |-> "decimal", digits |-> 1, value |-> 0]]
Candidate(u, w) ==
    [u EXCEPT !.jcs = @ + w + (IF Has(u.id) THEN EnvelopeSize ELSE 0)
                            + (IF Has(u.sig) THEN EnvelopeSize ELSE 0)]

\* What it returns has the new id and sig in their places, so that for one
\* who takes those away it is another object, with another hash, than the
\* candidate was.  The key is not compared with the actor.
Signed(u, own, w, n, g) == Sealed(u, w, n, g, Bare(u), Bare(u) /\ own)

\* The object has passed check_schema, with the nonce 0 if it has none; h is
\* the hash of the candidate, and the nonce n of w digits the first for which
\* it is enough; g is the hash of what is returned.  What it refuses it leaves.
MineAndSign_AnyLength(u, own, w, n, h, g) ==
    LET e == Signed(u, own, w, n, g)
    IN  /\ phase = "mined" /\ n \in Lo(w)..Hi(w) /\ (Bare(u) => g = h)
        /\ Clean(u) /\ PySchema(WithNonce(u)) = "ok"
        /\ h <= Target(PyUnits(Candidate(u, w)))
        /\ phase' = "signed" /\ msg' = e /\ given' = [bare |-> Bare(u), own |-> own]
        /\ UNCHANGED <<draft, width, nonce, units, tried, changes>>

MineAndSign(u, own, w, n, h, g) ==
    LET e == Signed(u, own, w, n, g)
    IN  /\ phase = "mined" /\ n \in Lo(w)..Hi(w) /\ (Bare(u) => g = h)
        /\ Clean(u) /\ PySchema(WithNonce(u)) = "ok"
        /\ Candidate(u, w).jcs <= MaxJcs /\ h <= Target(PyUnits(Candidate(u, w)))
        /\ phase' = "signed" /\ msg' = e /\ given' = [bare |-> Bare(u), own |-> own]
        /\ UNCHANGED <<draft, width, nonce, units, tried, changes>>

\* The next assertion is mined.
Again(d) == phase # "mining" /\ Mining(d)

Next ==
    \/ \E h \in Hashes : Found(h) \/ Missed(h) \/ WidthDone(h)
    \/ \E n \in DOMAIN Alterations : \E x \in Alterations[n] : Alter(n, x)
    \/ \E u \in {msg, Strip(msg)}, own \in BOOLEAN, w \in 1..NonceDigits, n \in Nonces :
         \E h, g \in Hashes : MineAndSign(u, own, w, n, h, g)
    \/ \E d \in Drafts : Again(d)

Spec == Init /\ [][Next]_vars

-----------------------------------------------------------------------------
\* The miner's counters, and every message is one.
TypeOK ==
    /\ draft \in Drafts /\ phase \in {"mining", "mined", "exhausted", "signed"}
    /\ width \in 1..NonceDigits /\ nonce \in 0..MaxNonce /\ units \in Nat
    /\ changes \in 0..MaxChanges /\ given \in [bare : BOOLEAN, own : BOOLEAN]
    /\ phase # "mining" => tried # {}
    /\ phase \in {"mined", "signed"} => IsMessage(msg)

\* The three validators give every message the same status, which is the
\* one the protocol asks for, although they look at its members in different
\* orders, count units differently and stop at the first fault.
AgreeOnStatus ==
    phase = "mined" =>
        /\ StatusOf(PyVerdict(msg)) = Status(msg)
        /\ StatusOf(TsVerdict(msg)) = Status(msg)
        /\ StatusOf(GoVerdict(msg)) = Status(msg)

\* The Python and the TypeScript validator name the same first fault, but
\* where a byte order mark precedes bytes that are not UTF-8 or hold a
\* noncharacter: there scan.ts names the mark and json_input.py what follows.
SameReport ==
    phase = "mined" =>
        (PyVerdict(msg) = TsVerdict(msg) <=> ~(msg.input.bom /\ msg.input.bytes # "ok"))

\* What a miner sends is valid: it has the work of its own length, also when
\* a wider nonce made the canonical form longer than a kilobyte.
MinedIsValid == phase = "mined" /\ changes = 0 => Status(msg) = "valid"

\* What becomes of an envelope that mine_and_sign returns: every validator
\* takes it if the object had no id and no sig and the key was its actor's,
\* so its own checks leave nothing else out.  Otherwise all of them refuse
\* it, for its id if the object had one or a sig, else for its signature.
SignedIsValid ==
    LET fate == IF ~given.bare THEN "id-mismatch" ELSE IF ~given.own THEN "signature" ELSE "valid"
    IN  phase = "signed" => {PyVerdict(msg), TsVerdict(msg), GoVerdict(msg)} = {fate}

\* A miner that gives up has tried every nonce.
ExhaustedMeansAll == phase = "exhausted" => tried = 0..MaxNonce
=============================================================================
