------------------------------ MODULE Verifier ------------------------------
(***************************************************************************)
(* The three validators of an assertion (section 20): protocol.py,         *)
(* check.ts and verify.go with ident.go.  Each is a ladder of early        *)
(* returns, and their orders differ.  A verdict here is the reason of the  *)
(* first check that fails, or "valid".                                     *)
(*                                                                         *)
(* A message is a record: input, what is wrong with the bytes as JSON; per *)
(* member a JSON value by what the checks tell apart; unknown (is there a  *)
(* member outside the core) and what the bytes determine: jcs, the length  *)
(* of the canonical form, and h, its hash as a number.  A value has a      *)
(* kind; a string has a form (the grammar it fits), a nonce its digits and *)
(* value, a locator its bytes, an id whether it matches the hash, a sig    *)
(* whether it verifies; an array has els, an object its members.           *)
(*                                                                         *)
(* In input, bom says whether a byte order mark comes first, bytes what is *)
(* first wrong with the characters, and syntax what the parser says of the *)
(* text after the mark, "not-object" if it is another value.               *)
(*                                                                         *)
(* Op_What beside Op is Op with a plausible mistake, as in DurableRelay.   *)
(***************************************************************************)
EXTENDS Integers, Sequences

CONSTANTS
    MaxJcs, MaxLocators, MaxLocatorBytes, MaxParents, MaxCreated,
    MaxNonce,          \* 2^64 - 1 in the code
    NonceDigits,       \* its decimal digits, 20 in the code
    MaxH, UnitScale    \* 2^256 - 1 and 65536 in the code

ASSUME LimitsAssumption ==
    /\ {MaxJcs, MaxLocators, MaxLocatorBytes, MaxParents, MaxCreated, MaxNonce, MaxH} \subseteq Nat
    /\ NonceDigits \in Nat \ {0} /\ UnitScale \in Nat \ {0}

Absent == [kind |-> "absent"]

Has(x)        == x.kind # "absent"
IsString(x)   == x.kind = "string"
IsSha256(x)   == IsString(x) /\ x.form = "sha256"
IsOne(x)      == x.value = 1 /\ x.integral
Is(m, type)   == IsString(m.type) /\ m.type.form = type
Clean(m)      == ~m.input.bom /\ m.input.bytes = "ok" /\ m.input.syntax = "ok"
Required      == {"v", "type", "actor", "created", "nonce"}
RefMembers    == {"hash", "locators"}

\* What is wrong with one element, and with the first bad element, of a list.
LocatorFault(l) ==
    IF ~IsString(l) THEN "schema" ELSE
    IF l.bytes > MaxLocatorBytes THEN "locator-too-long" ELSE "ok"
ParentFault(p) == IF IsSha256(p) THEN "ok" ELSE "identifier"

FirstFault(faults) ==
    LET bad == {i \in DOMAIN faults : faults[i] # "ok"}
    IN  IF bad = {} THEN "ok" ELSE faults[CHOOSE i \in bad : \A j \in bad : i <= j]

Target(units) == MaxH \div (units * UnitScale)

-----------------------------------------------------------------------------
(* protocol.py *)

PyLocators(m) == IF Is(m, "pointer") THEN Len(m.ref.locators.els)
                 ELSE IF Has(m.descriptor) THEN Len(m.descriptor.locators.els) ELSE 0
PyParents(m)  == IF Is(m, "pointer") /\ Has(m.parents) THEN Len(m.parents.els) ELSE 0

\* work_units; math.ceil(jcs_len / 1024).
PyUnits(m) == 1 - ((-m.jcs) \div 1024) + PyLocators(m) + PyParents(m)
                + (IF Is(m, "pointer") THEN 0 ELSE 16)

\* _check_ref
PyRef(x) ==
    IF x.kind # "object" THEN "schema" ELSE
    IF x.members # RefMembers THEN "schema" ELSE
    IF ~IsSha256(x.hash) THEN "identifier" ELSE
    IF x.locators.kind # "array" THEN "schema" ELSE
    IF Len(x.locators.els) > MaxLocators THEN "too-many-locators" ELSE
    FirstFault([i \in DOMAIN x.locators.els |-> LocatorFault(x.locators.els[i])])

\* The members a pointer has, and those of a channel description.
PyPointer(m) ==
    IF Has(m.descriptor) \/ ~Has(m.channel) \/ ~Has(m.ref) THEN "schema" ELSE
    IF ~IsSha256(m.channel) THEN "identifier" ELSE
    IF PyRef(m.ref) # "ok" THEN PyRef(m.ref) ELSE
    IF ~Has(m.parents) THEN "ok" ELSE
    IF m.parents.kind # "array" THEN "schema" ELSE
    IF Len(m.parents.els) > MaxParents THEN "too-many-parents" ELSE
    FirstFault([i \in DOMAIN m.parents.els |-> ParentFault(m.parents.els[i])])

PyChannel(m) ==
    IF Has(m.channel) \/ Has(m.parents) \/ Has(m.ref) THEN "schema" ELSE
    IF Has(m.descriptor) THEN PyRef(m.descriptor) ELSE "ok"

\* check_schema
PySchema(m) ==
    IF m.unknown THEN "schema" ELSE
    IF \E n \in Required : ~Has(m[n]) THEN "schema" ELSE
    IF m.v.kind # "number" THEN "schema" ELSE
    IF ~IsOne(m.v) THEN "unknown-v" ELSE
    IF ~Is(m, "channel") /\ ~Is(m, "pointer") THEN "unknown-type" ELSE
    IF ~IsString(m.actor) \/ m.actor.form # "ed25519" THEN "identifier" ELSE
    IF m.created.kind # "number" \/ ~m.created.integral THEN "created" ELSE
    IF m.created.value < 0 \/ m.created.value > MaxCreated THEN "created" ELSE
    IF ~IsString(m.nonce) \/ m.nonce.form # "decimal" \/ m.nonce.digits > NonceDigits
       THEN "nonce" ELSE
    IF m.nonce.value > MaxNonce THEN "nonce" ELSE
    IF Has(m.ext) /\ m.ext.kind # "object" THEN "schema" ELSE
    IF Is(m, "pointer") THEN PyPointer(m) ELSE PyChannel(m)

\* parse_object: the decoder, a scan of the characters, the parser, which
\* takes a byte order mark for an unexpected character.
PyInput(m) ==
    IF m.input.bytes # "ok" THEN m.input.bytes ELSE
    IF m.input.bom THEN "invalid-json" ELSE m.input.syntax

\* validate_bytes and validate_object
PyVerdict(m) ==
    IF PyInput(m) # "ok" THEN PyInput(m) ELSE
    IF m.v.kind = "number" /\ ~IsOne(m.v) THEN "unknown-v" ELSE
    IF PySchema(m) # "ok" THEN PySchema(m) ELSE
    IF m.jcs > MaxJcs THEN "jcs-too-large" ELSE
    IF ~IsString(m.id) THEN "missing-id" ELSE
    IF ~m.id.match THEN "id-mismatch" ELSE
    IF m.h > Target(PyUnits(m)) THEN "insufficient-work" ELSE
    IF ~IsString(m.sig) \/ m.sig.form # "hex128" THEN "signature" ELSE
    IF ~m.sig.verifies THEN "signature" ELSE "valid"

-----------------------------------------------------------------------------
(* check.ts *)

\* unitsOf
TsUnits(m) ==
    LET loc     == IF Is(m, "pointer") THEN Len(m.ref.locators.els)
                   ELSE IF m.descriptor.kind = "object" THEN Len(m.descriptor.locators.els) ELSE 0
        parents == IF Is(m, "pointer") /\ m.parents.kind = "array" THEN Len(m.parents.els) ELSE 0
    IN  1 - ((-m.jcs) \div 1024) + loc + parents + (IF Is(m, "channel") THEN 16 ELSE 0)

\* needRef
TsRef_CountFirst(x) ==
    IF x.kind # "object" THEN "schema" ELSE
    IF x.members # RefMembers THEN "schema" ELSE
    IF x.locators.kind # "array" THEN "schema" ELSE
    IF Len(x.locators.els) > MaxLocators THEN "too-many-locators" ELSE
    IF ~IsSha256(x.hash) THEN "identifier" ELSE
    FirstFault([i \in DOMAIN x.locators.els |-> LocatorFault(x.locators.els[i])])

TsRef(x) ==
    IF x.kind # "object" THEN "schema" ELSE
    IF x.members # RefMembers THEN "schema" ELSE
    IF ~IsSha256(x.hash) THEN "identifier" ELSE
    IF x.locators.kind # "array" THEN "schema" ELSE
    IF Len(x.locators.els) > MaxLocators THEN "too-many-locators" ELSE
    FirstFault([i \in DOMAIN x.locators.els |-> LocatorFault(x.locators.els[i])])

\* The last part of schemaOk.
TsMembers(m) ==
    IF Is(m, "pointer")
    THEN IF Has(m.descriptor) \/ ~Has(m.channel) \/ ~Has(m.ref) THEN "schema" ELSE
         IF ~IsSha256(m.channel) THEN "identifier" ELSE
         IF TsRef(m.ref) # "ok" THEN TsRef(m.ref) ELSE
         IF ~Has(m.parents) THEN "ok" ELSE
         IF m.parents.kind # "array" THEN "schema" ELSE
         IF Len(m.parents.els) > MaxParents THEN "too-many-parents" ELSE
         FirstFault([i \in DOMAIN m.parents.els |-> ParentFault(m.parents.els[i])])
    ELSE IF Has(m.channel) \/ Has(m.parents) \/ Has(m.ref) THEN "schema" ELSE
         IF Has(m.descriptor) THEN TsRef(m.descriptor) ELSE "ok"

\* schemaOk
TsSchema(m) ==
    IF m.unknown THEN "schema" ELSE
    IF \E n \in Required : ~Has(m[n]) THEN "schema" ELSE
    IF m.v.kind # "number" THEN "schema" ELSE
    IF ~IsOne(m.v) THEN "unknown-v" ELSE
    IF ~Is(m, "channel") /\ ~Is(m, "pointer") THEN "unknown-type" ELSE
    IF ~IsString(m.actor) \/ m.actor.form # "ed25519" THEN "identifier" ELSE
    IF m.created.kind # "number" \/ ~m.created.integral THEN "created" ELSE
    IF m.created.value < 0 \/ m.created.value > MaxCreated THEN "created" ELSE
    IF ~IsString(m.nonce) \/ m.nonce.form # "decimal" \/ m.nonce.digits > NonceDigits
       THEN "nonce" ELSE
    IF m.nonce.value > MaxNonce THEN "nonce" ELSE
    IF Has(m.ext) /\ m.ext.kind # "object" THEN "schema" ELSE TsMembers(m)

\* scanObject: the byte order mark before anything else.
TsInput(m) ==
    IF m.input.bom THEN "invalid-json" ELSE
    IF m.input.bytes # "ok" THEN m.input.bytes ELSE m.input.syntax

\* validate and validateObj
TsVerdict(m) ==
    IF TsInput(m) # "ok" THEN TsInput(m) ELSE
    IF m.v.kind = "number" /\ ~IsOne(m.v) THEN "unknown-v" ELSE
    IF TsSchema(m) # "ok" THEN TsSchema(m) ELSE
    IF m.jcs > MaxJcs THEN "jcs-too-large" ELSE
    IF ~IsString(m.id) THEN "missing-id" ELSE
    IF ~m.id.match THEN "id-mismatch" ELSE
    IF m.h > Target(TsUnits(m)) THEN "insufficient-work" ELSE
    IF ~IsString(m.sig) \/ m.sig.form # "hex128" THEN "signature" ELSE
    IF ~m.sig.verifies THEN "signature" ELSE "valid"

-----------------------------------------------------------------------------
(* verify.go and ident.go: shapes first, then grammars, then limits *)

\* validateReferenceObject
GoReferenceObject(x) ==
    /\ x.kind = "object" /\ x.members = RefMembers
    /\ IsString(x.hash) /\ x.locators.kind = "array"
    /\ \A i \in DOMAIN x.locators.els : IsString(x.locators.els[i])

\* validateSchema
GoSchema(m) ==
    /\ ~m.unknown
    /\ \A n \in Required : Has(m[n])
    /\ m.v.kind = "number" /\ IsString(m.type) /\ IsString(m.actor)
    /\ m.created.kind = "number" /\ IsString(m.nonce)
    /\ Has(m.ext) => m.ext.kind = "object"
    /\ IF Is(m, "pointer")
       THEN /\ ~Has(m.descriptor) /\ IsString(m.channel)
            /\ GoReferenceObject(m.ref)
            /\ Has(m.parents) => /\ m.parents.kind = "array"
                                 /\ \A i \in DOMAIN m.parents.els : IsString(m.parents.els[i])
       ELSE /\ ~Has(m.channel) /\ ~Has(m.parents) /\ ~Has(m.ref)
            /\ Has(m.descriptor) => GoReferenceObject(m.descriptor)

\* validateIdentifiers
GoIdentifiers_NotParents(m) ==
    IF Is(m, "pointer") THEN IsSha256(m.channel) /\ IsSha256(m.ref.hash)
    ELSE Has(m.descriptor) => IsSha256(m.descriptor.hash)

GoIdentifiers(m) ==
    IF Is(m, "pointer")
    THEN /\ IsSha256(m.channel) /\ IsSha256(m.ref.hash)
         /\ Has(m.parents) => \A i \in DOMAIN m.parents.els : IsSha256(m.parents.els[i])
    ELSE Has(m.descriptor) => IsSha256(m.descriptor.hash)

\* isNonce
GoNonce(s) ==
    /\ s.form = "decimal" /\ s.digits <= NonceDigits
    /\ s.digits < NonceDigits \/ s.value <= MaxNonce

\* structuralCounts
GoLocators(m) == IF Is(m, "pointer") THEN m.ref.locators.els
                 ELSE IF Has(m.descriptor) THEN m.descriptor.locators.els ELSE <<>>
GoParents(m)  == IF Is(m, "pointer") /\ Has(m.parents) THEN Len(m.parents.els) ELSE 0

GoUnits(m) == 1 + ((m.jcs + 1023) \div 1024) + Len(GoLocators(m)) + GoParents(m)
                + (IF Is(m, "channel") THEN 16 ELSE 0)

\* Verify.  Its parser meets a noncharacter where it stands in the text, so
\* that input does not tell which fault it reports, only that it reports one.
GoVerdict(m) ==
    IF ~Clean(m) THEN "json-input" ELSE
    IF m.v.kind # "number" THEN "schema" ELSE
    IF ~IsOne(m.v) THEN "unknown-v" ELSE
    IF ~Is(m, "channel") /\ ~Is(m, "pointer") THEN "unknown-type" ELSE
    IF ~GoSchema(m) THEN "schema" ELSE
    IF ~GoIdentifiers(m) THEN "identifier" ELSE
    IF m.actor.form # "ed25519" THEN "identifier" ELSE
    IF ~GoNonce(m.nonce) THEN "nonce" ELSE
    IF ~m.created.integral \/ m.created.value < 0 \/ m.created.value > MaxCreated
       THEN "created" ELSE
    IF m.jcs > MaxJcs THEN "jcs-too-large" ELSE
    IF Len(GoLocators(m)) > MaxLocators THEN "too-many-locators" ELSE
    IF \E i \in DOMAIN GoLocators(m) : GoLocators(m)[i].bytes > MaxLocatorBytes
       THEN "locator-too-long" ELSE
    IF GoParents(m) > MaxParents THEN "too-many-parents" ELSE
    IF ~IsString(m.id) THEN "missing-id" ELSE
    IF m.id.form # "sha256" THEN "identifier" ELSE
    IF ~m.id.match THEN "id-mismatch" ELSE
    IF m.h > Target(GoUnits(m)) THEN "insufficient-work" ELSE
    IF ~IsString(m.sig) \/ m.sig.form # "hex128" THEN "signature" ELSE
    IF ~m.sig.verifies THEN "signature" ELSE "valid"

-----------------------------------------------------------------------------
(* What the protocol asks, without an order. *)

StatusOf(verdict) == IF verdict = "valid" THEN "valid"
                     ELSE IF verdict = "unknown-v" THEN "unsupported" ELSE "invalid"

Reference(x) ==
    /\ x.kind = "object" /\ x.members = RefMembers
    /\ IsSha256(x.hash) /\ x.locators.kind = "array"
    /\ Len(x.locators.els) <= MaxLocators
    /\ \A i \in DOMAIN x.locators.els :
         IsString(x.locators.els[i]) /\ x.locators.els[i].bytes <= MaxLocatorBytes

\* Sections 4, 5, 7A, 17 and 18, but for the length ...
Shaped(m) ==
    /\ ~m.unknown
    /\ IsString(m.actor) /\ m.actor.form = "ed25519"
    /\ m.created.kind = "number" /\ m.created.integral /\ m.created.value \in 0..MaxCreated
    /\ IsString(m.nonce) /\ m.nonce.form = "decimal" /\ m.nonce.value <= MaxNonce
    /\ Has(m.ext) => m.ext.kind = "object"
    /\ \/ /\ Is(m, "pointer") /\ ~Has(m.descriptor)
          /\ IsSha256(m.channel) /\ Reference(m.ref)
          /\ Has(m.parents) => /\ m.parents.kind = "array" /\ Len(m.parents.els) <= MaxParents
                               /\ \A i \in DOMAIN m.parents.els : IsSha256(m.parents.els[i])
       \/ /\ Is(m, "channel") /\ ~Has(m.channel) /\ ~Has(m.ref) /\ ~Has(m.parents)
          /\ Has(m.descriptor) => Reference(m.descriptor)

\* ... and with it.
WellFormed(m) == Shaped(m) /\ m.jcs <= MaxJcs

\* Sections 15 and 16: a unit per started kilobyte, locator and parent, one
\* for the assertion and 16 for a channel.
Units(m) ==
    LET list == IF Is(m, "pointer") THEN m.ref.locators.els
                ELSE IF Has(m.descriptor) THEN m.descriptor.locators.els ELSE <<>>
    IN  1 + ((m.jcs + 1023) \div 1024) + Len(list)
          + (IF Is(m, "pointer")
             THEN IF Has(m.parents) THEN Len(m.parents.els) ELSE 0
             ELSE 16)

Valid(m) ==
    /\ WellFormed(m)
    /\ IsString(m.id) /\ m.id.match
    /\ m.h <= Target(Units(m))
    /\ IsString(m.sig) /\ m.sig.form = "hex128" /\ m.sig.verifies

Status(m) ==
    IF ~Clean(m) THEN "invalid" ELSE
    IF m.v.kind # "number" THEN "invalid" ELSE
    IF ~IsOne(m.v) THEN "unsupported" ELSE
    IF Valid(m) THEN "valid" ELSE "invalid"

\* What the bytes of any message guarantee, member by member: lengths are
\* natural numbers, an array is a sequence, an id that matches a hash fits
\* the grammar, and a number written with fewer digits than 2^64-1 is
\* smaller, one with more digits larger.
Members == {"input", "unknown", "v", "type", "actor", "created", "nonce", "ext", "channel",
            "ref", "parents", "descriptor", "id", "sig", "jcs", "h"}

IsList(x) == x.kind = "array" => Len(x.els) \in Nat /\ DOMAIN x.els = 1..Len(x.els)
IsRef(x)  ==
    x.kind = "object" /\ x.members = RefMembers =>
        /\ IsList(x.locators)
        /\ x.locators.kind = "array" => \A i \in DOMAIN x.locators.els :
             IsString(x.locators.els[i]) => x.locators.els[i].bytes \in Nat

\* The reasons of json_input.py and scan.ts.  Bytes that decode hold no lone
\* surrogate, escapes may.
IsInput(x) ==
    /\ x.bom \in BOOLEAN
    /\ x.bytes \in {"ok", "invalid-utf8", "noncharacter"}
    /\ x.syntax \in {"ok", "invalid-json", "duplicate-member-name", "lone-surrogate",
                     "noncharacter", "non-finite-number", "negative-zero", "not-object"}

IsMember(n, x) ==
    /\ n = "input" => IsInput(x)
    /\ n = "unknown" => x \in BOOLEAN
    /\ n \in {"jcs", "h"} => x \in Nat
    /\ n = "created" => (x.kind = "number" => x.value \in Int)
    /\ n \in {"ref", "descriptor"} => IsRef(x)
    /\ n = "parents" => IsList(x)
    /\ n = "id" => (IsString(x) /\ x.match => x.form = "sha256")
    /\ n = "nonce" => (IsString(x) /\ x.form = "decimal" =>
         /\ x.digits \in Nat /\ x.value \in Nat
         /\ x.digits < NonceDigits => x.value <= MaxNonce
         /\ x.digits > NonceDigits => x.value > MaxNonce)

IsMessage(m) ==
    /\ m = [n \in Members |-> m[n]]
    /\ \A n \in Members : IsMember(n, m[n])
=============================================================================
