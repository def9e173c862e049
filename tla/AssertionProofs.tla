-------------------------- MODULE AssertionProofs --------------------------
(***************************************************************************)
(* The three validators agree on every message, whatever the limits are,   *)
(* what a miner sends is valid, and what spp_verify.py reports is true.    *)
(* They also agree on every signature that is not of a negative zero, and  *)
(* on the strings and numbers of the texts they read.                      *)
(*                                                                         *)
(* A string of any length is read by both programs as the characters its   *)
(* UTF-16 encodes: the state of the loop of Go stands for the units read   *)
(* so far (Fits), and that of Python is the same but for noncharacters     *)
(* (SameRead).  A number of any length is scanned by both as the grammar   *)
(* divides it (Marks); what is read has no zeros at its ends, both writers *)
(* spell it in one of four forms (Form), and a scan of each form finds the *)
(* digits and the exponent again (Spells, ReadBack).                       *)
(***************************************************************************)
EXTENDS SppVerify, Ed25519, JsonScalars, SequenceTheorems, WellFoundedInduction, TLAPS

-----------------------------------------------------------------------------
(***************************************************************************)
(* Lists                                                                   *)
(***************************************************************************)

\* A non-empty set of naturals has a least element.
LEMMA LeastNatural ==
    ASSUME NEW M \in SUBSET Nat, M # {}
    PROVE  \E m \in M : \A x \in M : m <= x
<1>1. PICK m \in M : \A y \in M : ~(<<y, m>> \in OpToRel(<, Nat))
    BY NatLessThanWellFounded, WFMin, Zenon
<1>2. \A y \in M : ~(y < m)
    BY <1>1 DEF OpToRel
<1> QED  BY <1>2

\* The first fault of a list is the fault of one of its elements, so that
\* there is none only when every element is right.
LEMMA FirstFaultIsOne ==
    ASSUME NEW n \in Nat, NEW f, DOMAIN f = 1..n
    PROVE  /\ FirstFault(f) = "ok" <=> \A i \in 1..n : f[i] = "ok"
           /\ FirstFault(f) # "ok" => \E i \in 1..n : FirstFault(f) = f[i]
<1> DEFINE bad == {i \in DOMAIN f : f[i] # "ok"}
<1>1. FirstFault(f) = IF bad = {} THEN "ok" ELSE f[CHOOSE i \in bad : \A j \in bad : i <= j]
    BY DEF FirstFault
<1>2. CASE bad = {}
    BY <1>1, <1>2
<1>3. CASE bad # {}
    <2>1. bad \in SUBSET Nat
        OBVIOUS
    <2>2. \E i \in bad : \A j \in bad : i <= j
        <3> HIDE DEF bad
        <3> QED  BY <2>1, <1>3, LeastNatural
    <2>3. (CHOOSE i \in bad : \A j \in bad : i <= j) \in bad
        <3> HIDE DEF bad
        <3> QED  BY <2>2
    <2> QED  BY <1>1, <1>3, <2>3
<1> QED  BY <1>2, <1>3

\* The locators of a reference: none is at fault, or one is not a string or
\* too long.
LEMMA LocatorFaults ==
    ASSUME NEW x, IsList(x), x.kind = "array",
           \A i \in DOMAIN x.els : IsString(x.els[i]) => x.els[i].bytes \in Nat
    PROVE  LET r == FirstFault([i \in DOMAIN x.els |-> LocatorFault(x.els[i])]) IN
           /\ r = "ok" <=> \A i \in DOMAIN x.els :
                             IsString(x.els[i]) /\ x.els[i].bytes <= MaxLocatorBytes
           /\ r \in {"ok", "schema", "locator-too-long"}
<1> DEFINE f == [i \in DOMAIN x.els |-> LocatorFault(x.els[i])]
<1>1. Len(x.els) \in Nat /\ DOMAIN f = 1..Len(x.els) /\ DOMAIN x.els = 1..Len(x.els)
    BY DEF IsList
<1>2. \A i \in DOMAIN x.els :
        /\ f[i] \in {"ok", "schema", "locator-too-long"}
        /\ f[i] = "ok" <=> IsString(x.els[i]) /\ x.els[i].bytes <= MaxLocatorBytes
    BY LimitsAssumption DEF LocatorFault
<1> HIDE DEF f
<1>3. /\ FirstFault(f) = "ok" <=> \A i \in 1..Len(x.els) : f[i] = "ok"
      /\ FirstFault(f) # "ok" => \E i \in 1..Len(x.els) : FirstFault(f) = f[i]
    BY <1>1, FirstFaultIsOne
<1>4. /\ FirstFault(f) = "ok" <=> \A i \in DOMAIN x.els :
                             IsString(x.els[i]) /\ x.els[i].bytes <= MaxLocatorBytes
      /\ FirstFault(f) \in {"ok", "schema", "locator-too-long"}
    BY <1>1, <1>2, <1>3
<1> QED  BY <1>4 DEF f

\* The parents of a pointer: none is at fault, or one does not fit the grammar.
LEMMA ParentFaults ==
    ASSUME NEW x, IsList(x), x.kind = "array"
    PROVE  LET r == FirstFault([i \in DOMAIN x.els |-> ParentFault(x.els[i])]) IN
           /\ r = "ok" <=> \A i \in DOMAIN x.els : IsSha256(x.els[i])
           /\ r \in {"ok", "identifier"}
<1> DEFINE f == [i \in DOMAIN x.els |-> ParentFault(x.els[i])]
<1>1. Len(x.els) \in Nat /\ DOMAIN f = 1..Len(x.els) /\ DOMAIN x.els = 1..Len(x.els)
    BY DEF IsList
<1>2. \A i \in DOMAIN x.els :
        f[i] \in {"ok", "identifier"} /\ (f[i] = "ok" <=> IsSha256(x.els[i]))
    BY DEF ParentFault
<1> HIDE DEF f
<1>3. /\ FirstFault(f) = "ok" <=> \A i \in 1..Len(x.els) : f[i] = "ok"
      /\ FirstFault(f) # "ok" => \E i \in 1..Len(x.els) : FirstFault(f) = f[i]
    BY <1>1, FirstFaultIsOne
<1>4. /\ FirstFault(f) = "ok" <=> \A i \in DOMAIN x.els : IsSha256(x.els[i])
      /\ FirstFault(f) \in {"ok", "identifier"}
    BY <1>1, <1>2, <1>3
<1> QED  BY <1>4 DEF f

-----------------------------------------------------------------------------
(***************************************************************************)
(* One validator at a time                                                 *)
(***************************************************************************)

\* What IsMessage says of the members the checks calculate with.
LEMMA MessageMembers ==
    ASSUME NEW m, IsMessage(m)
    PROVE  /\ m.jcs \in Nat /\ m.h \in Nat /\ IsInput(m.input) /\ m.unknown \in BOOLEAN
           /\ m.created.kind = "number" => m.created.value \in Int
           /\ IsRef(m.ref) /\ IsRef(m.descriptor) /\ IsList(m.parents)
           /\ IsString(m.id) /\ m.id.match => m.id.form = "sha256"
           /\ IsString(m.nonce) /\ m.nonce.form = "decimal" =>
                /\ m.nonce.digits \in Nat /\ m.nonce.value \in Nat
                /\ m.nonce.digits < NonceDigits => m.nonce.value <= MaxNonce
                /\ m.nonce.digits > NonceDigits => m.nonce.value > MaxNonce
    BY DEF IsMessage, Members, IsMember

\* _check_ref lets pass exactly the references of the protocol.
LEMMA PyRefExact ==
    ASSUME NEW x, IsRef(x)
    PROVE  /\ PyRef(x) = "ok" <=> Reference(x)
           /\ PyRef(x) \notin {"valid", "unknown-v"}
<1>1. CASE x.kind = "object" /\ x.members = RefMembers /\ x.locators.kind = "array"
    <2> DEFINE r == FirstFault([i \in DOMAIN x.locators.els |-> LocatorFault(x.locators.els[i])])
    <2>1. /\ r = "ok" <=> \A i \in DOMAIN x.locators.els :
                 IsString(x.locators.els[i]) /\ x.locators.els[i].bytes <= MaxLocatorBytes
          /\ r \in {"ok", "schema", "locator-too-long"}
        BY <1>1, LocatorFaults DEF IsRef
    <2>2. Len(x.locators.els) \in Nat
        BY <1>1 DEF IsRef, IsList
    <2>3. PyRef(x) = IF ~IsSha256(x.hash) THEN "identifier" ELSE
                     IF Len(x.locators.els) > MaxLocators THEN "too-many-locators" ELSE r
        BY <1>1 DEF PyRef
    <2> HIDE DEF r
    <2> QED  BY <1>1, <2>1, <2>2, <2>3, LimitsAssumption DEF Reference
<1>2. CASE ~(x.kind = "object" /\ x.members = RefMembers /\ x.locators.kind = "array")
    BY <1>2 DEF PyRef, Reference
<1> QED  BY <1>1, <1>2

\* check_schema lets pass exactly what sections 4, 5, 7A, 17 and 18 ask of
\* the members ...
LEMMA PySchemaShaped ==
    ASSUME NEW m, IsMessage(m), m.v.kind = "number", IsOne(m.v)
    PROVE  /\ PySchema(m) = "ok" <=> Shaped(m)
           /\ PySchema(m) \notin {"valid", "unknown-v"}
<1> DEFINE r == FirstFault([i \in DOMAIN m.parents.els |-> ParentFault(m.parents.els[i])])
           ParentsOk == Has(m.parents) =>
                           /\ m.parents.kind = "array" /\ Len(m.parents.els) <= MaxParents
                           /\ \A i \in DOMAIN m.parents.els : IsSha256(m.parents.els[i])
           CommonOk ==
              /\ ~m.unknown
              /\ IsString(m.actor) /\ m.actor.form = "ed25519"
              /\ m.created.kind = "number" /\ m.created.integral /\ m.created.value \in 0..MaxCreated
              /\ IsString(m.nonce) /\ m.nonce.form = "decimal" /\ m.nonce.value <= MaxNonce
              /\ Has(m.ext) => m.ext.kind = "object"
           PointerOk == ~Has(m.descriptor) /\ IsSha256(m.channel) /\ Reference(m.ref) /\ ParentsOk
           ChannelOk == /\ ~Has(m.channel) /\ ~Has(m.ref) /\ ~Has(m.parents)
                        /\ Has(m.descriptor) => Reference(m.descriptor)
<1>1. m.parents.kind = "array" =>
        /\ r = "ok" <=> \A i \in DOMAIN m.parents.els : IsSha256(m.parents.els[i])
        /\ r \in {"ok", "identifier"} /\ Len(m.parents.els) \in Nat
    BY MessageMembers, ParentFaults DEF IsList
<1>2. /\ PyRef(m.ref) = "ok" <=> Reference(m.ref)
      /\ PyRef(m.ref) \notin {"valid", "unknown-v"}
      /\ PyRef(m.descriptor) = "ok" <=> Reference(m.descriptor)
      /\ PyRef(m.descriptor) \notin {"valid", "unknown-v"}
    BY MessageMembers, PyRefExact
<1>3. /\ PyPointer(m) = "ok" <=> PointerOk
      /\ PyPointer(m) \notin {"valid", "unknown-v"}
    <2>1. PyPointer(m) =
            IF Has(m.descriptor) \/ ~Has(m.channel) \/ ~Has(m.ref) THEN "schema" ELSE
            IF ~IsSha256(m.channel) THEN "identifier" ELSE
            IF PyRef(m.ref) # "ok" THEN PyRef(m.ref) ELSE
            IF ~Has(m.parents) THEN "ok" ELSE
            IF m.parents.kind # "array" THEN "schema" ELSE
            IF Len(m.parents.els) > MaxParents THEN "too-many-parents" ELSE r
        BY DEF PyPointer
    <2>2. IsSha256(m.channel) => Has(m.channel)
        BY DEF IsSha256, IsString, Has
    <2>3. Reference(m.ref) => Has(m.ref)
        BY DEF Reference, Has
    <2> HIDE DEF r
    <2> QED  BY <1>1, <1>2, <2>1, <2>2, <2>3, LimitsAssumption
<1>4. /\ PyChannel(m) = "ok" <=> ChannelOk
      /\ PyChannel(m) \notin {"valid", "unknown-v"}
    BY <1>2 DEF PyChannel
<1> HIDE DEF r, PointerOk, ChannelOk
<1>5. CommonOk => \A n \in Required : Is(m, "pointer") \/ Is(m, "channel") => Has(m[n])
    BY DEF Required, Has, Is, IsString
<1>6. /\ PySchema(m) = "ok" <=>
            /\ CommonOk
            /\ \/ Is(m, "pointer") /\ PyPointer(m) = "ok"
               \/ Is(m, "channel") /\ PyChannel(m) = "ok"
      /\ PySchema(m) \notin {"valid", "unknown-v"}
    <2>1. Is(m, "pointer") => ~Is(m, "channel")
        BY DEF Is
    <2>2. m.created.kind = "number" =>
            (m.created.value \in 0..MaxCreated
               <=> ~(m.created.value < 0 \/ m.created.value > MaxCreated))
        BY MessageMembers, LimitsAssumption
    <2>3. IsString(m.nonce) /\ m.nonce.form = "decimal" =>
            (m.nonce.value <= MaxNonce
               <=> ~(m.nonce.digits > NonceDigits) /\ ~(m.nonce.value > MaxNonce))
        BY MessageMembers, LimitsAssumption
    <2> QED  BY <1>3, <1>4, <1>5, <2>1, <2>2, <2>3 DEF PySchema
<1>7. Shaped(m) <=> /\ CommonOk
                    /\ \/ Is(m, "pointer") /\ PointerOk
                       \/ Is(m, "channel") /\ ChannelOk
    BY Zenon DEF Shaped, PointerOk, ChannelOk
<1> HIDE DEF CommonOk
<1> QED  BY <1>3, <1>4, <1>6, <1>7, Zenon

\* ... and with the limit on the canonical form exactly the well-formed
\* messages.
LEMMA PySchemaExact ==
    ASSUME NEW m, IsMessage(m), m.v.kind = "number", IsOne(m.v)
    PROVE  /\ PySchema(m) = "ok" /\ ~(m.jcs > MaxJcs) <=> WellFormed(m)
           /\ PySchema(m) \notin {"valid", "unknown-v"}
<1>1. m.jcs <= MaxJcs <=> ~(m.jcs > MaxJcs)
    BY MessageMembers, LimitsAssumption
<1> QED  BY <1>1, PySchemaShaped DEF WellFormed

\* The three ways to round up to a kilobyte.
LEMMA Kilobytes ==
    ASSUME NEW n \in Nat
    PROVE  -((-n) \div 1024) = (n + 1023) \div 1024 /\ (n + 1023) \div 1024 \in Nat
    OBVIOUS

\* The units of a well-formed message are counted alike.
LEMMA SameUnits ==
    ASSUME NEW m, IsMessage(m), WellFormed(m)
    PROVE  /\ PyUnits(m) = Units(m) /\ TsUnits(m) = Units(m) /\ GoUnits(m) = Units(m)
           /\ Units(m) \in Nat \ {0}
<1> DEFINE loc == IF Is(m, "pointer") THEN Len(m.ref.locators.els)
                  ELSE IF Has(m.descriptor) THEN Len(m.descriptor.locators.els) ELSE 0
           par == IF Is(m, "pointer") /\ Has(m.parents) THEN Len(m.parents.els) ELSE 0
           kb  == (m.jcs + 1023) \div 1024
           ext == IF Is(m, "pointer") THEN 0 ELSE 16
<1>1. /\ Is(m, "pointer") <=> ~Is(m, "channel")
      /\ ~Is(m, "pointer") => (Has(m.descriptor) <=> m.descriptor.kind = "object")
      /\ Is(m, "pointer") => (Has(m.parents) <=> m.parents.kind = "array")
    BY DEF WellFormed, Shaped, Is, Has, Reference
<1>2. loc \in Nat /\ par \in Nat /\ kb \in Nat /\ ext \in Nat
    <2>1. kb \in Nat
        BY MessageMembers, Kilobytes
    <2>2. par \in Nat
        BY MessageMembers, <1>1 DEF IsList
    <2>3. Is(m, "pointer") => Reference(m.ref)
        BY <1>1 DEF WellFormed, Shaped
    <2>4. ~Is(m, "pointer") /\ Has(m.descriptor) => Reference(m.descriptor)
        BY <1>1 DEF WellFormed, Shaped
    <2>5. \A x : IsRef(x) /\ Reference(x) => Len(x.locators.els) \in Nat
        BY DEF IsRef, Reference, IsList
    <2>6. loc \in Nat
        BY MessageMembers, <2>3, <2>4, <2>5
    <2> QED  BY <2>1, <2>2, <2>6
<1>3. -((-m.jcs) \div 1024) = kb /\ (-m.jcs) \div 1024 \in Int
    <2>1. PICK j \in Nat : j = m.jcs
        BY MessageMembers
    <2>2. -((-j) \div 1024) = (j + 1023) \div 1024 /\ (-j) \div 1024 \in Int
        BY Kilobytes
    <2> QED  BY <2>1, <2>2
<1>4. PyUnits(m) = 1 - ((-m.jcs) \div 1024) + loc + par + ext
    BY DEF PyUnits, PyLocators, PyParents
<1>5. TsUnits(m) = 1 - ((-m.jcs) \div 1024) + loc + par + ext
    BY <1>1 DEF TsUnits
<1>6. GoUnits(m) = 1 + kb + loc + par + ext
    <2>1. Len(GoLocators(m)) = loc
        BY DEF GoLocators
    <2> QED  BY <2>1, <1>1 DEF GoUnits, GoParents
<1>7. Units(m) = 1 + kb + loc + (IF Is(m, "pointer") THEN par ELSE 16)
    BY DEF Units
<1>8. ~Is(m, "pointer") => par = 0
    OBVIOUS
<1> HIDE DEF loc, par, kb
<1> QED  BY <1>2, <1>3, <1>4, <1>5, <1>6, <1>7, <1>8

\* Hash and target are numbers.
LEMMA WorkIsTotal ==
    ASSUME NEW u \in Nat \ {0}, NEW h \in Nat
    PROVE  h <= Target(u) <=> ~(h > Target(u))
<1>1. u * UnitScale \in Nat \ {0}
    BY LimitsAssumption
<1>2. \A k \in Nat \ {0} : MaxH \div k \in Int
    BY LimitsAssumption
<1>3. Target(u) \in Int
    BY <1>1, <1>2 DEF Target
<1> QED  BY <1>3

\* Both programs find something wrong with the bytes, or neither, and they
\* name the same fault unless the mark hides one of the characters.
LEMMA InputReasons ==
    ASSUME NEW m, IsMessage(m)
    PROVE  /\ PyInput(m) = "ok" <=> Clean(m)
           /\ TsInput(m) = "ok" <=> Clean(m)
           /\ PyInput(m) \notin {"valid", "unknown-v"} /\ TsInput(m) \notin {"valid", "unknown-v"}
           /\ PyInput(m) = TsInput(m) <=> ~(m.input.bom /\ m.input.bytes # "ok")
    BY MessageMembers DEF IsInput, PyInput, TsInput, Clean

\* protocol.py decides what the protocol asks.
LEMMA PyExact ==
    ASSUME NEW m, IsMessage(m)
    PROVE  StatusOf(PyVerdict(m)) = Status(m)
<1>1. CASE ~(Clean(m) /\ m.v.kind = "number" /\ IsOne(m.v))
    <2>1. CASE Clean(m) /\ m.v.kind # "number"
        <3>1. PySchema(m) = "schema"
            BY <2>1 DEF PySchema
        <3> QED  BY <2>1, <3>1, InputReasons DEF PyVerdict, Status, StatusOf
    <2> QED  BY <1>1, <2>1, InputReasons DEF PyVerdict, Status, StatusOf
<1>2. CASE Clean(m) /\ m.v.kind = "number" /\ IsOne(m.v)
    <2>1. /\ PySchema(m) = "ok" /\ ~(m.jcs > MaxJcs) <=> WellFormed(m)
          /\ PySchema(m) \notin {"valid", "unknown-v"}
        BY <1>2, PySchemaExact
    <2>2. WellFormed(m) => (m.h <= Target(Units(m)) <=> ~(m.h > Target(PyUnits(m))))
        BY SameUnits, WorkIsTotal, MessageMembers
    <2>3. Status(m) = IF Valid(m) THEN "valid" ELSE "invalid"
        BY <1>2 DEF Status
    <2>4. PyVerdict(m) = "valid" <=> Valid(m)
        BY <1>2, <2>1, <2>2, InputReasons DEF PyVerdict, Valid
    <2>5. PyVerdict(m) # "unknown-v"
        BY <1>2, <2>1, InputReasons DEF PyVerdict
    <2> QED  BY <2>3, <2>4, <2>5 DEF StatusOf
<1> QED  BY <1>1, <1>2

\* check.ts makes the same report as protocol.py of what is JSON.
LEMMA TsSame ==
    ASSUME NEW m, IsMessage(m), Clean(m)
    PROVE  TsVerdict(m) = PyVerdict(m)
<1>0. PyInput(m) = "ok" /\ TsInput(m) = "ok"
    BY InputReasons
<1>1. \A x : TsRef(x) = PyRef(x)
    BY DEF TsRef, PyRef
<1>2. TsSchema(m) = PySchema(m)
    <2>1. TsMembers(m) = IF Is(m, "pointer") THEN PyPointer(m) ELSE PyChannel(m)
        BY <1>1 DEF TsMembers, PyPointer, PyChannel
    <2> QED  BY <2>1 DEF TsSchema, PySchema
<1>3. CASE m.v.kind = "number" /\ IsOne(m.v) /\ PySchema(m) = "ok" /\ ~(m.jcs > MaxJcs)
    <2>1. WellFormed(m)
        BY <1>3, PySchemaExact
    <2>2. TsUnits(m) = PyUnits(m)
        BY <2>1, SameUnits
    <2> QED  BY <1>0, <1>2, <2>2 DEF TsVerdict, PyVerdict
<1>4. CASE ~(m.v.kind = "number" /\ IsOne(m.v) /\ PySchema(m) = "ok" /\ ~(m.jcs > MaxJcs))
    <2>1. m.v.kind # "number" => PySchema(m) # "ok"
        BY DEF PySchema
    <2> QED  BY <1>0, <1>2, <1>4, <2>1 DEF TsVerdict, PyVerdict
<1> QED  BY <1>3, <1>4

\* A reference that verify.go lets pass: its shape, its hash, its limits.
LEMMA GoRefExact ==
    ASSUME NEW x, IsRef(x)
    PROVE  Reference(x) <=>
             /\ GoReferenceObject(x) /\ IsSha256(x.hash)
             /\ ~(Len(x.locators.els) > MaxLocators)
             /\ ~\E i \in DOMAIN x.locators.els : x.locators.els[i].bytes > MaxLocatorBytes
<1>1. CASE x.kind = "object" /\ x.members = RefMembers /\ x.locators.kind = "array"
    <2>1. Len(x.locators.els) \in Nat
        BY <1>1 DEF IsRef, IsList
    <2>2. \A i \in DOMAIN x.locators.els : IsString(x.locators.els[i]) =>
            (x.locators.els[i].bytes <= MaxLocatorBytes
               <=> ~(x.locators.els[i].bytes > MaxLocatorBytes))
        BY <1>1, LimitsAssumption DEF IsRef
    <2>3. IsSha256(x.hash) => IsString(x.hash)
        BY DEF IsSha256
    <2>4. Len(x.locators.els) <= MaxLocators <=> ~(Len(x.locators.els) > MaxLocators)
        BY <2>1, LimitsAssumption
    <2> QED  BY <1>1, <2>2, <2>3, <2>4 DEF Reference, GoReferenceObject
<1>2. CASE ~(x.kind = "object" /\ x.members = RefMembers /\ x.locators.kind = "array")
    BY <1>2 DEF Reference, GoReferenceObject
<1> QED  BY <1>1, <1>2

\* verify.go, up to the limits, lets pass exactly the well-formed messages.
LEMMA GoShapeExact ==
    ASSUME NEW m, IsMessage(m), m.v.kind = "number", Is(m, "pointer") \/ Is(m, "channel")
    PROVE  WellFormed(m) <=>
             /\ GoSchema(m) /\ GoIdentifiers(m) /\ m.actor.form = "ed25519"
             /\ GoNonce(m.nonce)
             /\ ~(~m.created.integral \/ m.created.value < 0 \/ m.created.value > MaxCreated)
             /\ ~(m.jcs > MaxJcs) /\ ~(Len(GoLocators(m)) > MaxLocators)
             /\ ~\E i \in DOMAIN GoLocators(m) : GoLocators(m)[i].bytes > MaxLocatorBytes
             /\ ~(GoParents(m) > MaxParents)
<1> DEFINE Common ==
              /\ ~m.unknown /\ IsString(m.actor) /\ m.actor.form = "ed25519"
              /\ m.created.kind = "number" /\ m.created.integral /\ m.created.value \in 0..MaxCreated
              /\ IsString(m.nonce) /\ m.nonce.form = "decimal" /\ m.nonce.value <= MaxNonce
              /\ Has(m.ext) => m.ext.kind = "object"
              /\ m.jcs <= MaxJcs
           GoCommon ==
              /\ ~m.unknown
              /\ \A n \in Required : Has(m[n])
              /\ m.v.kind = "number" /\ IsString(m.type) /\ IsString(m.actor)
              /\ m.created.kind = "number" /\ IsString(m.nonce)
              /\ Has(m.ext) => m.ext.kind = "object"
              /\ m.actor.form = "ed25519" /\ GoNonce(m.nonce)
              /\ ~(~m.created.integral \/ m.created.value < 0 \/ m.created.value > MaxCreated)
              /\ ~(m.jcs > MaxJcs)
           Parents ==
              Has(m.parents) => /\ m.parents.kind = "array" /\ Len(m.parents.els) <= MaxParents
                                /\ \A i \in DOMAIN m.parents.els : IsSha256(m.parents.els[i])
<1>1. Common <=> GoCommon
    <2>1. m.created.kind = "number" =>
            (m.created.value \in 0..MaxCreated
               <=> ~(m.created.value < 0 \/ m.created.value > MaxCreated))
        BY MessageMembers, LimitsAssumption
    <2>2. IsString(m.nonce) =>
            (m.nonce.form = "decimal" /\ m.nonce.value <= MaxNonce <=> GoNonce(m.nonce))
        BY MessageMembers, LimitsAssumption DEF GoNonce
    <2>3. m.jcs <= MaxJcs <=> ~(m.jcs > MaxJcs)
        BY MessageMembers, LimitsAssumption
    <2>4. IsString(m.type)
        BY DEF Is
    <2>5. IsString(m.actor) /\ m.created.kind = "number" /\ IsString(m.nonce)
            => \A n \in Required : Has(m[n])
        BY <2>4 DEF Required, Has, IsString
    <2> QED  BY <2>1, <2>2, <2>3, <2>4, <2>5
<1>2. Parents <=>
        /\ Has(m.parents) => /\ m.parents.kind = "array"
                             /\ \A i \in DOMAIN m.parents.els : IsString(m.parents.els[i])
        /\ Has(m.parents) => \A i \in DOMAIN m.parents.els : IsSha256(m.parents.els[i])
        /\ Has(m.parents) => ~(Len(m.parents.els) > MaxParents)
    <2>1. m.parents.kind = "array" =>
            (Len(m.parents.els) <= MaxParents <=> ~(Len(m.parents.els) > MaxParents))
        BY MessageMembers, LimitsAssumption DEF IsList
    <2> QED  BY <2>1 DEF IsSha256
<1>3. ~(0 > MaxParents) /\ ~(0 > MaxLocators)
    BY LimitsAssumption
<1>4. CASE Is(m, "pointer")
    <2>1. GoLocators(m) = m.ref.locators.els
        BY <1>4 DEF GoLocators
    <2>2. ~(GoParents(m) > MaxParents) <=> (Has(m.parents) => ~(Len(m.parents.els) > MaxParents))
        BY <1>3, <1>4 DEF GoParents
    <2>3. ~Is(m, "channel")
        BY <1>4 DEF Is
    <2>4. WellFormed(m) <=> /\ Common /\ ~Has(m.descriptor) /\ IsSha256(m.channel)
                            /\ Reference(m.ref) /\ Parents
        BY <1>4, <2>3, Zenon DEF WellFormed, Shaped
    <2>5. IsSha256(m.channel) => IsString(m.channel)
        BY DEF IsSha256
    <2>6. Reference(m.ref) <=>
             /\ GoReferenceObject(m.ref) /\ IsSha256(m.ref.hash)
             /\ ~(Len(m.ref.locators.els) > MaxLocators)
             /\ ~\E i \in DOMAIN m.ref.locators.els : m.ref.locators.els[i].bytes > MaxLocatorBytes
        BY MessageMembers, GoRefExact
    <2> HIDE DEF Common, Parents
    <2> QED  BY <1>1, <1>2, <1>4, <2>1, <2>2, <2>4, <2>5, <2>6 DEF GoSchema, GoIdentifiers
<1>5. CASE ~Is(m, "pointer")
    <2>1. GoLocators(m) = IF Has(m.descriptor) THEN m.descriptor.locators.els ELSE <<>>
        BY <1>5 DEF GoLocators
    <2>2. ~(GoParents(m) > MaxParents)
        BY <1>3, <1>5 DEF GoParents
    <2>3. WellFormed(m) <=> /\ Common /\ ~Has(m.channel) /\ ~Has(m.ref) /\ ~Has(m.parents)
                            /\ Has(m.descriptor) => Reference(m.descriptor)
        BY <1>5, Zenon DEF WellFormed, Shaped
    <2>4. Reference(m.descriptor) <=>
             /\ GoReferenceObject(m.descriptor) /\ IsSha256(m.descriptor.hash)
             /\ ~(Len(m.descriptor.locators.els) > MaxLocators)
             /\ ~\E i \in DOMAIN m.descriptor.locators.els :
                   m.descriptor.locators.els[i].bytes > MaxLocatorBytes
        BY MessageMembers, GoRefExact
    <2>5. ~Has(m.descriptor) =>
             /\ ~(Len(GoLocators(m)) > MaxLocators)
             /\ ~\E i \in DOMAIN GoLocators(m) : GoLocators(m)[i].bytes > MaxLocatorBytes
        BY <1>3, <2>1
    <2> HIDE DEF Common, Parents
    <2> QED  BY <1>1, <1>5, <2>1, <2>2, <2>3, <2>4, <2>5 DEF GoSchema, GoIdentifiers
<1> QED  BY <1>4, <1>5

\* verify.go decides what the protocol asks.
LEMMA GoExact ==
    ASSUME NEW m, IsMessage(m)
    PROVE  StatusOf(GoVerdict(m)) = Status(m)
<1>1. CASE ~(Clean(m) /\ m.v.kind = "number" /\ IsOne(m.v))
    BY <1>1 DEF GoVerdict, Status, StatusOf
<1>2. CASE Clean(m) /\ m.v.kind = "number" /\ IsOne(m.v) /\ ~Is(m, "pointer") /\ ~Is(m, "channel")
    <2>1. ~Valid(m)
        BY <1>2 DEF Valid, WellFormed, Shaped
    <2> QED  BY <1>2, <2>1 DEF GoVerdict, Status, StatusOf
<1>3. CASE Clean(m) /\ m.v.kind = "number" /\ IsOne(m.v) /\ (Is(m, "pointer") \/ Is(m, "channel"))
    <2> DEFINE Shape ==
             /\ GoSchema(m) /\ GoIdentifiers(m) /\ m.actor.form = "ed25519"
             /\ GoNonce(m.nonce)
             /\ ~(~m.created.integral \/ m.created.value < 0 \/ m.created.value > MaxCreated)
             /\ ~(m.jcs > MaxJcs) /\ ~(Len(GoLocators(m)) > MaxLocators)
             /\ ~\E i \in DOMAIN GoLocators(m) : GoLocators(m)[i].bytes > MaxLocatorBytes
             /\ ~(GoParents(m) > MaxParents)
    <2>1. WellFormed(m) <=> Shape
        BY <1>3, GoShapeExact
    <2>2. WellFormed(m) => (m.h <= Target(Units(m)) <=> ~(m.h > Target(GoUnits(m))))
        BY SameUnits, WorkIsTotal, MessageMembers
    <2>3. GoVerdict(m) = "valid" <=>
             /\ Shape /\ IsString(m.id) /\ m.id.form = "sha256" /\ m.id.match
             /\ ~(m.h > Target(GoUnits(m)))
             /\ IsString(m.sig) /\ m.sig.form = "hex128" /\ m.sig.verifies
        BY <1>3 DEF GoVerdict
    <2>4. GoVerdict(m) # "unknown-v"
        BY <1>3 DEF GoVerdict
    <2>5. IsString(m.id) /\ m.id.match => m.id.form = "sha256"
        BY MessageMembers
    <2> HIDE DEF Shape
    <2>6. GoVerdict(m) = "valid" <=> Valid(m)
        BY <2>1, <2>2, <2>3, <2>5 DEF Valid
    <2>7. Status(m) = IF Valid(m) THEN "valid" ELSE "invalid"
        BY <1>3 DEF Status
    <2> QED  BY <2>4, <2>6, <2>7 DEF StatusOf
<1> QED  BY <1>1, <1>2, <1>3

\* Whatever arrives at them, the three validators (protocol.py, check.ts,
\* verify.go) report the status the protocol asks for, and the first two the
\* same fault but where a mark precedes characters that are wrong: for every
\* message and every value of the limits.
THEOREM ValidatorsAgree ==
    ASSUME NEW m, IsMessage(m)
    PROVE  /\ StatusOf(PyVerdict(m)) = Status(m)
           /\ StatusOf(TsVerdict(m)) = Status(m)
           /\ StatusOf(GoVerdict(m)) = Status(m)
           /\ PyVerdict(m) = TsVerdict(m) <=> ~(m.input.bom /\ m.input.bytes # "ok")
<1>1. CASE Clean(m)
    <2>1. ~(m.input.bom /\ m.input.bytes # "ok")
        BY <1>1 DEF Clean
    <2> QED  BY <1>1, <2>1, PyExact, TsSame, GoExact
<1>2. CASE ~Clean(m)
    <2>1. PyVerdict(m) = PyInput(m) /\ TsVerdict(m) = TsInput(m)
        BY <1>2, InputReasons DEF PyVerdict, TsVerdict
    <2>2. StatusOf(TsVerdict(m)) = Status(m)
        BY <1>2, <2>1, InputReasons DEF StatusOf, Status
    <2> QED  BY <2>1, <2>2, PyExact, GoExact, InputReasons
<1> QED  BY <1>1, <1>2

-----------------------------------------------------------------------------
(***************************************************************************)
(* Mining                                                                  *)
(***************************************************************************)

\* The nonces of a width are within the range of 64 bits.
LEMMA NonceRange ==
    ASSUME NEW w \in 1..NonceDigits
    PROVE  Lo(w) \in Nat /\ Hi(w) \in Int /\ Hi(w) <= MaxNonce /\ Lo(1) = 0
<1>1. Pow10[w] \in Nat /\ Pow10[w - 1] \in Nat
    <2>1. Pow10 \in [0..NonceDigits -> Nat]
        BY AssertionAssumption
    <2>2. NonceDigits \in Nat
        BY LimitsAssumption
    <2>3. w \in 0..NonceDigits /\ w - 1 \in 0..NonceDigits
        BY <2>2
    <2> QED  BY <2>1, <2>3
<1> QED  BY <1>1, LimitsAssumption DEF Lo, Hi

\* What is sealed differs from the object only in what the miner sets.
LEMMA SealedMembers ==
    ASSUME NEW d, d = [x \in Members |-> d[x]], NEW w \in 1..NonceDigits, NEW n \in 0..MaxNonce,
           NEW h \in Nat, NEW match, NEW verifies
    PROVE  LET e == Sealed(d, w, n, h, match, verifies) IN
           /\ e = [x \in Members |-> e[x]]
           /\ \A x \in Members \ {"nonce", "jcs", "h", "id", "sig"} : e[x] = d[x]
           /\ e.nonce = [kind |-> "string", form |-> "decimal", digits |-> w, value |-> n]
           /\ e.jcs = d.jcs + w /\ e.h = h
           /\ e.id = [kind |-> "string", form |-> "sha256", match |-> match]
           /\ e.sig = [kind |-> "string", form |-> "hex128", verifies |-> verifies]
    BY DEF Sealed, Members

\* Members that fit the object seal it into a message.
LEMMA SealedIsMessage ==
    ASSUME NEW d, IsMessage(d), NEW w \in 1..NonceDigits, NEW n \in 0..MaxNonce, NEW h \in Nat,
           NEW match \in BOOLEAN, NEW verifies \in BOOLEAN
    PROVE  IsMessage(Sealed(d, w, n, h, match, verifies))
<1> DEFINE e == Sealed(d, w, n, h, match, verifies)
<1>1. /\ e = [x \in Members |-> e[x]]
      /\ \A x \in Members \ {"nonce", "jcs", "h", "id", "sig"} : e[x] = d[x]
      /\ e.nonce = [kind |-> "string", form |-> "decimal", digits |-> w, value |-> n]
      /\ e.jcs = d.jcs + w /\ e.h = h
      /\ e.id = [kind |-> "string", form |-> "sha256", match |-> match]
      /\ e.sig = [kind |-> "string", form |-> "hex128", verifies |-> verifies]
    BY SealedMembers DEF IsMessage
<1>2. d.jcs \in Nat /\ \A x \in Members : IsMember(x, d[x])
    BY MessageMembers DEF IsMessage
<1> HIDE DEF e
<1>3. \A x \in Members \ {"nonce", "jcs", "h", "id", "sig"} : IsMember(x, e[x])
    BY <1>1, <1>2
<1>4. IsMember("jcs", e.jcs) /\ IsMember("h", e.h)
    BY <1>1, <1>2 DEF IsMember
<1>5. IsMember("id", e.id) /\ IsMember("sig", e.sig)
    BY <1>1 DEF IsMember
<1>6. IsMember("nonce", e.nonce)
    BY <1>1, LimitsAssumption DEF IsMember
<1> QED  BY <1>1, <1>3, <1>4, <1>5, <1>6 DEF IsMessage, e

\* What mine makes is a well-formed message of version 1.
LEMMA EnvelopeWellFormed ==
    ASSUME NEW d \in Drafts, NEW w \in 1..NonceDigits, NEW n \in 0..MaxNonce, NEW h \in Nat
    PROVE  /\ IsMessage(Envelope(d, w, n, h)) /\ WellFormed(Envelope(d, w, n, h))
           /\ Clean(Envelope(d, w, n, h))
           /\ Envelope(d, w, n, h).v.kind = "number" /\ IsOne(Envelope(d, w, n, h).v)
<1> DEFINE e == Envelope(d, w, n, h)
           c == [d EXCEPT !.nonce = [kind |-> "string", form |-> "decimal",
                                     digits |-> w, value |-> n],
                          !.jcs = @ + w]
<1>1. /\ e = [x \in Members |-> e[x]]
      /\ \A x \in Members \ {"nonce", "jcs", "h", "id", "sig"} : e[x] = d[x]
      /\ e.nonce = [kind |-> "string", form |-> "decimal", digits |-> w, value |-> n]
      /\ e.jcs = d.jcs + w /\ e.h = h
      /\ e.id = [kind |-> "string", form |-> "sha256", match |-> TRUE]
      /\ e.sig = [kind |-> "string", form |-> "hex128", verifies |-> TRUE]
    <2>1. d = [x \in Members |-> d[x]]
        BY DraftsAssumption DEF IsMessage
    <2> QED  BY <2>1 DEF Envelope, Sealed, Members
<1>2. IsMessage(d) /\ Clean(d) /\ d.v.kind = "number" /\ IsOne(d.v) /\ WellFormed(c)
    BY DraftsAssumption
<1>3. \A x \in Members \ {"h", "id", "sig"} : c[x] = e[x]
    <2>1. d = [x \in Members |-> d[x]]
        BY <1>2 DEF IsMessage
    <2> QED  BY <1>1, <2>1 DEF Members
<1> HIDE DEF c
<1>9. IsMessage(e)
    BY <1>2, SealedIsMessage DEF Envelope
<1> HIDE DEF e
<1>10. WellFormed(e)
    <2>1. /\ c.unknown = e.unknown /\ c.actor = e.actor /\ c.created = e.created
          /\ c.nonce = e.nonce /\ c.ext = e.ext /\ c.jcs = e.jcs /\ c.type = e.type
          /\ c.descriptor = e.descriptor /\ c.channel = e.channel /\ c.ref = e.ref
          /\ c.parents = e.parents
        BY <1>3 DEF Members
    <2>2. \A t : Is(c, t) <=> Is(e, t)
        BY <2>1 DEF Is
    <2> QED  BY <1>2, <2>1, <2>2 DEF WellFormed, Shaped
<1>11. Clean(e) /\ e.v.kind = "number" /\ IsOne(e.v)
    BY <1>1, <1>2 DEF Members, Clean
<1> QED  BY <1>9, <1>10, <1>11 DEF e

\* Neither the nonce nor the hash changes the units of an envelope, only the
\* length of the nonce does.
LEMMA EnvelopeUnits ==
    ASSUME NEW d \in Drafts, NEW w \in 1..NonceDigits, NEW n \in 0..MaxNonce, NEW h \in Nat
    PROVE  PyUnits(Envelope(d, w, n, h)) = PyUnits([d EXCEPT !.jcs = @ + w])
<1> DEFINE e == Envelope(d, w, n, h)
           c == [d EXCEPT !.jcs = @ + w]
<1>1. d = [x \in Members |-> d[x]]
    BY DraftsAssumption DEF IsMessage
<1>2. /\ e.type = c.type /\ e.ref = c.ref /\ e.descriptor = c.descriptor
      /\ e.parents = c.parents /\ e.jcs = c.jcs
    BY <1>1 DEF Envelope, Sealed, Members
<1> HIDE DEF e, c
<1>3. Is(c, "pointer") <=> Is(e, "pointer")
    BY <1>2 DEF Is
<1>4. PyUnits(e) = PyUnits(c)
    BY <1>2, <1>3 DEF PyUnits, PyLocators, PyParents
<1> QED  BY <1>4 DEF e, c

\* The units of the template are those of every candidate of its width.
LEMMA TemplateUnitsExact ==
    ASSUME NEW d \in Drafts, NEW w \in 1..NonceDigits, NEW n \in 0..MaxNonce, NEW h \in Nat,
           Lo(w) \in 0..MaxNonce
    PROVE  /\ TemplateUnits(d, w) = Units(Envelope(d, w, n, h))
           /\ TemplateUnits(d, w) \in Nat \ {0}
<1>1. IsMessage(Envelope(d, w, n, h)) /\ WellFormed(Envelope(d, w, n, h))
    BY EnvelopeWellFormed
<1>2. /\ PyUnits(Envelope(d, w, n, h)) = Units(Envelope(d, w, n, h))
      /\ Units(Envelope(d, w, n, h)) \in Nat \ {0}
    BY <1>1, SameUnits
<1>3. PyUnits(Envelope(d, w, n, h)) = PyUnits(Envelope(d, w, Lo(w), 0))
    <2>1. PyUnits(Envelope(d, w, n, h)) = PyUnits([d EXCEPT !.jcs = @ + w])
        BY EnvelopeUnits
    <2>2. 0 \in Nat
        OBVIOUS
    <2>3. PyUnits(Envelope(d, w, Lo(w), 0)) = PyUnits([d EXCEPT !.jcs = @ + w])
        BY <2>2, EnvelopeUnits
    <2> QED  BY <2>1, <2>3
<1> QED  BY <1>2, <1>3 DEF TemplateUnits

\* What mine_and_sign is given is a message.
LEMMA StripIsMessage ==
    ASSUME NEW m, IsMessage(m)
    PROVE  IsMessage(Strip(m))
<1> DEFINE c == Strip(m)
<1>1. m = [x \in Members |-> m[x]] /\ \A x \in Members : IsMember(x, m[x])
    BY DEF IsMessage
<1>2. /\ c = [x \in Members |-> c[x]]
      /\ \A x \in Members \ {"id", "sig"} : c[x] = m[x]
      /\ c.id = Absent /\ c.sig = Absent
    BY <1>1 DEF Strip, Members
<1> HIDE DEF c
<1>3. IsMember("id", Absent) /\ IsMember("sig", Absent)
    BY DEF IsMember, Absent, IsString
<1> QED  BY <1>1, <1>2, <1>3 DEF IsMessage, c

\* What it returns, member by member.
SignedFrom(e, m, own, w, n, g) ==
    /\ \A x \in Members \ {"nonce", "jcs", "h", "id", "sig"} : e[x] = m[x]
    /\ e.nonce = [kind |-> "string", form |-> "decimal", digits |-> w, value |-> n]
    /\ e.jcs = m.jcs + w /\ e.h = g
    /\ e.id.kind = "string" /\ e.id.form = "sha256" /\ (e.id.match <=> Bare(m))
    /\ e.sig.kind = "string" /\ e.sig.form = "hex128"
    /\ e.sig.verifies <=> Bare(m) /\ own

LEMMA SignedMembers ==
    ASSUME NEW m, IsMessage(m), NEW own \in BOOLEAN, NEW w \in 1..NonceDigits,
           NEW n \in 0..MaxNonce, NEW g \in Nat
    PROVE  /\ IsMessage(Signed(m, own, w, n, g))
           /\ SignedFrom(Signed(m, own, w, n, g), m, own, w, n, g)
<1> DEFINE e == Signed(m, own, w, n, g)
<1>1. PICK b \in BOOLEAN : b = Bare(m)
    BY Zenon DEF Bare
<1>2. PICK v \in BOOLEAN : v = (Bare(m) /\ own)
    BY Zenon
<1>3. e = Sealed(m, w, n, g, b, v)
    BY <1>1, <1>2, Zenon DEF Signed
<1> HIDE DEF e
<1>4. IsMessage(e)
    BY <1>3, SealedIsMessage
<1>5. /\ \A x \in Members \ {"nonce", "jcs", "h", "id", "sig"} : e[x] = m[x]
      /\ e.nonce = [kind |-> "string", form |-> "decimal", digits |-> w, value |-> n]
      /\ e.jcs = m.jcs + w /\ e.h = g
      /\ e.id = [kind |-> "string", form |-> "sha256", match |-> b]
      /\ e.sig = [kind |-> "string", form |-> "hex128", verifies |-> v]
    BY <1>3, SealedMembers DEF IsMessage
<1>6. /\ e.id.kind = "string" /\ e.id.form = "sha256" /\ e.id.match = b
      /\ e.sig.kind = "string" /\ e.sig.form = "hex128" /\ e.sig.verifies = v
    BY <1>5
<1>7. SignedFrom(e, m, own, w, n, g)
    BY <1>1, <1>2, <1>5, <1>6 DEF SignedFrom
<1> QED  BY <1>4, <1>7 DEF e

\* The candidate is the object with a longer canonical form, and has its units
\* when nothing but the nonce makes it longer.
LEMMA CandidateUnits ==
    ASSUME NEW m, IsMessage(m), NEW own \in BOOLEAN, NEW w \in 1..NonceDigits,
           NEW n \in 0..MaxNonce, NEW g \in Nat
    PROVE  /\ Candidate(m, w).jcs \in Nat /\ m.jcs + w <= Candidate(m, w).jcs
           /\ Bare(m) => /\ Candidate(m, w).jcs = m.jcs + w
                         /\ PyUnits(Candidate(m, w)) = PyUnits(Signed(m, own, w, n, g))
<1> DEFINE e == Signed(m, own, w, n, g)
           c == Candidate(m, w)
           x == IF Has(m.id) THEN EnvelopeSize ELSE 0
           y == IF Has(m.sig) THEN EnvelopeSize ELSE 0
<1>1. m = [k \in Members |-> m[k]] /\ m.jcs \in Nat /\ EnvelopeSize \in Nat
    BY MessageMembers, AssertionAssumption DEF IsMessage
<1>2. c.jcs = m.jcs + w + x + y
    BY <1>1 DEF Candidate, Members
<1>3. x \in Nat /\ y \in Nat /\ (Bare(m) => x = 0 /\ y = 0)
    BY <1>1 DEF Bare
<1>4. SignedFrom(e, m, own, w, n, g)
    BY SignedMembers
<1>5. \A k \in Members \ {"jcs"} : c[k] = m[k]
    BY <1>1 DEF Candidate
<1> HIDE DEF c, e, x, y
<1>6. c.jcs \in Nat /\ m.jcs + w <= c.jcs /\ (Bare(m) => c.jcs = m.jcs + w)
    BY <1>1, <1>2, <1>3, LimitsAssumption
<1>7. /\ e.type = c.type /\ e.ref = c.ref /\ e.descriptor = c.descriptor
      /\ e.parents = c.parents
    BY <1>4, <1>5 DEF Members, SignedFrom
<1>8. Is(c, "pointer") <=> Is(e, "pointer")
    BY <1>7 DEF Is
<1>9. Bare(m) => PyUnits(c) = PyUnits(e)
    <2>1. e.jcs = m.jcs + w
        BY <1>4 DEF SignedFrom
    <2> QED  BY <1>6, <1>7, <1>8, <2>1 DEF PyUnits, PyLocators, PyParents
<1> QED  BY <1>6, <1>9 DEF c, e

\* What the three validators report of what mine_and_sign returns.
Fate(bare, own) == IF ~bare THEN "id-mismatch" ELSE IF ~own THEN "signature" ELSE "valid"

SignedReport(m, bare, own) ==
    /\ PyVerdict(m) = Fate(bare, own) /\ TsVerdict(m) = Fate(bare, own)
    /\ GoVerdict(m) = Fate(bare, own)

\* Every check of the schema that an object has passed its envelope passes
\* again: of the members check_schema looks at only the nonce is another.
LEMMA SignedSchema ==
    ASSUME NEW m, IsMessage(m), Clean(m), PySchema(WithNonce(m)) = "ok", NEW own \in BOOLEAN,
           NEW w \in 1..NonceDigits, NEW n \in 0..MaxNonce, NEW g \in Nat
    PROVE  LET e == Signed(m, own, w, n, g) IN
           Clean(e) /\ PySchema(e) = "ok" /\ e.v.kind = "number" /\ IsOne(e.v)
<1> DEFINE e == Signed(m, own, w, n, g)
           u == WithNonce(m)
<1>1. /\ \A x \in Members \ {"nonce", "jcs", "h", "id", "sig"} : e[x] = m[x]
      /\ e.nonce = [kind |-> "string", form |-> "decimal", digits |-> w, value |-> n]
    <2>1. SignedFrom(e, m, own, w, n, g)
        BY SignedMembers
    <2> HIDE DEF e
    <2> QED  BY <2>1 DEF SignedFrom
<1>2. \A x \in Members \ {"nonce"} : u[x] = m[x]
    BY DEF WithNonce, IsMessage, Members
<1>3. PySchema(u) = "ok"
    OBVIOUS
<1> HIDE DEF e, u
<1>4. Clean(e)
    BY <1>1 DEF Clean, Members
<1>5. /\ e.unknown = u.unknown /\ e.v = u.v /\ e.type = u.type /\ e.actor = u.actor
      /\ e.created = u.created /\ e.ext = u.ext /\ e.channel = u.channel /\ e.ref = u.ref
      /\ e.parents = u.parents /\ e.descriptor = u.descriptor
    BY <1>1, <1>2 DEF Members
<1>6. \A t : Is(e, t) <=> Is(u, t)
    BY <1>5 DEF Is
<1>7. PyPointer(e) = PyPointer(u) /\ PyChannel(e) = PyChannel(u)
    BY <1>5 DEF PyPointer, PyChannel
<1>8. Has(e.nonce) /\ IsString(e.nonce) /\ e.nonce.form = "decimal"
      /\ ~(e.nonce.digits > NonceDigits) /\ ~(e.nonce.value > MaxNonce)
    BY <1>1, LimitsAssumption DEF Has, IsString
<1>9. PySchema(e) = "ok" /\ e.v.kind = "number" /\ IsOne(e.v)
    BY <1>3, <1>5, <1>6, <1>7, <1>8 DEF PySchema, Required
<1> QED  BY <1>4, <1>9 DEF e

\* It also has room and work enough, when the candidate had, so that only
\* its id and its signature are left to fail.
LEMMA SignedEnvelope ==
    ASSUME NEW m, IsMessage(m), Clean(m), PySchema(WithNonce(m)) = "ok", NEW own \in BOOLEAN,
           NEW w \in 1..NonceDigits, NEW n \in 0..MaxNonce, NEW h \in Nat, NEW g \in Nat,
           Bare(m) => g = h,
           Candidate(m, w).jcs <= MaxJcs, h <= Target(PyUnits(Candidate(m, w)))
    PROVE  /\ IsMessage(Signed(m, own, w, n, g))
           /\ SignedReport(Signed(m, own, w, n, g), Bare(m), own)
<1> DEFINE e == Signed(m, own, w, n, g)
           c == Candidate(m, w)
<1>1. /\ e.jcs = m.jcs + w /\ e.h = g
      /\ e.id.kind = "string" /\ e.id.form = "sha256" /\ (e.id.match <=> Bare(m))
      /\ e.sig.kind = "string" /\ e.sig.form = "hex128"
      /\ e.sig.verifies <=> Bare(m) /\ own
    <2>1. SignedFrom(e, m, own, w, n, g)
        BY SignedMembers
    <2> HIDE DEF e
    <2> QED  BY <2>1 DEF SignedFrom
<1>2. IsMessage(e)
    BY SignedMembers
<1>3. Clean(e) /\ PySchema(e) = "ok" /\ e.v.kind = "number" /\ IsOne(e.v)
    BY SignedSchema
<1>4. /\ c.jcs \in Nat /\ m.jcs + w <= c.jcs /\ c.jcs <= MaxJcs
      /\ Bare(m) => PyUnits(c) = PyUnits(e)
      /\ h <= Target(PyUnits(c)) /\ (Bare(m) => g = h)
    BY CandidateUnits
<1> HIDE DEF e, c
<1>5. e.jcs \in Nat /\ e.h \in Nat /\ ~(e.jcs > MaxJcs)
    BY <1>1, <1>2, <1>4, MessageMembers, LimitsAssumption
<1>6. WellFormed(e)
    BY <1>2, <1>3, <1>5, PySchemaExact
<1>7. PyUnits(e) = Units(e) /\ Units(e) \in Nat \ {0}
    BY <1>2, <1>6, SameUnits
<1>8. Bare(m) => ~(e.h > Target(PyUnits(e)))
    <2>1. Bare(m) => h <= Target(PyUnits(e)) /\ e.h = h
        BY <1>1, <1>4
    <2> QED  BY <1>7, <2>1, WorkIsTotal
<1>9. PyVerdict(e) = Fate(Bare(m), own)
    <2>1. PyInput(e) = "ok"
        BY <1>2, <1>3, InputReasons
    <2> QED  BY <1>1, <1>3, <1>5, <1>8, <2>1 DEF PyVerdict, IsString, Fate
<1>10. TsVerdict(e) = PyVerdict(e)
    BY <1>2, <1>3, TsSame
<1>11. GoVerdict(e) = Fate(Bare(m), own)
    <2>1. Is(e, "pointer") \/ Is(e, "channel")
        BY <1>6 DEF WellFormed, Shaped
    <2>2. GoUnits(e) = PyUnits(e)
        BY <1>2, <1>6, <1>7, SameUnits
    <2>3. /\ GoSchema(e) /\ GoIdentifiers(e) /\ e.actor.form = "ed25519" /\ GoNonce(e.nonce)
          /\ ~(~e.created.integral \/ e.created.value < 0 \/ e.created.value > MaxCreated)
          /\ ~(Len(GoLocators(e)) > MaxLocators)
          /\ ~\E i \in DOMAIN GoLocators(e) : GoLocators(e)[i].bytes > MaxLocatorBytes
          /\ ~(GoParents(e) > MaxParents)
        BY <1>2, <1>3, <1>6, <2>1, GoShapeExact
    <2> QED  BY <1>1, <1>3, <1>5, <1>8, <2>1, <2>2, <2>3 DEF GoVerdict, IsString, Fate
<1> QED  BY <1>2, <1>9, <1>10, <1>11 DEF SignedReport, e

-----------------------------------------------------------------------------
(***************************************************************************)
(* The inductive invariant.  TypeOK says that a message was made when one  *)
(* is looked at; that its work is enough needs the candidate's width, its  *)
(* units and its hash, and that whatever was altered is still a message.   *)
(***************************************************************************)

Unaltered ==
    phase = "mined" /\ changes = 0 =>
        \E h \in Nat : msg = Envelope(draft, width, nonce, h) /\ h <= Target(units)

IInv ==
    /\ draft \in Drafts /\ phase \in {"mining", "mined", "exhausted", "signed"}
    /\ width \in 1..NonceDigits /\ nonce \in 0..MaxNonce
    /\ Lo(width) \in 0..MaxNonce
    /\ units = TemplateUnits(draft, width)
    /\ changes \in 0..MaxChanges
    /\ phase = "mining" => changes = 0
    /\ phase # "mining" => tried # {}
    /\ phase \in {"mined", "signed"} => IsMessage(msg)
    /\ given \in [bare : BOOLEAN, own : BOOLEAN]
    /\ phase = "signed" => SignedReport(msg, given.bare, given.own)
    /\ Unaltered

\* Mining starts with the nonce 0.
LEMMA InitIInv == Init => IInv
<1>1. Lo(1) = 0 /\ 1 \in 1..NonceDigits
    BY LimitsAssumption DEF Lo
<1> QED  BY <1>1, LimitsAssumption, AssertionAssumption DEF Init, IInv, Unaltered, NothingGiven

\* A message altered in one member is a message.
LEMMA AlteredIsMessage ==
    ASSUME NEW m, IsMessage(m), NEW n \in Members, NEW x, IsMember(n, x)
    PROVE  IsMessage([m EXCEPT ![n] = x])
<1>1. m = [k \in Members |-> m[k]]
    BY DEF IsMessage
<1> DEFINE c == [m EXCEPT ![n] = x]
<1>2. c = [k \in Members |-> c[k]]
    BY <1>1
<1>3. \A k \in Members : c[k] = IF k = n THEN x ELSE m[k]
    BY <1>1
<1> HIDE DEF c
<1>4. \A k \in Members : IsMember(k, c[k])
    BY <1>3 DEF IsMessage
<1>5. IsMessage(c)
    BY <1>2, <1>4 DEF IsMessage
<1> QED  BY <1>5 DEF c

\* Every step of the miner, and every alteration, keeps the invariant.
LEMMA NextIInv == IInv /\ [Next]_vars => IInv'
<1> SUFFICES ASSUME IInv, [Next]_vars
             PROVE  IInv'
    OBVIOUS
<1> USE DEF IInv
<1>1. ASSUME NEW h \in Hashes, Found(h)
      PROVE  IInv'
    <2>1. h \in Nat
        BY AssertionAssumption
    <2>2. IsMessage(Envelope(draft, width, nonce, h))
        BY <2>1, EnvelopeWellFormed
    <2>3. Unaltered'
        BY <1>1, <2>1 DEF Found, Unaltered
    <2> QED  BY <1>1, <2>2, <2>3 DEF Found
<1>2. ASSUME NEW h \in Hashes, Missed(h)
      PROVE  IInv'
    <2>1. nonce + 1 \in 0..MaxNonce
        BY <1>2, NonceRange, LimitsAssumption DEF Missed
    <2>2. Unaltered'
        BY <1>2 DEF Missed, Unaltered
    <2> QED  BY <1>2, <2>1, <2>2 DEF Missed
<1>3. ASSUME NEW h \in Hashes, WidthDone(h)
      PROVE  IInv'
    <2>1. Unaltered' /\ tried' # {}
        BY <1>3 DEF WidthDone, Unaltered
    <2>2. CASE width = NonceDigits \/ Lo(width + 1) > MaxNonce
        BY <1>3, <2>1, <2>2 DEF WidthDone
    <2>3. CASE ~(width = NonceDigits \/ Lo(width + 1) > MaxNonce)
        <3>1. width + 1 \in 1..NonceDigits
            BY <2>3, LimitsAssumption
        <3>2. Lo(width + 1) \in 0..MaxNonce
            BY <2>3, <3>1, NonceRange, LimitsAssumption
        <3> QED  BY <1>3, <2>1, <2>3, <3>1, <3>2 DEF WidthDone
    <2> QED  BY <2>2, <2>3
<1>4. ASSUME NEW n \in DOMAIN Alterations, NEW x \in Alterations[n], Alter(n, x)
      PROVE  IInv'
    <2>1. n \in Members /\ IsMember(n, x)
        BY AssertionAssumption
    <2>2. IsMessage(msg')
        BY <1>4, <2>1, AlteredIsMessage DEF Alter
    <2>3. changes' \in 0..MaxChanges /\ changes' # 0
        BY <1>4, AssertionAssumption DEF Alter
    <2>4. Unaltered'
        BY <2>3 DEF Unaltered
    <2> QED  BY <1>4, <2>2, <2>3, <2>4 DEF Alter
<1>5. ASSUME NEW d \in Drafts, Again(d)
      PROVE  IInv'
    <2>1. Lo(1) = 0 /\ 1 \in 1..NonceDigits
        BY LimitsAssumption DEF Lo
    <2>2. Unaltered'
        BY <1>5 DEF Again, Mining, Unaltered
    <2>3. 0 \in 0..MaxNonce /\ 0 \in 0..MaxChanges
        BY LimitsAssumption, AssertionAssumption
    <2>4. /\ draft' = d /\ phase' = "mining" /\ width' = 1 /\ nonce' = 0
          /\ units' = TemplateUnits(d, 1) /\ changes' = 0
          /\ given' \in [bare : BOOLEAN, own : BOOLEAN]
        BY <1>5, <2>1 DEF Again, Mining, NothingGiven
    <2>5. Lo(width') = 0 /\ units' = TemplateUnits(draft', width')
        BY <2>1, <2>4
    <2> QED  BY <2>1, <2>2, <2>3, <2>4, <2>5
<1>6. ASSUME NEW u \in {msg, Strip(msg)}, NEW own \in BOOLEAN, NEW w \in 1..NonceDigits,
             NEW n \in Nonces, NEW h \in Hashes, NEW g \in Hashes, MineAndSign(u, own, w, n, h, g)
      PROVE  IInv'
    <2>1. n \in 0..MaxNonce /\ h \in Nat /\ g \in Nat
        BY AssertionAssumption
    <2>2. IsMessage(u)
        BY <1>6, StripIsMessage DEF MineAndSign
    <2>3. /\ Clean(u) /\ PySchema(WithNonce(u)) = "ok" /\ (Bare(u) => g = h)
          /\ Candidate(u, w).jcs <= MaxJcs /\ h <= Target(PyUnits(Candidate(u, w)))
          /\ msg' = Signed(u, own, w, n, g) /\ given' = [bare |-> Bare(u), own |-> own]
          /\ phase' = "signed" /\ UNCHANGED <<draft, width, nonce, units, tried, changes>>
        BY <1>6, Zenon DEF MineAndSign
    <2>4. IsMessage(msg') /\ SignedReport(msg', Bare(u), own)
        BY <2>1, <2>2, <2>3, SignedEnvelope
    <2>5. Bare(u) \in BOOLEAN
        BY DEF Bare
    <2>6. Unaltered'
        BY <2>3 DEF Unaltered
    <2>7. tried' # {}
        BY <1>6, <2>3 DEF MineAndSign
    <2> QED  BY <2>3, <2>4, <2>5, <2>6, <2>7
<1>7. ASSUME UNCHANGED vars
      PROVE  IInv'
    BY <1>7 DEF vars, Unaltered
<1> QED  BY <1>1, <1>2, <1>3, <1>4, <1>5, <1>6, <1>7 DEF Next

\* The invariant gives the work of an unaltered message: the units of its
\* template are the ones the protocol asks for.
LEMMA IInvMined == IInv => MinedIsValid
<1> SUFFICES ASSUME IInv, phase = "mined", changes = 0
             PROVE  Status(msg) = "valid"
    BY DEF MinedIsValid
<1>1. PICK h \in Nat : msg = Envelope(draft, width, nonce, h) /\ h <= Target(units)
    BY DEF IInv, Unaltered
<1>2. /\ draft \in Drafts /\ width \in 1..NonceDigits /\ nonce \in 0..MaxNonce
      /\ Lo(width) \in 0..MaxNonce /\ units = TemplateUnits(draft, width)
    BY DEF IInv
<1>3. WellFormed(msg) /\ Clean(msg) /\ msg.v.kind = "number" /\ IsOne(msg.v)
    BY <1>1, <1>2, EnvelopeWellFormed
<1>4. units = Units(msg)
    BY <1>1, <1>2, TemplateUnitsExact
<1>5. /\ msg.h = h
      /\ msg.id = [kind |-> "string", form |-> "sha256", match |-> TRUE]
      /\ msg.sig = [kind |-> "string", form |-> "hex128", verifies |-> TRUE]
    <2>1. draft = [x \in Members |-> draft[x]]
        BY <1>2, DraftsAssumption DEF IsMessage
    <2> QED  BY <1>1, <2>1 DEF Envelope, Sealed, Members
<1>6. Valid(msg)
    BY <1>1, <1>3, <1>4, <1>5 DEF Valid, IsString
<1> QED  BY <1>3, <1>6 DEF Status

\* TypeOK follows.
LEMMA IInvType == IInv => TypeOK
<1> SUFFICES ASSUME IInv
             PROVE  TypeOK
    OBVIOUS
<1>1. 0 \in Nat
    OBVIOUS
<1>2. units \in Nat \ {0}
    BY <1>1, TemplateUnitsExact DEF IInv
<1> QED  BY <1>2 DEF IInv, TypeOK

-----------------------------------------------------------------------------
\* The counters of mine stay within 64 bits, and what arrives is a message.
THEOREM TypeCorrect == Spec => []TypeOK
<1> QED  BY InitIInv, NextIInv, IInvType, PTL DEF Spec

\* For all limits, all drafts and all alterations, the three validators give
\* a message the status the protocol asks for.
THEOREM StatusAgreement == Spec => []AgreeOnStatus
<1>1. IInv => AgreeOnStatus
    BY ValidatorsAgree DEF IInv, AgreeOnStatus
<1> QED  BY InitIInv, NextIInv, <1>1, PTL DEF Spec

\* And protocol.py and check.ts report the same first fault, but where a
\* byte order mark precedes characters that are wrong: there they do not.
THEOREM ReportAgreement == Spec => []SameReport
<1>1. IInv => SameReport
    BY ValidatorsAgree DEF IInv, SameReport
<1> QED  BY InitIInv, NextIInv, <1>1, PTL DEF Spec

\* What mine of an agent sends is valid, whichever nonce and width it found.
THEOREM MiningIsSound == Spec => []MinedIsValid
<1> QED  BY InitIInv, NextIInv, IInvMined, PTL DEF Spec

\* Every validator takes what mine_and_sign returns if it was given an object
\* without id and sig and the key of its actor; if not, each of them refuses
\* it, and for the same reason.
THEOREM SigningIsSound == Spec => []SignedIsValid
<1>1. IInv => SignedIsValid
    <2> SUFFICES ASSUME IInv, phase = "signed"
                 PROVE  {PyVerdict(msg), TsVerdict(msg), GoVerdict(msg)}
                           = {Fate(given.bare, given.own)}
        BY DEF SignedIsValid, Fate
    <2> QED  BY DEF IInv, SignedReport
<1> QED  BY InitIInv, NextIInv, <1>1, PTL DEF Spec

-----------------------------------------------------------------------------
(***************************************************************************)
(* Exhaustion: a miner has tried every nonce below the one it is at, also  *)
(* across widths, because a width begins where the one before it ended.    *)
(***************************************************************************)

TriedInv ==
    /\ Pow10[width] >= 1
    /\ phase = "mining" => nonce <= Hi(width) /\ tried = 0..(nonce - 1)
    /\ phase = "exhausted" => tried = 0..MaxNonce

\* A width ends below the first nonce of the next, or at the last nonce.
LEMMA WidthsAreAdjacent ==
    ASSUME NEW w \in 1..NonceDigits, Pow10[w] >= 1
    PROVE  /\ w = NonceDigits => Hi(w) = MaxNonce
           /\ w # NonceDigits =>
                /\ Pow10[w + 1] >= 1
                /\ Lo(w + 1) > MaxNonce => Hi(w) = MaxNonce
                /\ Lo(w + 1) <= MaxNonce => /\ Hi(w) = Lo(w + 1) - 1
                                            /\ Lo(w + 1) <= Hi(w + 1)
<1>1. Pow10[w] \in Nat /\ MaxNonce \in Nat /\ MaxNonce < Pow10[NonceDigits] /\ NonceDigits \in Nat
    <2>1. MaxNonce \in Nat /\ NonceDigits \in Nat
        BY LimitsAssumption
    <2>2. Pow10 \in [0..NonceDigits -> Nat] /\ MaxNonce < Pow10[NonceDigits]
        BY AssertionAssumption
    <2>3. w \in 0..NonceDigits
        BY <2>1
    <2> QED  BY <2>1, <2>2, <2>3
<1>2. w = NonceDigits => Hi(w) = MaxNonce
    BY <1>1 DEF Hi
<1>3. ASSUME w # NonceDigits
      PROVE  /\ Pow10[w + 1] = 10 * Pow10[w] /\ w + 1 \in 1..NonceDigits
             /\ Lo(w + 1) = Pow10[w]
    <2>1. w + 1 \in 1..NonceDigits /\ (w + 1) - 1 = w /\ w + 1 # 1
        BY <1>1, <1>3
    <2> QED  BY <2>1, AssertionAssumption DEF Lo
<1> QED  BY <1>1, <1>2, <1>3 DEF Hi

\* Mining begins with nothing tried.
LEMMA InitTried == Init => TriedInv
<1>1. Pow10[1] = 10 /\ MaxNonce \in Nat /\ Lo(1) = 0
    <2>1. 1 \in 1..NonceDigits /\ 1 - 1 = 0
        BY LimitsAssumption
    <2> QED  BY <2>1, AssertionAssumption, LimitsAssumption DEF Lo
<1>2. 0 <= Hi(1) /\ 0..(0 - 1) = {}
    BY <1>1 DEF Hi
<1> QED  BY <1>1, <1>2 DEF Init, TriedInv

\* Every step of the miner tries the nonce it leaves.
LEMMA NextTried == IInv /\ TriedInv /\ [Next]_vars => TriedInv'
<1> SUFFICES ASSUME IInv, TriedInv, [Next]_vars
             PROVE  TriedInv'
    OBVIOUS
<1>0. width \in 1..NonceDigits /\ nonce \in 0..MaxNonce /\ MaxNonce \in Nat /\ Hi(width) \in Int
    BY NonceRange, LimitsAssumption DEF IInv
<1>1. ASSUME NEW h \in Hashes, Found(h)
      PROVE  TriedInv'
    BY <1>1 DEF Found, TriedInv
<1>2. ASSUME NEW h \in Hashes, Missed(h)
      PROVE  TriedInv'
    <2>1. tried = 0..(nonce - 1) /\ tried' = tried \cup {nonce} /\ nonce' = nonce + 1
        BY <1>2 DEF Missed, TriedInv
    <2>2. tried' = 0..(nonce' - 1)
        BY <1>0, <2>1
    <2>3. nonce' <= Hi(width) /\ width' = width /\ phase' = "mining"
        BY <1>0, <1>2 DEF Missed
    <2> QED  BY <2>2, <2>3 DEF TriedInv
<1>3. ASSUME NEW h \in Hashes, WidthDone(h)
      PROVE  TriedInv'
    <2>1. tried = 0..(nonce - 1) /\ tried' = tried \cup {nonce} /\ nonce = Hi(width)
        BY <1>0, <1>3 DEF WidthDone, TriedInv
    <2>2. tried' = 0..Hi(width)
        BY <1>0, <2>1
    <2>3. Pow10[width] >= 1
        BY DEF TriedInv
    <2>4. CASE width = NonceDigits \/ Lo(width + 1) > MaxNonce
        <3>1. Hi(width) = MaxNonce
            BY <1>0, <2>3, <2>4, WidthsAreAdjacent
        <3>2. phase' = "exhausted" /\ width' = width
            BY <1>3, <2>4 DEF WidthDone
        <3> QED  BY <2>2, <2>3, <3>1, <3>2 DEF TriedInv
    <2>5. CASE ~(width = NonceDigits \/ Lo(width + 1) > MaxNonce)
        <3>1. width + 1 \in 1..NonceDigits
            BY <1>0, <2>5, LimitsAssumption
        <3>2. Lo(width + 1) \in Nat
            BY <3>1, NonceRange
        <3>3. /\ Pow10[width + 1] >= 1 /\ Hi(width) = Lo(width + 1) - 1
              /\ Lo(width + 1) <= Hi(width + 1)
            BY <1>0, <2>3, <2>5, <3>2, WidthsAreAdjacent
        <3>4. phase' = "mining" /\ width' = width + 1 /\ nonce' = Lo(width + 1)
            BY <1>3, <2>5 DEF WidthDone
        <3> QED  BY <2>2, <3>3, <3>4 DEF TriedInv
    <2> QED  BY <2>4, <2>5
<1>4. ASSUME NEW n \in DOMAIN Alterations, NEW x \in Alterations[n], Alter(n, x)
      PROVE  TriedInv'
    BY <1>4 DEF Alter, TriedInv
<1>5. ASSUME NEW d \in Drafts, Again(d)
      PROVE  TriedInv'
    <2>1. Pow10[1] = 10 /\ Lo(1) = 0
        <3>1. 1 \in 1..NonceDigits /\ 1 - 1 = 0
            BY LimitsAssumption
        <3> QED  BY <3>1, AssertionAssumption DEF Lo
    <2>2. 0 <= Hi(1) /\ 0..(0 - 1) = {}
        BY <1>0, <2>1 DEF Hi
    <2> QED  BY <1>5, <2>1, <2>2 DEF Again, Mining, TriedInv
<1>6. ASSUME NEW u \in {msg, Strip(msg)}, NEW own \in BOOLEAN, NEW w \in 1..NonceDigits,
             NEW n \in Nonces, NEW h \in Hashes, NEW g \in Hashes, MineAndSign(u, own, w, n, h, g)
      PROVE  TriedInv'
    BY <1>6 DEF MineAndSign, TriedInv
<1>7. ASSUME UNCHANGED vars
      PROVE  TriedInv'
    BY <1>7 DEF vars, TriedInv
<1> QED  BY <1>1, <1>2, <1>3, <1>4, <1>5, <1>6, <1>7 DEF Next

\* mine gives up only when no nonce of 64 bits is left, for every number of
\* widths and every largest nonce below the power of ten that ends them.
THEOREM ExhaustionIsTotal == Spec => []ExhaustedMeansAll
<1>1. Init => IInv /\ TriedInv
    BY InitIInv, InitTried
<1>2. IInv /\ TriedInv /\ [Next]_vars => IInv' /\ TriedInv'
    BY NextIInv, NextTried
<1>3. TriedInv => ExhaustedMeansAll
    BY DEF TriedInv, ExhaustedMeansAll
<1> QED  BY <1>1, <1>2, <1>3, PTL DEF Spec

-----------------------------------------------------------------------------
(***************************************************************************)
(* What spp_verify.py reports, for every message and all limits            *)
(***************************************************************************)

\* run_diagnostic stops where validate_object stops: its additional test of
\* the type comes after check_schema, which has made it already.
LEMMA DiagnosticIsVerdict ==
    ASSUME NEW m
    PROVE  Diagnostic(m) = PyVerdict(m)
<1>1. PySchema(m) = "ok" => Is(m, "pointer") \/ Is(m, "channel")
    BY DEF PySchema
<1> QED  BY <1>1 DEF Diagnostic, PyVerdict

\* A case of a suite raises nothing about a valid message, and one of a
\* whole assertion raises what the validator reports.
LEMMA CaseFaults ==
    ASSUME NEW m, IsMessage(m), NEW cls \in Classes, NEW expect \in Expectations
    PROVE  /\ cls = "full-assertion" /\ PyVerdict(m) # "valid" =>
                  CaseFault(cls, expect, m) = PyVerdict(m)
           /\ PyVerdict(m) = "valid" => CaseFault(cls, expect, m) = "ok"
<1>1. PyVerdict(m) = "valid" => Clean(m) /\ m.v.kind = "number" /\ IsOne(m.v)
    <2>1. StatusOf(PyVerdict(m)) = Status(m)
        BY PyExact
    <2> QED  BY <2>1 DEF StatusOf, Status
<1>2. PyVerdict(m) = "valid" => PySchema(m) # "valid" /\ PyInput(m) = "ok"
    BY <1>1, PySchemaExact, InputReasons
<1>3. PyVerdict(m) = "valid" => PySchema(m) = "ok" /\ ~(m.jcs > MaxJcs)
    BY <1>2 DEF PyVerdict
<1> QED  BY <1>2, <1>3 DEF CaseFault, Parsed

\* What a case of one of the other classes raises: nothing if what its class
\* looks at is right, "unknown-v" only about another version.
LEMMA ClassFaults ==
    ASSUME NEW m, IsMessage(m), NEW cls \in Classes \ {"full-assertion"},
           NEW expect \in {"valid", "unsupported"}
    PROVE  /\ CaseFault(cls, expect, m) = "ok" <=> Accepts(cls, m)
           /\ CaseFault(cls, expect, m) = "unknown-v" => Status(m) = "unsupported"
<1>1. /\ PyInput(m) = "ok" <=> Clean(m)
      /\ PyInput(m) \notin {"valid", "unknown-v"}
      /\ Parsed(m) = "ok" <=> Accepts("json-input", m)
      /\ Parsed(m) # "unknown-v"
    BY MessageMembers, InputReasons DEF Parsed, Accepts, PyInput, IsInput
<1>2. CASE cls = "json-input"
    BY <1>1, <1>2 DEF CaseFault
<1>3. CASE cls # "json-input"
    <2>1. cls \in {"schema", "length"}
        BY <1>3 DEF Classes
    <2>2. CaseFault(cls, expect, m) =
             IF PyInput(m) # "ok" THEN IF PyInput(m) = "not-object" THEN "schema" ELSE PyInput(m)
             ELSE PySchema(m)
        BY <2>1 DEF CaseFault, Parsed
    <2>3. Accepts(cls, m) <=> Clean(m) /\ m.v.kind = "number" /\ IsOne(m.v) /\ Shaped(m)
        BY <2>1 DEF Accepts
    <2>4. CASE m.v.kind = "number" /\ IsOne(m.v)
        BY <1>1, <2>2, <2>3, <2>4, PySchemaShaped
    <2>5. CASE ~(m.v.kind = "number" /\ IsOne(m.v))
        <3>1. PySchema(m) # "ok" /\ (PySchema(m) = "unknown-v" => m.v.kind = "number")
            BY <2>5 DEF PySchema
        <3>2. Clean(m) /\ m.v.kind = "number" => Status(m) = "unsupported"
            BY <2>5 DEF Status
        <3> QED  BY <1>1, <2>2, <2>3, <2>5, <3>1, <3>2
    <2> QED  BY <2>4, <2>5
<1> QED  BY <1>2, <1>3

\* The validator's reports are never "ok".
LEMMA VerdictIsNotOk ==
    ASSUME NEW m, IsMessage(m)
    PROVE  PyVerdict(m) # "ok"
    BY DEF PyVerdict

\* Along every behaviour --diagnostic, --batch and the exit codes of
\* spp_verify.py tell the status of the message.
THEOREM DiagnosticAgreement == Spec => []DiagnosticAgrees
<1>1. IInv => DiagnosticAgrees
    <2> SUFFICES ASSUME IInv, phase = "mined"
                 PROVE  /\ Diagnostic(msg) = PyVerdict(msg)
                        /\ ExitCode(Diagnostic(msg)) = CASE Status(msg) = "valid" -> 0
                                                         [] Status(msg) = "unsupported" -> 2
                                                         [] OTHER -> 1
                        /\ VerdictRecord(msg).status = Status(msg)
        BY DEF DiagnosticAgrees
    <2>1. StatusOf(PyVerdict(msg)) = Status(msg)
        BY PyExact DEF IInv
    <2>2. Diagnostic(msg) = PyVerdict(msg)
        BY DiagnosticIsVerdict
    <2> QED  BY <2>1, <2>2 DEF ExitCode, StatusOf, VerdictRecord
<1> QED  BY InitIInv, NextIInv, <1>1, PTL DEF Spec

\* And what a passing case of run_case shows, for each class and expectation.
THEOREM SuiteIsSound == Spec => []SuiteTellsTruth
<1>1. IInv => SuiteTellsTruth
    <2> SUFFICES ASSUME IInv, phase = "mined"
                 PROVE  /\ \A expect \in Expectations :
                             RunCase("full-assertion", expect, {}, msg) <=> Status(msg) = expect
                        /\ \A cls \in Classes \ {"full-assertion"} :
                             /\ RunCase(cls, "valid", {}, msg) <=> Accepts(cls, msg)
                             /\ Accepts(cls, msg) => RunCase(cls, "unsupported", {}, msg)
                             /\ RunCase(cls, "unsupported", {}, msg) =>
                                    Accepts(cls, msg) \/ Status(msg) = "unsupported"
                        /\ \A cls \in Classes, reasons \in {{}, {PyVerdict(msg)}} :
                             RunCase(cls, "invalid", reasons, msg) => Status(msg) # "valid"
        BY DEF SuiteTellsTruth
    <2>1. IsMessage(msg) /\ StatusOf(PyVerdict(msg)) = Status(msg) /\ PyVerdict(msg) # "ok"
        BY PyExact, VerdictIsNotOk DEF IInv
    <2>2. ASSUME NEW expect \in Expectations
          PROVE  RunCase("full-assertion", expect, {}, msg) <=> Status(msg) = expect
        <3>1. CaseFault("full-assertion", expect, msg) =
                IF PyVerdict(msg) = "valid" THEN "ok" ELSE PyVerdict(msg)
            BY DEF CaseFault
        <3> QED  BY <2>1, <3>1 DEF RunCase, StatusOf, Expectations
    <2>3. ASSUME NEW cls \in Classes \ {"full-assertion"}
          PROVE  /\ RunCase(cls, "valid", {}, msg) <=> Accepts(cls, msg)
                 /\ Accepts(cls, msg) => RunCase(cls, "unsupported", {}, msg)
                 /\ RunCase(cls, "unsupported", {}, msg) =>
                        Accepts(cls, msg) \/ Status(msg) = "unsupported"
        <3>1. /\ CaseFault(cls, "valid", msg) = "ok" <=> Accepts(cls, msg)
              /\ CaseFault(cls, "unsupported", msg) = "ok" <=> Accepts(cls, msg)
              /\ CaseFault(cls, "unsupported", msg) = "unknown-v" => Status(msg) = "unsupported"
            BY <2>1, ClassFaults
        <3> QED  BY <3>1 DEF RunCase
    <2>4. ASSUME NEW cls \in Classes, NEW reasons, RunCase(cls, "invalid", reasons, msg)
          PROVE  Status(msg) # "valid"
        <3>1. "invalid" \in Expectations
            BY DEF Expectations
        <3>2. PyVerdict(msg) = "valid" => CaseFault(cls, "invalid", msg) = "ok"
            BY <2>1, <3>1, CaseFaults
        <3>3. CaseFault(cls, "invalid", msg) # "ok"
            BY <2>4 DEF RunCase
        <3> QED  BY <2>1, <3>2, <3>3 DEF StatusOf
    <2> QED  BY <2>2, <2>3, <2>4
<1> QED  BY InitIInv, NextIInv, <1>1, PTL DEF Spec
-----------------------------------------------------------------------------
(***************************************************************************)
(* Signatures, for every field and curve of which the assumptions hold.    *)
(*                                                                         *)
(* Recursive functions exist by induction (RecursionOn); _point_mul and    *)
(* mulByL compute multiples of a point because of what a round leaves to   *)
(* add (MulInv) and because halving ends.  _xrecover finds the even one of *)
(* the two x of a y, if it has any (Recovered), so a decoder that encodes  *)
(* what it found and compares accepts encodings of points and nothing else *)
(* (Decoded).  Points of order L are the multiples of the base point, and  *)
(* the equation of the verifiers is one of scalars (ChecksExact).          *)
(***************************************************************************)

\* A set of naturals that has 0 and with every number its successor has all
\* of them.
LEMMA NaturalsOf ==
    ASSUME NEW S \in SUBSET Nat, 0 \in S, \A n \in S : n + 1 \in S
    PROVE  \A n \in Nat : n \in S
<1> SUFFICES ASSUME NEW k \in Nat, k \notin S PROVE FALSE
    OBVIOUS
<1> DEFINE M == Nat \ S
<1>1. M \in SUBSET Nat /\ M # {}
    OBVIOUS
<1> HIDE DEF M
<1>2. PICK m \in M : \A y \in M : ~(<<y, m>> \in OpToRel(<, Nat))
    BY <1>1, NatLessThanWellFounded, WFMin, Zenon
<1>3. m \in Nat /\ m # 0 /\ m \notin S
    BY <1>1, <1>2 DEF M
<1>4. m - 1 \in Nat /\ (m - 1) + 1 = m
    BY <1>3
<1>5. m - 1 \in M
    BY <1>3, <1>4 DEF M
<1>6. ~(m - 1 < m)
    BY <1>1, <1>2, <1>5 DEF OpToRel
<1> QED  BY <1>3, <1>6

\* A function that is defined from the value at an earlier number exists.
Follow(f, S, n, first, before, step) ==
    /\ f \in [0..n -> S] /\ f[0] = first
    /\ \A i \in 1..n : f[i] = step[<<i, f[before[i]]>>]

Recursion(S, first, before, step) ==
    \E f \in [Nat -> S] : f[0] = first /\ \A n \in Nat \ {0} : f[n] = step[<<n, f[before[n]]>>]

\* By induction there is one up to every number, and two of them are the same as
\* far as both go.
LEMMA RecursionOn ==
    ASSUME NEW S, NEW first \in S, NEW before \in [Nat -> Nat], \A n \in Nat \ {0} : before[n] < n,
           NEW step \in [Nat \X S -> S]
    PROVE  Recursion(S, first, before, step)
<1> DEFINE Up(n, f) == Follow(f, S, n, first, before, step)
           A == {n \in Nat : \E f : Up(n, f)}
<1>0. \A n \in Nat : \A i \in 1..n : before[i] \in 0..n /\ before[i] < i /\ i \in Nat
    <2> SUFFICES ASSUME NEW n \in Nat, NEW i \in 1..n PROVE before[i] \in 0..n /\ before[i] < i /\ i \in Nat
        OBVIOUS
    <2>1. i \in Nat \ {0} /\ i <= n
        OBVIOUS
    <2>2. before[i] \in Nat /\ before[i] < i
        BY <2>1
    <2> QED  BY <2>1, <2>2
<1>1. 0 \in A
    <2> DEFINE f == [i \in 0..0 |-> first]
    <2>1. f \in [0..0 -> S] /\ f[0] = first /\ \A i \in 1..0 : FALSE
        OBVIOUS
    <2> HIDE DEF f
    <2>2. Up(0, f)
        BY <2>1 DEF Follow
    <2> QED  BY <2>2
<1>2. ASSUME NEW n \in A PROVE n + 1 \in A
    <2>1. PICK f : Up(n, f)
        OBVIOUS
    <2> DEFINE k == n + 1
               x == step[<<k, f[before[k]]>>]
               g == [i \in 0..k |-> IF i = k THEN x ELSE f[i]]
    <2>2. k \in Nat /\ k \in 1..k /\ k # 0 /\ before[k] \in 0..n /\ \A i \in 0..k : i # k => i \in 0..n
        <3>1. k \in Nat \ {0} /\ \A i \in 0..k : i # k => i \in 0..n
            OBVIOUS
        <3>2. before[k] \in Nat /\ before[k] < k
            BY <3>1
        <3> QED  BY <3>1, <3>2
    <2> HIDE DEF k
    <2>3. x \in S
        <3>1. f[before[k]] \in S
            BY <2>1, <2>2 DEF Follow
        <3>2. <<k, f[before[k]]>> \in Nat \X S
            BY <2>2, <3>1
        <3> QED  BY <3>2
    <2> HIDE DEF x
    <2>4. g \in [0..k -> S]
        BY <2>1, <2>2, <2>3 DEF Follow
    <2>5. \A i \in 0..n : g[i] = f[i]
        BY <2>2 DEF k
    <2>6. g[0] = first
        BY <2>1, <2>5 DEF Follow
    <2>7. ASSUME NEW i \in 1..k PROVE g[i] = step[<<i, g[before[i]]>>]
        <3>1. CASE i = k
            <4>1. g[i] = x /\ g[before[k]] = f[before[k]]
                BY <2>2, <2>5, <3>1
            <4> QED  BY <3>1, <4>1 DEF x
        <3>2. CASE i # k
            <4>1. i \in 1..n
                BY <2>2, <3>2
            <4>2. g[i] = f[i] /\ before[i] \in 0..n
                <5>1. n \in Nat /\ i \in 0..n
                    BY <4>1
                <5>2. before[i] \in 0..n
                    BY <1>0, <4>1, <5>1
                <5> QED  BY <2>5, <5>1, <5>2
            <4>3. g[before[i]] = f[before[i]]
                BY <2>5, <4>2
            <4> QED  BY <2>1, <4>1, <4>2, <4>3 DEF Follow
        <3> QED  BY <3>1, <3>2
    <2> HIDE DEF g
    <2>8. Up(k, g)
        BY <2>4, <2>6, <2>7 DEF Follow
    <2> QED  BY <2>2, <2>8 DEF k
<1>3. \A n \in Nat : \E f : Up(n, f)
    <2>1. A \in SUBSET Nat
        OBVIOUS
    <2> HIDE DEF A
    <2>2. \A n \in Nat : n \in A
        BY <1>1, <1>2, <2>1, NaturalsOf
    <2> QED  BY <2>2 DEF A
\* Two of them are the same as far as both go.
<1> DEFINE Same(i) == \A n, m \in Nat : \A f, g : i <= n /\ i <= m /\ Up(n, f) /\ Up(m, g) => f[i] = g[i]
           B == {k \in Nat : \A i \in 0..k : Same(i)}
<1>4. 0 \in B
    <2>1. \A i \in 0..0 : i = 0
        OBVIOUS
    <2> QED  BY <2>1 DEF Follow
<1>5. ASSUME NEW k \in B PROVE k + 1 \in B
    <2>1. ASSUME NEW i \in 0..(k + 1) PROVE Same(i)
        <3>1. CASE i \in 0..k
            BY <3>1
        <3>2. CASE i = k + 1
            <4> SUFFICES ASSUME NEW n \in Nat, NEW m \in Nat, NEW f, NEW g, i <= n, i <= m, Up(n, f), Up(m, g)
                         PROVE  f[i] = g[i]
                OBVIOUS
            <4>1. i \in 1..n /\ i \in 1..m
                BY <3>2
            <4>2. before[i] \in Nat /\ before[i] < i
                BY <1>0, <4>1
            <4>3. before[i] \in 0..k /\ before[i] <= n /\ before[i] <= m
                BY <3>2, <4>1, <4>2
            <4>4. f[before[i]] = g[before[i]]
                BY <4>3
            <4>5. f[i] = step[<<i, f[before[i]]>>] /\ g[i] = step[<<i, g[before[i]]>>]
                BY <4>1 DEF Follow
            <4> QED  BY <4>4, <4>5
        <3> QED  BY <3>1, <3>2
    <2> HIDE DEF Same
    <2>2. k + 1 \in Nat
        OBVIOUS
    <2> QED  BY <2>1, <2>2
<1>6. \A k \in Nat : Same(k)
    <2>1. B \in SUBSET Nat
        OBVIOUS
    <2> HIDE DEF B
    <2>2. \A n \in Nat : n \in B
        BY <1>4, <1>5, <2>1, NaturalsOf
    <2> HIDE DEF Same
    <2>3. \A k \in Nat : k \in 0..k
        OBVIOUS
    <2> QED  BY <2>2, <2>3 DEF B
<1> DEFINE F == [n \in Nat |-> CHOOSE f : Up(n, f)]
           G == [n \in Nat |-> F[n][n]]
<1>7. \A n \in Nat : Up(n, F[n])
    <2> SUFFICES ASSUME NEW n \in Nat PROVE Up(n, F[n])
        OBVIOUS
    <2>1. Up(n, CHOOSE f : Up(n, f))
        BY <1>3
    <2> QED  BY <2>1
<1> HIDE DEF F
<1>8. G \in [Nat -> S]
    <2> SUFFICES ASSUME NEW n \in Nat PROVE F[n][n] \in S
        OBVIOUS
    <2>1. n \in 0..n
        OBVIOUS
    <2> QED  BY <1>7, <2>1 DEF Follow
<1>9. G[0] = first
    <2>1. G[0] = F[0][0] /\ 0 \in Nat
        OBVIOUS
    <2> QED  BY <1>7, <2>1 DEF Follow
<1>10. ASSUME NEW n \in Nat \ {0} PROVE G[n] = step[<<n, G[before[n]]>>]
    <2> DEFINE b == before[n]
    <2>1. b \in Nat /\ b < n /\ n \in 1..n
        OBVIOUS
    <2>2. F[n][n] = step[<<n, F[n][b]>>]
        BY <1>7, <2>1 DEF Follow
    <2> HIDE DEF b
    <2>3. F[n][b] = F[b][b]
        <3>1. b <= n /\ b <= b
            BY <2>1
        <3>2. Up(n, F[n]) /\ Up(b, F[b])
            BY <1>7, <2>1
        <3>3. Same(b)
            BY <1>6, <2>1
        <3> HIDE DEF Up
        <3> QED  BY <2>1, <3>1, <3>2, <3>3
    <2>4. G[n] = F[n][n] /\ G[b] = F[b][b]
        BY <2>1
    <2> QED  BY <2>2, <2>3, <2>4 DEF b
<1> HIDE DEF G
<1> QED  BY <1>8, <1>9, <1>10 DEF Recursion

\* Plain recursion, from one number to the next.
Stepwise(S, first, step) ==
    \E f \in [Nat -> S] : f[0] = first /\ \A n \in Nat \ {0} : f[n] = step[f[n - 1]]

\* Such a function exists.
LEMMA NextOn ==
    ASSUME NEW S, NEW first \in S, NEW step \in [S -> S]
    PROVE  Stepwise(S, first, step)
<1> DEFINE before == [n \in Nat |-> IF n = 0 THEN 0 ELSE n - 1]
           next == [p \in Nat \X S |-> step[p[2]]]
<1>1. before \in [Nat -> Nat] /\ (\A n \in Nat \ {0} : before[n] = n - 1) /\ \A n \in Nat \ {0} : before[n] < n
    OBVIOUS
<1>2. next \in [Nat \X S -> S] /\ \A n \in Nat : \A x \in S : next[<<n, x>>] = step[x]
    OBVIOUS
<1> HIDE DEF before, next
<1>3. PICK f \in [Nat -> S] : f[0] = first /\ \A n \in Nat \ {0} : f[n] = next[<<n, f[before[n]]>>]
    <2>1. Recursion(S, first, before, next)
        BY <1>1, <1>2, RecursionOn
    <2> QED  BY <2>1 DEF Recursion
<1>4. ASSUME NEW n \in Nat \ {0} PROVE f[n] = step[f[n - 1]]
    <2>1. n - 1 \in Nat /\ n \in Nat /\ before[n] = n - 1
        BY <1>1
    <2> DEFINE k == n - 1
    <2> HIDE DEF k
    <2>2. k \in Nat /\ before[n] = k
        BY <2>1 DEF k
    <2>3. f[k] \in S
        BY <2>2
    <2>4. f[n] = step[f[k]]
        BY <1>2, <1>3, <2>1, <2>2, <2>3
    <2> QED  BY <2>4 DEF k
<1> QED  BY <1>3, <1>4 DEF Stepwise

\* Recursion from a number to its double.
Halving(S, first, step) ==
    \E f \in [Nat -> S] : f[0] = first /\ \A n \in Nat \ {0} : f[n] = step[<<n % 2, f[n \div 2]>>]

\* And such a one.
LEMMA HalfOn ==
    ASSUME NEW S, NEW first \in S, NEW step \in [{0, 1} \X S -> S]
    PROVE  Halving(S, first, step)
<1> DEFINE before == [n \in Nat |-> n \div 2]
           next == [p \in Nat \X S |-> step[<<p[1] % 2, p[2]>>]]
<1>1. /\ before \in [Nat -> Nat] /\ (\A n \in Nat \ {0} : before[n] = n \div 2)
      /\ \A n \in Nat \ {0} : before[n] < n
    OBVIOUS
<1>2. \A n \in Nat : n % 2 \in {0, 1}
    OBVIOUS
<1>3. next \in [Nat \X S -> S] /\ \A n \in Nat : \A x \in S : next[<<n, x>>] = step[<<n % 2, x>>]
    BY <1>2
<1> HIDE DEF before, next
<1>4. PICK f \in [Nat -> S] : f[0] = first /\ \A n \in Nat \ {0} : f[n] = next[<<n, f[before[n]]>>]
    <2>1. Recursion(S, first, before, next)
        BY <1>1, <1>3, RecursionOn
    <2> QED  BY <2>1 DEF Recursion
<1>5. ASSUME NEW n \in Nat \ {0} PROVE f[n] = step[<<n % 2, f[n \div 2]>>]
    <2> DEFINE k == n \div 2
    <2>1. k \in Nat /\ n \in Nat /\ before[n] = k
        BY <1>1
    <2> HIDE DEF k
    <2>2. f[k] \in S
        BY <2>1
    <2>3. f[n] = step[<<n % 2, f[k]>>]
        BY <1>3, <1>4, <2>1, <2>2
    <2> QED  BY <2>3 DEF k
<1> QED  BY <1>4, <1>5 DEF Halving

-----------------------------------------------------------------------------
\* The numbers of the curve.
LEMMA CurveNumbers ==
    /\ P \in Nat /\ L \in Nat /\ D \in Nat /\ BaseY \in Nat /\ SignBit \in Nat /\ Digests \subseteq Nat
    /\ P >= 5 /\ P % 2 = 1 /\ L % 2 = 1 /\ L >= 1 /\ P < SignBit /\ D < P /\ BaseY < P
<1>1. P \in Nat /\ L \in Nat /\ D \in Nat /\ BaseY \in Nat /\ SignBit \in Nat /\ Digests \subseteq Nat
    BY CurveAssumption
<1>2. P % 8 = 5 /\ P < SignBit /\ D < P /\ BaseY < P /\ L % 2 = 1
    BY CurveAssumption
<1>3. P >= 5 /\ P % 2 = 1 /\ L >= 1
    BY <1>1, <1>2
<1> QED  BY <1>1, <1>2, <1>3

\* The identity is a point of the curve.
LEMMA IdentOnCurve == Ident \in Curve
<1>1. 0 \in 0..(P - 1) /\ 1 \in 0..(P - 1) /\ 0 % P = 0
    BY CurveNumbers
<1>2. 0 * 0 * (D * 1 * 1 + 1) - (1 * 1 - 1) = 0
    BY CurveNumbers
<1> QED  BY <1>1, <1>2 DEF Curve, Ident

\* What is assumed of the group, in one place,
LEMMA Group ==
    /\ \A a, b \in Curve : PointAdd(a, b) \in Curve /\ PointAdd(a, b) = PointAdd(b, a)
    /\ \A a, b, c \in Curve : PointAdd(PointAdd(a, b), c) = PointAdd(a, PointAdd(b, c))
    /\ \A a \in Curve : PointAdd(a, Ident) = a /\ PointAdd(Ident, a) = a
    /\ Ident \in Curve /\ BasePoint \in Curve
    BY GroupAssumption, IdentOnCurve

\* of a sum,
LEMMA Added ==
    ASSUME NEW a \in Curve, NEW b \in Curve
    PROVE  PointAdd(a, b) \in Curve /\ PointAdd(a, b) = PointAdd(b, a)
    BY GroupAssumption

\* and of three terms.
LEMMA Assoc ==
    ASSUME NEW a \in Curve, NEW b \in Curve, NEW c \in Curve
    PROVE  PointAdd(PointAdd(a, b), c) = PointAdd(a, PointAdd(b, c))
    BY GroupAssumption

\* A number is twice its half and its last bit.
LEMMA Halves ==
    ASSUME NEW n \in Nat
    PROVE  n \div 2 \in Nat /\ n % 2 \in {0, 1} /\ n = 2 * (n \div 2) + (n % 2) /\ (n # 0 => n \div 2 < n)
<1>1. n \div 2 \in Nat /\ n % 2 \in {0, 1}
    OBVIOUS
<1>2. n = 2 * (n \div 2) + (n % 2)
    OBVIOUS
<1>3. n # 0 => n \div 2 < n
    OBVIOUS
<1> QED  BY <1>1, <1>2, <1>3

\* Multiples of a point.
LEMMA TimesIs ==
    ASSUME NEW a \in Curve
    PROVE  /\ Times(a) \in [Nat -> Curve] /\ Times(a)[0] = Ident
           /\ \A n \in Nat : Times(a)[n + 1] = PointAdd(Times(a)[n], a)
<1> DEFINE step == [x \in Curve |-> PointAdd(x, a)]
           Rule(f) == f = [n \in Nat |-> IF n = 0 THEN Ident ELSE PointAdd(f[n - 1], a)]
<1>1. step \in [Curve -> Curve] /\ \A x \in Curve : step[x] = PointAdd(x, a)
    BY Group
<1> HIDE DEF step
<1>2. PICK f \in [Nat -> Curve] : f[0] = Ident /\ \A n \in Nat \ {0} : f[n] = step[f[n - 1]]
    <2>1. Stepwise(Curve, Ident, step)
        BY <1>1, Group, NextOn
    <2> QED  BY <2>1 DEF Stepwise
<1>3. Rule(f)
    <2>1. ASSUME NEW n \in Nat PROVE f[n] = IF n = 0 THEN Ident ELSE PointAdd(f[n - 1], a)
        <3>1. CASE n = 0
            BY <1>2, <3>1
        <3>2. CASE n # 0
            <4> DEFINE k == n - 1
            <4>1. k \in Nat /\ n \in Nat \ {0}
                BY <3>2
            <4>2. f[n] = step[f[k]]
                BY <1>2, <4>1
            <4> HIDE DEF k
            <4>3. f[n] = PointAdd(f[k], a)
                BY <1>1, <4>1, <4>2
            <4> QED  BY <3>2, <4>3 DEF k
        <3> QED  BY <3>1, <3>2
    <2> QED  BY <2>1
<1> DEFINE g == Times(a)
<1>4. Rule(g)
    <2>1. g = CHOOSE h : Rule(h)
        BY DEF Times
    <2> HIDE DEF g, Rule
    <2> QED  BY <1>3, <2>1
<1> HIDE DEF g
<1>5. g[0] = Ident
    BY <1>4
<1>6. ASSUME NEW n \in Nat PROVE g[n + 1] = PointAdd(g[n], a)
    <2> DEFINE k == n + 1
    <2>1. k \in Nat /\ k # 0 /\ k - 1 = n
        OBVIOUS
    <2> HIDE DEF k
    <2>2. g[k] = PointAdd(g[k - 1], a)
        BY <1>4, <2>1
    <2> QED  BY <2>1, <2>2 DEF k
<1>7. \A n \in Nat : g[n] \in Curve
    <2> DEFINE S == {n \in Nat : g[n] \in Curve}
    <2>1. 0 \in S
        BY <1>5, Group
    <2>2. ASSUME NEW n \in S PROVE n + 1 \in S
        <3>1. n + 1 \in Nat /\ g[n + 1] = PointAdd(g[n], a) /\ g[n] \in Curve
            BY <1>6
        <3>2. PointAdd(g[n], a) \in Curve
            BY <3>1, Group
        <3> QED  BY <3>1, <3>2
    <2>3. S \in SUBSET Nat
        OBVIOUS
    <2> HIDE DEF S
    <2>4. \A n \in Nat : n \in S
        BY <2>1, <2>2, <2>3, NaturalsOf
    <2> QED  BY <2>4 DEF S
<1>8. g \in [Nat -> Curve]
    <2>1. g = [n \in Nat |-> g[n]]
        <3>1. g = [n \in Nat |-> IF n = 0 THEN Ident ELSE PointAdd(g[n - 1], a)]
            BY <1>4
        <3> HIDE DEF Rule
        <3> QED  BY <3>1
    <2> QED  BY <1>7, <2>1
<1> QED  BY <1>5, <1>6, <1>8 DEF g

\* Once and twice a point.
LEMMA TimesOne ==
    ASSUME NEW a \in Curve
    PROVE  Times(a)[1] = a /\ Times(a)[2] = PointAdd(a, a)
<1> DEFINE t == Times(a)
<1>1. t[0] = Ident /\ \A n \in Nat : t[n + 1] = PointAdd(t[n], a)
    BY TimesIs
<1> HIDE DEF t
<1>2. t[0 + 1] = PointAdd(Ident, a)
    BY <1>1
<1>3. t[1] = a
    <2>1. 0 + 1 = 1
        OBVIOUS
    <2> QED  BY <1>2, <2>1, Group
<1>4. t[1 + 1] = PointAdd(a, a)
    BY <1>1, <1>3
<1>5. 1 + 1 = 2
    OBVIOUS
<1> QED  BY <1>3, <1>4, <1>5 DEF t

\* Multiples add up,
LEMMA TimesAdd ==
    ASSUME NEW a \in Curve, NEW m \in Nat, NEW n \in Nat
    PROVE  Times(a)[m + n] = PointAdd(Times(a)[m], Times(a)[n])
<1> DEFINE t == Times(a)
           S == {i \in Nat : t[m + i] = PointAdd(t[m], t[i])}
<1>1. t \in [Nat -> Curve] /\ t[0] = Ident /\ \A i \in Nat : t[i + 1] = PointAdd(t[i], a)
    BY TimesIs
<1> HIDE DEF t
<1>2. 0 \in S
    <2>1. m + 0 = m /\ t[m] \in Curve
        BY <1>1
    <2>2. PointAdd(t[m], t[0]) = t[m]
        BY <1>1, <2>1, Group
    <2> QED  BY <2>1, <2>2
<1>3. ASSUME NEW i \in S PROVE i + 1 \in S
    <2> DEFINE j == m + i
               k == i + 1
    <2>1. j \in Nat /\ k \in Nat /\ i \in Nat /\ m + k = j + 1 /\ t[j] = PointAdd(t[m], t[i])
        OBVIOUS
    <2>2. t[k] = PointAdd(t[i], a)
        BY <1>1
    <2> HIDE DEF j, k
    <2>3. t[j + 1] = PointAdd(t[j], a)
        BY <1>1, <2>1
    <2>4. t[m] \in Curve /\ t[i] \in Curve
        BY <1>1, <2>1
    <2>5. PointAdd(PointAdd(t[m], t[i]), a) = PointAdd(t[m], PointAdd(t[i], a))
        BY <2>4, Assoc
    <2>6. k \in S
        BY <2>1, <2>2, <2>3, <2>5
    <2> QED  BY <2>6 DEF k
<1>4. S \in SUBSET Nat
    OBVIOUS
<1> HIDE DEF S
<1>5. n \in S
    BY <1>2, <1>3, <1>4, NaturalsOf
<1> QED  BY <1>5 DEF S, t

\* and multiply;
LEMMA TimesTimes ==
    ASSUME NEW a \in Curve, NEW m \in Nat, NEW n \in Nat
    PROVE  Times(Times(a)[m])[n] = Times(a)[m * n]
<1> DEFINE t == Times(a)
           b == t[m]
           u == Times(b)
           S == {i \in Nat : u[i] = t[m * i]}
<1>1. t \in [Nat -> Curve] /\ t[0] = Ident /\ \A i, j \in Nat : t[i + j] = PointAdd(t[i], t[j])
    BY TimesIs, TimesAdd
<1>2. b \in Curve
    <2> HIDE DEF t
    <2> QED  BY <1>1
<1> HIDE DEF t, b
<1>3. u[0] = Ident /\ \A i \in Nat : u[i + 1] = PointAdd(u[i], b)
    BY <1>2, TimesIs
<1> HIDE DEF u
<1>4. 0 \in S
    <2>1. m * 0 = 0
        OBVIOUS
    <2> QED  BY <1>1, <1>3, <2>1
<1>5. ASSUME NEW i \in S PROVE i + 1 \in S
    <2> DEFINE j == m * i
               k == i + 1
    <2>1. j \in Nat /\ k \in Nat /\ m * k = j + m /\ i \in Nat
        OBVIOUS
    <2>2. u[k] = PointAdd(u[i], b) /\ u[i] = t[j]
        BY <1>3
    <2> HIDE DEF j, k
    <2>3. t[j + m] = PointAdd(t[j], t[m])
        BY <1>1, <2>1
    <2>4. k \in S
        BY <2>1, <2>2, <2>3 DEF b
    <2> QED  BY <2>4 DEF k
<1>6. S \in SUBSET Nat
    OBVIOUS
<1> HIDE DEF S
<1>7. n \in S
    BY <1>4, <1>5, <1>6, NaturalsOf
<1> QED  BY <1>7 DEF S, u, b, t

\* so twice a point n times is the point 2 n times.
LEMMA TimesDouble ==
    ASSUME NEW a \in Curve, NEW n \in Nat
    PROVE  Times(PointAdd(a, a))[n] = Times(a)[2 * n] /\ Times(a)[2 * n] = PointAdd(Times(a)[n], Times(a)[n])
<1>1. Times(Times(a)[2])[n] = Times(a)[2 * n]
    <2>1. 2 \in Nat
        OBVIOUS
    <2> QED  BY <2>1, TimesTimes
<1>2. Times(a)[n + n] = PointAdd(Times(a)[n], Times(a)[n])
    BY TimesAdd
<1>3. n + n = 2 * n
    OBVIOUS
<1> QED  BY <1>1, <1>2, <1>3, TimesOne

-----------------------------------------------------------------------------
\* The state of _point_mul: what is left to add makes up the multiple.
MulInv(st, s, pt, i) ==
    /\ st = [s |-> st.s, r |-> st.r, q |-> st.q]
    /\ st.s \in Nat /\ st.r \in Curve /\ st.q \in Curve
    /\ st.s = 0 \/ st.s + i <= s
    /\ PointAdd(Times(st.q)[st.s], st.r) = Times(pt)[s]

MulStates == [s : Nat, r : Curve, q : Curve]

\* A round of _point_mul keeps it,
LEMMA MulStepInv ==
    ASSUME NEW st, NEW s \in Nat, NEW pt \in Curve, NEW i \in Nat, MulInv(st, s, pt, i)
    PROVE  MulInv(MulStep(st), s, pt, i + 1)
<1> DEFINE n == st.s
           r == st.r
           q == st.q
           h == n \div 2
           qq == PointAdd(q, q)
           rr == IF n % 2 = 1 THEN PointAdd(r, q) ELSE r
           nx == [s |-> h, r |-> rr, q |-> qq]
<1>1. n \in Nat /\ r \in Curve /\ q \in Curve /\ (n = 0 \/ n + i <= s) /\ PointAdd(Times(q)[n], r) = Times(pt)[s]
    BY DEF MulInv
<1>2. CASE n = 0
    <2>1. MulStep(st) = st
        BY <1>2 DEF MulStep
    <2> QED  BY <1>2, <2>1 DEF MulInv
<1>3. CASE n # 0
    <2>1. MulStep(st) = nx
        BY <1>3 DEF MulStep
    <2> HIDE DEF n, r, q
    <2>2. h \in Nat /\ (h = 0 \/ h + (i + 1) <= s) /\ n % 2 \in {0, 1} /\ n = 2 * h + (n % 2)
        <3>1. h \in Nat /\ h < n /\ n % 2 \in {0, 1} /\ n = 2 * h + (n % 2)
            BY <1>1, <1>3, Halves
        <3> HIDE DEF h
        <3> QED  BY <1>1, <1>3, <3>1
    <2>3. qq \in Curve /\ rr \in Curve
        BY <1>1, Group
    <2> DEFINE t == Times(q)
    <2>4. t \in [Nat -> Curve] /\ t[1] = q /\ Times(qq)[h] = t[2 * h]
        BY <1>1, <2>2, TimesIs, TimesOne, TimesDouble
    <2>5. t[2 * h + 1] = PointAdd(t[2 * h], t[1])
        <3>1. 2 * h \in Nat /\ 1 \in Nat
            BY <2>2
        <3> HIDE DEF h
        <3> QED  BY <1>1, <3>1, TimesAdd
    <2> DEFINE k == 2 * h
    <2>6. k \in Nat /\ n = k + (n % 2)
        BY <2>2
    <2> HIDE DEF t, h, qq
    <2>7. PointAdd(t[k], rr) = PointAdd(t[n], r)
        <3>1. CASE n % 2 = 1
            <4>1. n = k + 1 /\ t[n] = PointAdd(t[k], q) /\ t[k] \in Curve
                <5>1. n = k + 1
                    <6> HIDE DEF k
                    <6> QED  BY <2>6, <3>1
                <5>2. t[k + 1] = PointAdd(t[k], q)
                    BY <2>4, <2>5
                <5>3. t[k] \in Curve
                    BY <2>4, <2>6
                <5> QED  BY <5>1, <5>2, <5>3
            <4> HIDE DEF k
            <4>2. rr = PointAdd(r, q) /\ PointAdd(r, q) = PointAdd(q, r)
                BY <1>1, <3>1, Group
            <4>3. PointAdd(PointAdd(t[k], q), r) = PointAdd(t[k], PointAdd(q, r))
                BY <1>1, <4>1, Assoc
            <4> QED  BY <4>1, <4>2, <4>3
        <3>2. CASE n % 2 # 1
            <4>1. n = k /\ rr = r
                <5>1. n % 2 = 0
                    BY <2>2, <3>2
                <5> HIDE DEF k
                <5>2. n = k
                    <6>1. k \in Nat /\ n = k + 0
                        BY <2>6, <5>1
                    <6> QED  BY <6>1
                <5> QED  BY <3>2, <5>2
            <4> QED  BY <4>1
        <3> QED  BY <3>1, <3>2
    <2>8. PointAdd(Times(qq)[h], rr) = Times(pt)[s]
        BY <1>1, <2>4, <2>7 DEF t
    <2> HIDE DEF rr, k
    <2>9. MulInv(nx, s, pt, i + 1)
        <3>1. nx.s = h /\ nx.r = rr /\ nx.q = qq
            OBVIOUS
        <3>2. nx = [s |-> nx.s, r |-> nx.r, q |-> nx.q]
            OBVIOUS
        <3> HIDE DEF nx
        <3> QED  BY <2>2, <2>3, <2>8, <3>1, <3>2 DEF MulInv
    <2> QED  BY <2>1, <2>9
<1> QED  BY <1>2, <1>3

\* the recursive function in the definition of MulLoop exists,
LEMMA MulLoopIs ==
    ASSUME NEW s \in Nat, NEW pt \in Curve
    PROVE  /\ MulLoop(s, pt)[0] = [s |-> s, r |-> Ident, q |-> pt]
           /\ \A i \in 1..s : MulLoop(s, pt)[i] = MulStep(MulLoop(s, pt)[i - 1])
<1> DEFINE start == [s |-> s, r |-> Ident, q |-> pt]
           step == [st \in MulStates |-> MulStep(st)]
           Rule(f) == f = [i \in 0..s |-> IF i = 0 THEN start ELSE MulStep(f[i - 1])]
<1>1. start \in MulStates
    BY Group DEF MulStates
<1>2. step \in [MulStates -> MulStates] /\ \A st \in MulStates : step[st] = MulStep(st)
    <2> SUFFICES ASSUME NEW st \in MulStates PROVE MulStep(st) \in MulStates
        OBVIOUS
    <2>1. st.s \in Nat /\ st.r \in Curve /\ st.q \in Curve
        BY DEF MulStates
    <2>2. st.s \div 2 \in Nat /\ PointAdd(st.r, st.q) \in Curve /\ PointAdd(st.q, st.q) \in Curve
        BY <2>1, Added, Halves
    <2>3. CASE st.s = 0
        BY <2>3 DEF MulStep
    <2>4. CASE st.s # 0
        <3> DEFINE rr == IF st.s % 2 = 1 THEN PointAdd(st.r, st.q) ELSE st.r
                   h == st.s \div 2
                   qq == PointAdd(st.q, st.q)
        <3>1. rr \in Curve /\ h \in Nat /\ qq \in Curve
            BY <2>1, <2>2
        <3>2. MulStep(st) = [s |-> h, r |-> rr, q |-> qq]
            BY <2>4 DEF MulStep
        <3> HIDE DEF rr, h, qq
        <3> QED  BY <3>1, <3>2 DEF MulStates
    <2> QED  BY <2>3, <2>4
<1> HIDE DEF start, step
<1>3. PICK f \in [Nat -> MulStates] : f[0] = start /\ \A n \in Nat \ {0} : f[n] = step[f[n - 1]]
    <2>1. Stepwise(MulStates, start, step)
        BY <1>1, <1>2, NextOn
    <2> QED  BY <2>1 DEF Stepwise
<1> DEFINE g == [i \in 0..s |-> f[i]]
<1>4. Rule(g)
    <2>1. ASSUME NEW i \in 0..s PROVE g[i] = IF i = 0 THEN start ELSE MulStep(g[i - 1])
        <3>1. CASE i = 0
            BY <1>3, <3>1
        <3>2. CASE i # 0
            <4> DEFINE k == i - 1
            <4>1. k \in 0..s /\ k \in Nat /\ i \in Nat \ {0}
                BY <3>2
            <4>2. f[i] = step[f[k]]
                BY <1>3, <4>1
            <4> HIDE DEF k
            <4>3. f[k] \in MulStates /\ g[k] = f[k] /\ g[i] = f[i]
                BY <1>3, <4>1
            <4>4. g[i] = MulStep(g[k])
                BY <1>2, <4>2, <4>3
            <4> QED  BY <3>2, <4>4 DEF k
        <3> QED  BY <3>1, <3>2
    <2> QED  BY <2>1
<1> DEFINE w == MulLoop(s, pt)
<1>5. Rule(w)
    <2>1. w = CHOOSE h : Rule(h)
        BY DEF MulLoop, start
    <2> HIDE DEF w, Rule, g
    <2> QED  BY <1>4, <2>1
<1> HIDE DEF w
<1>6. w[0] = start
    <2>1. 0 \in 0..s
        OBVIOUS
    <2> QED  BY <1>5, <2>1
<1>7. \A i \in 1..s : w[i] = MulStep(w[i - 1])
    <2> SUFFICES ASSUME NEW i \in 1..s PROVE w[i] = MulStep(w[i - 1])
        OBVIOUS
    <2>1. i \in 0..s /\ i # 0
        OBVIOUS
    <2> QED  BY <1>5, <2>1
<1> QED  BY <1>6, <1>7 DEF w, start

\* and after s rounds nothing is left: _point_mul is right.
LEMMA PointMulIs ==
    ASSUME NEW s \in Nat, NEW pt \in Curve
    PROVE  PointMul(s, pt) = Times(pt)[s]
<1> DEFINE w == MulLoop(s, pt)
           S == {i \in Nat : i <= s => MulInv(w[i], s, pt, i)}
<1>1. w[0] = [s |-> s, r |-> Ident, q |-> pt] /\ \A i \in 1..s : w[i] = MulStep(w[i - 1])
    BY MulLoopIs
<1> HIDE DEF w
<1>2. 0 \in S
    <2> DEFINE st == [s |-> s, r |-> Ident, q |-> pt]
    <2>1. st.s = s /\ st.r = Ident /\ st.q = pt /\ st = [s |-> st.s, r |-> st.r, q |-> st.q]
        OBVIOUS
    <2>2. Times(pt)[s] \in Curve
        BY TimesIs
    <2>3. PointAdd(Times(pt)[s], Ident) = Times(pt)[s] /\ Ident \in Curve
        BY <2>2, Group
    <2> HIDE DEF st
    <2>4. MulInv(st, s, pt, 0)
        BY <2>1, <2>3 DEF MulInv
    <2> QED  BY <1>1, <2>4 DEF st
<1>3. ASSUME NEW i \in S PROVE i + 1 \in S
    <2> DEFINE k == i + 1
    <2>1. i \in Nat /\ k \in Nat /\ k - 1 = i /\ (k <= s => k \in 1..s /\ i <= s)
        OBVIOUS
    <2>2. CASE k <= s
        <3>1. MulInv(w[i], s, pt, i)
            BY <2>1, <2>2
        <3>2. w[k] = MulStep(w[i])
            <4> HIDE DEF k
            <4> QED  BY <1>1, <2>1, <2>2
        <3>3. MulInv(MulStep(w[i]), s, pt, k)
            BY <2>1, <3>1, MulStepInv
        <3> QED  BY <2>1, <3>2, <3>3
    <2> QED  BY <2>1, <2>2
<1>4. S \in SUBSET Nat
    OBVIOUS
<1> HIDE DEF S
<1>5. s \in S
    BY <1>2, <1>3, <1>4, NaturalsOf
<1>6. MulInv(w[s], s, pt, s)
    BY <1>5 DEF S
<1> DEFINE n == w[s].s
           r == w[s].r
           q == w[s].q
<1>7. n \in Nat /\ r \in Curve /\ q \in Curve /\ (n = 0 \/ n + s <= s) /\ PointAdd(Times(q)[n], r) = Times(pt)[s]
    BY <1>6 DEF MulInv
<1> HIDE DEF n, r, q
<1>8. n = 0
    BY <1>7
<1>9. PointAdd(Times(q)[0], r) = r
    BY <1>7, TimesIs, Group
<1>10. r = Times(pt)[s]
    BY <1>7, <1>8, <1>9
<1> QED  BY <1>10 DEF PointMul, w, r

\* So is mulByL, which doubles first.
LEMMA MulFromHighIs ==
    ASSUME NEW a \in Curve, NEW m \in Nat
    PROVE  MulFromHigh(a)[m] = Times(a)[m]
<1> DEFINE step == [p \in {0, 1} \X Curve |-> IF p[1] = 1 THEN PointAdd(PointAdd(p[2], p[2]), a) ELSE PointAdd(p[2], p[2])]
           Rule(f) == f = [n \in Nat |-> IF n = 0 THEN Ident
                                         ELSE IF n % 2 = 1 THEN PointAdd(PointAdd(f[n \div 2], f[n \div 2]), a)
                                              ELSE PointAdd(f[n \div 2], f[n \div 2])]
<1>1. step \in [{0, 1} \X Curve -> Curve]
    <2> SUFFICES ASSUME NEW b \in {0, 1}, NEW x \in Curve
                 PROVE  PointAdd(PointAdd(x, x), a) \in Curve /\ PointAdd(x, x) \in Curve
        OBVIOUS
    <2> QED  BY Added
<1>2. \A b \in {0, 1} : \A x \in Curve : step[<<b, x>>] = IF b = 1 THEN PointAdd(PointAdd(x, x), a) ELSE PointAdd(x, x)
    OBVIOUS
<1> HIDE DEF step
<1>3. PICK f \in [Nat -> Curve] : f[0] = Ident /\ \A n \in Nat \ {0} : f[n] = step[<<n % 2, f[n \div 2]>>]
    <2>1. Halving(Curve, Ident, step)
        BY <1>1, Group, HalfOn
    <2> QED  BY <2>1 DEF Halving
<1>4. Rule(f)
    <2>1. ASSUME NEW n \in Nat
          PROVE  f[n] = IF n = 0 THEN Ident
                        ELSE IF n % 2 = 1 THEN PointAdd(PointAdd(f[n \div 2], f[n \div 2]), a)
                             ELSE PointAdd(f[n \div 2], f[n \div 2])
        <3>1. CASE n = 0
            BY <1>3, <3>1
        <3>2. CASE n # 0
            <4> DEFINE k == n \div 2
                       b == n % 2
            <4>1. k \in Nat /\ b \in {0, 1} /\ n \in Nat \ {0}
                BY <3>2, Halves
            <4>2. f[n] = step[<<b, f[k]>>]
                BY <1>3, <4>1
            <4> HIDE DEF k, b
            <4>3. f[k] \in Curve
                BY <4>1
            <4>4. f[n] = IF b = 1 THEN PointAdd(PointAdd(f[k], f[k]), a) ELSE PointAdd(f[k], f[k])
                BY <1>2, <4>1, <4>2, <4>3
            <4> QED  BY <3>2, <4>4 DEF k, b
        <3> QED  BY <3>1, <3>2
    <2> QED  BY <2>1
<1> DEFINE g == MulFromHigh(a)
<1>5. Rule(g)
    <2>1. g = CHOOSE h : Rule(h)
        BY DEF MulFromHigh
    <2> HIDE DEF g, Rule
    <2> QED  BY <1>4, <2>1
<1> HIDE DEF g
<1> DEFINE t == Times(a)
           S == {n \in Nat : \A k \in 0..n : g[k] = t[k]}
<1>6. t \in [Nat -> Curve] /\ t[0] = Ident /\ \A n \in Nat : t[n + 1] = PointAdd(t[n], a)
    BY TimesIs
<1>7. \A n \in Nat : t[2 * n] = PointAdd(t[n], t[n])
    BY TimesDouble
<1> HIDE DEF t
<1>8. 0 \in S
    BY <1>5, <1>6
<1>9. ASSUME NEW i \in S PROVE i + 1 \in S
    <2> DEFINE n == i + 1
               k == n \div 2
               b == n % 2
    <2>1. n \in Nat \ {0} /\ i \in Nat
        OBVIOUS
    <2>2. k \in Nat /\ k < n /\ b \in {0, 1} /\ n = 2 * k + b
        BY <2>1, Halves
    <2>3. g[n] = IF b = 1 THEN PointAdd(PointAdd(g[k], g[k]), a) ELSE PointAdd(g[k], g[k])
        <3> HIDE DEF n
        <3> QED  BY <1>5, <2>1
    <2> HIDE DEF k, b
    <2>4. g[k] = t[k]
        BY <2>2
    <2> HIDE DEF n
    <2>5. g[n] = t[n]
        <3>1. t[2 * k] = PointAdd(t[k], t[k]) /\ t[2 * k + 1] = PointAdd(t[2 * k], a)
            <4>1. 2 * k \in Nat
                BY <2>2
            <4> QED  BY <1>6, <1>7, <2>2, <4>1
        <3>2. CASE b = 1
            BY <2>2, <2>3, <2>4, <3>1, <3>2
        <3>3. CASE b # 1
            <4>1. n = 2 * k
                BY <2>2, <3>3
            <4> QED  BY <2>3, <2>4, <3>1, <3>3, <4>1
        <3> QED  BY <3>2, <3>3
    <2>6. \A j \in 0..n : g[j] = t[j]
        <3>1. \A j \in 0..n : j = n \/ j \in 0..i
            BY <2>1 DEF n
        <3> QED  BY <2>5, <3>1
    <2> QED  BY <2>1, <2>6 DEF n
<1>10. S \in SUBSET Nat
    OBVIOUS
<1> HIDE DEF S
<1>11. m \in S
    BY <1>8, <1>9, <1>10, NaturalsOf
<1> QED  BY <1>11 DEF S, g, t

\* The powers are reduced.
LEMMA PowIn ==
    ASSUME NEW b \in Int, NEW m \in Nat
    PROVE  Pow(b)[m] \in 0..(P - 1)
<1> DEFINE R == 0..(P - 1)
           step == [p \in {0, 1} \X R |-> (p[2] * p[2] * (IF p[1] = 1 THEN b ELSE 1)) % P]
           Rule(f) == f = [n \in Nat |-> IF n = 0 THEN 1
                                         ELSE (f[n \div 2] * f[n \div 2] * (IF n % 2 = 1 THEN b ELSE 1)) % P]
<1>0. P \in Nat /\ P >= 5
    BY CurveNumbers
<1>r. \A x \in Int : x % P \in R
    BY <1>0
<1>1. step \in [{0, 1} \X R -> R]
    <2> SUFFICES ASSUME NEW c \in {0, 1}, NEW x \in R PROVE (x * x * (IF c = 1 THEN b ELSE 1)) % P \in R
        OBVIOUS
    <2>1. x * x * b \in Int /\ x * x * 1 \in Int
        BY <1>0
    <2> QED  BY <1>r, <2>1
<1>2. \A c \in {0, 1} : \A x \in R : step[<<c, x>>] = (x * x * (IF c = 1 THEN b ELSE 1)) % P
    OBVIOUS
<1>o. 1 \in R
    BY <1>0
<1> HIDE DEF step, R
<1>3. PICK f \in [Nat -> R] : f[0] = 1 /\ \A n \in Nat \ {0} : f[n] = step[<<n % 2, f[n \div 2]>>]
    <2>1. Halving(R, 1, step)
        BY <1>1, <1>o, HalfOn
    <2> QED  BY <2>1 DEF Halving
<1>4. Rule(f)
    <2>1. ASSUME NEW n \in Nat
          PROVE  f[n] = IF n = 0 THEN 1 ELSE (f[n \div 2] * f[n \div 2] * (IF n % 2 = 1 THEN b ELSE 1)) % P
        <3>1. CASE n = 0
            BY <1>3, <3>1
        <3>2. CASE n # 0
            <4> DEFINE k == n \div 2
                       c == n % 2
            <4>1. k \in Nat /\ c \in {0, 1} /\ n \in Nat \ {0}
                BY <3>2, Halves
            <4>2. f[n] = step[<<c, f[k]>>]
                BY <1>3, <4>1
            <4> HIDE DEF k, c
            <4>3. f[k] \in R
                BY <4>1
            <4>4. f[n] = (f[k] * f[k] * (IF c = 1 THEN b ELSE 1)) % P
                BY <1>2, <4>1, <4>2, <4>3
            <4> QED  BY <3>2, <4>4 DEF k, c
        <3> QED  BY <3>1, <3>2
    <2> QED  BY <2>1
<1> DEFINE g == Pow(b)
<1>5. Rule(g)
    <2>1. g = CHOOSE h : Rule(h)
        BY DEF Pow
    <2> HIDE DEF g, Rule
    <2> QED  BY <1>4, <2>1
<1> HIDE DEF g
<1> DEFINE S == {n \in Nat : \A k \in 0..n : g[k] \in R}
<1>8. 0 \in S
    BY <1>5, <1>o
<1>9. ASSUME NEW i \in S PROVE i + 1 \in S
    <2> DEFINE n == i + 1
               k == n \div 2
               c == n % 2
    <2>1. n \in Nat \ {0} /\ i \in Nat
        OBVIOUS
    <2>2. k \in Nat /\ k < n
        BY <2>1, Halves
    <2>3. g[n] = (g[k] * g[k] * (IF c = 1 THEN b ELSE 1)) % P
        <3> HIDE DEF n
        <3> QED  BY <1>5, <2>1
    <2> HIDE DEF k, c
    <2>4. g[k] \in R
        BY <2>2
    <2> HIDE DEF n
    <2>5. g[n] \in R
        <3>1. g[k] \in Int
            BY <1>0, <2>4 DEF R
        <3>2. g[k] * g[k] * (IF c = 1 THEN b ELSE 1) \in Int
            BY <3>1
        <3> QED  BY <1>r, <2>3, <3>2
    <2>6. \A j \in 0..n : g[j] \in R
        <3>1. \A j \in 0..n : j = n \/ j \in 0..i
            BY <2>1 DEF n
        <3> QED  BY <2>5, <3>1
    <2> QED  BY <2>1, <2>6 DEF n
<1>10. S \in SUBSET Nat
    OBVIOUS
<1> HIDE DEF S
<1>11. m \in S
    BY <1>8, <1>9, <1>10, NaturalsOf
<1> QED  BY <1>11 DEF S, g, R

\* Division with remainder.
LEMMA Quotient ==
    ASSUME NEW a \in Int, NEW m \in Nat \ {0}
    PROVE  a \div m \in Int /\ a % m \in 0..(m - 1) /\ a = m * (a \div m) + (a % m)
<1>1. a \div m \in Int
    OBVIOUS
<1>2. a % m \in 0..(m - 1)
    OBVIOUS
<1>3. a = m * (a \div m) + (a % m)
    OBVIOUS
<1> QED  BY <1>1, <1>2, <1>3

\* What is left is the remainder.
LEMMA Remainder ==
    ASSUME NEW a \in Int, NEW m \in Nat \ {0}, NEW q \in Int, NEW r \in 0..(m - 1), a = m * q + r
    PROVE  a % m = r
    OBVIOUS

\* Numbers that differ by a multiple of m have the same remainder.
Apart(a, b, m) == \E k \in Int : a = b + m * k

\* The remainder of a number is that of the other.
LEMMA SameRemainder ==
    ASSUME NEW a \in Int, NEW b \in Int, NEW m \in Nat \ {0}, Apart(a, b, m)
    PROVE  a % m = b % m
<1>0. PICK k \in Int : a = b + m * k
    BY DEF Apart
<1> DEFINE q == b \div m
           r == b % m
<1>1. q \in Int /\ r \in 0..(m - 1) /\ b = m * q + r
    BY Quotient
<1> HIDE DEF q, r
<1>2. a = m * (q + k) + r
    <2>1. m * (q + k) = m * q + m * k
        BY <1>1
    <2>2. m * q \in Int /\ m * k \in Int
        BY <1>1
    <2> QED  BY <1>0, <1>1, <2>1, <2>2
<1>3. q + k \in Int
    BY <1>1
<1>4. a % m = r
    BY <1>1, <1>2, <1>3, Remainder
<1> QED  BY <1>4 DEF r

\* A remainder of 0 is a multiple.
LEMMA Divides ==
    ASSUME NEW a \in Int, NEW m \in Nat \ {0}
    PROVE  a % m = 0 <=> \E k \in Int : a = m * k
<1>1. ASSUME a % m = 0 PROVE \E k \in Int : a = m * k
    <2>1. a \div m \in Int /\ a = m * (a \div m) + (a % m)
        BY Quotient
    <2> DEFINE q == a \div m
               r == a % m
    <2>2. q \in Int /\ a = m * q + r /\ r = 0
        BY <1>1, <2>1
    <2> HIDE DEF q, r
    <2>3. a = m * q
        BY <2>2
    <2> QED  BY <2>2, <2>3
<1>2. ASSUME NEW k \in Int, a = m * k PROVE a % m = 0
    <2>1. 0 \in 0..(m - 1) /\ a = m * k + 0
        BY <1>2
    <2> QED  BY <2>1, Remainder
<1> QED  BY <1>1, <1>2

\* A factor of a product may be reduced.
LEMMA ReducedFactor ==
    ASSUME NEW a \in Int, NEW b \in Int, NEW m \in Nat \ {0}
    PROVE  (a * b) % m = ((a % m) * b) % m
<1> DEFINE q == a \div m
           r == a % m
<1>1. q \in Int /\ r \in 0..(m - 1) /\ r \in Int /\ a = m * q + r
    BY Quotient
<1> HIDE DEF q, r
<1>2. a * b = r * b + m * (q * b)
    <2>1. (m * q + r) * b = (m * q) * b + r * b
        <3>1. m * q \in Int
            BY <1>1
        <3> QED  BY <1>1, <3>1
    <2>2. (m * q) * b = m * (q * b)
        BY <1>1
    <2>3. (m * q) * b \in Int /\ r * b \in Int
        BY <1>1
    <2> QED  BY <1>1, <2>1, <2>2, <2>3
<1>3. a * b \in Int /\ r * b \in Int /\ q * b \in Int
    BY <1>1
<1> DEFINE u == a * b
           v == r * b
           k == q * b
<1>4. u \in Int /\ v \in Int /\ k \in Int /\ u = v + m * k
    BY <1>2, <1>3
<1> HIDE DEF u, v, k
<1>5. u % m = v % m
    <2>1. Apart(u, v, m)
        BY <1>4 DEF Apart
    <2> QED  BY <1>4, <2>1, SameRemainder
<1> QED  BY <1>5 DEF r, u, v

\* And a term of a sum.
LEMMA ReducedTerm ==
    ASSUME NEW a \in Int, NEW b \in Int, NEW m \in Nat \ {0}
    PROVE  (a + b) % m = (a + (b % m)) % m
<1> DEFINE q == b \div m
           r == b % m
<1>1. q \in Int /\ r \in 0..(m - 1) /\ r \in Int /\ b = m * q + r
    BY Quotient
<1> HIDE DEF q, r
<1>2. a + b = (a + r) + m * q
    <2>1. m * q \in Int
        BY <1>1
    <2> QED  BY <1>1, <2>1
<1>3. a + b \in Int /\ a + r \in Int
    BY <1>1
<1> DEFINE u == a + b
           v == a + r
<1>4. u \in Int /\ v \in Int /\ u = v + m * q
    BY <1>2, <1>3
<1> HIDE DEF u, v
<1>5. u % m = v % m
    <2>1. Apart(u, v, m)
        BY <1>1, <1>4 DEF Apart
    <2> QED  BY <1>4, <2>1, SameRemainder
<1> QED  BY <1>5 DEF r, u, v

-----------------------------------------------------------------------------
\* The field.
LEMMA ModP == P \in Nat \ {0} /\ \A a \in Int : a % P \in 0..(P - 1) /\ a % P \in Int
<1>1. P \in Nat \ {0}
    BY CurveNumbers
<1> QED  BY <1>1

\* _inv inverts what is not 0.
LEMMA InvIs ==
    ASSUME NEW x \in Int
    PROVE  Inv(x) \in 0..(P - 1) /\ (x % P # 0 => \E q \in Int : x * Inv(x) = 1 + P * q)
<1>1. P \in Nat \ {0} /\ x % P \in 0..(P - 1) /\ x % P \in Int /\ P - 2 \in Nat /\ P >= 5
    BY ModP, CurveNumbers
<1>2. Inv(x) \in 0..(P - 1)
    <2> DEFINE e == P - 2
               y == x % P
    <2>1. e \in Nat /\ y \in Int
        BY <1>1
    <2> HIDE DEF e, y
    <2>2. Pow(y)[e] \in 0..(P - 1)
        BY <2>1, PowIn
    <2> QED  BY <2>2 DEF Inv, e, y
<1>3. ASSUME x % P # 0 PROVE \E q \in Int : x * Inv(x) = 1 + P * q
    <2> DEFINE y == x % P
               i == Inv(x)
    <2>1. y \in 1..(P - 1) /\ y % P = y /\ i \in Int
        <3>1. y \in 0..(P - 1) /\ y # 0
            BY <1>1, <1>3
        <3>2. y = P * 0 + y
            BY <1>1
        <3>3. y % P = y
            <4> HIDE DEF y
            <4>1. y \in Int /\ 0 \in Int
                BY <1>1, <3>1
            <4> QED  BY <1>1, <3>1, <3>2, <4>1, Remainder
        <3> HIDE DEF y
        <3> QED  BY <1>1, <1>2, <3>1, <3>3
    <2>2. Inv(y) = i
        BY <2>1 DEF Inv
    <2>3. (y * Inv(y)) % P = 1
        <3> HIDE DEF y
        <3> QED  BY <2>1, FieldAssumption
    <2>4. (x * i) % P = ((x % P) * i) % P
        <3> HIDE DEF i
        <3> QED  BY <1>1, <2>1, ReducedFactor
    <2>5. (x * i) % P = 1
        BY <2>2, <2>3, <2>4
    <2> HIDE DEF y, i
    <2> DEFINE z == x * i
    <2>6. z \in Int /\ z % P = 1
        BY <2>1, <2>5
    <2> HIDE DEF z
    <2>7. z \div P \in Int /\ z = P * (z \div P) + (z % P)
        BY <1>1, <2>6, Quotient
    <2>8. \E q \in Int : z = 1 + P * q
        <3> DEFINE q == z \div P
        <3>1. q \in Int /\ z = P * q + 1
            BY <2>6, <2>7
        <3> HIDE DEF q
        <3>2. z = 1 + P * q
            BY <1>1, <3>1
        <3> QED  BY <3>1, <3>2
    <2> QED  BY <2>8 DEF z, i
<1> QED  BY <1>2, <1>3

\* A product is a multiple of P only if a factor is.
LEMMA NoZeroDivisors ==
    ASSUME NEW a \in Int, NEW b \in Int, (a * b) % P = 0
    PROVE  a % P = 0 \/ b % P = 0
<1> DEFINE c == a % P
           d == b % P
<1>1. P \in Nat \ {0} /\ c \in 0..(P - 1) /\ d \in 0..(P - 1) /\ c \in Int /\ d \in Int
    BY ModP
<1>2. (a * b) % P = (c * b) % P
    BY <1>1, ReducedFactor
<1>3. (b * c) % P = (d * c) % P
    <2> HIDE DEF c
    <2> QED  BY <1>1, ReducedFactor
<1> HIDE DEF c, d
<1>4. c * b = b * c /\ d * c = c * d
    BY <1>1
<1>5. (c * d) % P = 0
    BY <1>2, <1>3, <1>4
<1>6. CASE c # 0 /\ d # 0
    <2>1. c \in 1..(P - 1) /\ d \in 1..(P - 1)
        BY <1>1, <1>6
    <2> QED  BY <1>5, <2>1, FieldAssumption
<1> QED  BY <1>6 DEF c, d

\* Congruence modulo P.
Cong(a, b) == Apart(a, b, P)

\* In terms of remainders.
LEMMA CongIs ==
    ASSUME NEW a \in Int, NEW b \in Int
    PROVE  Cong(a, b) <=> (a - b) % P = 0
<1>1. P \in Nat \ {0} /\ a - b \in Int
    BY ModP
<1>2. (a - b) % P = 0 <=> \E k \in Int : a - b = P * k
    <2> DEFINE c == a - b
    <2> HIDE DEF c
    <2>1. c \in Int
        BY <1>1 DEF c
    <2>2. c % P = 0 <=> \E k \in Int : c = P * k
        BY <1>1, <2>1, Divides
    <2> QED  BY <2>2 DEF c
<1>3. \A k \in Int : a - b = P * k <=> a = b + P * k
    <2> SUFFICES ASSUME NEW k \in Int PROVE a - b = P * k <=> a = b + P * k
        OBVIOUS
    <2>1. P * k \in Int
        BY <1>1
    <2> QED  BY <2>1
<1> QED  BY <1>2, <1>3 DEF Cong, Apart

\* Congruence is symmetric,
LEMMA CongSym ==
    ASSUME NEW a \in Int, NEW b \in Int, Cong(a, b)
    PROVE  Cong(b, a)
<1>1. PICK k \in Int : a = b + P * k
    BY DEF Cong, Apart
<1>2. b = a + P * (-k) /\ -k \in Int
    <2>1. P \in Int /\ P * k \in Int /\ P * (-k) = -(P * k)
        BY ModP
    <2> QED  BY <1>1, <2>1
<1> QED  BY <1>2 DEF Cong, Apart

\* transitive,
LEMMA CongTrans ==
    ASSUME NEW a \in Int, NEW b \in Int, NEW c \in Int, Cong(a, b), Cong(b, c)
    PROVE  Cong(a, c)
<1>1. PICK k \in Int : a = b + P * k
    BY DEF Cong, Apart
<1>2. PICK j \in Int : b = c + P * j
    BY DEF Cong, Apart
<1>3. a = c + P * (k + j) /\ k + j \in Int
    <2>1. P \in Int /\ P * k \in Int /\ P * j \in Int /\ P * (k + j) = P * k + P * j
        BY ModP
    <2> QED  BY <1>1, <1>2, <2>1
<1> QED  BY <1>3 DEF Cong, Apart

\* kept by a factor,
LEMMA CongTimes ==
    ASSUME NEW a \in Int, NEW b \in Int, NEW c \in Int, Cong(a, b)
    PROVE  Cong(a * c, b * c)
<1>1. PICK k \in Int : a = b + P * k
    BY DEF Cong, Apart
<1>2. a * c = b * c + P * (k * c) /\ k * c \in Int
    <2>1. P \in Int /\ (P * k) * c = P * (k * c)
        BY ModP
    <2>2. P * k \in Int
        BY <2>1
    <2> DEFINE e == P * k
    <2>3. (b + e) * c = b * c + e * c
        <3> HIDE DEF e
        <3> QED  BY <2>2 DEF e
    <2> QED  BY <1>1, <2>1, <2>3
<1> QED  BY <1>2 DEF Cong, Apart

\* by a reduction,
LEMMA CongReduced ==
    ASSUME NEW a \in Int
    PROVE  Cong(a, a % P) /\ Cong(a % P, a) /\ Cong(a, a)
<1> DEFINE q == a \div P
           r == a % P
<1>1. q \in Int /\ r \in Int /\ a = P * q + r /\ P \in Int
    BY ModP, Quotient
<1> HIDE DEF q, r
<1>2. a = r + P * q
    BY <1>1
<1>3. Cong(a, r)
    BY <1>1, <1>2 DEF Cong, Apart
<1>4. Cong(r, a)
    BY <1>1, <1>3, CongSym
<1>5. Cong(a, a)
    BY <1>1, <1>3, <1>4, CongTrans
<1> QED  BY <1>3, <1>4, <1>5 DEF r

\* Congruent numbers of one field element are the same.
LEMMA CongSame ==
    ASSUME NEW a \in 0..(P - 1), NEW b \in 0..(P - 1), Cong(a, b)
    PROVE  a = b
<1>1. P \in Nat \ {0} /\ a \in Int /\ b \in Int
    BY ModP
<1>2. a % P = b % P
    BY <1>1, SameRemainder DEF Cong
<1>3. a % P = a /\ b % P = b
    BY <1>1
<1> QED  BY <1>2, <1>3

\* a v = u says the same as a = u / v.
LEMMA Quotients ==
    ASSUME NEW a \in Int, NEW u \in Int, NEW v \in Int, NEW w \in Int, Cong(v * w, 1)
    PROVE  Cong(a * v, u) <=> Cong(a, u * w)
<1>1. v * w \in Int /\ a * v \in Int /\ u * w \in Int /\ 1 \in Int /\ a * (v * w) \in Int
    OBVIOUS
<1>2. Cong(a * (v * w), a)
    <2> DEFINE z == v * w
    <2>1. z \in Int /\ Cong(z, 1)
        BY <1>1
    <2> HIDE DEF z
    <2>2. Cong(z * a, 1 * a)
        BY <2>1, <1>1, CongTimes
    <2>3. z * a = a * z /\ 1 * a = a
        BY <2>1
    <2>4. Cong(a * z, a)
        BY <2>2, <2>3
    <2> QED  BY <2>4 DEF z
<1>3. ASSUME Cong(a * v, u) PROVE Cong(a, u * w)
    <2> DEFINE y == a * v
    <2>1. y \in Int /\ Cong(y, u)
        BY <1>1, <1>3
    <2> HIDE DEF y
    <2>2. Cong(y * w, u * w)
        BY <2>1, CongTimes
    <2>3. y * w = a * (v * w)
        BY <1>1 DEF y
    <2>4. Cong(a, a * (v * w))
        <3> DEFINE z == a * (v * w)
        <3>1. z \in Int /\ Cong(z, a)
            BY <1>1, <1>2
        <3> HIDE DEF z
        <3>2. Cong(a, z)
            BY <3>1, CongSym
        <3> QED  BY <3>2 DEF z
    <2> DEFINE z == a * (v * w)
               x == u * w
    <2>5. z \in Int /\ x \in Int /\ Cong(a, z) /\ Cong(z, x)
        BY <1>1, <2>2, <2>3, <2>4
    <2> HIDE DEF z, x
    <2>6. Cong(a, x)
        BY <2>5, CongTrans
    <2> QED  BY <2>6 DEF x
<1>4. ASSUME Cong(a, u * w) PROVE Cong(a * v, u)
    <2> DEFINE y == u * w
               z == v * w
    <2>1. y \in Int /\ z \in Int /\ Cong(a, y) /\ Cong(z, 1)
        BY <1>1, <1>4
    <2>2. y * v = z * u
        OBVIOUS
    <2> HIDE DEF y, z
    <2>3. Cong(a * v, y * v)
        BY <2>1, CongTimes
    <2>4. Cong(z * u, u)
        <3>1. Cong(z * u, 1 * u)
            BY <1>1, <2>1, CongTimes
        <3>2. 1 * u = u
            OBVIOUS
        <3> QED  BY <3>1, <3>2
    <2> DEFINE d == a * v
               e == y * v
    <2>5. d \in Int /\ e \in Int /\ Cong(d, e) /\ Cong(e, u)
        BY <1>1, <2>1, <2>2, <2>3, <2>4
    <2> HIDE DEF d, e
    <2>6. Cong(d, u)
        BY <2>5, CongTrans
    <2> QED  BY <2>6 DEF d
<1> QED  BY <1>3, <1>4

\* A point with a given y is on the curve if its x is a root of SquareOfX.
LEMMA OnCurve ==
    ASSUME NEW x \in 0..(P - 1), NEW y \in 0..(P - 1)
    PROVE  SquareOfX(y) \in 0..(P - 1) /\ (<<x, y>> \in Curve <=> Cong(x * x, SquareOfX(y)))
<1>1. P \in Nat \ {0} /\ x \in Int /\ y \in Int /\ D \in Int
    BY ModP, CurveNumbers
<1> DEFINE a == x * x
           u == y * y - 1
           v == D * y * y + 1
           w == Inv(v)
           z == u * w
<1>2. a \in Int /\ u \in Int /\ v \in Int
    BY <1>1
<1>3. v % P # 0
    BY FieldAssumption
<1>4. <<x, y>> \in Curve <=> (a * v - u) % P = 0
    <2>1. <<x, y>>[1] = x /\ <<x, y>>[2] = y /\ <<x, y>> \in (0..(P - 1)) \X (0..(P - 1))
        OBVIOUS
    <2> QED  BY <2>1 DEF Curve
<1>5. SquareOfX(y) = z % P
    BY DEF SquareOfX
<1> HIDE DEF a, u, v
<1>6. w \in Int /\ Cong(v * w, 1)
    <2>1. w \in 0..(P - 1) /\ \E q \in Int : v * w = 1 + P * q
        BY <1>2, <1>3, InvIs
    <2>2. w \in Int
        BY <1>1, <2>1
    <2> HIDE DEF w
    <2>3. Cong(v * w, 1)
        BY <2>1 DEF Cong, Apart
    <2> QED  BY <2>2, <2>3
<1> HIDE DEF w
<1>7. Cong(a * v, u) <=> Cong(a, u * w)
    BY <1>2, <1>6, Quotients
<1>8. Cong(a * v, u) <=> (a * v - u) % P = 0
    <2> DEFINE b == a * v
    <2>1. b \in Int
        BY <1>2
    <2> HIDE DEF b
    <2>2. Cong(b, u) <=> (b - u) % P = 0
        BY <1>2, <2>1, CongIs
    <2> QED  BY <2>2 DEF b
<1>9. z \in Int
    BY <1>2, <1>6
<1>10. Cong(a, z) <=> Cong(a, z % P)
    <2> HIDE DEF z
    <2> DEFINE r == z % P
    <2>1. r \in Int /\ Cong(z, r) /\ Cong(r, z)
        BY <1>9, ModP, CongReduced
    <2> HIDE DEF r
    <2>2. Cong(a, z) => Cong(a, r)
        BY <1>2, <1>9, <2>1, CongTrans
    <2>3. Cong(a, r) => Cong(a, z)
        BY <1>2, <1>9, <2>1, CongTrans
    <2> QED  BY <2>2, <2>3 DEF r
<1>11. z % P \in 0..(P - 1)
    <2> HIDE DEF z
    <2> QED  BY <1>9, ModP
<1> QED  BY <1>4, <1>5, <1>7, <1>8, <1>10, <1>11 DEF a

\* and by squares.
LEMMA CongSquare ==
    ASSUME NEW a \in Int, NEW b \in Int, Cong(a, b)
    PROVE  Cong(a * a, b * b)
<1>1. Cong(a * a, b * a)
    BY CongTimes
<1>2. Cong(a * b, b * b)
    BY CongTimes
<1> DEFINE x == a * a
           y == b * a
           z == b * b
<1>3. x \in Int /\ y \in Int /\ z \in Int /\ a * b = b * a
    OBVIOUS
<1>4. Cong(x, y) /\ Cong(y, z)
    BY <1>1, <1>2, <1>3
<1> HIDE DEF x, y, z
<1>5. Cong(x, z)
    BY <1>3, <1>4, CongTrans
<1> QED  BY <1>5 DEF x, z

\* Two numbers with one square are the same or opposite.
LEMMA Twins ==
    ASSUME NEW x \in 0..(P - 1), NEW r \in 0..(P - 1), Cong(x * x, r * r)
    PROVE  x = r \/ x = P - r
<1>1. P \in Nat \ {0} /\ x \in Int /\ r \in Int
    BY ModP
<1> DEFINE a == x - r
           b == x + r
<1>2. a \in Int /\ b \in Int /\ a * b = x * x - r * r
    BY <1>1
<1>3. (a * b) % P = 0
    <2> DEFINE s == x * x
               t == r * r
    <2>1. s \in Int /\ t \in Int /\ Cong(s, t)
        BY <1>1
    <2> HIDE DEF s, t
    <2>2. (s - t) % P = 0
        BY <2>1, CongIs
    <2> QED  BY <1>2, <2>2 DEF s, t
<1> HIDE DEF a, b
<1>4. a % P = 0 \/ b % P = 0
    BY <1>2, <1>3, NoZeroDivisors
<1>5. CASE a % P = 0
    <2>1. Cong(x, r)
        BY <1>1, <1>5, CongIs DEF a
    <2> QED  BY <2>1, CongSame
<1>6. CASE b % P = 0
    <2>1. PICK k \in Int : b = P * k
        BY <1>1, <1>2, <1>6, Divides
    <2>2. b \in 0..(2 * P - 2)
        BY <1>1 DEF b
    <2>3. k \in 0..1
        <3>1. CASE k < 0
            <4>1. P * k < 0
                BY <1>1, <3>1
            <4> QED  BY <1>1, <2>1, <2>2, <4>1
        <3>2. CASE k > 1
            <4>1. P * k >= P * 2
                BY <1>1, <3>2
            <4> QED  BY <1>1, <2>1, <2>2, <4>1
        <3> QED  BY <3>1, <3>2
    <2>4. b = 0 \/ b = P
        BY <1>1, <2>1, <2>3
    <2> QED  BY <1>1, <2>4 DEF b
<1> QED  BY <1>4, <1>5, <1>6

\* Opposite numbers have one square.
LEMMA OppositeSquare ==
    ASSUME NEW r \in 0..(P - 1)
    PROVE  Cong((P - r) * (P - r), r * r)
<1>1. P \in Int /\ r \in Int
    BY ModP
<1>2. (P - r) * (P - r) = r * r + P * (P - 2 * r) /\ P - 2 * r \in Int
    BY <1>1
<1> QED  BY <1>2 DEF Cong, Apart

\* The square of _SQRTM1 is -1.
LEMMA MinusOne ==
    RootOfMinusOne \in 0..(P - 1) /\ Cong(RootOfMinusOne * RootOfMinusOne, -1)
<1> DEFINE i == RootOfMinusOne
           e == (P - 1) \div 4
<1>1. e \in Nat /\ P \in Nat
    BY CurveNumbers
<1>2. i \in 0..(P - 1)
    <2> HIDE DEF e
    <2>1. 2 \in Int
        OBVIOUS
    <2>2. Pow(2)[e] \in 0..(P - 1)
        BY <1>1, <2>1, PowIn
    <2> QED  BY <2>2 DEF e, RootOfMinusOne
<1>3. (i * i + 1) % P = 0
    BY FieldAssumption
<1> HIDE DEF i
<1> DEFINE s == i * i
<1>4. s \in Int /\ -1 \in Int /\ s - (-1) = s + 1
    BY <1>1, <1>2
<1>5. (s - (-1)) % P = 0
    BY <1>3, <1>4
<1> HIDE DEF s
<1>6. Cong(s, -1)
    BY <1>4, <1>5, CongIs
<1> QED  BY <1>2, <1>6 DEF s, i

RootCandidate(x2) == Pow(x2)[(P + 3) \div 8]

\* The candidates for a root are reduced.
LEMMA CandidateIn ==
    ASSUME NEW x2 \in 0..(P - 1)
    PROVE  /\ RootCandidate(x2) \in 0..(P - 1)
           /\ Root(RootCandidate(x2), x2) \in 0..(P - 1)
<1> DEFINE e == (P + 3) \div 8
           c == RootCandidate(x2)
<1>1. e \in Nat /\ P \in Nat /\ x2 \in Int
    BY CurveNumbers
<1>2. c \in 0..(P - 1)
    <2> HIDE DEF e
    <2>1. Pow(x2)[e] \in 0..(P - 1)
        BY <1>1, PowIn
    <2> QED  BY <2>1 DEF RootCandidate, e
<1> HIDE DEF c
<1>3. (c * RootOfMinusOne) % P \in 0..(P - 1)
    <2> DEFINE z == c * RootOfMinusOne
    <2>1. z \in Int
        BY <1>1, <1>2, MinusOne
    <2> HIDE DEF z
    <2>2. z % P \in 0..(P - 1)
        BY <2>1, ModP
    <2> QED  BY <2>2 DEF z
<1>4. Root(c, x2) \in 0..(P - 1)
    BY <1>2, <1>3 DEF Root
<1> QED  BY <1>2, <1>4 DEF c

\* If x2 has a root at all, Root finds one.
LEMMA RootOf ==
    ASSUME NEW x2 \in 0..(P - 1), NEW s \in 0..(P - 1), Cong(s * s, x2)
    PROVE  Cong(Root(RootCandidate(x2), x2) * Root(RootCandidate(x2), x2), x2)
<1> DEFINE c == RootCandidate(x2)
           i == RootOfMinusOne
           r == Root(c, x2)
           cc == c * c
<1>1. P \in Nat \ {0} /\ x2 \in Int /\ s \in Int
    BY ModP
<1>2. c \in 0..(P - 1) /\ c \in Int /\ i \in Int /\ Cong(i * i, -1)
    BY <1>1, CandidateIn, MinusOne
<1>3. x2 = (s * s) % P
    <2> DEFINE z == s * s
               y == z % P
    <2>1. z \in Int /\ Cong(z, x2)
        BY <1>1
    <2> HIDE DEF z
    <2>2. y \in 0..(P - 1) /\ y \in Int /\ Cong(y, z)
        BY <2>1, ModP, CongReduced
    <2> HIDE DEF y
    <2>3. Cong(y, x2)
        BY <1>1, <2>1, <2>2, CongTrans
    <2>4. y = x2
        BY <2>2, <2>3, CongSame
    <2> QED  BY <2>4 DEF y, z
<1>4. (cc - x2) % P = 0 \/ (cc + x2) % P = 0
    BY <1>3, FieldAssumption DEF RootCandidate
<1>5. cc \in Int
    BY <1>2
<1> HIDE DEF c, i
<1>6. CASE (cc - x2) % P = 0
    <2>1. r = c
        BY <1>6 DEF Root
    <2>2. Cong(cc, x2)
        <3> HIDE DEF cc
        <3> QED  BY <1>1, <1>5, <1>6, CongIs
    <2> QED  BY <2>1, <2>2 DEF c
<1>7. CASE (cc - x2) % P # 0
    <2> DEFINE z == c * i
               m == i * i
    <2>1. r = z % P
        BY <1>7 DEF Root, i
    <2>2. z \in Int /\ z * z = m * cc /\ m \in Int /\ Cong(m, -1)
        BY <1>2
    <2>3. Cong(cc, -x2)
        <3> DEFINE n == -x2
        <3>1. n \in Int /\ cc - n = cc + x2
            BY <1>1, <1>5
        <3> HIDE DEF n, cc
        <3>2. (cc - n) % P = 0
            BY <1>4, <1>7, <3>1
        <3>3. Cong(cc, n)
            BY <1>5, <3>1, <3>2, CongIs
        <3> QED  BY <3>3 DEF n
    <2> HIDE DEF z, m, cc
    <2> DEFINE v == z * z
               f == (-1) * cc
    <2>4. Cong(m * cc, (-1) * cc)
        <3>1. -1 \in Int
            OBVIOUS
        <3> QED  BY <1>5, <2>2, <3>1, CongTimes
    <2>5. Cong(f, x2)
        <3>1. PICK k \in Int : cc = (-x2) + P * k
            BY <2>3 DEF Cong, Apart
        <3>2. f = x2 + P * (-k) /\ -k \in Int
            <4>1. P \in Int /\ P * k \in Int /\ P * (-k) = -(P * k)
                BY <1>1
            <4> QED  BY <1>1, <1>5, <3>1, <4>1
        <3> HIDE DEF f
        <3> QED  BY <3>2 DEF Cong, Apart
    <2>6. v \in Int /\ f \in Int /\ Cong(v, f)
        BY <1>5, <2>2, <2>4
    <2> HIDE DEF f
    <2>7. Cong(v, x2)
        <3> HIDE DEF v
        <3> QED  BY <1>1, <2>5, <2>6, CongTrans
    <2> HIDE DEF r
    <2>8. r \in Int /\ Cong(r, z)
        BY <2>1, <2>2, ModP, CongReduced
    <2>9. Cong(r * r, v)
        BY <2>2, <2>8, CongSquare
    <2> DEFINE rr == r * r
    <2>10. rr \in Int /\ Cong(rr, v)
        BY <2>8, <2>9
    <2> HIDE DEF rr, v
    <2>11. Cong(rr, x2)
        BY <1>1, <2>6, <2>7, <2>10, CongTrans
    <2> QED  BY <2>11 DEF rr, r, c
<1> QED  BY <1>6, <1>7

\* Points come in pairs.
LEMMA OppositeOnCurve ==
    ASSUME NEW x \in 1..(P - 1), NEW y \in 0..(P - 1), <<x, y>> \in Curve
    PROVE  P - x \in 1..(P - 1) /\ <<P - x, y>> \in Curve
<1> DEFINE o == P - x
           x2 == SquareOfX(y)
           oo == o * o
           xx == x * x
<1>1. P \in Int /\ x \in 0..(P - 1) /\ x \in Int
    BY ModP
<1>2. o \in 1..(P - 1) /\ o \in 0..(P - 1) /\ o \in Int
    BY <1>1
<1>3. x2 \in 0..(P - 1) /\ Cong(xx, x2)
    BY <1>1, OnCurve
<1>4. Cong(oo, xx)
    BY <1>1, OppositeSquare
<1>5. xx \in Int /\ oo \in Int /\ x2 \in Int
    BY <1>1, <1>2, <1>3
<1> HIDE DEF oo, xx, x2
<1>6. Cong(oo, x2)
    BY <1>3, <1>4, <1>5, CongTrans
<1> HIDE DEF o
<1>7. <<o, y>> \in Curve
    BY <1>2, <1>6, OnCurve DEF oo, x2
<1> QED  BY <1>2, <1>7 DEF o

\* _xrecover gives the even x of the two that a y has, if it has any.
Recovered(y) ==
    /\ XRecover(y) = [ok |-> XRecover(y).ok, x |-> XRecover(y).x] /\ XRecover(y).ok \in BOOLEAN
    /\ XRecover(y).ok => XRecover(y).x \in 0..(P - 1) /\ XRecover(y).x % 2 = 0 /\ <<XRecover(y).x, y>> \in Curve
    /\ \A x \in 0..(P - 1) :
         <<x, y>> \in Curve => XRecover(y).ok /\ (x = XRecover(y).x \/ x = P - XRecover(y).x)

\* A y has two x, of which one is even, since P is odd; if it has none, the
\* candidate is no root.
LEMMA XRecoverIs ==
    ASSUME NEW y \in 0..(P - 1)
    PROVE  Recovered(y)
<1> DEFINE x2 == SquareOfX(y)
           r == Root(RootCandidate(x2), x2)
           rr == r * r
           rec == XRecover(y)
<1>1. P \in Nat /\ P >= 5 /\ P % 2 = 1 /\ 0 \in 0..(P - 1)
    BY CurveNumbers
<1>2. x2 \in 0..(P - 1)
    BY <1>1, OnCurve
<1>3. rec = [ok |-> (rr - x2) % P = 0, x |-> IF r % 2 # 0 THEN P - r ELSE r]
    BY DEF XRecover, XOfSquare, EvenRoot, RootCandidate
<1>4. r \in 0..(P - 1)
    <2> HIDE DEF x2
    <2> QED  BY <1>2, CandidateIn
<1>5. \A s \in 0..(P - 1) : Cong(s * s, x2) => Cong(rr, x2)
    <2> HIDE DEF x2
    <2> QED  BY <1>2, RootOf
<1>6. \A s \in 0..(P - 1) : <<s, y>> \in Curve <=> Cong(s * s, x2)
    BY OnCurve
<1> HIDE DEF x2, r
<1>7. rr \in Int /\ x2 \in Int /\ r \in Int
    BY <1>1, <1>2, <1>4
<1>8. rec.ok <=> Cong(rr, x2)
    <2>1. rec.ok <=> (rr - x2) % P = 0
        <3> DEFINE b == (rr - x2) % P = 0
                   v == IF r % 2 # 0 THEN P - r ELSE r
        <3>1. rec = [ok |-> b, x |-> v]
            BY <1>3
        <3> HIDE DEF b, v, rec
        <3>2. rec.ok = b
            BY <3>1
        <3> QED  BY <3>2 DEF b
    <2> HIDE DEF rr, rec
    <2> QED  BY <1>7, <2>1, CongIs
<1>9. rec.x = (IF r % 2 # 0 THEN P - r ELSE r) /\ rec = [ok |-> rec.ok, x |-> rec.x] /\ rec.ok \in BOOLEAN
    BY <1>3
<1> HIDE DEF rec
<1>10. rec.x \in 0..(P - 1) /\ rec.x % 2 = 0 /\ (r = rec.x \/ (r = P - rec.x /\ rec.x = P - r /\ r # 0))
    <2>1. CASE r % 2 # 0
        <3>1. r \in 1..(P - 1) /\ (P - r) % 2 = 0
            BY <1>1, <1>4, <2>1
        <3> QED  BY <1>1, <1>7, <1>9, <2>1, <3>1
    <2>2. CASE r % 2 = 0
        BY <1>4, <1>9, <2>2
    <2> QED  BY <2>1, <2>2
<1>11. ASSUME rec.ok PROVE <<rec.x, y>> \in Curve
    <2>1. <<r, y>> \in Curve
        BY <1>4, <1>6, <1>8, <1>11
    <2>2. CASE r = rec.x
        BY <2>1, <2>2
    <2>3. CASE rec.x = P - r /\ r # 0
        <3>1. r \in 1..(P - 1)
            BY <1>4, <2>3
        <3> QED  BY <2>1, <2>3, <3>1, OppositeOnCurve
    <2> QED  BY <1>10, <2>2, <2>3
<1>12. ASSUME NEW x \in 0..(P - 1), <<x, y>> \in Curve PROVE rec.ok /\ (x = rec.x \/ x = P - rec.x)
    <2> DEFINE xx == x * x
    <2>1. Cong(xx, x2) /\ Cong(rr, x2) /\ xx \in Int
        BY <1>1, <1>5, <1>6, <1>12
    <2>2. Cong(xx, rr)
        <3> HIDE DEF xx, rr
        <3>1. Cong(x2, rr)
            BY <1>7, <2>1, CongSym
        <3> QED  BY <1>7, <2>1, <3>1, CongTrans
    <2>3. x = r \/ x = P - r
        BY <1>4, <2>2, Twins
    <2> HIDE DEF xx, rr
    <2>4. x \in Int /\ rec.x \in Int
        BY <1>1, <1>10
    <2>5. x = rec.x \/ x = P - rec.x
        <3>1. CASE r = rec.x
            BY <2>3, <3>1
        <3>2. CASE r = P - rec.x /\ rec.x = P - r
            <4>1. P - r = rec.x
                BY <3>2
            <4> QED  BY <2>3, <3>2, <4>1
        <3> QED  BY <1>10, <3>1, <3>2
    <2> QED  BY <1>8, <2>1, <2>5
<1> QED  BY <1>9, <1>10, <1>11, <1>12 DEF Recovered, rec

\* Points are pairs of reduced numbers.
LEMMA PointIs ==
    ASSUME NEW pt \in Curve
    PROVE  pt = <<pt[1], pt[2]>> /\ pt[1] \in 0..(P - 1) /\ pt[2] \in 0..(P - 1)
    BY DEF Curve

\* The two parts of an encoding.
LEMMA EncodedIs ==
    ASSUME NEW pt \in Curve
    PROVE  /\ EncodePoint(pt) \in Encodings
           /\ EncodePoint(pt) % SignBit = pt[2]
           /\ EncodePoint(pt) >= SignBit <=> pt[1] % 2 = 1
<1> DEFINE x == pt[1]
           y == pt[2]
           b == SignBit
<1>1. y \in 0..(P - 1) /\ P \in Nat /\ b \in Nat /\ P < b
    BY PointIs, CurveNumbers
<1>2. EncodePoint(pt) = y + (IF x % 2 = 1 THEN b ELSE 0)
    BY DEF EncodePoint
<1> HIDE DEF x, y, b
<1>3. y % b = y /\ (y + b) % b = y
    <2>1. b \in Nat \ {0} /\ y \in Int /\ y \in 0..(b - 1) /\ y + b \in Int /\ 0 \in Int /\ 1 \in Int
        BY <1>1
    <2>2. y % b = y
        BY <2>1
    <2>3. y + b = b * 1 + y
        BY <2>1
    <2> DEFINE z == y + b
    <2>4. z \in Int /\ z = b * 1 + y
        BY <2>1, <2>3
    <2> HIDE DEF z
    <2>5. z % b = y
        BY <2>1, <2>4, Remainder
    <2> QED  BY <2>2, <2>5 DEF z
<1>4. CASE x % 2 = 1
    <2>1. EncodePoint(pt) = y + b
        BY <1>2, <1>4
    <2>2. y + b \in 0..(2 * b - 1) /\ y + b >= b
        BY <1>1
    <2> QED  BY <1>3, <1>4, <2>1, <2>2 DEF x, y, b, Encodings
<1>5. CASE x % 2 # 1
    <2>1. EncodePoint(pt) = y
        BY <1>1, <1>2, <1>5
    <2>2. y \in 0..(2 * b - 1) /\ ~(y >= b)
        BY <1>1
    <2> QED  BY <1>3, <1>5, <2>1, <2>2 DEF x, y, b, Encodings
<1> QED  BY <1>4, <1>5

\* The x of a y and a sign.
XFor(y, sign) == IF sign THEN P - XRecover(y).x ELSE XRecover(y).x
HasX(y, sign) == XRecover(y).ok /\ ~(XRecover(y).x = 0 /\ sign)
OnSign(y, sign) ==
    /\ XFor(y, sign) \in 0..(P - 1) /\ <<XFor(y, sign), y>> \in Curve
    /\ XFor(y, sign) % 2 = 1 <=> sign

\* If there is one it is on the curve and has the sign,
LEMMA XForSound ==
    ASSUME NEW y \in 0..(P - 1), NEW sign \in BOOLEAN, HasX(y, sign)
    PROVE  OnSign(y, sign)
<1> DEFINE r == XRecover(y).x
           v == XFor(y, sign)
<1>1. P \in Nat /\ P % 2 = 1
    BY CurveNumbers
<1>2. r \in 0..(P - 1) /\ r % 2 = 0 /\ <<r, y>> \in Curve /\ ~(r = 0 /\ sign)
    BY XRecoverIs DEF Recovered, HasX
<1>3. v = IF sign THEN P - r ELSE r
    BY DEF XFor
<1> HIDE DEF r, v
<1>4. CASE sign
    <2>1. r \in 1..(P - 1)
        BY <1>2, <1>4
    <2>2. P - r \in 1..(P - 1) /\ <<P - r, y>> \in Curve
        BY <1>2, <2>1, OppositeOnCurve
    <2>3. (P - r) % 2 = 1 /\ P - r \in 0..(P - 1)
        BY <1>1, <1>2, <2>1
    <2> QED  BY <1>3, <1>4, <2>2, <2>3 DEF OnSign, v
<1>5. CASE ~sign
    <2>1. v = r
        BY <1>3, <1>5
    <2>2. ~(r % 2 = 1)
        BY <1>2
    <2> QED  BY <1>2, <1>5, <2>1, <2>2 DEF OnSign, v
<1> QED  BY <1>4, <1>5

\* and a point has the x that its y and its sign give.
LEMMA XForComplete ==
    ASSUME NEW pt \in Curve, NEW sign \in BOOLEAN, pt[1] % 2 = 1 <=> sign
    PROVE  HasX(pt[2], sign) /\ pt = <<XFor(pt[2], sign), pt[2]>>
<1> DEFINE x == pt[1]
           y == pt[2]
           r == XRecover(y).x
<1>1. P \in Nat /\ P % 2 = 1
    BY CurveNumbers
<1>2. pt = <<x, y>> /\ x \in 0..(P - 1) /\ y \in 0..(P - 1)
    BY PointIs
<1>p. x % 2 = 1 <=> sign
    OBVIOUS
<1> HIDE DEF x, y
<1>3. Recovered(y)
    BY <1>2, XRecoverIs
<1>4. XRecover(y).ok /\ (x = r \/ x = P - r)
    BY <1>2, <1>3 DEF Recovered
<1>5. r \in 0..(P - 1) /\ r % 2 = 0
    BY <1>3, <1>4 DEF Recovered
<1> HIDE DEF r
<1>6. (P - r) % 2 = 1
    BY <1>1, <1>5
<1>7. CASE sign
    <2>1. x = P - r
        BY <1>4, <1>5, <1>7, <1>p
    <2>2. r # 0
        BY <1>1, <1>2, <2>1
    <2> QED  BY <1>2, <1>4, <1>7, <2>1, <2>2 DEF HasX, XFor, r, y
<1>8. CASE ~sign
    <2>1. x = r
        BY <1>4, <1>6, <1>8, <1>p
    <2> QED  BY <1>2, <1>4, <1>8, <2>1 DEF HasX, XFor, r, y
<1> QED  BY <1>7, <1>8

\* No two points have one encoding.
LEMMA EncodedOnce ==
    ASSUME NEW a \in Curve, NEW b \in Curve, EncodePoint(a) = EncodePoint(b)
    PROVE  a = b
<1> DEFINE sign == EncodePoint(a) >= SignBit
<1>1. sign \in BOOLEAN /\ a[2] = b[2] /\ (a[1] % 2 = 1 <=> sign) /\ (b[1] % 2 = 1 <=> sign)
    BY EncodedIs
<1> HIDE DEF sign
<1>2. a = <<XFor(a[2], sign), a[2]>> /\ b = <<XFor(b[2], sign), b[2]>>
    BY <1>1, XForComplete
<1> QED  BY <1>1, <1>2

\* A decoder that accepts the encodings of points and nothing else.
Decoded(ok, pt, raw) ==
    /\ ok => pt \in Curve /\ EncodePoint(pt) = raw
    /\ \A p \in Curve : EncodePoint(p) = raw => ok

\* The libraries negate 0 to 0.
LEMMA NegatedIs ==
    ASSUME NEW x \in 0..(P - 1)
    PROVE  Negated(x) = IF x = 0 THEN 0 ELSE P - x
<1>1. P \in Nat \ {0} /\ x \in Int
    BY ModP
<1>2. CASE x = 0
    <2>1. P % P = 0 /\ P - x = P
        BY <1>1, <1>2
    <2> QED  BY <1>2, <2>1 DEF Negated
<1>3. CASE x # 0
    <2>1. P - x \in 0..(P - 1)
        BY <1>1, <1>3
    <2>2. (P - x) % P = P - x
        BY <1>1, <2>1
    <2> QED  BY <1>3, <2>2 DEF Negated
<1> QED  BY <1>2, <1>3

\* A failure is one.
LEMMA BadIs == Bad.ok = FALSE /\ Bad.pt = Ident
    BY DEF Bad

\* A string of 32 bytes is a sign and a number.
LEMMA RawIs ==
    ASSUME NEW raw \in Encodings
    PROVE  raw % SignBit \in Nat /\ (raw >= SignBit) \in BOOLEAN /\ (raw % SignBit) % P \in 0..(P - 1)
<1>1. SignBit \in Nat \ {0} /\ raw \in Int
    BY CurveNumbers DEF Encodings
<1>2. raw % SignBit \in Nat
    BY <1>1
<1> QED  BY <1>2, ModP

\* decodeCanonical is exact,
LEMMA DecodeCanonicalIs ==
    ASSUME NEW raw \in Encodings
    PROVE  Decoded(DecodeCanonical(raw).ok, DecodeCanonical(raw).pt, raw)
<1> DEFINE y == raw % SignBit
           sign == raw >= SignBit
           rec == XRecover(y)
           f == FromHex(raw)
           d == DecodeCanonical(raw)
           x == IF sign THEN Negated(rec.x) ELSE rec.x
           good == [ok |-> TRUE, pt |-> <<x, y>>]
           refused == y >= P \/ ~rec.ok \/ (rec.x = 0 /\ sign)
<1>1. y \in Nat /\ sign \in BOOLEAN /\ P \in Nat
    BY RawIs, ModP
<1>2. f = IF refused THEN Bad ELSE good
    BY DEF FromHex
<1>3. d = IF f.ok /\ EncodePoint(f.pt) = raw THEN f ELSE Bad
    BY DEF DecodeCanonical
<1>4. good.ok = TRUE /\ good.pt = <<x, y>>
    OBVIOUS
<1> HIDE DEF d, f, good, x
<1>5. ASSUME ~refused PROVE <<x, y>> \in Curve /\ x = XFor(y, sign)
    <2>1. y \in 0..(P - 1) /\ HasX(y, sign)
        BY <1>1, <1>5 DEF HasX
    <2> HIDE DEF y, sign
    <2>2. OnSign(y, sign)
        BY <1>1, <2>1, XForSound
    <2>3. XRecover(y).x \in 0..(P - 1)
        BY <2>1, XRecoverIs DEF Recovered, HasX
    <2>4. x = XFor(y, sign)
        BY <1>1, <2>1, <2>3, NegatedIs DEF x, XFor, HasX
    <2> QED  BY <2>2, <2>4 DEF OnSign
<1>6. ASSUME d.ok PROVE d.pt \in Curve /\ EncodePoint(d.pt) = raw
    <2>1. d = f /\ f.ok /\ EncodePoint(f.pt) = raw
        BY <1>3, <1>6, BadIs
    <2>2. ~refused /\ f = good
        BY <1>2, <2>1, BadIs
    <2> QED  BY <1>4, <1>5, <2>1, <2>2
<1>7. ASSUME NEW p \in Curve, EncodePoint(p) = raw PROVE d.ok
    <2>1. p[2] = y /\ (sign <=> p[1] % 2 = 1)
        BY <1>7, EncodedIs
    <2>2. p[2] \in 0..(P - 1)
        BY PointIs
    <2> HIDE DEF y, sign
    <2>3. HasX(y, sign) /\ p = <<XFor(y, sign), y>>
        BY <1>1, <2>1, XForComplete
    <2>4. ~refused
        BY <1>1, <2>1, <2>2, <2>3 DEF HasX
    <2>5. f.ok /\ f.pt = p
        BY <1>2, <1>4, <1>5, <2>3, <2>4
    <2> QED  BY <1>3, <1>7, <2>5
<1> QED  BY <1>6, <1>7 DEF Decoded, d

\* so is SetBytes if the point encodes to what it came from,
LEMMA SetBytesIs ==
    ASSUME NEW raw \in Encodings
    PROVE  /\ SetBytes(raw).ok => SetBytes(raw).pt \in Curve
           /\ Decoded(SetBytes(raw).ok /\ EncodePoint(SetBytes(raw).pt) = raw, SetBytes(raw).pt, raw)
<1> DEFINE y == (raw % SignBit) % P
           sign == raw >= SignBit
           rec == XRecover(y)
           d == SetBytes(raw)
           x == IF sign THEN Negated(rec.x) ELSE rec.x
           good == [ok |-> TRUE, pt |-> <<x, y>>]
<1>1. y \in 0..(P - 1) /\ sign \in BOOLEAN /\ P \in Nat
    BY RawIs, ModP
<1>2. d = IF ~rec.ok THEN Bad ELSE good
    BY DEF SetBytes
<1>3. good.ok = TRUE /\ good.pt = <<x, y>>
    OBVIOUS
<1> HIDE DEF d, good, x
<1>4. ASSUME rec.ok, HasX(y, sign) PROVE <<x, y>> \in Curve /\ x = XFor(y, sign)
    <2> HIDE DEF y, sign
    <2>2. OnSign(y, sign)
        BY <1>1, <1>4, XForSound
    <2>3. XRecover(y).x \in 0..(P - 1)
        BY <1>1, <1>4, XRecoverIs DEF Recovered
    <2>4. x = XFor(y, sign)
        BY <1>1, <1>4, <2>3, NegatedIs DEF x, XFor, HasX
    <2> QED  BY <2>2, <2>4 DEF OnSign
<1>5. ASSUME rec.ok PROVE <<x, y>> \in Curve
    <2>1. CASE HasX(y, sign)
        BY <1>4, <1>5, <2>1
    <2>2. CASE ~HasX(y, sign)
        <3>1. rec.x = 0 /\ sign
            BY <1>5, <2>2 DEF HasX
        <3> HIDE DEF y, sign
        <3>2. <<rec.x, y>> \in Curve /\ rec.x \in 0..(P - 1)
            BY <1>1, <1>5, XRecoverIs DEF Recovered
        <3>3. x = rec.x
            BY <3>1, <3>2, NegatedIs DEF x
        <3> QED  BY <3>2, <3>3
    <2> QED  BY <2>1, <2>2
<1>6. ASSUME d.ok PROVE d.pt \in Curve
    <2>1. rec.ok
        BY <1>2, <1>6, BadIs
    <2> QED  BY <1>2, <1>3, <1>5, <2>1
<1>7. ASSUME NEW p \in Curve, EncodePoint(p) = raw PROVE d.ok /\ EncodePoint(d.pt) = raw
    <2>1. p[2] = raw % SignBit /\ (sign <=> p[1] % 2 = 1)
        BY <1>7, EncodedIs
    <2>2. p[2] \in 0..(P - 1) /\ p[2] % P = p[2]
        BY <1>1, PointIs
    <2>3. p[2] = y
        BY <2>1, <2>2
    <2> HIDE DEF y, sign
    <2>4. HasX(y, sign) /\ p = <<XFor(y, sign), y>>
        BY <1>1, <2>1, <2>3, XForComplete
    <2>5. rec.ok
        BY <2>4 DEF HasX
    <2>6. d.ok /\ d.pt = p
        BY <1>2, <1>3, <1>4, <2>4, <2>5
    <2> QED  BY <1>7, <2>6
<1> QED  BY <1>6, <1>7 DEF Decoded, d

\* and decode_point but for negative zeros.
LEMMA DecodePointIs ==
    ASSUME NEW raw \in Encodings, ~NegativeZero(raw)
    PROVE  Decoded(DecodePoint(raw).ok, DecodePoint(raw).pt, raw)
<1> DEFINE y == raw % SignBit
           sign == raw >= SignBit
           rec == XRecover(y)
           d == DecodePoint(raw)
           x == IF sign THEN P - rec.x ELSE rec.x
           good == [ok |-> TRUE, pt |-> <<x, y>>]
           refused == y >= P \/ ~rec.ok \/ (x = 0 /\ sign) \/ EncodePoint(<<x, y>>) # raw
<1>1. y \in Nat /\ sign \in BOOLEAN /\ P \in Nat
    BY RawIs, ModP
<1>2. d = IF refused THEN Bad ELSE good
    BY DEF DecodePoint, WithSign
<1>3. good.ok = TRUE /\ good.pt = <<x, y>> /\ x = XFor(y, sign)
    BY DEF XFor
<1>n. ~(sign /\ rec = [ok |-> TRUE, x |-> 0])
    BY DEF NegativeZero
<1> HIDE DEF d, good, x
<1>4. ASSUME ~refused PROVE <<x, y>> \in Curve /\ EncodePoint(<<x, y>>) = raw
    <2>1. y \in 0..(P - 1) /\ rec.ok
        BY <1>1, <1>4
    <2> HIDE DEF y, sign
    <2>2. ~(rec.x = 0 /\ sign)
        <3>1. rec = [ok |-> rec.ok, x |-> rec.x] /\ rec.ok \in BOOLEAN
            BY <2>1, XRecoverIs DEF Recovered
        <3> QED  BY <1>n, <2>1, <3>1
    <2>3. HasX(y, sign)
        BY <2>1, <2>2 DEF HasX
    <2>4. OnSign(y, sign)
        BY <1>1, <2>1, <2>3, XForSound
    <2> QED  BY <1>3, <1>4, <2>4 DEF OnSign
<1>5. ASSUME d.ok PROVE d.pt \in Curve /\ EncodePoint(d.pt) = raw
    <2>1. ~refused
        BY <1>2, <1>5, BadIs
    <2> QED  BY <1>2, <1>3, <1>4, <2>1
<1>6. ASSUME NEW p \in Curve, EncodePoint(p) = raw PROVE d.ok
    <2>1. p[2] = y /\ (sign <=> p[1] % 2 = 1)
        BY <1>6, EncodedIs
    <2>2. p[2] \in 0..(P - 1)
        BY PointIs
    <2> HIDE DEF y, sign
    <2>3. HasX(y, sign) /\ p = <<XFor(y, sign), y>>
        BY <1>1, <2>1, XForComplete
    <2>4. p = <<x, y>> /\ p[1] = x
        BY <1>3, <2>3
    <2>5. ~(x = 0 /\ sign)
        <3>1. 0 % 2 = 0
            OBVIOUS
        <3> QED  BY <2>1, <2>4, <3>1
    <2>6. ~refused
        BY <1>1, <1>6, <2>1, <2>2, <2>3, <2>4, <2>5 DEF HasX
    <2> QED  BY <1>2, <1>3, <2>6
<1> QED  BY <1>5, <1>6 DEF Decoded, d

\* What an encoder wrote is no negative zero.
LEMMA NoNegativeZero ==
    ASSUME NEW p \in Curve
    PROVE  ~NegativeZero(EncodePoint(p))
<1> DEFINE sign == EncodePoint(p) >= SignBit
<1>1. EncodePoint(p) % SignBit = p[2] /\ (sign <=> p[1] % 2 = 1) /\ sign \in BOOLEAN
    BY EncodedIs
<1> SUFFICES ASSUME sign, XRecover(p[2]) = [ok |-> TRUE, x |-> 0] PROVE FALSE
    BY <1>1 DEF NegativeZero
<1>2. XRecover(p[2]).x = 0
    OBVIOUS
<1> HIDE DEF sign
<1>3. HasX(p[2], sign)
    BY <1>1, XForComplete
<1> QED  BY <1>2, <1>3 DEF HasX

\* The base point has order L.
LEMMA OrderIs ==
    /\ L \in Nat \ {0} /\ BasePoint \in Curve
    /\ Times(BasePoint) \in [Nat -> Curve] /\ Times(BasePoint)[0] = Ident /\ Times(BasePoint)[L] = Ident
<1>1. L \in Nat \ {0}
    BY CurveNumbers
<1>2. BasePoint \in Curve /\ Times(BasePoint)[L] = Ident
    BY GroupAssumption
<1> QED  BY <1>1, <1>2, TimesIs

\* Multiples of the identity are the identity.
LEMMA TimesIdent ==
    ASSUME NEW n \in Nat
    PROVE  Times(Ident)[n] = Ident
<1> DEFINE t == Times(Ident)
           S == {i \in Nat : t[i] = Ident}
<1>1. t[0] = Ident /\ \A i \in Nat : t[i + 1] = PointAdd(t[i], Ident)
    BY TimesIs, Group
<1> HIDE DEF t
<1>2. 0 \in S
    BY <1>1
<1>3. ASSUME NEW i \in S PROVE i + 1 \in S
    <2>1. t[i + 1] = PointAdd(Ident, Ident) /\ i + 1 \in Nat
        BY <1>1
    <2>2. PointAdd(Ident, Ident) = Ident
        BY Group
    <2> QED  BY <2>1, <2>2
<1>4. S \in SUBSET Nat
    OBVIOUS
<1> HIDE DEF S
<1>5. n \in S
    BY <1>2, <1>3, <1>4, NaturalsOf
<1> QED  BY <1>5 DEF S, t

\* The multiples of the base point repeat after L.
LEMMA TimesReduced ==
    ASSUME NEW n \in Nat
    PROVE  n % L \in 0..(L - 1) /\ Times(BasePoint)[n] = Times(BasePoint)[n % L]
<1> DEFINE t == Times(BasePoint)
           q == n \div L
           r == n % L
<1>1. L \in Nat \ {0} /\ BasePoint \in Curve /\ t \in [Nat -> Curve] /\ t[L] = Ident
    BY OrderIs
<1>2. q \in Int /\ r \in 0..(L - 1) /\ n = L * q + r
    BY <1>1, Quotient
<1>3. q \in Nat
    BY <1>1
<1> HIDE DEF q, r
<1>4. L * q \in Nat /\ r \in Nat
    BY <1>1, <1>2, <1>3
<1>5. Times(t[L])[q] = t[L * q]
    BY <1>1, <1>3, TimesTimes
<1>6. t[L * q] = Ident
    <2> HIDE DEF t
    <2> QED  BY <1>1, <1>3, <1>5, TimesIdent
<1> DEFINE m == L * q
<1>7. t[m + r] = PointAdd(t[m], t[r])
    <2>1. m \in Nat
        BY <1>4
    <2> HIDE DEF m
    <2> QED  BY <1>1, <1>4, <2>1, TimesAdd
<1>8. t[r] \in Curve
    <2> HIDE DEF t
    <2> QED  BY <1>1, <1>4
<1> HIDE DEF t
<1>9. t[n] = t[r]
    BY <1>2, <1>6, <1>7, <1>8, Group
<1> QED  BY <1>2, <1>9 DEF t, r

\* Its first L multiples differ.
LEMMA BaseDistinct ==
    ASSUME NEW i \in 0..(L - 1), NEW j \in 0..(L - 1), Times(BasePoint)[i] = Times(BasePoint)[j]
    PROVE  i = j
    BY GroupAssumption

\* Not the identity, and the identity after L times: such a point is a
\* multiple of the base point.
LEMMA InSubgroup ==
    ASSUME NEW a \in Curve
    PROVE  (a # Ident /\ Times(a)[L] = Ident) <=> \E i \in 1..(L - 1) : a = Times(BasePoint)[i]
<1> DEFINE t == Times(BasePoint)
<1>1. L \in Nat \ {0} /\ BasePoint \in Curve /\ t \in [Nat -> Curve] /\ t[0] = Ident /\ t[L] = Ident
    BY OrderIs
<1>2. ASSUME a # Ident, Times(a)[L] = Ident PROVE \E i \in 1..(L - 1) : a = t[i]
    <2>1. PICK i \in 0..(L - 1) : a = t[i]
        BY <1>2, GroupAssumption
    <2> HIDE DEF t
    <2>2. i # 0
        BY <1>1, <1>2, <2>1
    <2>3. i \in 1..(L - 1)
        BY <1>1, <2>2
    <2> QED  BY <2>1, <2>3
<1>3. ASSUME NEW i \in 1..(L - 1), a = t[i] PROVE a # Ident /\ Times(a)[L] = Ident
    <2>1. i \in Nat /\ i \in 0..(L - 1) /\ 0 \in 0..(L - 1) /\ i # 0
        BY <1>1
    <2>2. t[i] # t[0]
        BY <2>1, BaseDistinct
    <2>3. Times(t[i])[L] = t[i * L] /\ Times(t[L])[i] = t[L * i]
        BY <1>1, <2>1, TimesTimes
    <2>4. i * L = L * i
        BY <1>1, <2>1
    <2> HIDE DEF t
    <2>5. Times(t[L])[i] = Ident
        BY <1>1, <2>1, TimesIdent
    <2> QED  BY <1>1, <1>3, <2>2, <2>3, <2>4, <2>5
<1> QED  BY <1>2, <1>3

\* The equation of the verifiers, in scalars.
LEMMA Equation ==
    ASSUME NEW S \in 0..(L - 1), NEW a \in Nat, NEW r \in Nat, NEW k \in Nat
    PROVE  Times(BasePoint)[S] = PointAdd(Times(BasePoint)[r], Times(Times(BasePoint)[a])[k])
           <=> S = (r + k * a) % L
<1> DEFINE t == Times(BasePoint)
           n == k * a
           m == r + n
<1>1. L \in Nat \ {0} /\ BasePoint \in Curve
    BY OrderIs
<1>2. n \in Nat /\ m \in Nat
    OBVIOUS
<1>3. Times(t[a])[k] = t[n]
    <2>1. Times(t[a])[k] = t[a * k]
        BY <1>1, TimesTimes
    <2>2. a * k = k * a
        OBVIOUS
    <2> QED  BY <2>1, <2>2
<1>4. PointAdd(t[r], t[n]) = t[r + n]
    <2> HIDE DEF n
    <2> QED  BY <1>1, <1>2, TimesAdd
<1>5. m % L \in 0..(L - 1) /\ t[m] = t[m % L]
    <2> HIDE DEF m
    <2> QED  BY <1>2, TimesReduced
<1> DEFINE z == m % L
<1>6. z \in 0..(L - 1) /\ t[z] = PointAdd(t[r], Times(t[a])[k])
    BY <1>3, <1>4, <1>5
<1>7. S = z <=> t[S] = t[z]
    <2> HIDE DEF z
    <2> QED  BY <1>6, BaseDistinct
<1> QED  BY <1>6, <1>7

\* The checks of section 8A, on points.
Checks(okA, a, okR, r, S, k0) ==
    /\ S < L /\ okA /\ okR
    /\ a # Ident /\ r # Ident
    /\ Times(a)[L] = Ident /\ Times(r)[L] = Ident
    /\ Times(BasePoint)[S] = PointAdd(r, Times(a)[k0 % L])

\* With a decoder that is exact they accept what is in the profile.
LEMMA ChecksExact ==
    ASSUME NEW A, NEW R, NEW S \in Nat, NEW k0 \in Nat, NEW okA, NEW okR, NEW pa, NEW pr,
           Decoded(okA, pa, A), Decoded(okR, pr, R)
    PROVE  Checks(okA, pa, okR, pr, S, k0) <=> InProfile(A, R, S, k0)
<1> DEFINE t == Times(BasePoint)
           k == k0 % L
           I == 1..(L - 1)
<1>1. L \in Nat \ {0} /\ t \in [Nat -> Curve] /\ I \subseteq Nat /\ k \in Nat
    BY OrderIs
<1>2. \A i \in I : Multiples[i] = EncodePoint(t[i])
    BY DEF Multiples
<1>3. ASSUME Checks(okA, pa, okR, pr, S, k0) PROVE InProfile(A, R, S, k0)
    <2>1. /\ S < L /\ okA /\ okR /\ pa # Ident /\ pr # Ident
          /\ Times(pa)[L] = Ident /\ Times(pr)[L] = Ident
          /\ t[S] = PointAdd(pr, Times(pa)[k])
        BY <1>3 DEF Checks
    <2>2. pa \in Curve /\ pr \in Curve /\ EncodePoint(pa) = A /\ EncodePoint(pr) = R
        BY <2>1 DEF Decoded
    <2>3. PICK a \in I : pa = t[a]
        BY <2>1, <2>2, InSubgroup
    <2>4. PICK r \in I : pr = t[r]
        BY <2>1, <2>2, InSubgroup
    <2>5. S \in 0..(L - 1) /\ a \in Nat /\ r \in Nat
        BY <1>1, <2>1
    <2> HIDE DEF k
    <2>6. t[S] = PointAdd(t[r], Times(t[a])[k])
        BY <2>1, <2>3, <2>4
    <2>7. S = (r + k * a) % L
        BY <1>1, <2>5, <2>6, Equation
    <2>8. A = Multiples[a] /\ R = Multiples[r]
        BY <1>2, <2>2, <2>3, <2>4
    <2> QED  BY <2>7, <2>8 DEF InProfile, k
<1>4. ASSUME InProfile(A, R, S, k0) PROVE Checks(okA, pa, okR, pr, S, k0)
    <2>1. PICK a \in I, r \in I : A = Multiples[a] /\ R = Multiples[r] /\ S = (r + k * a) % L
        BY <1>4 DEF InProfile
    <2>2. a \in Nat /\ r \in Nat /\ A = EncodePoint(t[a]) /\ R = EncodePoint(t[r])
        BY <1>1, <1>2, <2>1
    <2>3. t[a] \in Curve /\ t[r] \in Curve
        <3> HIDE DEF t
        <3> QED  BY <1>1, <2>2
    <2>4. okA /\ okR
        BY <2>2, <2>3 DEF Decoded
    <2>5. pa \in Curve /\ pr \in Curve /\ EncodePoint(pa) = A /\ EncodePoint(pr) = R
        BY <2>4 DEF Decoded
    <2>6. pa = t[a] /\ pr = t[r]
        <3> HIDE DEF t
        <3> QED  BY <2>2, <2>3, <2>5, EncodedOnce
    <2>7. pa # Ident /\ pr # Ident /\ Times(pa)[L] = Ident /\ Times(pr)[L] = Ident
        BY <2>5, <2>6, InSubgroup
    <2>8. S \in 0..(L - 1) /\ S < L
        <3> HIDE DEF k
        <3> DEFINE z == r + k * a
        <3>1. z \in Nat /\ S = z % L
            BY <1>1, <2>1, <2>2
        <3> HIDE DEF z
        <3> QED  BY <1>1, <3>1
    <2> HIDE DEF k
    <2>9. t[S] = PointAdd(t[r], Times(t[a])[k])
        BY <1>1, <2>1, <2>2, <2>8, Equation
    <2> QED  BY <2>4, <2>6, <2>7, <2>8, <2>9 DEF Checks, k
<1> QED  BY <1>3, <1>4

\* The checks of ed25519_spp.py and curve.ts are those.
LEMMA ProfileChecksAre ==
    ASSUME NEW a, NEW r, NEW S \in Nat, NEW k0 \in Nat, a.ok => a.pt \in Curve, r.ok => r.pt \in Curve
    PROVE  ProfileChecks(a, r, S, k0) <=> Checks(a.ok, a.pt, r.ok, r.pt, S, k0)
<1> DEFINE pa == a.pt
           pr == r.pt
           k == k0 % L
<1>1. CASE a.ok /\ r.ok
    <2>1. pa \in Curve /\ pr \in Curve /\ L \in Nat /\ k \in Nat /\ BasePoint \in Curve
        BY <1>1, OrderIs
    <2> HIDE DEF pa, pr, k
    <2>2. /\ PointMul(L, pa) = Times(pa)[L] /\ PointMul(L, pr) = Times(pr)[L]
          /\ PointMul(S, BasePoint) = Times(BasePoint)[S] /\ PointMul(k, pa) = Times(pa)[k]
        BY <2>1, PointMulIs
    <2> QED  BY <1>1, <2>2 DEF ProfileChecks, Checks, pa, pr, k
<1>2. CASE ~(a.ok /\ r.ok)
    BY <1>2 DEF ProfileChecks, Checks
<1> QED  BY <1>1, <1>2

\* verifySppEd25519 is exact,
LEMMA TsSignatureExact ==
    ASSUME NEW A \in Encodings, NEW R \in Encodings, NEW S \in Nat, NEW k0 \in Nat
    PROVE  TsVerify(A, R, S, k0) <=> InProfile(A, R, S, k0)
<1> DEFINE a == DecodeCanonical(A)
           r == DecodeCanonical(R)
<1>1. Decoded(a.ok, a.pt, A) /\ Decoded(r.ok, r.pt, R)
    BY DecodeCanonicalIs
<1>2. TsVerify(A, R, S, k0) <=> ProfileChecks(a, r, S, k0)
    BY DEF TsVerify
<1> HIDE DEF a, r
<1>3. (a.ok => a.pt \in Curve) /\ (r.ok => r.pt \in Curve)
    BY <1>1 DEF Decoded
<1>4. ProfileChecks(a, r, S, k0) <=> Checks(a.ok, a.pt, r.ok, r.pt, S, k0)
    BY <1>3, ProfileChecksAre
<1>5. Checks(a.ok, a.pt, r.ok, r.pt, S, k0) <=> InProfile(A, R, S, k0)
    BY <1>1, ChecksExact
<1> QED  BY <1>2, <1>4, <1>5

\* verify_spp_ed25519_1 but for negative zeros,
LEMMA PySignatureExact ==
    ASSUME NEW A \in Encodings, NEW R \in Encodings, NEW S \in Nat, NEW k0 \in Nat,
           ~NegativeZero(A), ~NegativeZero(R)
    PROVE  PyVerify(A, R, S, k0) <=> InProfile(A, R, S, k0)
<1> DEFINE a == DecodePoint(A)
           r == DecodePoint(R)
<1>1. Decoded(a.ok, a.pt, A) /\ Decoded(r.ok, r.pt, R)
    BY DecodePointIs
<1>2. PyVerify(A, R, S, k0) <=> ProfileChecks(a, r, S, k0)
    BY DEF PyVerify
<1> HIDE DEF a, r
<1>3. (a.ok => a.pt \in Curve) /\ (r.ok => r.pt \in Curve)
    BY <1>1 DEF Decoded
<1>4. ProfileChecks(a, r, S, k0) <=> Checks(a.ok, a.pt, r.ok, r.pt, S, k0)
    BY <1>3, ProfileChecksAre
<1>5. Checks(a.ok, a.pt, r.ok, r.pt, S, k0) <=> InProfile(A, R, S, k0)
    BY <1>1, ChecksExact
<1> QED  BY <1>2, <1>4, <1>5

\* and SPPEd25519Verify, which adds the other way around.
LEMMA GoSignatureExact ==
    ASSUME NEW A \in Encodings, NEW R \in Encodings, NEW S \in Nat, NEW k0 \in Nat
    PROVE  GoVerify(A, R, S, k0) <=> InProfile(A, R, S, k0)
<1> DEFINE a == SetBytes(A)
           r == SetBytes(R)
           okA == a.ok /\ EncodePoint(a.pt) = A
           okR == r.ok /\ EncodePoint(r.pt) = R
           k == k0 % L
<1>1. Decoded(okA, a.pt, A) /\ Decoded(okR, r.pt, R) /\ (a.ok => a.pt \in Curve) /\ (r.ok => r.pt \in Curve)
    BY SetBytesIs
<1>2. GoVerify(A, R, S, k0) <=> GoChecks(A, R, a, r, S, k0)
    BY DEF GoVerify
<1> HIDE DEF a, r
<1> DEFINE pa == a.pt
           pr == r.pt
<1>3. GoChecks(A, R, a, r, S, k0) <=> Checks(okA, pa, okR, pr, S, k0)
    <2>1. CASE a.ok /\ r.ok
        <3>1. pa \in Curve /\ pr \in Curve /\ L \in Nat /\ k \in Nat /\ BasePoint \in Curve
            BY <1>1, <2>1, OrderIs
        <3> HIDE DEF pa, pr, k
        <3>2. /\ MulFromHigh(pa)[L] = Times(pa)[L] /\ MulFromHigh(pr)[L] = Times(pr)[L]
              /\ PointMul(S, BasePoint) = Times(BasePoint)[S] /\ PointMul(k, pa) = Times(pa)[k]
            BY <3>1, PointMulIs, MulFromHighIs
        <3>3. PointAdd(PointMul(k, pa), pr) = PointAdd(pr, Times(pa)[k])
            <4>1. Times(pa)[k] \in Curve
                BY <3>1, TimesIs
            <4> QED  BY <3>1, <3>2, <4>1, Added
        <3> QED  BY <2>1, <3>2, <3>3 DEF GoChecks, Checks, pa, pr, k
    <2>2. CASE ~(a.ok /\ r.ok)
        BY <2>2 DEF GoChecks, Checks
    <2> QED  BY <2>1, <2>2
<1>4. Checks(okA, pa, okR, pr, S, k0) <=> InProfile(A, R, S, k0)
    <2> HIDE DEF okA, okR
    <2> QED  BY <1>1, ChecksExact
<1> QED  BY <1>2, <1>3, <1>4

-----------------------------------------------------------------------------
\* A clamped scalar is no multiple of L.
LEMMA ClampIs ==
    ASSUME NEW h \in Nat
    PROVE  Clamp(h) \in Nat /\ Clamp(h) % L # 0
<1> DEFINE b == SignBit
           g == b \div 2
           z == b \div 16
           v == h % g
           m == v \div 8
           c == Clamp(h)
<1>1. b \in Nat /\ b > 5 /\ b % 16 = 0 /\ 8 * L > b /\ L \in Nat /\ L % 2 = 1
    BY CurveNumbers, CurveAssumption
<1> HIDE DEF b
<1>2. z \in Nat /\ z >= 1 /\ b = 16 * z /\ g = 8 * z
    BY <1>1
<1>3. c = m * 8 + g
    BY DEF Clamp, b
<1> HIDE DEF c, g, z
<1>4. g \in Nat \ {0} /\ h \in Int
    BY <1>2
<1>5. v \in 0..(g - 1)
    BY <1>4
<1> HIDE DEF v
<1>6. m \in Nat /\ m * 8 <= v
    BY <1>4, <1>5
<1> HIDE DEF m
<1> DEFINE u == m + z
<1>7. c = 8 * u /\ u \in Nat /\ u >= 1 /\ c < b
    BY <1>2, <1>3, <1>4, <1>5, <1>6
<1> HIDE DEF u
<1>8. c \in Nat /\ c >= 8 /\ c < 8 * L
    BY <1>1, <1>7
<1>9. ASSUME c % L = 0 PROVE FALSE
    <2>1. L \in Nat \ {0} /\ c \in Int
        BY <1>1, <1>8
    <2>2. PICK j \in Int : c = L * j
        BY <1>9, <2>1, Divides
    <2>3. j \in 1..7
        <3>1. CASE j <= 0
            <4>1. L * j <= 0
                BY <2>1, <3>1
            <4> QED  BY <1>8, <2>2, <4>1
        <3>2. CASE j >= 8
            <4>1. L * j >= L * 8
                BY <2>1, <3>2
            <4> QED  BY <1>1, <1>8, <2>2, <4>1
        <3> QED  BY <3>1, <3>2
    <2>4. 8 * u = L * j
        BY <1>7, <2>2
    <2>5. PICK w \in Nat : L = 2 * w + 1
        <3>1. L \div 2 \in Nat /\ L = 2 * (L \div 2) + (L % 2)
            BY <1>1, Halves
        <3> QED  BY <1>1, <3>1
    <2>6. CASE j = 1
        BY <1>7, <2>4, <2>5, <2>6
    <2>7. CASE j = 2
        BY <1>7, <2>4, <2>5, <2>7
    <2>8. CASE j = 3
        BY <1>7, <2>4, <2>5, <2>8
    <2>9. CASE j = 4
        BY <1>7, <2>4, <2>5, <2>9
    <2>10. CASE j = 5
        BY <1>7, <2>4, <2>5, <2>10
    <2>11. CASE j = 6
        BY <1>7, <2>4, <2>5, <2>11
    <2>12. CASE j = 7
        BY <1>7, <2>4, <2>5, <2>12
    <2> QED  BY <2>3, <2>6, <2>7, <2>8, <2>9, <2>10, <2>11, <2>12
<1> QED  BY <1>8, <1>9 DEF c

\* What sign makes is in the profile, unless R is the identity.
LEMMA SignIs ==
    ASSUME NEW h \in Nat, NEW r0 \in Nat, NEW k0 \in Nat
    PROVE  /\ PublicFromPrivate(h) \in Encodings /\ ~NegativeZero(PublicFromPrivate(h))
           /\ Sign(h, r0, k0).R \in Encodings /\ ~NegativeZero(Sign(h, r0, k0).R)
           /\ Sign(h, r0, k0).S \in Nat /\ Sign(h, r0, k0).k0 = k0
           /\ Sign(h, r0, k0).R # EncodePoint(Ident) =>
                InProfile(PublicFromPrivate(h), Sign(h, r0, k0).R, Sign(h, r0, k0).S, k0)
<1> DEFINE t == Times(BasePoint)
           c == Clamp(h)
           a == c % L
           r == r0 % L
           k == k0 % L
           A == PublicFromPrivate(h)
           s == Sign(h, r0, k0)
<1>1. L \in Nat \ {0} /\ BasePoint \in Curve /\ t \in [Nat -> Curve] /\ t[0] = Ident
    BY OrderIs
<1>2. c \in Nat /\ a # 0
    BY ClampIs
<1> HIDE DEF c
<1>3. r \in 0..(L - 1) /\ k \in Nat /\ a \in 1..(L - 1) /\ r \in Nat /\ a \in Nat
    BY <1>1, <1>2
<1>4. A = EncodePoint(t[c])
    BY <1>1, <1>2, PointMulIs DEF PublicFromPrivate, c
<1>5. t[c] = t[a]
    BY <1>2, TimesReduced
<1>6. s.R = EncodePoint(t[r]) /\ s.S = (r + k * c) % L /\ s.k0 = k0
    <2>1. PointMul(r, BasePoint) = t[r]
        <3> HIDE DEF r
        <3> QED  BY <1>1, <1>3, PointMulIs
    <2> QED  BY <2>1 DEF Sign, c
<1> HIDE DEF A, s, a, r, k
<1>7. t[a] \in Curve /\ t[r] \in Curve
    <2> HIDE DEF t
    <2> QED  BY <1>1, <1>3
<1>8. A \in Encodings /\ ~NegativeZero(A) /\ s.R \in Encodings /\ ~NegativeZero(s.R)
    <2> HIDE DEF t
    <2> QED  BY <1>4, <1>5, <1>6, <1>7, EncodedIs, NoNegativeZero
<1>9. s.S \in Nat
    <2> DEFINE n == r + k * c
    <2>1. n \in Nat
        BY <1>2, <1>3
    <2> HIDE DEF n
    <2>2. n % L \in Nat
        BY <1>1, <2>1
    <2> QED  BY <1>6, <2>2 DEF n
<1>10. ASSUME s.R # EncodePoint(Ident) PROVE InProfile(A, s.R, s.S, k0)
    <2>1. r # 0
        BY <1>1, <1>6, <1>10
    <2>2. r \in 1..(L - 1)
        BY <1>3, <2>1
    <2>3. A = Multiples[a] /\ s.R = Multiples[r]
        BY <1>3, <1>4, <1>5, <1>6, <2>2 DEF Multiples
    <2>4. (r + k * c) % L = (r + k * a) % L
        <3> DEFINE n == k * c
                   w == k * a
        <3>1. n \in Int /\ w \in Int /\ r \in Int /\ n = c * k /\ w = a * k
            BY <1>2, <1>3
        <3>2. (c * k) % L = ((c % L) * k) % L
            <4>1. c \in Int /\ k \in Int
                BY <1>2, <1>3
            <4> QED  BY <1>1, <4>1, ReducedFactor
        <3>3. n % L = w % L
            BY <3>1, <3>2 DEF a
        <3> HIDE DEF n, w
        <3>4. (r + n) % L = (r + (n % L)) % L /\ (r + w) % L = (r + (w % L)) % L
            BY <1>1, <3>1, ReducedTerm
        <3>5. (r + n) % L = (r + w) % L
            BY <3>3, <3>4
        <3> QED  BY <3>5 DEF n, w
    <2>5. s.S = (r + k * a) % L
        BY <1>6, <2>4
    <2> QED  BY <1>3, <2>2, <2>3, <2>5 DEF InProfile, k
<1> QED  BY <1>6, <1>8, <1>9, <1>10 DEF A, s

\* What every state has: a key that was made is the one of the seed, and so is
\* a signature that was.
SigInv ==
    /\ seed = Nothing \/ seed \in Nat
    /\ key = Nothing \/ key \in Encodings
    /\ signature.R \in Encodings /\ signature.S \in Nat /\ signature.k0 \in Nat
    /\ seed # Nothing => key = PublicFromPrivate(seed)
    /\ signed => seed # Nothing /\ \E r0, k0 \in Nat : signature = Sign(seed, r0, k0)

\* Nothing is no key.
LEMMA NothingIs == Nothing \notin Nat /\ Nothing \notin Encodings
<1>1. SignBit \in Nat
    BY CurveNumbers
<1> QED  BY <1>1 DEF Nothing, Encodings

\* At first there is nothing,
LEMMA SigInvInit == SigInit => SigInv
<1> SUFFICES ASSUME SigInit PROVE SigInv
    OBVIOUS
<1>1. seed = Nothing /\ key = Nothing /\ signed = FALSE
    BY DEF SigInit
<1>2. signature.R = 0 /\ signature.S = 0 /\ signature.k0 = 0
    BY DEF SigInit, NoSignature
<1>3. 0 \in Encodings
    BY CurveNumbers DEF Encodings
<1> QED  BY <1>1, <1>2, <1>3 DEF SigInv

\* every step keeps it,
LEMMA SigInvNext == SigInv /\ [SigNext]_sigVars => SigInv'
<1> SUFFICES ASSUME SigInv, [SigNext]_sigVars PROVE SigInv'
    OBVIOUS
<1>1. CASE MakeKey
    <2>1. PICK h \in 0..(SignBit - 1) : seed' = h /\ key' = PublicFromPrivate(h)
        BY <1>1 DEF MakeKey
    <2>2. key = Nothing /\ signature' = signature /\ signed' = signed
        BY <1>1 DEF MakeKey
    <2>3. h \in Nat /\ 0 \in Nat
        BY CurveNumbers
    <2>4. PublicFromPrivate(h) \in Encodings
        BY <2>3, SignIs
    <2>5. seed = Nothing
        <3>1. CASE seed \in Nat
            <4>1. PublicFromPrivate(seed) \in Encodings /\ key = PublicFromPrivate(seed)
                BY <2>3, <3>1, NothingIs, SignIs DEF SigInv
            <4> QED  BY <2>2, <4>1, NothingIs
        <3> QED  BY <3>1 DEF SigInv
    <2>6. ~signed
        BY <2>5 DEF SigInv
    <2> QED  BY <2>1, <2>2, <2>3, <2>4, <2>6 DEF SigInv
<1>2. CASE AnyKey
    <2>1. key = Nothing /\ key' \in Encodings /\ seed' = seed /\ signature' = signature /\ signed' = signed
        BY <1>2 DEF AnyKey
    <2>2. seed = Nothing
        <3>1. CASE seed \in Nat
            <4>1. PublicFromPrivate(seed) \in Encodings /\ key = PublicFromPrivate(seed)
                <5>1. 0 \in Nat
                    OBVIOUS
                <5> QED  BY <3>1, <5>1, NothingIs, SignIs DEF SigInv
            <4> QED  BY <2>1, <4>1, NothingIs
        <3> QED  BY <3>1 DEF SigInv
    <2> QED  BY <2>1, <2>2 DEF SigInv
<1>3. CASE MakeSignature
    <2>1. PICK r0 \in Digests, k0 \in Digests : signature' = Sign(seed, r0, k0)
        BY <1>3 DEF MakeSignature
    <2>2. seed # Nothing /\ seed' = seed /\ key' = key /\ signed'
        BY <1>3 DEF MakeSignature
    <2>3. seed \in Nat /\ r0 \in Nat /\ k0 \in Nat
        BY <2>2, CurveNumbers DEF SigInv
    <2>4. Sign(seed, r0, k0).R \in Encodings /\ Sign(seed, r0, k0).S \in Nat /\ Sign(seed, r0, k0).k0 = k0
        BY <2>3, SignIs
    <2>5. signature'.R \in Encodings /\ signature'.S \in Nat /\ signature'.k0 \in Nat
        BY <2>1, <2>3, <2>4
    <2> QED  BY <2>1, <2>2, <2>3, <2>5 DEF SigInv
<1>4. CASE AnySignature
    <2>1. seed = Nothing /\ seed' = seed /\ key' = key /\ signed' = signed
          /\ signature' \in [R : Encodings, S : 0..L, k0 : Digests]
        BY <1>4 DEF AnySignature
    <2>2. signature'.R \in Encodings /\ signature'.S \in Nat /\ signature'.k0 \in Nat
        <3>1. PICK s \in [R : Encodings, S : 0..L, k0 : Digests] : signature' = s
            BY <2>1
        <3>2. s.R \in Encodings /\ s.S \in 0..L /\ s.k0 \in Digests
            OBVIOUS
        <3>3. s.S \in Nat /\ s.k0 \in Nat
            <4>1. L \in Nat /\ \A x \in Digests : x \in Nat
                BY CurveNumbers
            <4>2. \A x \in 0..L : x \in Nat
                BY <4>1
            <4> QED  BY <3>2, <4>1, <4>2
        <3> QED  BY <3>1, <3>2, <3>3
    <2> QED  BY <2>1, <2>2 DEF SigInv
<1>5. CASE UNCHANGED sigVars
    BY <1>5 DEF SigInv, sigVars
<1> QED  BY <1>1, <1>2, <1>3, <1>4, <1>5 DEF SigNext

\* and it makes the verifiers exact
LEMMA SigInvExact == SigInv => VerifiersExact
<1> SUFFICES ASSUME SigInv, key # Nothing
             PROVE  /\ Verdicts(TsVerify) <=> Verdicts(InProfile)
                    /\ Verdicts(GoVerify) <=> Verdicts(InProfile)
                    /\ ~NegativeZero(key) /\ ~NegativeZero(signature.R) => (Verdicts(PyVerify) <=> Verdicts(InProfile))
    BY DEF VerifiersExact
<1> DEFINE R == signature.R
           S == signature.S
           k0 == signature.k0
<1>1. key \in Encodings /\ R \in Encodings /\ S \in Nat /\ k0 \in Nat
    BY DEF SigInv
<1> HIDE DEF R, S, k0
<1>2. TsVerify(key, R, S, k0) <=> InProfile(key, R, S, k0)
    BY <1>1, TsSignatureExact
<1>3. GoVerify(key, R, S, k0) <=> InProfile(key, R, S, k0)
    BY <1>1, GoSignatureExact
<1>4. ~NegativeZero(key) /\ ~NegativeZero(R) => (PyVerify(key, R, S, k0) <=> InProfile(key, R, S, k0))
    BY <1>1, PySignatureExact
<1> QED  BY <1>2, <1>3, <1>4 DEF Verdicts, R, S, k0

\* and what was signed verify.
LEMMA SigInvSigned == SigInv => SignedVerifies
<1> SUFFICES ASSUME SigInv, signed, signature.R # EncodePoint(Ident)
             PROVE  Verdicts(PyVerify) /\ Verdicts(TsVerify) /\ Verdicts(GoVerify)
    BY DEF SignedVerifies
<1>1. seed \in Nat /\ key = PublicFromPrivate(seed)
    BY DEF SigInv
<1>2. PICK r0 \in Nat, h0 \in Nat : signature = Sign(seed, r0, h0)
    BY DEF SigInv
<1> DEFINE R == signature.R
           S == signature.S
           k0 == signature.k0
<1>3. /\ key \in Encodings /\ ~NegativeZero(key) /\ R \in Encodings /\ ~NegativeZero(R)
      /\ S \in Nat /\ k0 = h0
    BY <1>1, <1>2, SignIs
<1>4. InProfile(key, R, S, k0)
    <2>1. Sign(seed, r0, h0).R # EncodePoint(Ident)
        BY <1>2
    <2>2. InProfile(PublicFromPrivate(seed), Sign(seed, r0, h0).R, Sign(seed, r0, h0).S, h0)
        BY <1>1, <2>1, SignIs
    <2> QED  BY <1>1, <1>2, <1>3, <2>2
<1> HIDE DEF R, S, k0
<1>5. k0 \in Nat
    BY <1>3
<1>6. PyVerify(key, R, S, k0) /\ TsVerify(key, R, S, k0) /\ GoVerify(key, R, S, k0)
    BY <1>3, <1>4, <1>5, TsSignatureExact, GoSignatureExact, PySignatureExact
<1> QED  BY <1>6 DEF Verdicts, R, S, k0

\* curve.ts and ed25519.go accept exactly the signatures of section 8A, of all
\* strings of bytes, and ed25519_spp.py does but for negative zeros: for every
\* field, curve and base point of which the assumptions hold, and every hash.
THEOREM VerifiersAlwaysExact == SigSpec => []VerifiersExact
<1>1. SigInit => SigInv
    BY SigInvInit
<1>2. SigInv /\ [SigNext]_sigVars => SigInv'
    BY SigInvNext
<1>3. SigInv => VerifiersExact
    BY SigInvExact
<1> QED  BY <1>1, <1>2, <1>3, PTL DEF SigSpec

\* What sign makes of any private key and any hashes is accepted by all three
\* verifiers, unless R is the identity; the clamped scalar is no multiple of L.
THEOREM SignedAlwaysVerifies == SigSpec => []SignedVerifies
<1>1. SigInit => SigInv
    BY SigInvInit
<1>2. SigInv /\ [SigNext]_sigVars => SigInv'
    BY SigInvNext
<1>3. SigInv => SignedVerifies
    BY SigInvSigned
<1> QED  BY <1>1, <1>2, <1>3, PTL DEF SigSpec

-----------------------------------------------------------------------------
(* Strings. *)

\* An element appended is the last one; the others stay.
LEMMA AppendAt ==
    ASSUME NEW T, NEW q \in Seq(T), NEW e \in T
    PROVE  LET a == Append(q, e) IN
           /\ Len(q) \in Nat /\ DOMAIN a = 1..(Len(q) + 1) /\ a[Len(q) + 1] = e
           /\ \A i \in 1..Len(q) : a[i] = q[i]
           /\ a \in Seq(T) /\ Len(a) = Len(q) + 1
    OBVIOUS

\* Sequences with the same elements are the same.
LEMMA SameElements ==
    ASSUME NEW T, NEW a \in Seq(T), NEW b \in Seq(T), Len(a) = Len(b),
           \A i \in 1..Len(a) : a[i] = b[i]
    PROVE  a = b
    OBVIOUS

-----------------------------------------------------------------------------
\* FlattenSeq, one sequence at a time.

FlattenOf(f, q) == f = [i \in 1..Len(q) |-> IF i = 1 THEN q[i] ELSE f[i - 1] \o q[i]]

\* The recursive function in the definition of FlattenSeq exists.
LEMMA FlattenExists ==
    ASSUME NEW T, NEW q \in Seq(Seq(T))
    PROVE  \E f : FlattenOf(f, q)
<1> DEFINE Upto(n, f) == f = [i \in 1..n |-> IF i = 1 THEN q[i] ELSE f[i - 1] \o q[i]]
           S == {n \in Nat : \E f : Upto(n, f)}
<1>1. 0 \in S
    <2>1. Upto(0, [i \in 1..0 |-> q[i]])
        OBVIOUS
    <2> QED  BY <2>1
<1>2. ASSUME NEW n \in S PROVE n + 1 \in S
    <2>1. PICK f : Upto(n, f)
        OBVIOUS
    <2> DEFINE g == [i \in 1..(n + 1) |-> IF i = n + 1 THEN (IF i = 1 THEN q[i] ELSE f[n] \o q[i]) ELSE f[i]]
    <2>2. ASSUME NEW i \in 1..(n + 1)
          PROVE  g[i] = IF i = 1 THEN q[i] ELSE g[i - 1] \o q[i]
        <3>1. CASE i = n + 1
            BY <3>1
        <3>2. CASE i # n + 1
            <4>1. i \in 1..n
                BY <3>2
            <4>2. g[i] = f[i] /\ (i # 1 => g[i - 1] = f[i - 1])
                BY <4>1
            <4> QED  BY <4>1, <4>2, <2>1
        <3> QED  BY <3>1, <3>2
    <2>3. Upto(n + 1, g)
        BY <2>2
    <2>4. n + 1 \in Nat
        OBVIOUS
    <2> HIDE DEF g
    <2> QED  BY <2>3, <2>4
<1>3. S \in SUBSET Nat
    OBVIOUS
<1>4. Len(q) \in S
    <2> HIDE DEF S
    <2>1. Len(q) \in Nat
        OBVIOUS
    <2> QED  BY <1>1, <1>2, <1>3, <2>1, NaturalsOf
<1> QED  BY <1>4 DEF FlattenOf

\* FlattenSeq is its last value.
LEMMA FlattenIs ==
    ASSUME NEW T, NEW q \in Seq(Seq(T)), q # <<>>
    PROVE  \E f : FlattenOf(f, q) /\ FlattenSeq(q) = f[Len(q)]
<1> DEFINE f == CHOOSE g : FlattenOf(g, q)
<1>1. FlattenOf(f, q)
    BY FlattenExists
<1>2. Len(q) # 0
    OBVIOUS
<1>3. FlattenSeq(q) = f[Len(q)]
    BY <1>2 DEF FlattenSeq, FlattenOf
<1> QED  BY <1>1, <1>3

\* Nothing flattened is nothing.
LEMMA FlattenNone == FlattenSeq(<<>>) = <<>>
    BY DEF FlattenSeq

\* A single sequence is itself.
LEMMA FlattenOne ==
    ASSUME NEW T, NEW e \in Seq(T)
    PROVE  FlattenSeq(<<e>>) = e
<1>1. <<e>> \in Seq(Seq(T)) /\ <<e>> # <<>> /\ Len(<<e>>) = 1
    OBVIOUS
<1>2. PICK f : FlattenOf(f, <<e>>) /\ FlattenSeq(<<e>>) = f[1]
    BY <1>1, FlattenIs
<1> QED  BY <1>1, <1>2 DEF FlattenOf

\* A sequence appended is put behind the others.
LEMMA FlattenAppend ==
    ASSUME NEW T, NEW q \in Seq(Seq(T)), NEW e \in Seq(T)
    PROVE  FlattenSeq(Append(q, e)) = FlattenSeq(q) \o e /\ FlattenSeq(q) \in Seq(T)
<1>1. CASE q = <<>>
    <2>1. Append(q, e) = <<e>> /\ <<>> \o e = e
        BY <1>1
    <2>2. FlattenSeq(q) = <<>> /\ <<>> \in Seq(T)
        BY <1>1, FlattenNone
    <2>3. FlattenSeq(<<e>>) = e
        BY FlattenOne
    <2> QED  BY <2>1, <2>2, <2>3
<1>2. CASE q # <<>>
    <2> DEFINE n == Len(q)
               r == Append(q, e)
    <2>1. n \in Nat \ {0} /\ r \in Seq(Seq(T)) /\ r # <<>> /\ Len(r) = n + 1 /\ r[n + 1] = e
          /\ \A i \in 1..n : r[i] = q[i]
        BY <1>2
    <2>2. PICK f : FlattenOf(f, q) /\ FlattenSeq(q) = f[n]
        BY <1>2, FlattenIs
    <2> HIDE DEF r
    <2>3. PICK g : FlattenOf(g, r) /\ FlattenSeq(r) = g[n + 1]
        BY <2>1, FlattenIs
    <2> DEFINE S == {i \in Nat : i + 1 \in 1..n => g[i + 1] = f[i + 1] /\ f[i + 1] \in Seq(T)}
    <2>4. 0 \in S
        <3>1. f[1] = q[1] /\ g[1] = r[1] /\ q[1] \in Seq(T)
            BY <2>1, <2>2, <2>3 DEF FlattenOf
        <3> QED  BY <3>1, <2>1
    <2>5. ASSUME NEW i \in S PROVE i + 1 \in S
        <3> SUFFICES ASSUME i + 2 \in 1..n PROVE g[i + 2] = f[i + 2] /\ f[i + 2] \in Seq(T)
            BY <2>1
        <3>1. g[i + 1] = f[i + 1] /\ f[i + 1] \in Seq(T)
            BY <2>1
        <3>2. f[i + 2] = f[i + 1] \o q[i + 2] /\ g[i + 2] = g[i + 1] \o r[i + 2]
            <4> DEFINE k == i + 2
            <4>1. k \in 1..n /\ k \in 1..Len(r) /\ k # 1 /\ k - 1 = i + 1
                BY <2>1
            <4> HIDE DEF k
            <4>2. f[k] = f[k - 1] \o q[k] /\ g[k] = g[k - 1] \o r[k]
                BY <2>2, <2>3, <4>1 DEF FlattenOf
            <4> QED  BY <4>1, <4>2 DEF k
        <3>3. r[i + 2] = q[i + 2] /\ q[i + 2] \in Seq(T)
            BY <2>1
        <3> QED  BY <3>1, <3>2, <3>3
    <2>6. n - 1 \in S
        <3>1. S \in SUBSET Nat /\ n - 1 \in Nat
            BY <2>1
        <3> HIDE DEF S
        <3> QED  BY <2>4, <2>5, <3>1, NaturalsOf
    <2>7. g[n] = f[n] /\ f[n] \in Seq(T)
        BY <2>1, <2>6
    <2>8. g[n + 1] = g[n] \o r[n + 1]
        <3> DEFINE k == n + 1
        <3>1. k \in 1..Len(r) /\ k # 1 /\ k - 1 = n
            BY <2>1
        <3> HIDE DEF k
        <3>2. g[k] = g[k - 1] \o r[k]
            BY <2>3, <3>1 DEF FlattenOf
        <3> QED  BY <3>1, <3>2 DEF k
    <2> QED  BY <2>1, <2>2, <2>3, <2>7, <2>8 DEF r
<1> QED  BY <1>1, <1>2

-----------------------------------------------------------------------------
\* Units of UTF-16.

CodePoint(c)  == c < 1114112
FirstPlane(c) == c < 65536
Characters == {c \in Nat : CodePoint(c) /\ ~Surrogate(c)}
LoopStates == [ok : BOOLEAN, chars : Seq(Characters), lead : {0} \cup {c \in Nat : Lead(c)}]

Partial(u) ==
    \A i \in 1..Len(u) :
        /\ Lead(u[i]) /\ i < Len(u) => Trail(u[i + 1]) /\ ~BadPair(u[i], u[i + 1])
        /\ Trail(u[i]) => i > 1 /\ Lead(u[i - 1])
        /\ ~BadUnit(u[i])

EndsOpen(u) == u # <<>> /\ Lead(u[Len(u)])

\* Well-formed text is a beginning that does not end in half a pair.
LEMMA TextIsPartial ==
    ASSUME NEW u \in Seq(Nat)
    PROVE  IsText(u) <=> Partial(u) /\ ~EndsOpen(u)
<1>1. DOMAIN u = 1..Len(u) /\ Len(u) \in Nat /\ (u # <<>> <=> Len(u) \in 1..Len(u))
    OBVIOUS
<1>2. ASSUME IsText(u) PROVE Partial(u) /\ ~EndsOpen(u)
    <2>1. Partial(u)
        BY <1>1, <1>2 DEF IsText, Partial
    <2>2. ASSUME EndsOpen(u) PROVE FALSE
        <3>1. Len(u) \in 1..Len(u) /\ Lead(u[Len(u)])
            BY <1>1, <2>2 DEF EndsOpen
        <3>2. Len(u) < Len(u)
            BY <1>1, <1>2, <3>1 DEF IsText
        <3> QED  BY <1>1, <3>2
    <2> QED  BY <2>1, <2>2
<1>3. ASSUME Partial(u), ~EndsOpen(u), NEW i \in 1..Len(u), Lead(u[i]) PROVE i < Len(u)
    BY <1>1, <1>3 DEF EndsOpen
<1>4. ASSUME Partial(u), ~EndsOpen(u) PROVE IsText(u)
    BY <1>1, <1>3, <1>4 DEF IsText, Partial
<1> QED  BY <1>2, <1>4

\* What one more unit has to be.
Follows(u, x) ==
    /\ EndsOpen(u) => Trail(x) /\ ~BadPair(u[Len(u)], x)
    /\ Trail(x) => EndsOpen(u)
    /\ ~BadUnit(x)

\* A beginning goes on with a unit that may follow it.
LEMMA PartialAppend ==
    ASSUME NEW u \in Seq(Nat), NEW x \in Nat
    PROVE  /\ Partial(Append(u, x)) <=> Partial(u) /\ Follows(u, x)
           /\ EndsOpen(Append(u, x)) <=> Lead(x)
           /\ Append(u, x) \in Seq(Nat)
           /\ Append(u, x)[Len(Append(u, x))] = x
<1> DEFINE v == Append(u, x)
           n == Len(u)
<1>1. /\ n \in Nat /\ Len(v) = n + 1 /\ v[n + 1] = x /\ v \in Seq(Nat) /\ v # <<>>
      /\ \A i \in 1..n : v[i] = u[i]
    OBVIOUS
<1>2. EndsOpen(v) <=> Lead(x)
    BY <1>1 DEF EndsOpen
<1>3. EndsOpen(u) <=> n \in 1..n /\ Lead(u[n])
    BY <1>1 DEF EndsOpen
<1> HIDE DEF v, n
<1>4. ASSUME Partial(v) PROVE Partial(u)
    <2> SUFFICES ASSUME NEW i \in 1..n
                 PROVE  /\ Lead(u[i]) /\ i < n => Trail(u[i + 1]) /\ ~BadPair(u[i], u[i + 1])
                        /\ Trail(u[i]) => i > 1 /\ Lead(u[i - 1])
                        /\ ~BadUnit(u[i])
        BY DEF Partial, n
    <2>1. i \in 1..(n + 1) /\ v[i] = u[i] /\ (i < n => v[i + 1] = u[i + 1]) /\ (i > 1 => v[i - 1] = u[i - 1])
        BY <1>1
    <2>2. /\ Lead(v[i]) /\ i < n + 1 => Trail(v[i + 1]) /\ ~BadPair(v[i], v[i + 1])
          /\ Trail(v[i]) => i > 1 /\ Lead(v[i - 1])
          /\ ~BadUnit(v[i])
        BY <1>1, <1>4, <2>1 DEF Partial
    <2>3. i < n => i < n + 1
        BY <1>1
    <2> QED  BY <2>1, <2>2, <2>3
<1>5. ASSUME Partial(v) PROVE Follows(u, x)
    <2>1. n \in 1..n => /\ v[n] = u[n] /\ n \in 1..(n + 1) /\ n < n + 1
        BY <1>1
    <2>2. n + 1 \in 1..(n + 1) /\ (n + 1) - 1 = n /\ (n + 1 > 1 => n \in 1..n)
        BY <1>1
    <2>3. /\ Trail(v[n + 1]) => n + 1 > 1 /\ Lead(v[n])
          /\ ~BadUnit(v[n + 1])
        BY <1>1, <1>5, <2>2 DEF Partial
    <2>4. n \in 1..n /\ Lead(v[n]) => Trail(v[n + 1]) /\ ~BadPair(v[n], v[n + 1])
        BY <1>1, <1>5, <2>1 DEF Partial
    <2> QED  BY <1>1, <1>3, <2>1, <2>2, <2>3, <2>4 DEF Follows, n
<1>6. ASSUME Partial(u), Follows(u, x) PROVE Partial(v)
    <2> SUFFICES ASSUME NEW i \in 1..(n + 1)
                 PROVE  /\ Lead(v[i]) /\ i < n + 1 => Trail(v[i + 1]) /\ ~BadPair(v[i], v[i + 1])
                        /\ Trail(v[i]) => i > 1 /\ Lead(v[i - 1])
                        /\ ~BadUnit(v[i])
        BY <1>1 DEF Partial
    <2>1. CASE i = n + 1
        <3>1. Trail(x) => n \in 1..n /\ Lead(u[n])
            BY <1>3, <1>6 DEF Follows
        <3>2. n \in 1..n => v[n] = u[n] /\ n + 1 > 1
            BY <1>1
        <3> QED  BY <1>1, <1>6, <2>1, <3>1, <3>2 DEF Follows
    <2>2. CASE i = n /\ i # n + 1
        <3>1. n \in 1..n /\ v[n] = u[n] /\ (n > 1 => v[n - 1] = u[n - 1])
            BY <1>1, <2>2
        <3>2. Trail(u[n]) => n > 1 /\ Lead(u[n - 1])
            BY <1>1, <1>6, <3>1 DEF Partial, n
        <3>3. ~BadUnit(u[n])
            BY <1>1, <1>6, <3>1 DEF Partial, n
        <3>4. Lead(u[n]) => Trail(x) /\ ~BadPair(u[n], x)
            BY <1>3, <1>6, <3>1 DEF Follows, n
        <3> QED  BY <1>1, <2>2, <3>1, <3>2, <3>3, <3>4
    <2>3. CASE i \in 1..n /\ i # n
        <3>1. i < n /\ v[i] = u[i] /\ v[i + 1] = u[i + 1] /\ (i > 1 => v[i - 1] = u[i - 1])
            BY <1>1, <2>3
        <3> QED  BY <1>1, <1>6, <2>3, <3>1 DEF Partial, n
    <2> QED  BY <1>1, <2>1, <2>2, <2>3
<1> QED  BY <1>1, <1>2, <1>4, <1>5, <1>6 DEF v

\* The units of one character more come behind those of the others.
LEMMA UnitsAppend ==
    ASSUME NEW cs \in Seq(Nat), NEW c \in Nat
    PROVE  /\ UnitsOf(c) \in Seq(Nat) /\ CodeUnits(cs) \in Seq(Nat)
           /\ CodeUnits(Append(cs, c)) = CodeUnits(cs) \o UnitsOf(c)
<1>1. \A x \in Nat : UnitsOf(x) \in Seq(Nat)
    <2> SUFFICES ASSUME NEW x \in Nat PROVE UnitsOf(x) \in Seq(Nat)
        OBVIOUS
    <2>1. x >= 65536 => 55296 + ((x - 65536) \div 1024) \in Nat /\ 56320 + ((x - 65536) % 1024) \in Nat
        BY SMT
    <2> QED  BY <2>1 DEF UnitsOf
<1> DEFINE q == [i \in DOMAIN cs |-> UnitsOf(cs[i])]
           r == [i \in DOMAIN Append(cs, c) |-> UnitsOf(Append(cs, c)[i])]
           d == Append(cs, c)
           n == Len(cs)
<1>2. /\ n \in Nat /\ DOMAIN cs = 1..n /\ DOMAIN d = 1..(n + 1) /\ d[n + 1] = c
      /\ \A i \in 1..n : cs[i] \in Nat /\ d[i] = cs[i]
      /\ \A i \in 1..(n + 1) : d[i] \in Nat
    OBVIOUS
<1> HIDE DEF n, d
<1>3. q \in Seq(Seq(Nat)) /\ Len(q) = n /\ \A i \in 1..n : q[i] = UnitsOf(cs[i])
    <2> DEFINE T == Seq(Nat)
    <2>1. q = [i \in 1..n |-> UnitsOf(cs[i])]
        BY <1>2
    <2>2. \A i \in 1..n : UnitsOf(cs[i]) \in T
        BY <1>1, <1>2
    <2> HIDE DEF T
    <2>3. q \in Seq(T) /\ Len(q) = n
        BY <1>2, <2>1, <2>2
    <2> QED  BY <2>1, <2>3 DEF T
<1>5. r = [i \in 1..(n + 1) |-> UnitsOf(d[i])]
    BY <1>2 DEF d
<1> HIDE DEF q, r
<1>6. r = Append(q, UnitsOf(c))
    <2> DEFINE a == Append(q, UnitsOf(c))
    <2>1. /\ Len(a) = n + 1 /\ a[n + 1] = UnitsOf(c) /\ \A i \in 1..n : a[i] = q[i]
          /\ a \in Seq(Seq(Nat))
        <3> DEFINE T == Seq(Nat)
        <3>1. q \in Seq(T) /\ UnitsOf(c) \in T
            BY <1>1, <1>3
        <3> HIDE DEF T
        <3>2. /\ Len(a) = n + 1 /\ a[n + 1] = UnitsOf(c) /\ \A i \in 1..n : a[i] = q[i]
              /\ a \in Seq(T)
            BY <1>2, <1>3, <3>1, AppendAt
        <3> QED  BY <3>2 DEF T
    <2>2. \A i \in 1..(n + 1) : r[i] = a[i]
        BY <1>2, <1>3, <1>5, <2>1
    <2> HIDE DEF a
    <2>3. r \in Seq(Seq(Nat)) /\ Len(r) = n + 1
        <3> DEFINE T == Seq(Nat)
        <3>1. \A i \in 1..(n + 1) : UnitsOf(d[i]) \in T
            BY <1>1, <1>2
        <3> HIDE DEF T
        <3>2. r \in Seq(T) /\ Len(r) = n + 1
            BY <1>2, <1>5, <3>1
        <3> QED  BY <3>2 DEF T
    <2>4. r = a
        BY <2>1, <2>2, <2>3, SameElements
    <2> QED  BY <2>4 DEF a
<1> HIDE DEF q, r
<1>4. FlattenSeq(r) = FlattenSeq(q) \o UnitsOf(c) /\ FlattenSeq(q) \in Seq(Nat)
    BY <1>1, <1>3, <1>6, FlattenAppend
<1> QED  BY <1>1, <1>4 DEF CodeUnits, q, r, d

\* Noncharacters, by both programs and by their units.
LEMMA Noncharacters ==
    ASSUME NEW c \in Nat, c < 1114112
    PROVE  /\ PyNoncharacter(c) <=> GoNoncharacter(c)
           /\ c < 65536 => (GoNoncharacter(c) <=> BadUnit(c))
<1>1. c = 65536 * (c \div 65536) + (c % 65536) /\ c \div 65536 \in 0..16 /\ c % 65536 \in Nat /\ c % 65536 < 65536
    BY SMT
<1>2. (c % 65536) \div 2 = 32767 <=> c % 65536 \in {65534, 65535}
    BY <1>1, SMT
<1>3. ASSUME NEW p \in 0..16, NEW e \in {65534, 65535}, c = p * 65536 + e
      PROVE  c % 65536 = e
    BY <1>3, SMT
<1>4. c % 65536 \in {65534, 65535} => \E p \in 0..16, e \in {65534, 65535} : c = p * 65536 + e
    <2> SUFFICES ASSUME c % 65536 \in {65534, 65535} PROVE \E p \in 0..16, e \in {65534, 65535} : c = p * 65536 + e
        OBVIOUS
    <2>1. c = (c \div 65536) * 65536 + (c % 65536)
        BY <1>1, SMT
    <2> QED  BY <1>1, <2>1
<1>5. PyNoncharacter(c) <=> c \in 64976..65007 \/ c % 65536 \in {65534, 65535}
    BY <1>3, <1>4 DEF PyNoncharacter
<1>6. c < 65536 => c % 65536 = c
    BY SMT
<1> QED  BY <1>2, <1>5, <1>6, SMT DEF GoNoncharacter, BadUnit

-----------------------------------------------------------------------------
\* The loop that reads a string.

\* The recursive function in the definition of StringLoop exists.
LEMMA LoopIs ==
    ASSUME NEW T, NEW s \in Seq(T), NEW each
    PROVE  LET f == StringLoop(s, each) IN
           f = [i \in 0..Len(s) |-> IF i = 0 THEN StringStart ELSE StringStep(f[i - 1], s[i], each)]
<1> DEFINE Upto(n, f) == f = [i \in 0..n |-> IF i = 0 THEN StringStart ELSE StringStep(f[i - 1], s[i], each)]
           S == {n \in Nat : \E f : Upto(n, f)}
<1>1. 0 \in S
    <2>1. Upto(0, [i \in 0..0 |-> StringStart])
        OBVIOUS
    <2> QED  BY <2>1
<1>2. ASSUME NEW n \in S PROVE n + 1 \in S
    <2>1. PICK f : Upto(n, f)
        OBVIOUS
    <2> DEFINE g == [i \in 0..(n + 1) |-> IF i = n + 1 THEN StringStep(f[n], s[i], each) ELSE f[i]]
    <2>2. ASSUME NEW i \in 0..(n + 1)
          PROVE  g[i] = IF i = 0 THEN StringStart ELSE StringStep(g[i - 1], s[i], each)
        <3>1. CASE i = n + 1
            BY <3>1
        <3>2. CASE i # n + 1
            <4>1. i \in 0..n
                BY <3>2
            <4>2. g[i] = f[i] /\ (i # 0 => g[i - 1] = f[i - 1])
                BY <4>1
            <4> QED  BY <4>1, <4>2, <2>1
        <3> QED  BY <3>1, <3>2
    <2>3. Upto(n + 1, g)
        BY <2>2
    <2>4. n + 1 \in Nat
        OBVIOUS
    <2> HIDE DEF g
    <2> QED  BY <2>3, <2>4
<1>3. S \in SUBSET Nat
    OBVIOUS
<1>4. Len(s) \in S
    <2> HIDE DEF S
    <2>1. Len(s) \in Nat
        OBVIOUS
    <2> QED  BY <1>1, <1>2, <1>3, <2>1, NaturalsOf
<1> DEFINE h == CHOOSE f : Upto(Len(s), f)
<1>5. Upto(Len(s), h)
    BY <1>4
<1>6. StringLoop(s, each) = h
    BY DEF StringLoop
<1> QED  BY <1>5, <1>6

\* A round of the loop.
LEMMA LoopStep ==
    ASSUME NEW T, NEW s \in Seq(T), NEW each
    PROVE  /\ StringLoop(s, each)[0] = StringStart
           /\ \A i \in 0..(Len(s) - 1) :
                StringLoop(s, each)[i + 1] = StringStep(StringLoop(s, each)[i], s[i + 1], each)
<1> DEFINE f == StringLoop(s, each)
           n == Len(s)
<1>1. n \in Nat
    OBVIOUS
<1>2. f = [i \in 0..n |-> IF i = 0 THEN StringStart ELSE StringStep(f[i - 1], s[i], each)]
    BY LoopIs
<1> HIDE DEF f, n
<1>3. f[0] = StringStart
    BY <1>1, <1>2
<1>4. ASSUME NEW i \in 0..(n - 1) PROVE f[i + 1] = StringStep(f[i], s[i + 1], each)
    <2> DEFINE j == i + 1
    <2>1. j \in 0..n /\ j # 0 /\ j - 1 = i
        BY <1>1
    <2> HIDE DEF j
    <2>2. f[j] = StringStep(f[j - 1], s[j], each)
        BY <1>2, <2>1
    <2> QED  BY <2>1, <2>2 DEF j
<1> QED  BY <1>3, <1>4 DEF f, n

\* An element that may stand in a string, as far as the grammar goes.
Legal(e) == e.k # "bad" /\ (e.k = "raw" => e.c > 31)

\* What the reader of Go knows after elements of units u.
Fits(st, legal, u) ==
    /\ st \in LoopStates
    /\ st.ok <=> legal /\ Partial(u)
    /\ st.ok =>
         /\ u = IF st.lead = 0 THEN CodeUnits(st.chars) ELSE Append(CodeUnits(st.chars), st.lead)
         /\ st.lead # 0 <=> EndsOpen(u)
         /\ \A j \in DOMAIN st.chars : ~GoNoncharacter(st.chars[j])

\* Half a pair is the one half or the other, and not a noncharacter.
LEMMA HalfUnit ==
    ASSUME NEW c \in Nat
    PROVE  (Lead(c) => ~Trail(c) /\ ~BadUnit(c)) /\ (Trail(c) => ~Lead(c) /\ ~BadUnit(c))
<1>1. ~(Lead(c) /\ Trail(c))
    BY SMT DEF Lead, Trail
<1>2. Lead(c) => ~BadUnit(c)
    BY SMT DEF Lead, BadUnit
<1>3. Trail(c) => ~BadUnit(c)
    BY SMT DEF Trail, BadUnit
<1> QED  BY <1>1, <1>2, <1>3

\* The arithmetic of pairs.
LEMMA PairOf ==
    ASSUME NEW l \in Nat, NEW t \in Nat, Lead(l), Trail(t)
    PROVE  LET c == Joined(l, t) IN
           /\ c \in Characters /\ UnitsOf(c) = <<l, t>>
           /\ GoNoncharacter(c) <=> BadPair(l, t)
<1> DEFINE a == l - 55296
           b == t - 56320
           c == Joined(l, t)
<1>1. a \in Nat /\ a < 1024 /\ b \in Nat /\ b < 1024 /\ l = 55296 + a /\ t = 56320 + b
    BY SMT DEF Lead, Trail
<1>2. c = 65536 + a * 1024 + b
    BY DEF Joined
<1> HIDE DEF a, b, c
<1>3. c \in Nat /\ c >= 65536 /\ CodePoint(c) /\ (c - 65536) \div 1024 = a /\ (c - 65536) % 1024 = b
    BY <1>1, <1>2, SMT DEF CodePoint
<1>4. ~Surrogate(c) /\ c \notin 64976..65007
    BY <1>3, SMT DEF Surrogate
<1>5. UnitsOf(c) = <<l, t>>
    BY <1>1, <1>3, SMT DEF UnitsOf
<1>6. c % 65536 = (a % 64) * 1024 + b
    <2>1. a = 64 * (a \div 64) + (a % 64) /\ a \div 64 \in Nat /\ a % 64 \in Nat /\ a % 64 < 64
        BY <1>1, SMT
    <2>2. c = 65536 * (1 + (a \div 64)) + ((a % 64) * 1024 + b)
        BY <1>1, <1>2, <2>1, SMT
    <2>3. (a % 64) * 1024 + b \in Nat /\ (a % 64) * 1024 + b < 65536
        BY <1>1, <2>1, SMT
    <2> DEFINE k == 1 + (a \div 64)
               r == (a % 64) * 1024 + b
    <2>4. k \in Nat /\ r \in Nat /\ r < 65536 /\ c = 65536 * k + r
        BY <2>1, <2>2, <2>3
    <2> HIDE DEF k, r
    <2>5. c % 65536 = r
        BY <2>4, SMT
    <2> QED  BY <2>5 DEF r
<1>7. l % 64 = a % 64 /\ a % 64 \in Nat /\ a % 64 < 64
    BY <1>1, SMT
<1>8. (c % 65536) \div 2 = 32767 <=> (c % 65536 = 65534 \/ c % 65536 = 65535)
    BY <1>3, SMT
<1>9. (c % 65536 = 65534 \/ c % 65536 = 65535) <=> a % 64 = 63 /\ b >= 1022
    BY <1>1, <1>6, <1>7, SMT
<1>10. b >= 1022 <=> t >= 57342
    BY <1>1, SMT
<1>11. GoNoncharacter(c) <=> (c % 65536) \div 2 = 32767
    BY <1>4 DEF GoNoncharacter
<1>12. BadPair(l, t) <=> l % 64 = 63 /\ t >= 57342
    BY DEF BadPair
<1>13. GoNoncharacter(c) <=> BadPair(l, t)
    BY <1>7, <1>8, <1>9, <1>10, <1>11, <1>12
<1> QED  BY <1>3, <1>4, <1>5, <1>13, SMT DEF Characters, c

\* A character beyond the first plane is such a pair.
LEMMA PairIn ==
    ASSUME NEW c \in Nat, ~FirstPlane(c), CodePoint(c)
    PROVE  \E l, t \in Nat : Lead(l) /\ Trail(t) /\ c = Joined(l, t)
<1> DEFINE a == (c - 65536) \div 1024
           b == (c - 65536) % 1024
<1>1. a \in Nat /\ a < 1024 /\ b \in Nat /\ b < 1024 /\ c = 65536 + a * 1024 + b
    BY SMT DEF FirstPlane, CodePoint
<1> HIDE DEF a, b
<1>2. /\ 55296 + a \in Nat /\ 56320 + b \in Nat /\ Lead(55296 + a) /\ Trail(56320 + b)
      /\ c = Joined(55296 + a, 56320 + b)
    BY <1>1, SMT DEF Lead, Trail, Joined
<1> QED  BY <1>2

\* A character of the first plane is one unit.
LEMMA FirstPlaneUnits ==
    ASSUME NEW c \in Nat, FirstPlane(c)
    PROVE  /\ UnitsOf(c) = <<c>>
           /\ Surrogate(c) <=> Lead(c) \/ Trail(c)
           /\ ~(Lead(c) /\ Trail(c))
           /\ Lead(c) => c # 0
           /\ GoNoncharacter(c) <=> BadUnit(c)
           /\ ~Surrogate(c) => c \in Characters
           /\ Surrogate(c) => ~BadUnit(c)
<1>1. GoNoncharacter(c) <=> BadUnit(c)
    <2>1. CodePoint(c)
        BY SMT DEF FirstPlane, CodePoint
    <2> QED  BY <2>1, Noncharacters, SMT DEF FirstPlane, CodePoint
<1>2. UnitsOf(c) = <<c>>
    BY SMT DEF UnitsOf, FirstPlane
<1>3. /\ Surrogate(c) <=> Lead(c) \/ Trail(c)
      /\ ~(Lead(c) /\ Trail(c))
      /\ Lead(c) => c # 0
    BY SMT DEF Surrogate, Lead, Trail, FirstPlane
<1>4. ~Surrogate(c) => c \in Characters
    <2>1. CodePoint(c)
        BY SMT DEF FirstPlane, CodePoint
    <2> QED  BY <2>1 DEF Characters
<1>5. Surrogate(c) => ~BadUnit(c)
    BY SMT DEF Surrogate, BadUnit
<1> QED  BY <1>1, <1>2, <1>3, <1>4, <1>5

\* The state after a character was appended, in a place where one may stand.
LEMMA AppendedFits ==
    ASSUME NEW st \in LoopStates, NEW u \in Seq(Nat), NEW c \in Characters,
           Partial(u), st.ok, CodeUnits(st.chars) \in Seq(Nat),
           u = CodeUnits(st.chars), st.lead = 0, ~EndsOpen(u),
           \A j \in DOMAIN st.chars : ~GoNoncharacter(st.chars[j])
    PROVE  Fits(Appended(st, c, TRUE), TRUE, u \o UnitsOf(c))
<1> DEFINE n == Appended(st, c, TRUE)
           chars == Append(st.chars, c)
           v == u \o UnitsOf(c)
<1>1. c \in Nat /\ CodePoint(c) /\ ~Surrogate(c) /\ st.chars \in Seq(Characters) /\ st.chars \in Seq(Nat)
    BY DEF Characters, LoopStates
<1>2. chars \in Seq(Characters) /\ \A j \in DOMAIN chars : chars[j] = c \/ \E k \in DOMAIN st.chars : chars[j] = st.chars[k]
    BY <1>1
<1>3. v = CodeUnits(chars) /\ UnitsOf(c) \in Seq(Nat)
    BY <1>1, UnitsAppend
<1>4. Partial(v) <=> ~GoNoncharacter(c)
    <2>1. CASE FirstPlane(c)
        <3>1. UnitsOf(c) = <<c>> /\ ~Lead(c) /\ ~Trail(c) /\ (GoNoncharacter(c) <=> BadUnit(c))
            BY <1>1, <2>1, FirstPlaneUnits
        <3>2. v = Append(u, c)
            BY <1>1, <3>1
        <3>3. Partial(Append(u, c)) <=> Partial(u) /\ Follows(u, c)
            BY <1>1, PartialAppend
        <3> QED  BY <3>1, <3>2, <3>3 DEF Follows
    <2>2. CASE ~FirstPlane(c)
        <3>1. PICK l, t \in Nat : Lead(l) /\ Trail(t) /\ c = Joined(l, t)
            BY <1>1, <2>2, PairIn
        <3>2. UnitsOf(c) = <<l, t>> /\ (GoNoncharacter(c) <=> BadPair(l, t))
            BY <3>1, PairOf
        <3>3. v = Append(Append(u, l), t)
            BY <3>2
        <3>4. ~Trail(l) /\ ~Lead(t) /\ ~BadUnit(l) /\ ~BadUnit(t)
            BY <3>1, HalfUnit
        <3>5. /\ Append(u, l) \in Seq(Nat) /\ EndsOpen(Append(u, l)) /\ Append(u, l)[Len(Append(u, l))] = l
              /\ Partial(Append(u, l)) <=> Partial(u) /\ Follows(u, l)
            BY <3>1, PartialAppend
        <3>6. Partial(Append(u, l))
            BY <3>4, <3>5 DEF Follows
        <3>7. Partial(v) <=> Follows(Append(u, l), t)
            <4> DEFINE w == Append(u, l)
            <4> HIDE DEF w
            <4>1. w \in Seq(Nat) /\ Partial(w)
                BY <3>5, <3>6 DEF w
            <4>2. Partial(Append(w, t)) <=> Partial(w) /\ Follows(w, t)
                BY <4>1, PartialAppend
            <4> QED  BY <3>3, <4>1, <4>2 DEF w
        <3> QED  BY <3>1, <3>2, <3>4, <3>5, <3>7 DEF Follows
    <2> QED  BY <2>1, <2>2
<1>5. ~EndsOpen(v)
    <2>1. CASE FirstPlane(c)
        <3>1. UnitsOf(c) = <<c>> /\ ~Lead(c)
            BY <1>1, <2>1, FirstPlaneUnits
        <3>2. v = Append(u, c)
            BY <1>1, <3>1
        <3> QED  BY <1>1, <3>1, <3>2, PartialAppend
    <2>2. CASE ~FirstPlane(c)
        <3>1. PICK l, t \in Nat : Lead(l) /\ Trail(t) /\ c = Joined(l, t)
            BY <1>1, <2>2, PairIn
        <3>2. UnitsOf(c) = <<l, t>>
            BY <3>1, PairOf
        <3>3. v = Append(Append(u, l), t)
            BY <3>2
        <3>4. ~Lead(t)
            BY <3>1, HalfUnit
        <3>5. Append(u, l) \in Seq(Nat)
            OBVIOUS
        <3> QED  BY <3>3, <3>4, <3>5, PartialAppend
    <2> QED  BY <2>1, <2>2
<1> HIDE DEF v
<1>6. CASE GoNoncharacter(c)
    <2>1. n = [st EXCEPT !.ok = FALSE]
        BY <1>6 DEF Appended
    <2>2. n \in LoopStates /\ n.ok = FALSE
        BY <2>1 DEF LoopStates
    <2> QED  BY <2>2, <1>4, <1>6 DEF Fits, v
<1>7. CASE ~GoNoncharacter(c)
    <2>1. n = [st EXCEPT !.chars = Append(@, c), !.lead = 0]
        BY <1>7 DEF Appended
    <2>2. n \in LoopStates /\ n.ok = TRUE /\ n.chars = chars /\ n.lead = 0
        BY <2>1, <1>2 DEF LoopStates
    <2>3. \A j \in DOMAIN n.chars : ~GoNoncharacter(n.chars[j])
        BY <2>2, <1>2, <1>7
    <2> HIDE DEF n
    <2>4. Fits(n, TRUE, v)
        BY <2>2, <2>3, <1>3, <1>4, <1>5, <1>7 DEF Fits
    <2> QED  BY <2>4 DEF n, v
<1> QED  BY <1>6, <1>7

\* What the assumption says of an element, in these words.
LEMMA ElementFacts ==
    ASSUME NEW e \in Elements
    PROVE  /\ e.k \in {"raw", "esc", "u", "bad"} /\ e.c \in Nat
           /\ e.k = "u" => FirstPlane(e.c) /\ CodePoint(e.c)
           /\ e.k \in {"esc", "raw"} => e.c \in Characters /\ CodePoint(e.c)
           /\ e.k # "bad" => CodePoint(e.c)
<1>1. e.k \in {"raw", "esc", "u", "bad"} /\ e.c \in Nat
    BY ElementAssumption, SMT
<1>2. e.k = "u" => FirstPlane(e.c) /\ CodePoint(e.c)
    BY ElementAssumption, SMT DEF FirstPlane, CodePoint
<1>3. e.k = "raw" => e.c \in Characters
    BY ElementAssumption, SMT DEF Characters, CodePoint
<1>4. e.k = "esc" => e.c \in Nat /\ e.c < 100
    BY ElementAssumption, SMT
<1>5. e.k = "esc" => CodePoint(e.c) /\ ~Surrogate(e.c)
    <2> SUFFICES ASSUME e.c \in Nat, e.c < 100 PROVE CodePoint(e.c) /\ ~Surrogate(e.c)
        BY <1>4
    <2> DEFINE c == e.c
    <2> HIDE DEF c
    <2>1. c \in Nat /\ c < 100
        BY DEF c
    <2>2. CodePoint(c) /\ ~Surrogate(c)
        BY <2>1, SMT DEF CodePoint, Surrogate
    <2> QED  BY <2>2 DEF c
<1>6. e.k = "esc" => e.c \in Characters
    BY <1>4, <1>5 DEF Characters
<1> QED  BY <1>1, <1>2, <1>3, <1>6 DEF Characters

\* A beginning of a beginning is one; a lone half of a pair spoils it.
LEMMA PartialPrefix ==
    ASSUME NEW u \in Seq(Nat), NEW c \in Nat, CodePoint(c), Partial(u \o UnitsOf(c))
    PROVE  /\ Partial(u)
           /\ EndsOpen(u) => FirstPlane(c) /\ Trail(c)
           /\ ~EndsOpen(u) => ~(FirstPlane(c) /\ Trail(c))
<1>1. CASE FirstPlane(c)
    <2>1. UnitsOf(c) = <<c>>
        BY <1>1, FirstPlaneUnits
    <2>2. u \o UnitsOf(c) = Append(u, c)
        BY <2>1
    <2>3. Partial(u) /\ Follows(u, c)
        BY <2>2, PartialAppend
    <2> QED  BY <1>1, <2>3 DEF Follows
<1>2. CASE ~FirstPlane(c)
    <2>1. PICK l, t \in Nat : Lead(l) /\ Trail(t) /\ c = Joined(l, t)
        BY <1>2, PairIn
    <2>2. UnitsOf(c) = <<l, t>>
        BY <2>1, PairOf
    <2> DEFINE w == Append(u, l)
    <2>3. u \o UnitsOf(c) = Append(w, t) /\ w \in Seq(Nat)
        BY <2>2
    <2> HIDE DEF w
    <2>4. Partial(w)
        BY <2>3, PartialAppend
    <2>5. Partial(u) /\ Follows(u, l)
        BY <2>4, PartialAppend DEF w
    <2>6. ~Trail(l)
        BY <2>1, HalfUnit
    <2> QED  BY <1>2, <2>5, <2>6 DEF Follows
<1> QED  BY <1>1, <1>2

\* A reader that has given up fits a text that is not legal or not well formed.
LEMMA FailedFits ==
    ASSUME NEW st \in LoopStates, NEW legal \in BOOLEAN, NEW v, ~(legal /\ Partial(v))
    PROVE  Fits([st EXCEPT !.ok = FALSE], legal, v)
<1> DEFINE n == [st EXCEPT !.ok = FALSE]
<1>1. n \in LoopStates /\ n.ok = FALSE
    BY DEF LoopStates
<1> HIDE DEF n
<1>2. Fits(n, legal, v)
    BY <1>1 DEF Fits
<1> QED  BY <1>2 DEF n

\* One element more, read by Go.
LEMMA StepFits ==
    ASSUME NEW st, NEW u \in Seq(Nat), NEW e \in Elements, NEW legal \in BOOLEAN, Fits(st, legal, u)
    PROVE  Fits(StringStep(st, e, TRUE), legal /\ Legal(e), u \o UnitsOf(e.c))
<1> DEFINE v == u \o UnitsOf(e.c)
           n == StringStep(st, e, TRUE)
           failed == [st EXCEPT !.ok = FALSE]
<1>1. st \in LoopStates /\ (st.ok <=> legal /\ Partial(u)) /\ st.ok \in BOOLEAN
    BY DEF Fits, LoopStates
<1>2. /\ e.k \in {"raw", "esc", "u", "bad"} /\ e.c \in Nat
      /\ e.k = "u" => FirstPlane(e.c) /\ CodePoint(e.c)
      /\ e.k \in {"esc", "raw"} => e.c \in Characters /\ CodePoint(e.c)
      /\ e.k # "bad" => CodePoint(e.c)
    BY ElementFacts
<1>3. e.k # "bad" /\ Partial(v) =>
         /\ Partial(u)
         /\ EndsOpen(u) => FirstPlane(e.c) /\ Trail(e.c)
         /\ ~EndsOpen(u) => ~(FirstPlane(e.c) /\ Trail(e.c))
    BY <1>2, PartialPrefix
<1>4. e.k \in {"esc", "raw"} => ~(FirstPlane(e.c) /\ Trail(e.c))
    <2>1. ASSUME e.k \in {"esc", "raw"}, FirstPlane(e.c), Trail(e.c) PROVE FALSE
        <3>1. Surrogate(e.c)
            BY <1>2, <2>1, FirstPlaneUnits
        <3> QED  BY <1>2, <2>1, <3>1 DEF Characters
    <2> QED  BY <2>1
<1>5. CASE ~st.ok
    <2>1. n = st
        BY <1>5 DEF StringStep
    <2>2. ~(legal /\ Legal(e) /\ Partial(v))
        BY <1>1, <1>3, <1>5 DEF Legal
    <2> HIDE DEF v, n
    <2>3. Fits(n, legal /\ Legal(e), v)
        BY <1>1, <1>5, <2>1, <2>2 DEF Fits
    <2> QED  BY <2>3 DEF n, v
<1>6. CASE st.ok /\ st.lead # 0
    <2>1. /\ legal /\ Partial(u) /\ u = Append(CodeUnits(st.chars), st.lead) /\ EndsOpen(u)
          /\ \A j \in DOMAIN st.chars : ~GoNoncharacter(st.chars[j])
        BY <1>1, <1>6 DEF Fits
    <2>2. st.chars \in Seq(Characters) /\ st.lead \in Nat /\ Lead(st.lead)
        BY <1>1, <1>6 DEF LoopStates
    <2>3. CodeUnits(st.chars) \in Seq(Nat)
        <3>1. st.chars \in Seq(Nat)
            BY <2>2 DEF Characters
        <3> QED  BY <3>1, <1>2, UnitsAppend
    <2>4. CASE e.k = "u" /\ Trail(e.c)
        <3> DEFINE c == Joined(st.lead, e.c)
        <3>1. n = Appended(st, c, TRUE)
            BY <1>6, <2>4 DEF StringStep
        <3>2. /\ c \in Characters /\ UnitsOf(c) = <<st.lead, e.c>>
              /\ GoNoncharacter(c) <=> BadPair(st.lead, e.c)
            BY <1>2, <2>2, <2>4, PairOf
        <3>3. UnitsOf(e.c) = <<e.c>> /\ v = Append(u, e.c)
            <4>1. UnitsOf(e.c) = <<e.c>>
                BY <1>2, <2>4, FirstPlaneUnits
            <4> QED  BY <1>2, <4>1
        <3>4. u[Len(u)] = st.lead
            BY <2>1, <2>2, <2>3, PartialAppend
        <3>5. ~BadUnit(e.c) /\ ~Lead(e.c)
            BY <1>2, <2>4, HalfUnit
        <3>6. (Partial(v) <=> ~GoNoncharacter(c)) /\ ~EndsOpen(v)
            <4>1. /\ Partial(v) <=> Partial(u) /\ Follows(u, e.c)
                  /\ EndsOpen(v) <=> Lead(e.c)
                BY <1>2, <3>3, PartialAppend
            <4> QED  BY <2>1, <2>4, <3>2, <3>4, <3>5, <4>1 DEF Follows
        <3>7. st.chars \in Seq(Nat) /\ c \in Nat
            BY <2>2, <3>2 DEF Characters
        <3>8. v = CodeUnits(Append(st.chars, c))
            <4>1. CodeUnits(Append(st.chars, c)) = CodeUnits(st.chars) \o <<st.lead, e.c>>
                BY <3>2, <3>7, UnitsAppend
            <4> QED  BY <1>2, <2>1, <2>2, <2>3, <3>3, <4>1
        <3> HIDE DEF c, v, n
        <3>9. legal /\ Legal(e)
            BY <2>1, <2>4 DEF Legal
        <3>10. CASE GoNoncharacter(c)
            <4>1. n = failed
                BY <3>1, <3>10 DEF Appended
            <4> QED  BY <1>1, <3>6, <3>10, <4>1, FailedFits DEF n, v
        <3>11. CASE ~GoNoncharacter(c)
            <4> DEFINE chars == Append(st.chars, c)
            <4>1. n = [st EXCEPT !.chars = Append(@, c), !.lead = 0]
                BY <3>1, <3>11 DEF Appended
            <4>2. chars \in Seq(Characters) /\ \A j \in DOMAIN chars : chars[j] = c \/ \E k \in DOMAIN st.chars : chars[j] = st.chars[k]
                BY <2>2, <3>2
            <4>3. n \in LoopStates /\ n.ok = TRUE /\ n.chars = chars /\ n.lead = 0
                BY <1>1, <1>6, <4>1, <4>2 DEF LoopStates
            <4>4. \A j \in DOMAIN n.chars : ~GoNoncharacter(n.chars[j])
                BY <2>1, <3>11, <4>2, <4>3
            <4> HIDE DEF chars
            <4>5. v = CodeUnits(n.chars)
                BY <3>8, <4>3 DEF chars
            <4>6. Fits(n, legal /\ Legal(e), v)
                BY <3>6, <3>9, <3>11, <4>3, <4>4, <4>5 DEF Fits
            <4> QED  BY <4>6 DEF n, v
        <3> QED  BY <3>10, <3>11
    <2>5. CASE ~(e.k = "u" /\ Trail(e.c))
        <3>1. n = failed
            BY <1>2, <1>6, <2>5 DEF StringStep
        <3>2. ~(Legal(e) /\ Partial(v))
            BY <1>2, <1>3, <1>4, <2>1, <2>5 DEF Legal
        <3> QED  BY <1>1, <3>1, <3>2, FailedFits
    <2> QED  BY <2>4, <2>5
<1>7. CASE st.ok /\ st.lead = 0
    <2>1. /\ legal /\ Partial(u) /\ u = CodeUnits(st.chars) /\ ~EndsOpen(u)
          /\ \A j \in DOMAIN st.chars : ~GoNoncharacter(st.chars[j])
        BY <1>1, <1>7 DEF Fits
    <2>2. ASSUME NEW c \in Characters, c = e.c, Legal(e), n = Appended(st, c, TRUE)
          PROVE  Fits(n, legal /\ Legal(e), v)
        <3>1. Fits(Appended(st, c, TRUE), TRUE, u \o UnitsOf(c))
            BY <1>1, <1>7, <2>1, AppendedFits
        <3> HIDE DEF n
        <3> QED  BY <2>1, <2>2, <3>1
    <2>3. CASE e.k = "u" /\ Lead(e.c)
        <3>0. Surrogate(e.c)
            BY <1>2, <2>3, FirstPlaneUnits
        <3>1. n = [st EXCEPT !.lead = e.c]
            BY <1>7, <2>3, <3>0 DEF StringStep
        <3>2. n \in LoopStates /\ n.ok = TRUE /\ n.lead = e.c /\ n.chars = st.chars
            BY <1>1, <1>2, <1>7, <2>3, <3>1 DEF LoopStates
        <3>3. UnitsOf(e.c) = <<e.c>> /\ e.c # 0
            BY <1>2, <2>3, FirstPlaneUnits
        <3>4. v = Append(u, e.c)
            BY <1>2, <3>3
        <3>5. ~Trail(e.c) /\ ~BadUnit(e.c)
            BY <1>2, <2>3, HalfUnit
        <3>6. Partial(v) /\ EndsOpen(v)
            BY <1>2, <2>1, <2>3, <3>4, <3>5, PartialAppend DEF Follows
        <3> HIDE DEF n, v
        <3>7. Fits(n, legal /\ Legal(e), v)
            BY <2>1, <2>3, <3>2, <3>3, <3>4, <3>6 DEF Fits, Legal
        <3> QED  BY <3>7 DEF n, v
    <2>4. CASE e.k = "u" /\ ~Surrogate(e.c)
        <3>1. ~Lead(e.c) /\ e.c \in Characters
            BY <1>2, <2>4, FirstPlaneUnits
        <3>2. n = Appended(st, e.c, TRUE)
            BY <1>7, <2>4, <3>1 DEF StringStep
        <3> QED  BY <2>2, <2>4, <3>1, <3>2 DEF Legal
    <2>5. CASE e.k = "esc" \/ (e.k = "raw" /\ e.c > 31)
        <3>1. n = Appended(st, e.c, TRUE)
            BY <1>7, <2>5 DEF StringStep
        <3> QED  BY <1>2, <2>2, <2>5, <3>1 DEF Legal
    <2>6. CASE e.k = "u" /\ Surrogate(e.c) /\ ~Lead(e.c)
        <3>1. n = failed
            BY <1>7, <2>6 DEF StringStep
        <3>2. Trail(e.c)
            BY <1>2, <2>6, FirstPlaneUnits
        <3>3. ~Partial(v)
            BY <1>2, <1>3, <2>1, <2>6, <3>2
        <3> QED  BY <1>1, <3>1, <3>3, FailedFits
    <2>7. CASE e.k = "bad" \/ (e.k = "raw" /\ ~(e.c > 31))
        <3>1. n = failed
            BY <1>7, <2>7 DEF StringStep
        <3> QED  BY <1>1, <2>7, <3>1, FailedFits DEF Legal
    <2> QED  BY <1>2, <2>3, <2>4, <2>5, <2>6, <2>7
<1> QED  BY <1>1, <1>5, <1>6, <1>7

Codes(s, i) == [j \in 1..i |-> s[j].c]
LegalTo(s, i) == \A j \in 1..i : Legal(s[j])

\* The code points of one element more.
LEMMA CodesAppend ==
    ASSUME NEW s \in Seq(Elements), NEW i \in Nat, i + 1 <= Len(s)
    PROVE  Codes(s, i) \in Seq(Nat) /\ s[i + 1] \in Elements /\ Codes(s, i + 1) = Append(Codes(s, i), s[i + 1].c)
<1> DEFINE n == i + 1
           a == Codes(s, i)
           b == Codes(s, n)
           d == Append(a, s[n].c)
<1>1. /\ n \in Nat /\ n \in 1..n /\ \A j \in 1..n : s[j] \in Elements /\ (j # n => j \in 1..i)
      /\ \A j \in 1..i : j \in 1..n
    OBVIOUS
<1>2. \A j \in 1..n : s[j].c \in Nat
    BY <1>1, ElementFacts
<1>3. a \in Seq(Nat) /\ Len(a) = i /\ \A j \in 1..i : a[j] = s[j].c
    <2>1. \A j \in 1..i : s[j].c \in Nat
        BY <1>1, <1>2
    <2> HIDE DEF n, b, d
    <2>2. a = [j \in 1..i |-> s[j].c]
        BY DEF Codes
    <2> HIDE DEF a
    <2> QED  BY <2>1, <2>2
<1>4. b \in Seq(Nat) /\ Len(b) = n /\ \A j \in 1..n : b[j] = s[j].c
    <2> HIDE DEF n
    <2> QED  BY <1>1, <1>2 DEF Codes
<1>5. s[n].c \in Nat
    BY <1>1, <1>2
<1>6. d \in Seq(Nat) /\ Len(d) = n /\ d[n] = s[n].c /\ \A j \in 1..i : d[j] = a[j]
    <2> HIDE DEF a
    <2> QED  BY <1>3, <1>5, AppendAt
<1> HIDE DEF a, b, d, n
<1>7. \A j \in 1..n : b[j] = d[j]
    BY <1>1, <1>3, <1>4, <1>6
<1>8. b = d
    BY <1>4, <1>6, <1>7, SameElements
<1> QED  BY <1>1, <1>3, <1>8 DEF a, b, d, n

\* Of no element there are none.
LEMMA CodesStart == CodeUnits(Codes(<<>>, 0)) = <<>> /\ \A s : Codes(s, 0) = <<>>
<1>1. \A s : Codes(s, 0) = <<>>
    BY DEF Codes
<1>2. CodeUnits(<<>>) = <<>>
    <2>1. [i \in DOMAIN <<>> |-> UnitsOf(<<>>[i])] = <<>>
        OBVIOUS
    <2> QED  BY <2>1, FlattenNone DEF CodeUnits
<1> QED  BY <1>1, <1>2

\* The reader starts with nothing read.
LEMMA StartFits == Fits(StringStart, TRUE, <<>>) /\ StringStart \in LoopStates
<1>1. StringStart \in LoopStates
    BY DEF StringStart, LoopStates
<1>2. CodeUnits(<<>>) = <<>>
    BY CodesStart
<1>3. Partial(<<>>) /\ ~EndsOpen(<<>>)
    BY DEF Partial, EndsOpen
<1> QED  BY <1>1, <1>2, <1>3 DEF Fits, StringStart

\* After any number of elements the reader of Go has read exactly their units,
\* if they are legal and well formed so far, and has given up otherwise.
LEMMA GoReads ==
    ASSUME NEW s \in Seq(Elements), NEW i \in 0..Len(s)
    PROVE  /\ Fits(StringLoop(s, TRUE)[i], LegalTo(s, i), CodeUnits(Codes(s, i)))
           /\ CodeUnits(Codes(s, i)) \in Seq(Nat)
<1> DEFINE f == StringLoop(s, TRUE)
           S == {n \in Nat : n <= Len(s) => Fits(f[n], LegalTo(s, n), CodeUnits(Codes(s, n))) /\ CodeUnits(Codes(s, n)) \in Seq(Nat)}
<1>0. Len(s) \in Nat
    OBVIOUS
<1>1. 0 \in S
    <2>1. f[0] = StringStart
        BY LoopStep
    <2>2. CodeUnits(Codes(s, 0)) = <<>>
        BY CodesStart
    <2>3. LegalTo(s, 0) = TRUE
        BY DEF LegalTo
    <2>4. Fits(f[0], LegalTo(s, 0), CodeUnits(Codes(s, 0)))
        BY <2>1, <2>2, <2>3, StartFits
    <2>5. <<>> \in Seq(Nat)
        OBVIOUS
    <2> QED  BY <2>2, <2>4, <2>5
<1>2. ASSUME NEW n \in S PROVE n + 1 \in S
    <2>0. n \in Nat
        OBVIOUS
    <2>1. ASSUME n + 1 <= Len(s)
          PROVE  Fits(f[n + 1], LegalTo(s, n + 1), CodeUnits(Codes(s, n + 1))) /\ CodeUnits(Codes(s, n + 1)) \in Seq(Nat)
        <3>1. n <= Len(s) /\ n \in 0..(Len(s) - 1)
            BY <1>0, <2>0, <2>1
        <3>2. Fits(f[n], LegalTo(s, n), CodeUnits(Codes(s, n))) /\ CodeUnits(Codes(s, n)) \in Seq(Nat)
            BY <3>1
        <3>3. f[n + 1] = StringStep(f[n], s[n + 1], TRUE)
            BY <3>1, LoopStep
        <3>4. Codes(s, n) \in Seq(Nat) /\ s[n + 1] \in Elements /\ Codes(s, n + 1) = Append(Codes(s, n), s[n + 1].c)
            BY <2>0, <2>1, CodesAppend
        <3>5. s[n + 1].c \in Nat
            BY <3>4, ElementFacts
        <3>6. CodeUnits(Codes(s, n + 1)) = CodeUnits(Codes(s, n)) \o UnitsOf(s[n + 1].c) /\ UnitsOf(s[n + 1].c) \in Seq(Nat)
            BY <3>4, <3>5, UnitsAppend
        <3>7. LegalTo(s, n + 1) = (LegalTo(s, n) /\ Legal(s[n + 1]))
            <4>1. n + 1 \in 1..(n + 1) /\ (\A j \in 1..n : j \in 1..(n + 1)) /\ \A j \in 1..(n + 1) : j \in 1..n \/ j = n + 1
                BY <2>0
            <4>2. LegalTo(s, n + 1) <=> LegalTo(s, n) /\ Legal(s[n + 1])
                BY <4>1 DEF LegalTo
            <4> QED  BY <4>2 DEF LegalTo
        <3> DEFINE l == LegalTo(s, n)
                   u == CodeUnits(Codes(s, n))
                   e == s[n + 1]
        <3>8. l \in BOOLEAN
            BY DEF LegalTo
        <3> HIDE DEF l, f, u, e
        <3>9. Fits(StringStep(f[n], e, TRUE), l /\ Legal(e), u \o UnitsOf(e.c))
            BY <3>2, <3>4, <3>8, StepFits DEF l, u, e
        <3>10. u \o UnitsOf(e.c) \in Seq(Nat)
            BY <3>2, <3>6 DEF u, e
        <3>11. Fits(f[n + 1], LegalTo(s, n + 1), CodeUnits(Codes(s, n + 1)))
            BY <3>3, <3>6, <3>7, <3>9 DEF l, u, e
        <3>12. CodeUnits(Codes(s, n + 1)) \in Seq(Nat)
            BY <3>6, <3>10 DEF u, e
        <3> QED  BY <3>11, <3>12
    <2> DEFINE k == n + 1
    <2>2. k \in Nat
        BY <2>0
    <2>3. k <= Len(s) => Fits(f[k], LegalTo(s, k), CodeUnits(Codes(s, k))) /\ CodeUnits(Codes(s, k)) \in Seq(Nat)
        BY <2>1
    <2> HIDE DEF k, f
    <2>4. k \in S
        BY <2>2, <2>3
    <2> QED  BY <2>4 DEF k
<1>3. S \in SUBSET Nat
    OBVIOUS
<1>4. i \in Nat /\ i <= Len(s)
    BY <1>0
<1>5. i \in S
    <2> HIDE DEF S
    <2> QED  BY <1>1, <1>2, <1>3, <1>4, NaturalsOf
<1> HIDE DEF f
<1> QED  BY <1>4, <1>5 DEF f

-----------------------------------------------------------------------------
\* A round, whichever program runs it.
Rounds(st, e, c) == \A each \in BOOLEAN : StringStep(st, e, each) = Appended(st, c, each)

\* A round gives up, keeps the first half of a pair or appends a character.
LEMMA StepShape ==
    ASSUME NEW st \in LoopStates, NEW e \in Elements, st.ok
    PROVE  \/ \A each \in BOOLEAN : StringStep(st, e, each) = [st EXCEPT !.ok = FALSE]
           \/ /\ e.k # "raw" /\ Lead(e.c) /\ e.c \in Nat
              /\ \A each \in BOOLEAN : StringStep(st, e, each) = [st EXCEPT !.lead = e.c]
           \/ \E c \in Characters : Rounds(st, e, c) /\ (e.k = "raw" => c = e.c)
<1>1. /\ e.k \in {"raw", "esc", "u", "bad"} /\ e.c \in Nat
      /\ e.k = "u" => FirstPlane(e.c)
      /\ e.k \in {"esc", "raw"} => e.c \in Characters
    BY ElementFacts
<1>2. CASE st.lead # 0 /\ e.k = "u" /\ Trail(e.c)
    <2> DEFINE c == Joined(st.lead, e.c)
    <2>1. c \in Characters
        <3>1. st.lead \in Nat /\ Lead(st.lead)
            BY <1>2 DEF LoopStates
        <3> QED  BY <1>1, <1>2, <3>1, PairOf
    <2>2. Rounds(st, e, c)
        BY <1>2 DEF StringStep, Rounds
    <2> QED  BY <1>2, <2>1, <2>2
<1>3. CASE st.lead = 0 /\ e.k = "u" /\ Lead(e.c)
    <2>1. Surrogate(e.c)
        BY <1>1, <1>3, FirstPlaneUnits
    <2>2. \A each \in BOOLEAN : StringStep(st, e, each) = [st EXCEPT !.lead = e.c]
        BY <1>3, <2>1 DEF StringStep
    <2> QED  BY <1>1, <1>3, <2>2
<1>4. CASE st.lead = 0 /\ e.k = "u" /\ ~Surrogate(e.c)
    <2>1. ~Lead(e.c) /\ e.c \in Characters
        BY <1>1, <1>4, FirstPlaneUnits
    <2>2. Rounds(st, e, e.c)
        BY <1>4, <2>1 DEF StringStep, Rounds
    <2> QED  BY <2>1, <2>2
<1>5. CASE st.lead = 0 /\ (e.k = "esc" \/ (e.k = "raw" /\ e.c > 31))
    <2>1. Rounds(st, e, e.c)
        BY <1>5 DEF StringStep, Rounds
    <2> QED  BY <1>1, <1>5, <2>1
<1>6. CASE /\ ~(st.lead # 0 /\ e.k = "u" /\ Trail(e.c)) /\ ~(st.lead = 0 /\ e.k = "u" /\ Lead(e.c))
           /\ ~(st.lead = 0 /\ e.k = "u" /\ ~Surrogate(e.c))
           /\ ~(st.lead = 0 /\ (e.k = "esc" \/ (e.k = "raw" /\ e.c > 31)))
    <2>1. \A each \in BOOLEAN : StringStep(st, e, each) = [st EXCEPT !.ok = FALSE]
        BY <1>6 DEF StringStep
    <2> QED  BY <2>1
<1> QED  BY <1>2, <1>3, <1>4, <1>5, <1>6

NoNoncharacter(cs) == \A j \in DOMAIN cs : ~GoNoncharacter(cs[j])

SameRead(p, g) ==
    /\ p \in LoopStates /\ g \in LoopStates
    /\ g.ok <=> p.ok /\ NoNoncharacter(p.chars)
    /\ g.ok => g = p

\* Every character of a raw element stands in the string.
Keeps(p, s, i) == p.ok => \A j \in 1..i : s[j].k = "raw" => \E x \in DOMAIN p.chars : p.chars[x] = s[j].c

\* p and g are the states of the two programs once c was appended.
Both(st, c, p, g) ==
    /\ p \in LoopStates /\ p.ok = TRUE /\ p.chars = Append(st.chars, c) /\ g \in LoopStates
    /\ GoNoncharacter(c) => g.ok = FALSE
    /\ ~GoNoncharacter(c) => g = p
    /\ NoNoncharacter(p.chars) <=> NoNoncharacter(st.chars) /\ ~GoNoncharacter(c)
    /\ \A x \in DOMAIN st.chars : x \in DOMAIN p.chars /\ p.chars[x] = st.chars[x]
    /\ \E x \in DOMAIN p.chars : p.chars[x] = c

\* Both programs append a character; Go gives up if it is a noncharacter.
LEMMA AppendedBy ==
    ASSUME NEW st \in LoopStates, NEW c \in Characters, st.ok
    PROVE  Both(st, c, Appended(st, c, FALSE), Appended(st, c, TRUE))
<1> DEFINE p == Appended(st, c, FALSE)
           g == Appended(st, c, TRUE)
           n == Len(st.chars)
           d == Append(st.chars, c)
<1>1. st.chars \in Seq(Characters) /\ st.ok = TRUE
    BY DEF LoopStates
<1>2. /\ n \in Nat /\ DOMAIN st.chars = 1..n /\ DOMAIN d = 1..(n + 1) /\ d[n + 1] = c
      /\ \A x \in 1..n : d[x] = st.chars[x]
      /\ d \in Seq(Characters)
    BY <1>1, AppendAt
<1>3. p = [st EXCEPT !.chars = Append(@, c), !.lead = 0]
    BY DEF Appended
<1>4. p \in LoopStates /\ p.ok = TRUE /\ p.chars = d
    BY <1>1, <1>2, <1>3 DEF LoopStates
<1>5. GoNoncharacter(c) => g = [st EXCEPT !.ok = FALSE]
    BY DEF Appended
<1>6. GoNoncharacter(c) => g \in LoopStates /\ g.ok = FALSE
    BY <1>5 DEF LoopStates
<1>7. ~GoNoncharacter(c) => g = p
    BY DEF Appended
<1> HIDE DEF d, n, p, g
<1>8. NoNoncharacter(d) <=> NoNoncharacter(st.chars) /\ ~GoNoncharacter(c)
    <2>1. \A x \in 1..(n + 1) : x \in 1..n \/ x = n + 1
        BY <1>2
    <2>2. n + 1 \in 1..(n + 1) /\ \A x \in 1..n : x \in 1..(n + 1)
        BY <1>2
    <2> QED  BY <1>2, <2>1, <2>2 DEF NoNoncharacter
<1>9. /\ \A x \in DOMAIN st.chars : x \in DOMAIN d /\ d[x] = st.chars[x]
      /\ \E x \in DOMAIN d : d[x] = c
    <2>1. n + 1 \in 1..(n + 1) /\ \A x \in 1..n : x \in 1..(n + 1)
        BY <1>2
    <2> QED  BY <1>2, <2>1
<1>10. Both(st, c, p, g)
    BY <1>4, <1>6, <1>7, <1>8, <1>9 DEF d, Both
<1> QED  BY <1>10 DEF p, g

\* The string of p begins that of q, which has the character of e if it is
\* a raw one.
Grown(p, q, e) ==
    q.ok => /\ p.ok
            /\ \A x \in DOMAIN p.chars : x \in DOMAIN q.chars /\ q.chars[x] = p.chars[x]
            /\ e.k = "raw" => \E x \in DOMAIN q.chars : q.chars[x] = e.c

\* A round keeps the two readers together.
LEMMA RoundAgrees ==
    ASSUME NEW p, NEW g, NEW e \in Elements, SameRead(p, g)
    PROVE  SameRead(StringStep(p, e, FALSE), StringStep(g, e, TRUE)) /\ Grown(p, StringStep(p, e, FALSE), e)
<1> DEFINE q == StringStep(p, e, FALSE)
           h == StringStep(g, e, TRUE)
           pf == [p EXCEPT !.ok = FALSE]
<1>0. p \in LoopStates /\ g \in LoopStates /\ (g.ok <=> p.ok /\ NoNoncharacter(p.chars)) /\ (g.ok => g = p)
    BY DEF SameRead
<1>1. CASE ~p.ok
    <2>1. q = p /\ ~g.ok /\ h = g
        BY <1>0, <1>1 DEF StringStep
    <2> HIDE DEF q, h
    <2>2. SameRead(q, h) /\ Grown(p, q, e)
        BY <1>0, <1>1, <2>1 DEF SameRead, Grown
    <2> QED  BY <2>2 DEF q, h
<1>2. CASE p.ok
    <2>1. ~g.ok => h = g
        BY DEF StringStep
    <2>2. CASE \A each \in BOOLEAN : StringStep(p, e, each) = pf
        <3>1. q = pf /\ (g.ok => h = pf)
            BY <1>0, <2>2
        <3>2. pf \in LoopStates /\ pf.ok = FALSE
            BY <1>0 DEF LoopStates
        <3> HIDE DEF q, h, pf
        <3>3. h \in LoopStates /\ ~h.ok
            BY <1>0, <2>1, <3>1, <3>2
        <3>4. SameRead(q, h) /\ Grown(p, q, e)
            BY <3>1, <3>2, <3>3 DEF SameRead, Grown
        <3> QED  BY <3>4 DEF q, h
    <2>3. CASE /\ e.k # "raw" /\ Lead(e.c) /\ e.c \in Nat
               /\ \A each \in BOOLEAN : StringStep(p, e, each) = [p EXCEPT !.lead = e.c]
        <3> DEFINE r == [p EXCEPT !.lead = e.c]
        <3>1. q = r /\ (g.ok => h = r)
            BY <1>0, <2>3
        <3>2. r \in LoopStates /\ r.ok = p.ok /\ r.chars = p.chars
            BY <1>0, <2>3 DEF LoopStates
        <3> HIDE DEF q, h, r
        <3>3. h \in LoopStates /\ (h.ok <=> g.ok) /\ (h.ok => h = q)
            BY <1>0, <1>2, <2>1, <3>1, <3>2
        <3>4. SameRead(q, h) /\ Grown(p, q, e)
            BY <1>0, <1>2, <2>3, <3>1, <3>2, <3>3 DEF SameRead, Grown
        <3> QED  BY <3>4 DEF q, h
    <2>4. CASE \E c \in Characters : Rounds(p, e, c) /\ (e.k = "raw" => c = e.c)
        <3>1. PICK c \in Characters : Rounds(p, e, c) /\ (e.k = "raw" => c = e.c)
            BY <2>4
        <3> DEFINE a == Appended(p, c, FALSE)
                   b == Appended(p, c, TRUE)
        <3>2. q = a /\ (g.ok => h = b)
            BY <1>0, <3>1 DEF Rounds
        <3>3. Both(p, c, a, b)
            BY <1>0, <1>2, AppendedBy
        <3> HIDE DEF q, h, a, b
        <3>4. h \in LoopStates /\ (h.ok <=> g.ok /\ ~GoNoncharacter(c)) /\ (h.ok => h = q)
            <4>1. CASE g.ok
                BY <1>0, <3>2, <3>3, <4>1 DEF Both
            <4>2. CASE ~g.ok
                BY <1>0, <2>1, <4>2
            <4> QED  BY <4>1, <4>2
        <3>5. SameRead(q, h)
            BY <1>0, <1>2, <3>2, <3>3, <3>4 DEF SameRead, Both
        <3>6. Grown(p, q, e)
            BY <1>2, <3>1, <3>2, <3>3 DEF Both, Grown
        <3> QED  BY <3>5, <3>6 DEF q, h
    <2> QED  BY <1>0, <1>2, <2>2, <2>3, <2>4, StepShape
<1>3. p.ok \in BOOLEAN
    BY <1>0 DEF LoopStates
<1> QED  BY <1>1, <1>2

\* So does the loop.
LEMMA LoopsAgree ==
    ASSUME NEW s \in Seq(Elements), NEW i \in 0..Len(s)
    PROVE  /\ SameRead(StringLoop(s, FALSE)[i], StringLoop(s, TRUE)[i])
           /\ Keeps(StringLoop(s, FALSE)[i], s, i)
<1> DEFINE f == StringLoop(s, FALSE)
           g == StringLoop(s, TRUE)
           S == {n \in Nat : n <= Len(s) => SameRead(f[n], g[n]) /\ Keeps(f[n], s, n)}
<1>0. Len(s) \in Nat
    OBVIOUS
<1>1. 0 \in S
    <2>1. f[0] = StringStart /\ g[0] = StringStart
        BY LoopStep
    <2> HIDE DEF f, g
    <2>2. StringStart.ok = TRUE /\ StringStart.chars = <<>>
        BY DEF StringStart
    <2>3. SameRead(f[0], g[0])
        BY <2>1, <2>2, StartFits DEF SameRead, NoNoncharacter
    <2>4. Keeps(f[0], s, 0)
        BY DEF Keeps
    <2> QED  BY <2>3, <2>4
<1>2. ASSUME NEW n \in S PROVE n + 1 \in S
    <2>0. n \in Nat
        OBVIOUS
    <2>1. ASSUME n + 1 <= Len(s) PROVE SameRead(f[n + 1], g[n + 1]) /\ Keeps(f[n + 1], s, n + 1)
        <3>1. n <= Len(s) /\ n \in 0..(Len(s) - 1)
            BY <1>0, <2>0, <2>1
        <3>2. SameRead(f[n], g[n]) /\ Keeps(f[n], s, n)
            BY <3>1
        <3> DEFINE e == s[n + 1]
                   p == f[n]
                   q == f[n + 1]
        <3>3. q = StringStep(p, e, FALSE) /\ g[n + 1] = StringStep(g[n], e, TRUE)
            BY <3>1, LoopStep
        <3>4. e \in Elements
            BY <2>0, <2>1
        <3> HIDE DEF f, g, e
        <3>5. SameRead(q, g[n + 1]) /\ Grown(p, q, e)
            BY <3>2, <3>3, <3>4, RoundAgrees
        <3> HIDE DEF p, q
        <3>6. ASSUME q.ok, NEW j \in 1..(n + 1), s[j].k = "raw"
              PROVE  \E x \in DOMAIN q.chars : q.chars[x] = s[j].c
            <4>1. CASE j = n + 1
                BY <3>5, <3>6, <4>1 DEF e, Grown
            <4>2. CASE j # n + 1
                <5>1. j \in 1..n
                    BY <2>0, <4>2
                <5>2. PICK x \in DOMAIN p.chars : p.chars[x] = s[j].c
                    BY <3>2, <3>5, <3>6, <5>1 DEF Keeps, Grown, p
                <5> QED  BY <3>5, <3>6, <5>2 DEF Grown
            <4> QED  BY <4>1, <4>2
        <3>7. Keeps(q, s, n + 1)
            BY <3>6 DEF Keeps
        <3> QED  BY <3>5, <3>7 DEF q
    <2> DEFINE k == n + 1
    <2>2. k \in Nat
        BY <2>0
    <2>3. k <= Len(s) => SameRead(f[k], g[k]) /\ Keeps(f[k], s, k)
        BY <2>1
    <2> HIDE DEF k, f, g
    <2>4. k \in S
        BY <2>2, <2>3
    <2> QED  BY <2>4 DEF k
<1>3. S \in SUBSET Nat
    OBVIOUS
<1>4. i \in Nat /\ i <= Len(s)
    BY <1>0
<1>5. i \in S
    <2> HIDE DEF S
    <2> QED  BY <1>1, <1>2, <1>3, <1>4, NaturalsOf
<1> HIDE DEF f, g
<1> QED  BY <1>4, <1>5 DEF f, g

\* A clean string of characters has nothing Python would refuse.
LEMMA CleanChars ==
    ASSUME NEW cs \in Seq(Characters)
    PROVE  /\ \A x \in DOMAIN cs : ~Surrogate(cs[x]) /\ (PyNoncharacter(cs[x]) <=> GoNoncharacter(cs[x]))
           /\ NoNoncharacter(cs) <=> \A x \in DOMAIN cs : ~(Surrogate(cs[x]) \/ PyNoncharacter(cs[x]))
<1>1. ASSUME NEW c \in Characters PROVE ~Surrogate(c) /\ (PyNoncharacter(c) <=> GoNoncharacter(c))
    <2>1. c \in Nat /\ CodePoint(c) /\ ~Surrogate(c)
        BY DEF Characters
    <2>2. c < 1114112
        BY <2>1, SMT DEF CodePoint
    <2> QED  BY <2>1, <2>2, Noncharacters
<1>2. \A x \in DOMAIN cs : cs[x] \in Characters
    OBVIOUS
<1> QED  BY <1>1, <1>2 DEF NoNoncharacter

\* The two readers of strings are the same, although the one looks at the raw
\* characters before and at the string after the loop, the other in each round.
LEMMA PythonIsGo ==
    ASSUME NEW s \in Seq(Elements)
    PROVE  PyString(s) = GoString(s)
<1> DEFINE p == StringLoop(s, FALSE)[Len(s)]
           g == StringLoop(s, TRUE)[Len(s)]
           end == StringEnd(p)
           raw == \E i \in DOMAIN s : s[i].k = "raw" /\ PyNoncharacter(s[i].c)
           odd == \E i \in DOMAIN end.value : Surrogate(end.value[i]) \/ PyNoncharacter(end.value[i])
<1>1. Len(s) \in Nat /\ Len(s) \in 0..Len(s) /\ DOMAIN s = 1..Len(s)
    OBVIOUS
<1>2. SameRead(p, g) /\ Keeps(p, s, Len(s))
    BY <1>1, LoopsAgree
<1>3. PyString(s) = IF raw \/ ~end.ok \/ odd THEN Refused ELSE end
    BY DEF PyString
<1>4. GoString(s) = StringEnd(g)
    BY DEF GoString
<1> HIDE DEF p, g
<1>5. /\ p \in LoopStates /\ g \in LoopStates /\ (g.ok <=> p.ok /\ NoNoncharacter(p.chars)) /\ (g.ok => g = p)
    BY <1>2 DEF SameRead
<1>6. p.chars \in Seq(Characters)
    BY <1>5 DEF LoopStates
<1>7. p.ok /\ raw => ~NoNoncharacter(p.chars)
    <2> SUFFICES ASSUME p.ok, raw PROVE ~NoNoncharacter(p.chars)
        OBVIOUS
    <2>1. PICK i \in 1..Len(s) : s[i].k = "raw" /\ PyNoncharacter(s[i].c)
        BY <1>1
    <2>2. PICK x \in DOMAIN p.chars : p.chars[x] = s[i].c
        BY <1>2, <2>1 DEF Keeps
    <2>3. GoNoncharacter(p.chars[x])
        BY <1>6, <2>1, <2>2, CleanChars
    <2> QED  BY <2>2, <2>3 DEF NoNoncharacter
<1>8. CASE p.ok /\ p.lead = 0
    <2>1. end = [ok |-> TRUE, value |-> p.chars]
        BY <1>8 DEF StringEnd
    <2>2. odd <=> ~NoNoncharacter(p.chars)
        BY <1>6, <2>1, CleanChars
    <2>3. end.ok = TRUE
        BY <2>1
    <2> HIDE DEF end, raw, odd
    <2>4. CASE NoNoncharacter(p.chars)
        <3>1. g = p
            BY <1>5, <1>8, <2>4
        <3> QED  BY <1>3, <1>4, <1>7, <1>8, <2>2, <2>3, <2>4, <3>1 DEF end
    <2>5. CASE ~NoNoncharacter(p.chars)
        <3>1. ~g.ok
            BY <1>5, <2>5
        <3>2. StringEnd(g) = Refused
            BY <3>1 DEF StringEnd
        <3> QED  BY <1>3, <1>4, <2>2, <2>5, <3>2
    <2> QED  BY <2>4, <2>5
<1>9. CASE ~(p.ok /\ p.lead = 0)
    <2>1. end = Refused /\ Refused.ok = FALSE
        BY <1>9 DEF StringEnd, Refused
    <2>2. ~(g.ok /\ g.lead = 0)
        BY <1>5, <1>9
    <2>3. StringEnd(g) = Refused
        BY <2>2 DEF StringEnd
    <2> HIDE DEF end, raw, odd
    <2> QED  BY <1>3, <1>4, <2>1, <2>3
<1> QED  BY <1>8, <1>9

-----------------------------------------------------------------------------
\* The canonical spelling.

\* An element of the canonical spelling is read as the character it spells.
LEMMA EscapedStep ==
    ASSUME NEW v \in Seq(Characters), NEW i \in DOMAIN v, NEW cs
    PROVE  StringStep([ok |-> TRUE, chars |-> cs, lead |-> 0], Escape(v)[i], FALSE)
             = [ok |-> TRUE, chars |-> Append(cs, v[i]), lead |-> 0]
<1> DEFINE st == [ok |-> TRUE, chars |-> cs, lead |-> 0]
           c == v[i]
           e == Escape(v)[i]
<1>1. c \in Nat /\ ~Surrogate(c)
    BY DEF Characters
<1>2. e = [k |-> IF c \in Short THEN "esc" ELSE IF c < 32 THEN "u" ELSE "raw", c |-> c]
    BY DEF Escape
<1> HIDE DEF c, e
<1>3. /\ e.c = c /\ e.k \in {"esc", "u", "raw"}
      /\ e.k = "raw" => c > 31
      /\ e.k = "u" => c < 32
    BY <1>1, <1>2
<1>4. e.k = "u" => ~Lead(c)
    BY <1>1, <1>3, SMT DEF Lead
<1>5. st.ok = TRUE /\ st.lead = 0
    OBVIOUS
<1>6. Appended(st, c, FALSE) = [ok |-> TRUE, chars |-> Append(cs, c), lead |-> 0]
    BY DEF Appended
<1> HIDE DEF st
<1>7. StringStep(st, e, FALSE) = Appended(st, c, FALSE)
    BY <1>1, <1>3, <1>4, <1>5 DEF StringStep
<1> QED  BY <1>6, <1>7 DEF st, c, e

\* The canonical spelling of a string without noncharacters reads back.
LEMMA EscapeReads ==
    ASSUME NEW v \in Seq(Characters), NoNoncharacter(v)
    PROVE  PyString(Escape(v)) = [ok |-> TRUE, value |-> v]
<1> DEFINE w == Escape(v)
           n == Len(v)
           T == [k : {"esc", "u", "raw"}, c : Nat]
           f == StringLoop(w, FALSE)
           Reads(i) == [ok |-> TRUE, chars |-> SubSeq(v, 1, i), lead |-> 0]
           S == {i \in Nat : i <= n => f[i] = Reads(i)}
<1>1. n \in Nat /\ DOMAIN v = 1..n /\ v \in Seq(Nat) /\ \A i \in 1..n : v[i] \in Nat
    BY DEF Characters
<1>2. w \in Seq(T) /\ Len(w) = n /\ DOMAIN w = 1..n /\ \A i \in 1..n : w[i].c = v[i]
    <2>1. w = [i \in 1..n |-> [k |-> IF v[i] \in Short THEN "esc" ELSE IF v[i] < 32 THEN "u" ELSE "raw", c |-> v[i]]]
        BY <1>1 DEF Escape
    <2> HIDE DEF w, n
    <2>2. \A i \in 1..n : w[i] \in T /\ w[i].c = v[i]
        BY <1>1, <2>1
    <2> HIDE DEF T
    <2> QED  BY <1>1, <2>1, <2>2
<1> HIDE DEF T
<1>3. f[0] = StringStart /\ \A i \in 0..(n - 1) : f[i + 1] = StringStep(f[i], w[i + 1], FALSE)
    BY <1>2, LoopStep
<1> HIDE DEF f, n
<1>4. 0 \in S
    <2>1. SubSeq(v, 1, 0) = <<>>
        OBVIOUS
    <2> QED  BY <1>3, <2>1 DEF StringStart
<1>5. ASSUME NEW i \in S PROVE i + 1 \in S
    <2>0. i \in Nat /\ i + 1 \in Nat
        OBVIOUS
    <2>1. ASSUME i + 1 <= n PROVE f[i + 1] = Reads(i + 1)
        <3>1. i <= n /\ i \in 0..(n - 1) /\ i + 1 \in DOMAIN v
            BY <1>1, <2>0, <2>1
        <3>2. f[i] = Reads(i)
            BY <3>1
        <3>3. f[i + 1] = [ok |-> TRUE, chars |-> Append(SubSeq(v, 1, i), v[i + 1]), lead |-> 0]
            BY <1>3, <3>1, <3>2, EscapedStep
        <3>4. Append(SubSeq(v, 1, i), v[i + 1]) = SubSeq(v, 1, i + 1)
            BY <1>1, <3>1 DEF n
        <3> QED  BY <3>3, <3>4
    <2> DEFINE k == i + 1
    <2>2. k \in Nat
        BY <2>0
    <2>3. k <= n => f[k] = Reads(k)
        BY <2>1
    <2> HIDE DEF k
    <2>4. k \in S
        BY <2>2, <2>3
    <2> QED  BY <2>4 DEF k
<1>6. S \in SUBSET Nat
    OBVIOUS
<1>7. n \in S
    <2> HIDE DEF S
    <2> QED  BY <1>1, <1>4, <1>5, <1>6, NaturalsOf
<1>8. SubSeq(v, 1, n) = v
    BY <1>1 DEF n
<1>9. f[n] = [ok |-> TRUE, chars |-> v, lead |-> 0]
    <2>1. n <= n
        BY <1>1
    <2>2. f[n] = Reads(n)
        BY <1>7, <2>1
    <2> QED  BY <1>8, <2>2
<1>10. StringEnd(f[n]) = [ok |-> TRUE, value |-> v]
    BY <1>9 DEF StringEnd
<1>11. \A i \in 1..n : ~Surrogate(v[i]) /\ ~PyNoncharacter(v[i])
    BY <1>1, CleanChars
<1> HIDE DEF w
<1>12. \A i \in DOMAIN w : ~PyNoncharacter(w[i].c)
    BY <1>2, <1>11
<1> DEFINE end == StringEnd(StringLoop(w, FALSE)[Len(w)])
<1>13. end = [ok |-> TRUE, value |-> v]
    BY <1>2, <1>10 DEF f
<1>15. PyString(w) = IF \/ \E i \in DOMAIN w : w[i].k = "raw" /\ PyNoncharacter(w[i].c)
                        \/ ~end.ok
                        \/ \E i \in DOMAIN end.value : Surrogate(end.value[i]) \/ PyNoncharacter(end.value[i])
                     THEN Refused ELSE end
    BY DEF PyString
<1> HIDE DEF end
<1>14. end.ok /\ \A i \in DOMAIN end.value : ~(Surrogate(end.value[i]) \/ PyNoncharacter(end.value[i]))
    <2>1. end.ok = TRUE /\ end.value = v
        BY <1>13
    <2> QED  BY <1>1, <1>11, <2>1
<1>16. PyString(w) = end
    BY <1>12, <1>14, <1>15
<1> QED  BY <1>13, <1>16 DEF w

\* A string literal is made of elements.
SpelledElements == mode = "string" => text \in Seq(Elements)

\* The readers, on any literal.
LEMMA StringsExact ==
    ASSUME NEW s \in Seq(Elements)
    PROVE  LET legal == \A i \in DOMAIN s : s[i].k # "bad" /\ (s[i].k = "raw" => s[i].c > 31)
               utf16 == CodeUnits([i \in DOMAIN s |-> s[i].c])
               read  == GoString(s)
           IN  /\ PyString(s) = read
               /\ read.ok <=> legal /\ IsText(utf16)
               /\ read.ok => CodeUnits(read.value) = utf16 /\ PyString(Escape(read.value)) = read
<1> DEFINE n == Len(s)
           legal == \A i \in DOMAIN s : s[i].k # "bad" /\ (s[i].k = "raw" => s[i].c > 31)
           utf16 == CodeUnits([i \in DOMAIN s |-> s[i].c])
           read == GoString(s)
           g == StringLoop(s, TRUE)[n]
<1>1. n \in Nat /\ n \in 0..Len(s) /\ DOMAIN s = 1..n
    OBVIOUS
<1>2. (legal <=> LegalTo(s, n)) /\ utf16 = CodeUnits(Codes(s, n))
    BY <1>1 DEF LegalTo, Legal, Codes
<1>3. Fits(g, LegalTo(s, n), CodeUnits(Codes(s, n))) /\ CodeUnits(Codes(s, n)) \in Seq(Nat)
    BY <1>1, GoReads
<1>4. PyString(s) = read
    BY PythonIsGo
<1>5. read = StringEnd(g)
    BY DEF GoString
<1> HIDE DEF legal, utf16, read, g, n
<1>6. utf16 \in Seq(Nat) /\ (IsText(utf16) <=> Partial(utf16) /\ ~EndsOpen(utf16))
    BY <1>2, <1>3, TextIsPartial
<1>7. g \in LoopStates /\ (g.ok <=> legal /\ Partial(utf16))
    BY <1>2, <1>3 DEF Fits
<1>8. g.ok => /\ utf16 = IF g.lead = 0 THEN CodeUnits(g.chars) ELSE Append(CodeUnits(g.chars), g.lead)
              /\ g.lead # 0 <=> EndsOpen(utf16)
              /\ NoNoncharacter(g.chars)
    BY <1>2, <1>3 DEF Fits, NoNoncharacter
<1>9. CASE g.ok /\ g.lead = 0
    <2>1. read = [ok |-> TRUE, value |-> g.chars]
        BY <1>5, <1>9 DEF StringEnd
    <2>2. read.ok = TRUE /\ read.value = g.chars
        BY <2>1
    <2>3. g.chars \in Seq(Characters)
        BY <1>7 DEF LoopStates
    <2>4. PyString(Escape(g.chars)) = [ok |-> TRUE, value |-> g.chars]
        BY <1>8, <1>9, <2>3, EscapeReads
    <2>5. legal /\ IsText(utf16) /\ CodeUnits(g.chars) = utf16
        BY <1>6, <1>7, <1>8, <1>9
    <2> QED  BY <1>4, <2>1, <2>2, <2>4, <2>5 DEF legal, utf16, read
<1>10. CASE ~(g.ok /\ g.lead = 0)
    <2>1. read = Refused
        BY <1>5, <1>10 DEF StringEnd
    <2>2. read.ok = FALSE
        BY <2>1 DEF Refused
    <2>3. ~(legal /\ IsText(utf16))
        BY <1>6, <1>7, <1>8, <1>10
    <2> QED  BY <1>4, <2>2, <2>3 DEF legal, utf16, read
<1> QED  BY <1>9, <1>10

\* For every string literal, of any length, _string with parse_utf8 and
\* _check_scalars, and parseString, accept it exactly when it is legal JSON and
\* its UTF-16 is well formed and without noncharacters, read the same characters,
\* and read the canonical spelling of them back.
THEOREM StringsAlwaysExact == ScalarSpec => []StringsReadAndWrite
<1>1. ScalarInit => SpelledElements
    BY DEF ScalarInit, SpelledElements
<1>2. SpelledElements /\ [ScalarNext]_scalarVars => SpelledElements'
    <2> SUFFICES ASSUME SpelledElements, [ScalarNext]_scalarVars PROVE SpelledElements'
        OBVIOUS
    <2>1. CASE SpellString
        BY <2>1 DEF SpellString, SpelledElements
    <2>2. CASE SpellNumber
        BY <2>2 DEF SpellNumber, SpelledElements
    <2>3. CASE UNCHANGED scalarVars
        BY <2>3 DEF scalarVars, SpelledElements
    <2> QED  BY <2>1, <2>2, <2>3 DEF ScalarNext
<1>3. SpelledElements => StringsReadAndWrite
    BY StringsExact DEF SpelledElements, StringsReadAndWrite
<1> QED  BY <1>1, <1>2, <1>3, PTL DEF ScalarSpec

-----------------------------------------------------------------------------
(* Numbers. *)

\* The elements of a part of a sequence.
LEMMA SubAt ==
    ASSUME NEW T, NEW s \in Seq(T), NEW a \in Nat \ {0}, NEW b \in Nat, b <= Len(s)
    PROVE  LET q == SubSeq(s, a, b) IN
           /\ q \in Seq(T)
           /\ a <= b => Len(q) = b - a + 1
           /\ a > b => Len(q) = 0
           /\ \A i \in 1..Len(q) : q[i] = s[a + i - 1]
  OBVIOUS

\* A set of naturals has a least element,
LEMMA LeastOf ==
    ASSUME NEW S \in SUBSET Nat, S # {}
    PROVE  \E m \in S : \A y \in S : m <= y
<1>1. PICK m \in S : \A y \in S : ~(<<y, m>> \in OpToRel(<, Nat))
    BY NatLessThanWellFounded, WFMin, Zenon
<1>2. ASSUME NEW y \in S PROVE m <= y
    <2>1. ~(y < m)
        BY <1>1 DEF OpToRel
    <2> QED  BY <2>1
<1> QED  BY <1>2

\* and a bounded one a greatest.
LEMMA GreatestOf ==
    ASSUME NEW n \in Nat, NEW S \in SUBSET (0..n), S # {}
    PROVE  \E m \in S : \A y \in S : y <= m
<1> DEFINE R == {x \in Nat : x <= n /\ n - x \in S}
<1>1. R \in SUBSET Nat
    OBVIOUS
<1>2. \A y \in S : y \in 0..n /\ n - y \in Nat /\ n - y <= n /\ n - (n - y) = y
    OBVIOUS
<1>3. \A y \in S : n - y \in R
    BY <1>2
<1>4. R # {}
    BY <1>3
<1>5. PICK r \in R : \A x \in R : r <= x
    <2> HIDE DEF R
    <2> QED  BY <1>1, <1>4, LeastOf
<1>6. n - r \in S /\ r \in Nat
    OBVIOUS
<1>7. ASSUME NEW y \in S PROVE y <= n - r
    <2>1. r <= n - y
        BY <1>3, <1>5
    <2> QED  BY <1>2, <1>6, <2>1
<1> QED  BY <1>6, <1>7

-----------------------------------------------------------------------------
\* Where the parts of a number begin: the integer at a, the fraction with its
\* point at b, the exponent at c and its digits at e.
Marks(s, a, b, c, e) ==
    /\ a \in 1..2 /\ (a = 2 <=> At(s, 1, {Minus}))
    /\ b \in Nat /\ c \in Nat /\ e \in Nat
    /\ a < b /\ b <= c /\ c <= Len(s) + 1
    /\ \A x \in a..(b - 1) : s[x] \in 0..9
    /\ s[a] = 0 => b = a + 1
    /\ b < c => s[b] = Dot /\ b + 1 < c /\ \A x \in (b + 1)..(c - 1) : s[x] \in 0..9
    /\ c = Len(s) + 1 => e = c + 1
    /\ c <= Len(s) => /\ s[c] = Exp /\ e \in {c + 1, c + 2} /\ (e = c + 2 => s[c + 1] \in {Plus, Minus})
                      /\ e <= Len(s) /\ \A x \in e..Len(s) : s[x] \in 0..9

\* Skip ends where the first character that is not a digit is,
LEMMA SkipIs ==
    ASSUME NEW s \in Seq(Int), NEW i \in Nat \ {0}, NEW j \in i..(Len(s) + 1),
           \A x \in i..(j - 1) : s[x] \in 0..9, ~At(s, j, 0..9)
    PROVE  Skip(s, i) = j
<1> DEFINE Q(k) == (\A x \in i..(k - 1) : s[x] \in 0..9) /\ ~At(s, k, 0..9)
<1>1. ASSUME NEW k \in i..(Len(s) + 1), Q(k) PROVE k = j
    <2>1. ~(k < j)
        <3> SUFFICES ASSUME k < j PROVE FALSE
            OBVIOUS
        <3>1. k \in i..(j - 1) /\ k <= Len(s)
            OBVIOUS
        <3> QED  BY <1>1, <3>1 DEF At
    <2>2. ~(j < k)
        <3> SUFFICES ASSUME j < k PROVE FALSE
            OBVIOUS
        <3>1. j \in i..(k - 1) /\ j <= Len(s)
            OBVIOUS
        <3> QED  BY <1>1, <3>1 DEF At
    <2> QED  BY <2>1, <2>2
<1>2. Q(j)
    OBVIOUS
<1>3. Skip(s, i) = CHOOSE k \in i..(Len(s) + 1) : Q(k)
    BY DEF Skip
<1> QED  BY <1>1, <1>2, <1>3

\* and there is such a place.
LEMMA SkipFound ==
    ASSUME NEW s \in Seq(Int), NEW i \in Nat \ {0}, i <= Len(s) + 1
    PROVE  /\ Skip(s, i) \in i..(Len(s) + 1)
           /\ \A x \in i..(Skip(s, i) - 1) : s[x] \in 0..9
           /\ ~At(s, Skip(s, i), 0..9)
<1> DEFINE S == {k \in i..(Len(s) + 1) : ~At(s, k, 0..9)}
<1>1. Len(s) + 1 \in S
    BY DEF At
<1>2. S \in SUBSET Nat
    OBVIOUS
<1>3. PICK j \in S : \A k \in S : j <= k
    <2> HIDE DEF S
    <2> QED  BY <1>1, <1>2, LeastOf
<1>4. ASSUME NEW x \in i..(j - 1) PROVE s[x] \in 0..9
    <2>1. x \notin S /\ x \in i..(Len(s) + 1)
        BY <1>3
    <2> QED  BY <2>1 DEF At
<1>5. Skip(s, i) = j
    BY <1>4, SkipIs
<1> QED  BY <1>3, <1>4, <1>5

\* The places the scan goes through.
I0(s) == IF At(s, 1, {Minus}) THEN 2 ELSE 1
I1(s) == IF At(s, I0(s), {0}) THEN I0(s) + 1 ELSE Skip(s, I0(s))
I2(s) == IF At(s, I1(s), {Dot}) THEN Skip(s, I1(s) + 1) ELSE I1(s)
E0(s) == IF At(s, I2(s) + 1, {Plus, Minus}) THEN I2(s) + 2 ELSE I2(s) + 1
I3(s) == IF At(s, I2(s), {Exp}) THEN Skip(s, E0(s)) ELSE I2(s)

\* The scan in terms of them.
LEMMA ScanPlaces ==
    ASSUME NEW s
    PROVE  ScanNumber(s) =
             [ok   |-> /\ At(s, I0(s), 0..9) /\ (I2(s) # I1(s) => I2(s) > I1(s) + 1) /\ (I3(s) # I2(s) => I3(s) > E0(s))
                       /\ I3(s) = Len(s) + 1,
              int  |-> SubSeq(s, I0(s), I1(s) - 1), frac |-> SubSeq(s, I1(s) + 1, I2(s) - 1),
              sign |-> IF At(s, I2(s) + 1, {Minus}) THEN -1 ELSE 1, exp |-> SubSeq(s, E0(s), I3(s) - 1)]
    BY DEF ScanNumber, I0, I1, I2, I3, E0

\* A scan of a number with marks ends at them.
LEMMA ScanIs ==
    ASSUME NEW s \in Seq(Int), NEW a, NEW b, NEW c, NEW e, Marks(s, a, b, c, e)
    PROVE  ScanNumber(s) =
             [ok |-> TRUE, int |-> SubSeq(s, a, b - 1), frac |-> SubSeq(s, b + 1, c - 1),
              sign |-> IF At(s, c + 1, {Minus}) THEN -1 ELSE 1, exp |-> SubSeq(s, e, Len(s))]
<1> DEFINE n == Len(s)
<1>0. n \in Nat
    OBVIOUS
<1> HIDE DEF n
<1>1. I0(s) = a
    BY DEF I0, Marks
<1>m. /\ a \in 1..2 /\ b \in Nat /\ c \in Nat /\ e \in Nat /\ a < b /\ b <= c /\ c <= n + 1
      /\ b < c => s[b] = Dot
      /\ c <= n => s[c] = Exp
    BY DEF Marks, n
<1>5. ~At(s, c, 0..9) /\ ~At(s, c, {Dot}) /\ (At(s, c, {Exp}) <=> c <= n)
    <2>1. CASE c <= n
        <3>1. s[c] = 101
            BY <1>m, <2>1 DEF Exp
        <3> QED  BY <2>1, <3>1 DEF At, Dot, Exp, n
    <2>2. CASE ~(c <= n)
        BY <2>2 DEF At, n
    <2> QED  BY <2>1, <2>2
<1>2. ~At(s, b, 0..9) /\ (b = c => ~At(s, b, {Dot})) /\ (b < c => At(s, b, {Dot}))
    <2>1. CASE b < c
        <3>1. s[b] = 46 /\ b <= n
            BY <1>0, <1>m, <2>1 DEF Dot
        <3> QED  BY <1>m, <2>1, <3>1 DEF At, Dot, n
    <2>2. CASE b = c
        BY <1>5, <1>m, <2>2
    <2> QED  BY <1>m, <2>1, <2>2
<1>3. a \in Nat \ {0} /\ b \in a..(n + 1) /\ At(s, a, 0..9)
    BY <1>0 DEF Marks, At, n
<1>4. I1(s) = b
    <2>1. CASE At(s, a, {0})
        BY <1>1, <2>1 DEF I1, Marks, At
    <2>2. CASE ~At(s, a, {0})
        <3>1. Skip(s, a) = b
            BY <1>2, <1>3, SkipIs DEF Marks, n
        <3> QED  BY <1>1, <2>2, <3>1 DEF I1
    <2> QED  BY <2>1, <2>2
<1>6. I2(s) = c
    <2>1. CASE b = c
        BY <1>2, <1>4, <2>1 DEF I2
    <2>2. CASE b < c
        <3>1. b + 1 \in Nat \ {0} /\ c \in (b + 1)..(n + 1) /\ \A x \in (b + 1)..(c - 1) : s[x] \in 0..9
            BY <1>0, <2>2 DEF Marks, n
        <3>2. Skip(s, b + 1) = c
            BY <1>5, <3>1, SkipIs DEF n
        <3> QED  BY <1>2, <1>4, <2>2, <3>2 DEF I2
    <2>3. b \in Nat /\ c \in Nat /\ b <= c
        BY DEF Marks
    <2> QED  BY <2>1, <2>2, <2>3
<1>7. E0(s) = e
    <2>1. CASE c = n + 1
        <3>1. ~At(s, c + 1, {Plus, Minus}) /\ e = c + 1
            BY <1>0, <2>1 DEF At, n, Marks
        <3> QED  BY <1>6, <3>1 DEF E0
    <2>2. CASE c <= n
        <3>1. e \in {c + 1, c + 2} /\ e <= n /\ s[e] \in 0..9 /\ (e = c + 2 => s[c + 1] \in {Plus, Minus})
            BY <1>0, <2>2 DEF Marks, n
        <3>2. e = c + 2 => At(s, c + 1, {Plus, Minus})
            BY <1>0, <2>2, <3>1 DEF At, n, Marks
        <3>3. e = c + 1 => ~At(s, c + 1, {Plus, Minus})
            BY <3>1 DEF At, Plus, Minus
        <3> QED  BY <1>6, <3>1, <3>2, <3>3 DEF E0
    <2> QED  BY <1>0, <2>1, <2>2 DEF Marks, n
<1>8. I3(s) = n + 1 /\ (c <= n => n + 1 > e) /\ (c > n => c = n + 1)
    <2>1. CASE c <= n
        <3>1. e \in Nat \ {0} /\ n + 1 \in e..(n + 1) /\ e <= n /\ \A x \in e..((n + 1) - 1) : s[x] \in 0..9
            BY <1>0, <2>1 DEF Marks, n
        <3>2. ~At(s, n + 1, 0..9)
            BY <1>0 DEF At, n
        <3>3. Skip(s, e) = n + 1
            BY <3>1, <3>2, SkipIs DEF n
        <3>4. I3(s) = n + 1
            BY <1>5, <1>6, <1>7, <2>1, <3>3 DEF I3
        <3> QED  BY <1>0, <1>m, <2>1, <3>1, <3>4
    <2>2. CASE c = n + 1
        BY <1>0, <1>5, <1>6, <2>2 DEF I3
    <2> QED  BY <1>0, <2>1, <2>2 DEF Marks, n
<1>9. (c # b => c > b + 1) /\ (n + 1 # c => n + 1 > e) /\ (n + 1) - 1 = n
    BY <1>0, <1>8 DEF Marks, n
<1> QED  BY <1>1, <1>3, <1>4, <1>6, <1>7, <1>8, <1>9, ScanPlaces DEF n

\* Where the scan accepts, the places it goes through are marks.
LEMMA ScanMarks ==
    ASSUME NEW s \in Seq(Int), ScanNumber(s).ok
    PROVE  Marks(s, I0(s), I1(s), I2(s), E0(s))
<1> DEFINE n == Len(s)
           a == I0(s)
           b == I1(s)
           c == I2(s)
           e == E0(s)
<1>0. n \in Nat
    OBVIOUS
<1>1. /\ At(s, a, 0..9) /\ (c # b => c > b + 1) /\ (I3(s) # c => I3(s) > e)
      /\ I3(s) = n + 1
    BY ScanPlaces
<1>2. a \in 1..2 /\ (a = 2 <=> At(s, 1, {Minus})) /\ a <= n
    BY <1>1 DEF I0, At
<1>3. /\ b \in Nat /\ a < b /\ b <= n + 1 /\ (\A x \in a..(b - 1) : s[x] \in 0..9)
      /\ s[a] = 0 => b = a + 1
    <2>1. CASE At(s, a, {0})
        <3>1. b = a + 1
            BY <2>1 DEF I1
        <3> HIDE DEF a, b, n
        <3> QED  BY <1>0, <1>1, <1>2, <3>1 DEF At
    <2>2. CASE ~At(s, a, {0})
        <3>1. b = Skip(s, a)
            BY <2>2 DEF I1
        <3> HIDE DEF a, b
        <3>2. b \in a..(n + 1) /\ (\A x \in a..(b - 1) : s[x] \in 0..9) /\ ~At(s, b, 0..9)
            BY <1>0, <1>2, <3>1, SkipFound
        <3>3. s[a] # 0
            BY <1>2, <2>2 DEF At
        <3>4. a # b
            BY <1>1, <3>2
        <3> HIDE DEF n
        <3> QED  BY <1>0, <1>2, <3>2, <3>3, <3>4
    <2> QED  BY <2>1, <2>2
<1>4. /\ c \in Nat /\ b <= c /\ c <= n + 1
      /\ b < c => s[b] = Dot /\ b + 1 < c /\ \A x \in (b + 1)..(c - 1) : s[x] \in 0..9
    <2>1. CASE At(s, b, {Dot})
        <3>1. c = Skip(s, b + 1) /\ s[b] = Dot /\ b <= n
            BY <2>1 DEF I2, At
        <3> HIDE DEF a, b, c
        <3>2. c \in (b + 1)..(n + 1) /\ \A x \in (b + 1)..(c - 1) : s[x] \in 0..9
            <4> DEFINE d == b + 1
            <4>1. d \in Nat \ {0} /\ d <= n + 1
                BY <1>0, <1>3, <3>1
            <4> HIDE DEF d
            <4>2. Skip(s, d) \in d..(n + 1) /\ \A x \in d..(Skip(s, d) - 1) : s[x] \in 0..9
                BY <4>1, SkipFound
            <4> QED  BY <3>1, <4>2 DEF d
        <3> HIDE DEF n
        <3> QED  BY <1>0, <1>1, <1>3, <3>1, <3>2
    <2>2. CASE ~At(s, b, {Dot})
        <3>1. c = b
            BY <2>2 DEF I2
        <3> HIDE DEF a, b, c
        <3> QED  BY <1>3, <3>1
    <2> QED  BY <2>1, <2>2
<1>5. e \in {c + 1, c + 2} /\ e \in Nat /\ (e = c + 2 <=> At(s, c + 1, {Plus, Minus}))
    <2>1. e = IF At(s, c + 1, {Plus, Minus}) THEN c + 2 ELSE c + 1
        BY DEF E0
    <2> HIDE DEF c, e
    <2> QED  BY <1>4, <2>1
<1>6. c = n + 1 => e = c + 1
    <2> HIDE DEF c, e, n
    <2>1. c = n + 1 => ~At(s, c + 1, {Plus, Minus})
        BY <1>0 DEF At, n
    <2> QED  BY <1>4, <1>5, <2>1
<1>7. ASSUME c <= n
      PROVE  /\ s[c] = Exp /\ (e = c + 2 => s[c + 1] \in {Plus, Minus})
             /\ e <= n /\ \A x \in e..n : s[x] \in 0..9
    <2>1. I3(s) = IF At(s, c, {Exp}) THEN Skip(s, e) ELSE c
        BY DEF I3
    <2> HIDE DEF c, e
    <2>2. n + 1 # c
        BY <1>0, <1>4, <1>7
    <2>3. At(s, c, {Exp}) /\ Skip(s, e) = n + 1
        BY <1>1, <2>1, <2>2
    <2>4. e <= n
        <3> HIDE DEF n
        <3> QED  BY <1>0, <1>1, <1>5, <2>2
    <2>5. e \in Nat \ {0} /\ e <= n + 1
        <3> HIDE DEF n
        <3> QED  BY <1>0, <1>4, <1>5, <2>4
    <2>6. \A x \in e..(Skip(s, e) - 1) : s[x] \in 0..9
        BY <2>5, SkipFound
    <2>7. (n + 1) - 1 = n
        BY <1>0
    <2> HIDE DEF n
    <2> QED  BY <1>5, <2>3, <2>4, <2>6, <2>7 DEF At
<1> HIDE DEF a, b, c, e, n
<1>8. Marks(s, a, b, c, e)
    BY <1>2, <1>3, <1>4, <1>5, <1>6, <1>7 DEF Marks, n
<1> QED  BY <1>8 DEF a, b, c, e

\* IsDigits and IsInt, of a part of a literal.
LEMMA DigitsIn ==
    ASSUME NEW s \in Seq(Int), NEW a \in Nat \ {0}, NEW b \in Nat, b <= Len(s)
    PROVE  /\ IsDigits(SubSeq(s, a, b)) <=> a <= b /\ \A x \in a..b : s[x] \in 0..9
           /\ IsInt(SubSeq(s, a, b)) <=> /\ a <= b /\ \A x \in a..b : s[x] \in 0..9
                                         /\ s[a] = 0 => a = b
<1> DEFINE q == SubSeq(s, a, b)
<1>1. q \in Seq(Int) /\ (a <= b => Len(q) = b - a + 1) /\ (a > b => Len(q) = 0) /\ \A i \in 1..Len(q) : q[i] = s[a + i - 1]
    BY SubAt
<1> HIDE DEF q
<1>2. (q # <<>> <=> a <= b) /\ DOMAIN q = 1..Len(q)
    BY <1>1
<1>3. ASSUME a <= b PROVE (\A i \in 1..Len(q) : q[i] \in 0..9) <=> \A x \in a..b : s[x] \in 0..9
    <2>1. ASSUME \A i \in 1..Len(q) : q[i] \in 0..9, NEW x \in a..b PROVE s[x] \in 0..9
        <3>1. x - a + 1 \in 1..Len(q) /\ a + (x - a + 1) - 1 = x
            BY <1>1, <1>3
        <3>2. q[x - a + 1] = s[a + (x - a + 1) - 1]
            BY <1>1, <3>1
        <3> QED  BY <2>1, <3>1, <3>2
    <2>2. ASSUME \A x \in a..b : s[x] \in 0..9, NEW i \in 1..Len(q) PROVE q[i] \in 0..9
        <3>1. a + i - 1 \in a..b
            BY <1>1, <1>3
        <3> QED  BY <1>1, <2>2, <3>1
    <2> QED  BY <2>1, <2>2
<1>4. a <= b => q[1] = s[a] /\ (Len(q) = 1 <=> a = b)
    <2> SUFFICES ASSUME a <= b PROVE q[1] = s[a] /\ (Len(q) = 1 <=> a = b)
        OBVIOUS
    <2>1. 1 \in 1..Len(q) /\ a + 1 - 1 = a
        BY <1>1
    <2>2. q[1] = s[a + 1 - 1]
        BY <1>1, <2>1
    <2>3. Len(q) = b - a + 1
        BY <1>1
    <2>4. Len(q) = 1 <=> a = b
        BY <2>3
    <2> QED  BY <2>1, <2>2, <2>4
<1>5. IsDigits(q) <=> a <= b /\ \A x \in a..b : s[x] \in 0..9
    BY <1>2, <1>3 DEF IsDigits
<1>6. IsInt(q) <=> /\ a <= b /\ \A x \in a..b : s[x] \in 0..9
                   /\ s[a] = 0 => a = b
    BY <1>2, <1>3, <1>4 DEF IsInt
<1> QED  BY <1>5, <1>6 DEF q

\* q is the part of s from a to b.
PartOf(q, s, a, b, i) ==
    /\ SubSeq(q, i, Len(q)) = SubSeq(s, a + i - 1, b)
    /\ Tail(q) = SubSeq(s, a + 1, b)
    /\ q # <<>> /\ \A x \in 1..(b - a + 1) : q[x] = s[a + x - 1]

\* A part of a part of a sequence.
LEMMA SubOfSub ==
    ASSUME NEW T, NEW s \in Seq(T), NEW a \in Nat \ {0}, NEW b \in Nat, a <= b, b <= Len(s), NEW i \in Nat \ {0}
    PROVE  PartOf(SubSeq(s, a, b), s, a, b, i)
<1> DEFINE q == SubSeq(s, a, b)
           n == Len(q)
           m == a + i - 1
           r == SubSeq(q, i, n)
           t == SubSeq(s, m, b)
<1>1. q \in Seq(T) /\ n = b - a + 1 /\ \A x \in 1..n : q[x] = s[a + x - 1]
    BY SubAt
<1>2. m \in Nat \ {0} /\ n \in Nat /\ n <= Len(q)
    BY <1>1
<1> HIDE DEF q, m, n
<1>3. r \in Seq(T) /\ (i <= n => Len(r) = n - i + 1) /\ (i > n => Len(r) = 0) /\ \A x \in 1..Len(r) : r[x] = q[i + x - 1]
    BY <1>1, <1>2, SubAt
<1>4. t \in Seq(T) /\ (m <= b => Len(t) = b - m + 1) /\ (m > b => Len(t) = 0) /\ \A x \in 1..Len(t) : t[x] = s[m + x - 1]
    BY <1>2, SubAt
<1> HIDE DEF r, t
<1>5. Len(r) = Len(t)
    BY <1>1, <1>2, <1>3, <1>4 DEF m
<1>6. ASSUME NEW x \in 1..Len(r) PROVE r[x] = t[x]
    <2>0. i <= n /\ x \in Nat /\ 1 <= x /\ x <= n - i + 1
        <3>1. Len(r) \in Nat /\ x \in Nat /\ 1 <= x /\ x <= Len(r)
            BY <1>3
        <3> QED  BY <1>2, <1>3, <3>1
    <2>1. i + x - 1 \in 1..n /\ a + (i + x - 1) - 1 = m + x - 1
        <3>1. i + x - 1 \in 1..n
            BY <1>2, <2>0
        <3>2. a + (i + x - 1) - 1 = m + x - 1
            BY <2>0 DEF m
        <3> QED  BY <3>1, <3>2
    <2>2. q[i + x - 1] = s[a + (i + x - 1) - 1]
        BY <1>1, <2>1
    <2>3. t[x] = s[m + x - 1] /\ r[x] = q[i + x - 1]
        BY <1>3, <1>4, <1>5
    <2> QED  BY <2>1, <2>2, <2>3
<1>7. r = t
    BY <1>3, <1>4, <1>5, <1>6, SameElements
<1>8. Tail(q) = SubSeq(s, a + 1, b)
    <2> DEFINE u == Tail(q)
               v == SubSeq(s, a + 1, b)
    <2>1. u \in Seq(T) /\ Len(u) = n - 1 /\ \A x \in 1..(n - 1) : u[x] = q[x + 1]
        BY <1>1 DEF n
    <2>2. v \in Seq(T) /\ Len(v) = n - 1 /\ \A x \in 1..(n - 1) : v[x] = s[a + 1 + x - 1]
        <3>1. a + 1 \in Nat \ {0}
            OBVIOUS
        <3>2. v \in Seq(T) /\ (a + 1 <= b => Len(v) = b - (a + 1) + 1) /\ (a + 1 > b => Len(v) = 0)
              /\ \A x \in 1..Len(v) : v[x] = s[a + 1 + x - 1]
            BY <3>1, SubAt
        <3>3. Len(v) = n - 1
            BY <1>1, <3>2
        <3> QED  BY <3>2, <3>3
    <2> HIDE DEF u, v
    <2>3. ASSUME NEW x \in 1..(n - 1) PROVE u[x] = v[x]
        <3>1. x + 1 \in 1..n /\ a + (x + 1) - 1 = a + 1 + x - 1
            BY <1>2
        <3>2. q[x + 1] = s[a + (x + 1) - 1]
            BY <1>1, <3>1
        <3> QED  BY <2>1, <2>2, <3>1, <3>2
    <2>4. u = v
        BY <2>1, <2>2, <2>3, SameElements
    <2> QED  BY <2>4 DEF u, v
<1>9. q # <<>> /\ \A x \in 1..(b - a + 1) : q[x] = s[a + x - 1]
    BY <1>1 DEF n
<1>10. PartOf(q, s, a, b, i)
    BY <1>7, <1>8, <1>9 DEF PartOf, r, t, m, n
<1> QED  BY <1>10 DEF q

\* IsFraction of a part of a literal.
LEMMA FractionIn ==
    ASSUME NEW s \in Seq(Int), NEW b \in Nat \ {0}, NEW c \in Nat, b <= c, c <= Len(s) + 1
    PROVE  IsFraction(SubSeq(s, b, c - 1)) <=>
             (b < c => s[b] = Dot /\ b + 1 < c /\ \A x \in (b + 1)..(c - 1) : s[x] \in 0..9)
<1> DEFINE q == SubSeq(s, b, c - 1)
<1>1. CASE b = c
    <2>1. c - 1 \in Nat /\ c - 1 <= Len(s) /\ b > c - 1
        BY <1>1
    <2>2. q \in Seq(Int) /\ Len(q) = 0
        BY <2>1, SubAt
    <2> HIDE DEF q
    <2>3. q = <<>>
        BY <2>2
    <2>4. IsFraction(q)
        BY <2>3 DEF IsFraction
    <2>5. ~(b < c)
        BY <1>1
    <2> QED  BY <2>4, <2>5 DEF q
<1>2. CASE b < c
    <2> DEFINE d == c - 1
    <2>1. d \in Nat /\ d <= Len(s) /\ b <= d /\ (b + 1 < c <=> b + 1 <= d) /\ b + 1 \in Nat \ {0}
        BY <1>2
    <2> HIDE DEF d
    <2> DEFINE p == SubSeq(s, b, d)
    <2>2. p # <<>> /\ p[1] = s[b] /\ Tail(p) = SubSeq(s, b + 1, d)
        <3>1. 1 \in 1..(d - b + 1) /\ b + 1 - 1 = b
            BY <2>1
        <3>2. Tail(p) = SubSeq(s, b + 1, d) /\ p # <<>> /\ p[1] = s[b + 1 - 1]
            <4>1. b \in Nat \ {0} /\ 1 \in Nat \ {0}
                OBVIOUS
            <4>2. PartOf(p, s, b, d, 1)
                BY <2>1, <4>1, SubOfSub
            <4> HIDE DEF p
            <4> QED  BY <3>1, <4>2 DEF PartOf
        <3> QED  BY <3>1, <3>2
    <2>3. IsDigits(SubSeq(s, b + 1, d)) <=> b + 1 <= d /\ \A x \in (b + 1)..d : s[x] \in 0..9
        BY <2>1, DigitsIn
    <2> HIDE DEF p
    <2>4. IsFraction(p) <=> s[b] = Dot /\ b + 1 < c /\ \A x \in (b + 1)..d : s[x] \in 0..9
        BY <2>1, <2>2, <2>3 DEF IsFraction
    <2> QED  BY <1>2, <2>4 DEF p, d
<1> QED  BY <1>1, <1>2

\* IsExponent of what is left of it.
LEMMA ExponentIn ==
    ASSUME NEW s \in Seq(Int), NEW c \in Nat \ {0}, c <= Len(s) + 1
    PROVE  IsExponent(SubSeq(s, c, Len(s))) <=>
             (c <= Len(s) =>
                /\ s[c] = Exp
                /\ \E e \in {c + 1, c + 2} : /\ e <= Len(s) /\ \A x \in e..Len(s) : s[x] \in 0..9
                                             /\ e = c + 2 => s[c + 1] \in {Plus, Minus})
<1> DEFINE n == Len(s)
           q == SubSeq(s, c, n)
<1>0. n \in Nat
    OBVIOUS
<1> HIDE DEF n
<1>1. CASE c > n
    <2>1. q \in Seq(Int) /\ Len(q) = 0
        BY <1>0, <1>1, SubAt DEF n
    <2> HIDE DEF q
    <2>2. q = <<>>
        BY <2>1
    <2>3. IsExponent(q)
        BY <2>2 DEF IsExponent
    <2> QED  BY <1>0, <1>1, <2>3 DEF q, n
<1>2. CASE c <= n
    <2>1. /\ q # <<>> /\ q[1] = s[c] /\ (c + 1 <= n => q[2] = s[c + 1])
          /\ SubSeq(q, 2, Len(q)) = SubSeq(s, c + 1, n)
          /\ SubSeq(q, 3, Len(q)) = SubSeq(s, c + 2, n)
        <3>1. /\ c + 1 - 1 = c /\ c + 2 - 1 = c + 1 /\ c + 3 - 1 = c + 2 /\ 1 \in 1..(n - c + 1)
              /\ c + 1 <= n => 2 \in 1..(n - c + 1)
            BY <1>0, <1>2
        <3>2. /\ q # <<>> /\ \A x \in 1..(n - c + 1) : q[x] = s[c + x - 1]
              /\ \A i \in Nat \ {0} : SubSeq(q, i, Len(q)) = SubSeq(s, c + i - 1, n)
            <4>1. n <= Len(s)
                BY DEF n
            <4>2. \A i \in Nat \ {0} :
                     /\ q # <<>> /\ (\A x \in 1..(n - c + 1) : q[x] = s[c + x - 1])
                     /\ SubSeq(q, i, Len(q)) = SubSeq(s, c + i - 1, n)
                <5>1. c \in Nat \ {0} /\ n \in Nat /\ c <= n
                    BY <1>0, <1>2
                <5> HIDE DEF n
                <5> SUFFICES ASSUME NEW i \in Nat \ {0}
                             PROVE  /\ q # <<>> /\ (\A x \in 1..(n - c + 1) : q[x] = s[c + x - 1])
                                    /\ SubSeq(q, i, Len(q)) = SubSeq(s, c + i - 1, n)
                    OBVIOUS
                <5>2. PartOf(q, s, c, n, i)
                    BY <4>1, <5>1, SubOfSub DEF q
                <5> HIDE DEF q
                <5> QED  BY <5>2 DEF PartOf
            <4>3. 1 \in Nat \ {0}
                OBVIOUS
            <4> HIDE DEF q
            <4> QED  BY <4>2, <4>3
        <3> HIDE DEF q
        <3>3. q[1] = s[c + 1 - 1] /\ (c + 1 <= n => q[2] = s[c + 2 - 1])
            BY <3>1, <3>2
        <3>4. SubSeq(q, 2, Len(q)) = SubSeq(s, c + 2 - 1, n) /\ SubSeq(q, 3, Len(q)) = SubSeq(s, c + 3 - 1, n)
            <4>1. 2 \in Nat \ {0} /\ 3 \in Nat \ {0}
                OBVIOUS
            <4> QED  BY <3>2, <4>1
        <3> QED  BY <3>1, <3>2, <3>3, <3>4
    <2>2. /\ IsDigits(SubSeq(s, c + 1, n)) <=> c + 1 <= n /\ \A x \in (c + 1)..n : s[x] \in 0..9
          /\ IsDigits(SubSeq(s, c + 2, n)) <=> c + 2 <= n /\ \A x \in (c + 2)..n : s[x] \in 0..9
        <3>1. c + 1 \in Nat \ {0} /\ c + 2 \in Nat \ {0}
            OBVIOUS
        <3> QED  BY <1>0, <3>1, DigitsIn DEF n
    <2>3. IsExponent(q) <=> /\ q[1] = Exp
                            /\ \/ IsDigits(SubSeq(q, 2, Len(q)))
                               \/ IsDigits(SubSeq(q, 3, Len(q))) /\ q[2] \in {Plus, Minus}
        <3>1. q # <<>>
            BY <2>1
        <3> HIDE DEF q
        <3> QED  BY <3>1 DEF IsExponent
    <2> HIDE DEF q
    <2> DEFINE G == \E e \in {c + 1, c + 2} : /\ e <= n /\ \A x \in e..n : s[x] \in 0..9
                                              /\ e = c + 2 => s[c + 1] \in {Plus, Minus}
    <2>4. G <=> \/ c + 1 <= n /\ \A x \in (c + 1)..n : s[x] \in 0..9
                \/ c + 2 <= n /\ (\A x \in (c + 2)..n : s[x] \in 0..9) /\ s[c + 1] \in {Plus, Minus}
        <3>1. c + 1 # c + 2
            OBVIOUS
        <3> QED  BY <3>1
    <2>5. c + 2 <= n => c + 1 <= n
        BY <1>0
    <2>6. IsExponent(q) <=> s[c] = Exp /\ G
        <3> HIDE DEF G
        <3> QED  BY <2>1, <2>2, <2>3, <2>4, <2>5
    <2> HIDE DEF G
    <2> QED  BY <1>2, <2>6 DEF G, q, n
<1> QED  BY <1>0, <1>1, <1>2

\* The scan takes the numbers of the grammar and no others.
LEMMA NumberScans ==
    ASSUME NEW s \in Seq(Int)
    PROVE  ScanNumber(s).ok <=> IsNumber(s)
<1> DEFINE n == Len(s)
<1>0. n \in Nat
    OBVIOUS
<1>0a. At(s, 1, {Minus}) <=> s # <<>> /\ s[1] = Minus
    BY DEF At
<1> HIDE DEF n
<1>1. ASSUME ScanNumber(s).ok PROVE IsNumber(s)
    <2> DEFINE a == I0(s)
               b == I1(s)
               c == I2(s)
               e == E0(s)
    <2>1. Marks(s, a, b, c, e)
        BY <1>1, ScanMarks
    <2> HIDE DEF a, b, c, e
    <2>2. a \in 1..2 /\ b \in 1..(n + 1) /\ c \in 1..(n + 1) /\ a <= b /\ b <= c /\ a < b
        BY <1>0, <2>1 DEF Marks, n
    <2>3. IsInt(SubSeq(s, a, b - 1))
        <3> DEFINE d == b - 1
        <3>1. a \in Nat \ {0} /\ d \in Nat /\ d <= n /\ a <= d
            BY <1>0, <2>2
        <3>2. (\A x \in a..d : s[x] \in 0..9) /\ (s[a] = 0 => a = d)
            BY <2>1, <2>2 DEF Marks
        <3> HIDE DEF d
        <3>3. IsInt(SubSeq(s, a, d))
            BY <3>1, <3>2, DigitsIn DEF n
        <3> QED  BY <3>3 DEF d
    <2>4. IsFraction(SubSeq(s, b, c - 1))
        <3>1. b \in Nat \ {0} /\ c \in Nat /\ b <= c /\ c <= n + 1
            BY <1>0, <2>2
        <3> QED  BY <2>1, <3>1, FractionIn DEF Marks, n
    <2>5. IsExponent(SubSeq(s, c, Len(s)))
        <3>1. c \in Nat \ {0} /\ c <= n + 1
            BY <1>0, <2>2
        <3> QED  BY <2>1, <3>1, ExponentIn DEF Marks, n
    <2>6. a = 2 <=> s # <<>> /\ s[1] = Minus
        BY <1>0a, <2>1 DEF Marks
    <2> QED  BY <2>2, <2>3, <2>4, <2>5, <2>6 DEF IsNumber, n
<1>2. ASSUME IsNumber(s) PROVE ScanNumber(s).ok
    <2>1. PICK a \in 1..2 : \E b, c \in 1..(n + 1) :
            /\ a <= b /\ b <= c
            /\ a = 2 <=> s # <<>> /\ s[1] = Minus
            /\ IsInt(SubSeq(s, a, b - 1)) /\ IsFraction(SubSeq(s, b, c - 1)) /\ IsExponent(SubSeq(s, c, n))
        BY <1>2 DEF IsNumber, n
    <2>2. PICK b, c \in 1..(n + 1) :
            /\ a <= b /\ b <= c
            /\ a = 2 <=> s # <<>> /\ s[1] = Minus
            /\ IsInt(SubSeq(s, a, b - 1)) /\ IsFraction(SubSeq(s, b, c - 1)) /\ IsExponent(SubSeq(s, c, n))
        BY <2>1
    <2>3. b \in Nat \ {0} /\ c \in Nat \ {0} /\ c <= n + 1 /\ a \in Nat \ {0}
        BY <1>0
    <2>4. a < b /\ (\A x \in a..(b - 1) : s[x] \in 0..9) /\ (s[a] = 0 => b = a + 1)
        <3> DEFINE d == b - 1
        <3>1. d \in Nat /\ d <= n
            BY <1>0, <2>3, <2>2
        <3>2. IsInt(SubSeq(s, a, d))
            BY <2>2
        <3> HIDE DEF d
        <3>3. a <= d /\ (\A x \in a..d : s[x] \in 0..9) /\ (s[a] = 0 => a = d)
            BY <2>3, <3>1, <3>2, DigitsIn DEF n
        <3> QED  BY <2>3, <3>3 DEF d
    <2>5. b < c => s[b] = Dot /\ b + 1 < c /\ \A x \in (b + 1)..(c - 1) : s[x] \in 0..9
        BY <2>2, <2>3, FractionIn DEF n
    <2>6. c <= n =>
            /\ s[c] = Exp
            /\ \E e \in {c + 1, c + 2} : /\ e <= n /\ \A x \in e..n : s[x] \in 0..9
                                         /\ e = c + 2 => s[c + 1] \in {Plus, Minus}
        BY <2>2, <2>3, ExponentIn DEF n
    <2>7. \E e \in Nat : Marks(s, a, b, c, e)
        <3>1. CASE c <= n
            <4>1. PICK e \in {c + 1, c + 2} : /\ e <= n /\ \A x \in e..n : s[x] \in 0..9
                                              /\ e = c + 2 => s[c + 1] \in {Plus, Minus}
                BY <2>6, <3>1
            <4>2. e \in Nat /\ c # n + 1
                BY <1>0, <2>3, <3>1
            <4>3. Marks(s, a, b, c, e)
                BY <1>0a, <2>2, <2>3, <2>4, <2>5, <2>6, <3>1, <4>1, <4>2 DEF Marks, n
            <4> QED  BY <4>2, <4>3
        <3>2. CASE c = n + 1
            <4>1. c + 1 \in Nat /\ ~(c <= n)
                BY <1>0, <3>2
            <4>2. Marks(s, a, b, c, c + 1)
                BY <1>0a, <2>2, <2>3, <2>4, <2>5, <3>2, <4>1 DEF Marks, n
            <4> QED  BY <4>1, <4>2
        <3> QED  BY <1>0, <2>3, <3>1, <3>2
    <2>8. PICK e \in Nat : Marks(s, a, b, c, e)
        BY <2>7
    <2>9. ScanNumber(s) =
             [ok |-> TRUE, int |-> SubSeq(s, a, b - 1), frac |-> SubSeq(s, b + 1, c - 1),
              sign |-> IF At(s, c + 1, {Minus}) THEN -1 ELSE 1, exp |-> SubSeq(s, e, Len(s))]
        BY <2>8, ScanIs
    <2> QED  BY <2>9
<1> QED  BY <1>1, <1>2

-----------------------------------------------------------------------------
\* The value of digits.

\* The recursive function in the definition of IntOf exists.
LEMMA IntLoop ==
    ASSUME NEW q \in Seq(Nat)
    PROVE  \E f : /\ f = [i \in 0..Len(q) |-> IF i = 0 THEN 0 ELSE 10 * f[i - 1] + q[i]]
                  /\ IntOf(q) = f[Len(q)]
<1> DEFINE Upto(n, f) == f = [i \in 0..n |-> IF i = 0 THEN 0 ELSE 10 * f[i - 1] + q[i]]
           S == {n \in Nat : \E f : Upto(n, f)}
<1>1. 0 \in S
    <2>1. Upto(0, [i \in 0..0 |-> 0])
        OBVIOUS
    <2> QED  BY <2>1
<1>2. ASSUME NEW n \in S PROVE n + 1 \in S
    <2>1. PICK f : Upto(n, f)
        OBVIOUS
    <2> DEFINE g == [i \in 0..(n + 1) |-> IF i = n + 1 THEN 10 * f[n] + q[i] ELSE f[i]]
    <2>2. ASSUME NEW i \in 0..(n + 1)
          PROVE  g[i] = IF i = 0 THEN 0 ELSE 10 * g[i - 1] + q[i]
        <3>1. CASE i = n + 1
            BY <3>1
        <3>2. CASE i # n + 1
            <4>1. i \in 0..n
                BY <3>2
            <4>2. g[i] = f[i] /\ (i # 0 => g[i - 1] = f[i - 1])
                BY <4>1
            <4> QED  BY <4>1, <4>2, <2>1
        <3> QED  BY <3>1, <3>2
    <2>3. Upto(n + 1, g)
        BY <2>2
    <2>4. n + 1 \in Nat
        OBVIOUS
    <2> HIDE DEF g
    <2> QED  BY <2>3, <2>4
<1>3. S \in SUBSET Nat
    OBVIOUS
<1>4. Len(q) \in S
    <2> HIDE DEF S
    <2>1. Len(q) \in Nat
        OBVIOUS
    <2> QED  BY <1>1, <1>2, <1>3, <2>1, NaturalsOf
<1> DEFINE h == CHOOSE f : Upto(Len(q), f)
<1>5. Upto(Len(q), h)
    BY <1>4
<1>6. IntOf(q) = h[Len(q)]
    BY DEF IntOf
<1> QED  BY <1>5, <1>6

\* One digit more.
LEMMA IntAppend ==
    ASSUME NEW q \in Seq(Nat), NEW d \in Nat
    PROVE  IntOf(Append(q, d)) = 10 * IntOf(q) + d /\ IntOf(q) \in Nat
<1> DEFINE r == Append(q, d)
           n == Len(q)
<1>1. n \in Nat /\ r \in Seq(Nat) /\ Len(r) = n + 1 /\ r[n + 1] = d /\ \A i \in 1..n : r[i] = q[i] /\ q[i] \in Nat
    BY AppendAt
<1> HIDE DEF r
<1>2. PICK f : f = [i \in 0..n |-> IF i = 0 THEN 0 ELSE 10 * f[i - 1] + q[i]] /\ IntOf(q) = f[n]
    BY IntLoop
<1> HIDE DEF n
<1>3. PICK g : g = [i \in 0..(n + 1) |-> IF i = 0 THEN 0 ELSE 10 * g[i - 1] + r[i]] /\ IntOf(r) = g[n + 1]
    BY <1>1, IntLoop
<1> DEFINE S == {i \in Nat : i <= n => g[i] = f[i] /\ f[i] \in Nat}
<1>4. 0 \in S
    BY <1>1, <1>2, <1>3
<1>5. ASSUME NEW i \in S PROVE i + 1 \in S
    <2> DEFINE k == i + 1
    <2>1. k \in Nat /\ i \in Nat /\ k # 0 /\ k - 1 = i
        OBVIOUS
    <2> HIDE DEF k
    <2>2. ASSUME k <= n PROVE g[k] = f[k] /\ f[k] \in Nat
        <3>1. k \in 0..n /\ k \in 0..(n + 1) /\ k \in 1..n /\ i <= n
            BY <1>1, <2>1, <2>2
        <3>2. f[k] = 10 * f[i] + q[k] /\ g[k] = 10 * g[i] + r[k]
            BY <1>2, <1>3, <2>1, <3>1
        <3>3. g[i] = f[i] /\ f[i] \in Nat /\ r[k] = q[k] /\ q[k] \in Nat
            BY <1>1, <3>1
        <3> QED  BY <3>2, <3>3
    <2> QED  BY <2>1, <2>2 DEF k
<1>6. n \in S
    <2>1. S \in SUBSET Nat
        OBVIOUS
    <2> HIDE DEF S
    <2> QED  BY <1>1, <1>4, <1>5, <2>1, NaturalsOf
<1>7. g[n] = f[n] /\ f[n] \in Nat
    BY <1>1, <1>6
<1>8. g[n + 1] = 10 * g[n] + r[n + 1]
    <2> DEFINE k == n + 1
    <2>1. k \in 0..k /\ k # 0 /\ k - 1 = n
        BY <1>1
    <2>2. g = [i \in 0..k |-> IF i = 0 THEN 0 ELSE 10 * g[i - 1] + r[i]]
        BY <1>3
    <2> HIDE DEF k
    <2>3. g[k] = 10 * g[k - 1] + r[k]
        BY <2>1, <2>2
    <2> QED  BY <2>1, <2>3 DEF k
<1> QED  BY <1>1, <1>2, <1>3, <1>7, <1>8 DEF r

\* No digits are zero.
LEMMA IntNone == IntOf(<<>>) = 0
<1>1. <<>> \in Seq(Nat) /\ Len(<<>>) = 0
    OBVIOUS
<1>2. PICK f : f = [i \in 0..0 |-> IF i = 0 THEN 0 ELSE 10 * f[i - 1] + <<>>[i]] /\ IntOf(<<>>) = f[0]
    BY <1>1, IntLoop
<1> QED  BY <1>2

\* Decimal integers.

\* The recursive function Str exists.
LEMMA StrIs ==
    ASSUME NEW m \in Nat
    PROVE  Str[m] = IF m < 10 THEN <<m>> ELSE Append(Str[m \div 10], m % 10)
<1> DEFINE Upto(n, f) == f = [i \in 0..n |-> IF i < 10 THEN <<i>> ELSE Append(f[i \div 10], i % 10)]
           S == {n \in Nat : \E f : Upto(n, f)}
<1>d. \A i \in Nat : i >= 10 => i \div 10 \in Nat /\ i \div 10 < i
    OBVIOUS
<1>1. 0 \in S
    <2>1. Upto(0, [i \in 0..0 |-> <<0>>])
        <3>1. \A i \in 0..0 : i = 0 /\ i < 10
            OBVIOUS
        <3> QED  BY <3>1
    <2> QED  BY <2>1
<1>2. ASSUME NEW n \in S PROVE n + 1 \in S
    <2>1. PICK f : Upto(n, f)
        OBVIOUS
    <2> DEFINE g == [i \in 0..(n + 1) |-> IF i = n + 1 THEN (IF i < 10 THEN <<i>> ELSE Append(f[i \div 10], i % 10)) ELSE f[i]]
    <2>2. ASSUME NEW i \in 0..(n + 1)
          PROVE  g[i] = IF i < 10 THEN <<i>> ELSE Append(g[i \div 10], i % 10)
        <3>1. i >= 10 => i \div 10 \in 0..n /\ g[i \div 10] = f[i \div 10]
            <4> DEFINE j == i \div 10
            <4>1. i >= 10 => j \in 0..n
                BY <1>d
            <4> HIDE DEF j
            <4>2. i >= 10 => g[j] = f[j]
                BY <4>1
            <4> QED  BY <4>1, <4>2 DEF j
        <3>2. CASE i = n + 1
            BY <3>1, <3>2
        <3>3. CASE i # n + 1
            <4>1. i \in 0..n
                BY <3>3
            <4>2. f[i] = IF i < 10 THEN <<i>> ELSE Append(f[i \div 10], i % 10)
                BY <2>1, <4>1
            <4>3. g[i] = f[i]
                BY <4>1, <3>3
            <4> HIDE DEF g
            <4> QED  BY <3>1, <4>1, <4>2, <4>3
        <3> QED  BY <3>2, <3>3
    <2>3. Upto(n + 1, g)
        BY <2>2
    <2>4. n + 1 \in Nat
        OBVIOUS
    <2> HIDE DEF g
    <2> QED  BY <2>3, <2>4
<1>3. \A n \in Nat : n \in S
    <2>1. S \in SUBSET Nat
        OBVIOUS
    <2> HIDE DEF S
    <2> QED  BY <1>1, <1>2, <2>1, NaturalsOf
<1> DEFINE F == [n \in Nat |-> CHOOSE f : Upto(n, f)]
<1>4. ASSUME NEW n \in Nat PROVE F[n] = [i \in 0..n |-> IF i < 10 THEN <<i>> ELSE Append(F[n][i \div 10], i % 10)]
    <2> DEFINE h == CHOOSE f : Upto(n, f)
    <2>1. \E f : Upto(n, f)
        BY <1>3
    <2>2. Upto(n, h)
        BY <2>1
    <2>3. F[n] = h
        OBVIOUS
    <2> HIDE DEF F, h
    <2> QED  BY <2>2, <2>3
<1> HIDE DEF F
<1> DEFINE Q == {n \in Nat : \A i \in 0..n : \A x, y \in Nat : i <= x /\ i <= y => F[x][i] = F[y][i]}
<1>5. ASSUME NEW i \in Nat, NEW x \in Nat, i <= x
      PROVE  F[x][i] = IF i < 10 THEN <<i>> ELSE Append(F[x][i \div 10], i % 10)
    <2> DEFINE h == F[x]
    <2>1. h = [k \in 0..x |-> IF k < 10 THEN <<k>> ELSE Append(h[k \div 10], k % 10)]
        BY <1>4
    <2>2. i \in 0..x
        BY <1>5
    <2> HIDE DEF h
    <2>3. h[i] = IF i < 10 THEN <<i>> ELSE Append(h[i \div 10], i % 10)
        BY <2>1, <2>2
    <2> QED  BY <2>3 DEF h
<1>6. 0 \in Q
    <2>1. ASSUME NEW i \in 0..0, NEW x \in Nat, NEW y \in Nat PROVE F[x][i] = F[y][i]
        <3>1. i = 0 /\ i < 10 /\ i <= x /\ i <= y /\ i \in Nat
            OBVIOUS
        <3> QED  BY <1>5, <3>1
    <2> QED  BY <2>1
<1>7. ASSUME NEW n \in Q PROVE n + 1 \in Q
    <2>1. ASSUME NEW i \in 0..(n + 1), NEW x \in Nat, NEW y \in Nat, i <= x, i <= y PROVE F[x][i] = F[y][i]
        <3>0. i \in Nat
            OBVIOUS
        <3>1. CASE i # n + 1
            BY <2>1, <3>1
        <3>2. CASE i = n + 1 /\ i < 10
            BY <1>5, <2>1, <3>0, <3>2
        <3>3. CASE i = n + 1 /\ i >= 10
            <4> DEFINE j == i \div 10
            <4>1. j \in 0..n /\ j <= x /\ j <= y
                BY <1>d, <2>1, <3>3
            <4> HIDE DEF j
            <4>2. F[x][j] = F[y][j]
                BY <4>1
            <4>3. F[x][i] = Append(F[x][j], i % 10) /\ F[y][i] = Append(F[y][j], i % 10)
                <5>1. ~(i < 10)
                    BY <3>0, <3>3
                <5>2. F[x][i] = IF i < 10 THEN <<i>> ELSE Append(F[x][i \div 10], i % 10)
                    BY <1>5, <2>1, <3>0
                <5>3. F[y][i] = IF i < 10 THEN <<i>> ELSE Append(F[y][i \div 10], i % 10)
                    BY <1>5, <2>1, <3>0
                <5> QED  BY <5>1, <5>2, <5>3 DEF j
            <4> QED  BY <4>2, <4>3
        <3> QED  BY <3>1, <3>2, <3>3
    <2> QED  BY <2>1
<1>8. \A n \in Nat : n \in Q
    <2>1. Q \in SUBSET Nat
        OBVIOUS
    <2> HIDE DEF Q
    <2> QED  BY <1>6, <1>7, <2>1, NaturalsOf
<1> DEFINE G == [n \in Nat |-> F[n][n]]
           Rule(f) == f = [n \in Nat |-> IF n < 10 THEN <<n>> ELSE Append(f[n \div 10], n % 10)]
<1>9. Rule(G)
    <2>1. ASSUME NEW n \in Nat PROVE G[n] = IF n < 10 THEN <<n>> ELSE Append(G[n \div 10], n % 10)
        <3>1. F[n][n] = IF n < 10 THEN <<n>> ELSE Append(F[n][n \div 10], n % 10)
            BY <1>5
        <3>2. n >= 10 => G[n \div 10] = F[n][n \div 10]
            <4> SUFFICES ASSUME n >= 10 PROVE G[n \div 10] = F[n][n \div 10]
                OBVIOUS
            <4> DEFINE j == n \div 10
            <4>1. j \in Nat /\ j <= n /\ j <= j /\ j \in 0..j
                BY <1>d
            <4> HIDE DEF j
            <4>2. F[j][j] = F[n][j]
                BY <1>8, <4>1
            <4> QED  BY <4>1, <4>2 DEF j
        <3>3. G[n] = F[n][n]
            OBVIOUS
        <3> HIDE DEF G
        <3> QED  BY <3>1, <3>2, <3>3
    <2> QED  BY <2>1
<1>10. Str = CHOOSE f : Rule(f)
    BY DEF Str
<1>11. Rule(Str)
    <2> HIDE DEF G
    <2> QED  BY <1>9, <1>10
<1> QED  BY <1>11

\* The decimal digits of a number are the digits of that number.
LEMMA StrFacts ==
    ASSUME NEW m \in Nat
    PROVE  Str[m] \in Seq(0..9) /\ Str[m] # <<>> /\ IntOf(Str[m]) = m
<1> DEFINE Good(k) == Str[k] \in Seq(0..9) /\ Str[k] # <<>> /\ IntOf(Str[k]) = k
           S == {n \in Nat : \A k \in 0..n : Good(k)}
<1>1. ASSUME NEW k \in Nat, k < 10 PROVE Good(k)
    <2>1. Str[k] = <<k>>
        BY <1>1, StrIs
    <2>2. <<k>> = Append(<<>>, k) /\ <<>> \in Seq(Nat) /\ k \in 0..9
        BY <1>1
    <2>3. IntOf(Append(<<>>, k)) = 10 * 0 + k
        BY <2>2, IntAppend, IntNone
    <2> QED  BY <2>1, <2>2, <2>3
<1>2. 0 \in S
    <2>1. \A k \in 0..0 : k \in Nat /\ k < 10
        OBVIOUS
    <2> HIDE DEF Good
    <2> QED  BY <1>1, <2>1
<1>3. ASSUME NEW n \in S PROVE n + 1 \in S
    <2>1. ASSUME NEW k \in 0..(n + 1) PROVE Good(k)
        <3>1. CASE k # n + 1
            <4>1. k \in 0..n
                BY <3>1
            <4> QED  BY <4>1
        <3>2. CASE k < 10
            BY <1>1, <3>2
        <3>3. CASE k = n + 1 /\ k >= 10
            <4> DEFINE j == k \div 10
                       d == k % 10
            <4>1. j \in 0..n /\ d \in 0..9 /\ d \in Nat /\ k = 10 * j + d
                BY <3>3
            <4>2. Str[k] = Append(Str[j], d)
                <5>1. k \in Nat /\ ~(k < 10)
                    BY <3>3
                <5> QED  BY <5>1, StrIs
            <4> HIDE DEF j, d
            <4>3. Str[j] \in Seq(0..9) /\ IntOf(Str[j]) = j
                BY <4>1
            <4>4. Str[j] \in Seq(Nat)
                BY <4>3
            <4>5. IntOf(Append(Str[j], d)) = 10 * j + d
                BY <4>1, <4>3, <4>4, IntAppend
            <4>6. Append(Str[j], d) \in Seq(0..9) /\ Append(Str[j], d) # <<>>
                BY <4>1, <4>3
            <4> QED  BY <4>1, <4>2, <4>5, <4>6
        <3> QED  BY <3>1, <3>2, <3>3
    <2>2. n + 1 \in Nat
        OBVIOUS
    <2> HIDE DEF Good
    <2> QED  BY <2>1, <2>2
<1>4. m \in S
    <2>1. S \in SUBSET Nat
        OBVIOUS
    <2> HIDE DEF S
    <2> QED  BY <1>2, <1>3, <2>1, NaturalsOf
<1>5. m \in 0..m
    OBVIOUS
<1> QED  BY <1>4, <1>5

\* The digits of q that count are those from a to b.
Counts(q, a, b) ==
    /\ a \in DOMAIN q /\ b \in DOMAIN q /\ a <= b /\ q[a] # 0 /\ q[b] # 0
    /\ \A i \in DOMAIN q : q[i] # 0 => a <= i /\ i <= b

Rounded(neg, digits, n) ==
    IF n < -MinPoint THEN [finite |-> TRUE, value |-> Zero(neg)]
    ELSE IF n > MaxPoint THEN [finite |-> FALSE, value |-> Zero(neg)]
    ELSE [finite |-> TRUE, value |-> [neg |-> neg, digits |-> digits, point |-> n]]

FloatOf(neg, q, p, a, b) == Float(neg, q, p) = Rounded(neg, SubSeq(q, a, b), p - (a - 1))

\* Float drops the zeros around the digits that count,
LEMMA FloatIs ==
    ASSUME NEW neg \in BOOLEAN, NEW q \in Seq(0..9), NEW p \in Int, NEW a, NEW b, Counts(q, a, b)
    PROVE  FloatOf(neg, q, p, a, b)
<1> DEFINE used == {i \in DOMAIN q : q[i] # 0}
           A == CHOOSE i \in used : \A j \in used : i <= j
           B == CHOOSE i \in used : \A j \in used : i >= j
<1>1. used \in SUBSET Nat /\ a \in used /\ b \in used /\ \A i \in used : a <= i /\ i <= b
    BY DEF Counts
<1> HIDE DEF used
<1>2. A = a
    <2>1. ASSUME NEW i \in used, \A j \in used : i <= j PROVE i = a
        BY <1>1, <2>1
    <2> QED  BY <1>1, <2>1
<1>3. B = b
    <2>1. ASSUME NEW i \in used, \A j \in used : i >= j PROVE i = b
        BY <1>1, <2>1
    <2>2. \A j \in used : b >= j
        BY <1>1
    <2> QED  BY <1>1, <2>1, <2>2
<1>4. used # {}
    BY <1>1
<1>5. Float(neg, q, p) =
        IF used = {} \/ p - (A - 1) < -MinPoint THEN [finite |-> TRUE, value |-> Zero(neg)]
        ELSE IF p - (A - 1) > MaxPoint THEN [finite |-> FALSE, value |-> Zero(neg)]
        ELSE [finite |-> TRUE, value |-> [neg |-> neg, digits |-> SubSeq(q, A, B), point |-> p - (A - 1)]]
    BY DEF Float, used
<1> HIDE DEF A, B
<1> QED  BY <1>2, <1>3, <1>4, <1>5 DEF Rounded, FloatOf

\* and is zero if none counts.
LEMMA FloatNone ==
    ASSUME NEW neg, NEW q, NEW p, \A i \in DOMAIN q : q[i] = 0
    PROVE  Float(neg, q, p) = [finite |-> TRUE, value |-> Zero(neg)]
<1>1. {i \in DOMAIN q : q[i] # 0} = {}
    OBVIOUS
<1> QED  BY <1>1 DEF Float

\* If a digit is not zero there are digits that count.
LEMMA CountsFound ==
    ASSUME NEW q \in Seq(0..9), ~\A i \in DOMAIN q : q[i] = 0
    PROVE  \E a, b \in Nat \ {0} : Counts(q, a, b)
<1> DEFINE used == {i \in DOMAIN q : q[i] # 0}
           n == Len(q)
<1>1. n \in Nat /\ used \in SUBSET Nat /\ used # {} /\ used \in SUBSET (0..n) /\ used \in SUBSET (1..n)
    OBVIOUS
<1>2. \A i \in used : i \in DOMAIN q /\ q[i] # 0 /\ i \in Nat \ {0}
    OBVIOUS
<1>3. \A i \in DOMAIN q : q[i] # 0 => i \in used
    OBVIOUS
<1> HIDE DEF used, n
<1>4. PICK a \in used : \A y \in used : a <= y
    BY <1>1, LeastOf
<1>5. PICK b \in used : \A y \in used : y <= b
    BY <1>1, GreatestOf
<1>6. Counts(q, a, b)
    BY <1>2, <1>3, <1>4, <1>5 DEF Counts
<1> QED  BY <1>2, <1>6

\* What a reader makes of a number.
IsValue(f) ==
    /\ f = [neg |-> f.neg, digits |-> f.digits, point |-> f.point]
    /\ f.neg \in BOOLEAN /\ f.digits \in Seq(0..9) /\ f.point \in Int
    /\ f.digits = <<>> => f = Zero(f.neg)
    /\ f.digits # <<>> => /\ f.digits[1] # 0 /\ f.digits[Len(f.digits)] # 0
                          /\ -MinPoint <= f.point /\ f.point <= MaxPoint

\* Float gives a value with no zeros at its ends.
LEMMA FloatValue ==
    ASSUME NEW neg \in BOOLEAN, NEW q \in Seq(0..9), NEW p \in Int
    PROVE  LET f == Float(neg, q, p) IN IsValue(f.value) /\ f.value.neg = neg /\ f.finite \in BOOLEAN
<1>0. MinPoint \in Nat /\ MaxPoint \in Nat
    BY ScalarAssumption
<1>z. IsValue(Zero(neg)) /\ Zero(neg).neg = neg
    <2>1. Zero(neg) = [neg |-> neg, digits |-> <<>>, point |-> 0]
        BY DEF Zero
    <2>2. <<>> \in Seq(0..9)
        OBVIOUS
    <2> QED  BY <2>1, <2>2 DEF IsValue
<1>1. CASE \A i \in DOMAIN q : q[i] = 0
    <2>1. Float(neg, q, p) = [finite |-> TRUE, value |-> Zero(neg)]
        BY <1>1, FloatNone
    <2> QED  BY <1>z, <2>1
<1>2. CASE ~\A i \in DOMAIN q : q[i] = 0
    <2>1. PICK a, b \in Nat \ {0} : Counts(q, a, b)
        BY <1>2, CountsFound
    <2> DEFINE d == SubSeq(q, a, b)
               n == p - (a - 1)
               v == [neg |-> neg, digits |-> d, point |-> n]
    <2>2. Float(neg, q, p) = Rounded(neg, d, n)
        <3>1. FloatOf(neg, q, p, a, b)
            BY <2>1, FloatIs
        <3> QED  BY <3>1 DEF FloatOf
    <2>3. n \in Int
        OBVIOUS
    <2>4. a <= b /\ b <= Len(q) /\ q[a] # 0 /\ q[b] # 0
        BY <2>1 DEF Counts
    <2>5. d \in Seq(0..9) /\ Len(d) = b - a + 1 /\ \A i \in 1..Len(d) : d[i] = q[a + i - 1]
        <3> HIDE DEF n, v
        <3>1. q \in Seq(0..9) /\ a \in Nat \ {0} /\ b \in Nat /\ b <= Len(q)
            BY <2>4
        <3> QED  BY <2>4, <3>1, SubAt
    <2> HIDE DEF d, n
    <2>6. Len(d) \in 1..Len(d) /\ 1 \in 1..Len(d) /\ a + Len(d) - 1 = b /\ a + 1 - 1 = a
        BY <2>4, <2>5
    <2>7. d[1] = q[a + 1 - 1] /\ d[Len(d)] = q[a + Len(d) - 1] /\ d # <<>>
        BY <2>5, <2>6
    <2>8. d[1] # 0 /\ d[Len(d)] # 0
        BY <2>4, <2>6, <2>7
    <2>9. v.neg = neg /\ v.digits = d /\ v.point = n
        OBVIOUS
    <2>10. -MinPoint <= n /\ n <= MaxPoint => IsValue(v)
        <3>1. v = [neg |-> v.neg, digits |-> v.digits, point |-> v.point]
            OBVIOUS
        <3> HIDE DEF v
        <3> QED  BY <2>3, <2>5, <2>7, <2>8, <2>9, <3>1 DEF IsValue
    <2>11. CASE n < -MinPoint
        <3>1. Float(neg, q, p) = [finite |-> TRUE, value |-> Zero(neg)]
            BY <2>2, <2>11 DEF Rounded
        <3> QED  BY <1>z, <3>1
    <2>12. CASE ~(n < -MinPoint) /\ n > MaxPoint
        <3>1. Float(neg, q, p) = [finite |-> FALSE, value |-> Zero(neg)]
            BY <2>2, <2>12 DEF Rounded
        <3> QED  BY <1>z, <3>1
    <2>13. CASE ~(n < -MinPoint) /\ ~(n > MaxPoint)
        <3>1. Float(neg, q, p) = [finite |-> TRUE, value |-> v]
            BY <2>2, <2>13 DEF Rounded
        <3>2. -MinPoint <= n /\ n <= MaxPoint
            BY <1>0, <2>3, <2>13
        <3> HIDE DEF v
        <3> QED  BY <2>9, <2>10, <3>1, <3>2
    <2> QED  BY <2>11, <2>12, <2>13
<1> QED  BY <1>1, <1>2

\* A number in front of the readers.
LEMMA ScanParts ==
    ASSUME NEW s \in Seq(Int), ScanNumber(s).ok
    PROVE  LET n == ScanNumber(s) IN
           n.int \in Seq(0..9) /\ n.frac \in Seq(0..9) /\ n.exp \in Seq(Nat) /\ n.sign \in {-1, 1}
<1> DEFINE a == I0(s)
           b == I1(s)
           c == I2(s)
           e == E0(s)
<1>1. Marks(s, a, b, c, e)
    BY ScanMarks
<1> HIDE DEF a, b, c, e
<1>2. ScanNumber(s) =
        [ok |-> TRUE, int |-> SubSeq(s, a, b - 1), frac |-> SubSeq(s, b + 1, c - 1),
         sign |-> IF At(s, c + 1, {Minus}) THEN -1 ELSE 1, exp |-> SubSeq(s, e, Len(s))]
    BY <1>1, ScanIs
<1>3. ASSUME NEW x \in Nat \ {0}, NEW y \in Nat, y <= Len(s), \A i \in x..y : s[i] \in 0..9
      PROVE  SubSeq(s, x, y) \in Seq(0..9) /\ SubSeq(s, x, y) \in Seq(Nat)
    <2>1. x \in Int /\ y \in Int
        OBVIOUS
    <2>2. SubSeq(s, x, y) \in Seq(0..9)
        BY <1>3, <2>1, SubSeqProperties
    <2>3. SubSeq(s, x, y) \in Seq(Nat)
        BY <1>3, <2>1, SubSeqProperties
    <2> QED  BY <2>2, <2>3
<1>4. SubSeq(s, a, b - 1) \in Seq(0..9)
    <2>1. a \in Nat \ {0} /\ b - 1 \in Nat /\ b - 1 <= Len(s) /\ \A i \in a..(b - 1) : s[i] \in 0..9
        BY <1>1 DEF Marks
    <2> QED  BY <1>3, <2>1
<1>5. SubSeq(s, b + 1, c - 1) \in Seq(0..9)
    <2>1. b + 1 \in Nat \ {0} /\ c - 1 \in Nat /\ c - 1 <= Len(s)
        BY <1>1 DEF Marks
    <2>2. \A i \in (b + 1)..(c - 1) : s[i] \in 0..9
        BY <1>1 DEF Marks
    <2> QED  BY <1>3, <2>1, <2>2
<1>6. SubSeq(s, e, Len(s)) \in Seq(Nat)
    <2>1. e \in Nat \ {0} /\ Len(s) \in Nat /\ \A i \in e..Len(s) : s[i] \in 0..9
        BY <1>1 DEF Marks
    <2> QED  BY <1>3, <2>1
<1> QED  BY <1>2, <1>4, <1>5, <1>6

\* The value of digits is a natural number.
LEMMA IntNat ==
    ASSUME NEW q \in Seq(Nat)
    PROVE  IntOf(q) \in Nat
    BY IntAppend

\* The two readers of numbers are the same, and take exactly the numbers of the
\* grammar in range that are not negative zeros.
LEMMA ReadersAgree ==
    ASSUME NEW s \in Seq(Int)
    PROVE  /\ PyNumber(s) = GoNumber(s)
           /\ PyNumber(s).ok <=> /\ IsNumber(s) /\ ParseFloat(s).finite
                                 /\ s[1] = Minus => ParseFloat(s).value.digits # <<>>
           /\ PyNumber(s).ok => /\ PyNumber(s) = [ok |-> TRUE, value |-> ParseFloat(s).value]
                                /\ IsValue(ParseFloat(s).value)
                                /\ ParseFloat(s).value.digits = <<>> => ParseFloat(s).value = Zero(FALSE)
<1> DEFINE f == ParseFloat(s)
           minus == s[1] = Minus
           ok == ScanNumber(s).ok
<1>1. ok <=> IsNumber(s)
    BY NumberScans
<1>2. PyNumber(s) = IF ~ok \/ ~f.finite \/ (f.value.digits = <<>> /\ minus) THEN Refused ELSE [ok |-> TRUE, value |-> f.value]
    BY DEF PyNumber
<1>3. GoNumber(s) = IF ~ok \/ ~f.finite \/ f.value = Zero(TRUE) THEN Refused ELSE [ok |-> TRUE, value |-> f.value]
    BY DEF GoNumber
<1>4. ok => IsValue(f.value) /\ f.value.neg = minus
    <2> SUFFICES ASSUME ok PROVE IsValue(f.value) /\ f.value.neg = minus
        OBVIOUS
    <2> DEFINE n == ScanNumber(s)
               q == n.int \o n.frac
               p == Len(n.int) + n.sign * IntOf(n.exp)
    <2>1. n.int \in Seq(0..9) /\ n.frac \in Seq(0..9) /\ n.exp \in Seq(Nat) /\ n.sign \in {-1, 1}
        BY ScanParts
    <2>2. f = Float(minus, q, p)
        BY DEF ParseFloat
    <2> HIDE DEF n
    <2>3. q \in Seq(0..9) /\ IntOf(n.exp) \in Nat
        BY <2>1, IntNat
    <2>4. p \in Int
        BY <2>1, <2>3
    <2>5. minus \in BOOLEAN
        OBVIOUS
    <2> HIDE DEF p, q, f, minus
    <2> QED  BY <2>2, <2>3, <2>4, <2>5, FloatValue
<1>5. Refused.ok = FALSE /\ Zero(TRUE).digits = <<>> /\ Zero(TRUE).neg = TRUE
    BY DEF Refused, Zero
<1>6. minus \in BOOLEAN
    OBVIOUS
<1> HIDE DEF f, minus, ok
<1>7. ok => (f.value = Zero(TRUE) <=> f.value.digits = <<>> /\ minus)
    BY <1>4, <1>5, <1>6 DEF IsValue
<1>8. PyNumber(s) = GoNumber(s)
    <2>1. CASE ok
        <3>1. f.value = Zero(TRUE) <=> f.value.digits = <<>> /\ minus
            BY <1>7, <2>1
        <3>2. CASE f.value = Zero(TRUE)
            BY <1>2, <1>3, <3>1, <3>2
        <3>3. CASE f.value # Zero(TRUE)
            <4>1. CASE f.finite
                BY <1>2, <1>3, <2>1, <3>1, <3>3, <4>1
            <4>2. CASE ~f.finite
                BY <1>2, <1>3, <4>2
            <4> QED  BY <4>1, <4>2
        <3> QED  BY <3>2, <3>3
    <2>2. CASE ~ok
        BY <1>2, <1>3, <2>2
    <2> QED  BY <2>1, <2>2
<1>9. PyNumber(s).ok <=> ok /\ f.finite /\ (minus => f.value.digits # <<>>)
    BY <1>2, <1>5
<1>10. PyNumber(s).ok => PyNumber(s) = [ok |-> TRUE, value |-> f.value] /\ IsValue(f.value)
    BY <1>2, <1>4, <1>5
<1>11. PyNumber(s).ok /\ f.value.digits = <<>> => f.value = Zero(FALSE)
    BY <1>4, <1>6, <1>9 DEF IsValue
<1> QED  BY <1>1, <1>8, <1>9, <1>10, <1>11 DEF f, minus

\* Zeros are zeros.
LEMMA ZerosAre ==
    ASSUME NEW m \in Nat
    PROVE  Zeros(m) \in Seq(0..9) /\ Len(Zeros(m)) = m /\ \A i \in 1..m : Zeros(m)[i] = 0
    BY DEF Zeros

\* q is a and then b.
Joins(q, a, b) ==
    /\ Len(a) \in Nat /\ Len(b) \in Nat /\ Len(q) = Len(a) + Len(b)
    /\ \A i \in 1..Len(a) : q[i] = a[i]
    /\ \A i \in 1..Len(b) : q[Len(a) + i] = b[i]

\* A concatenation is the one and then the other.
LEMMA JoinAt ==
    ASSUME NEW T, NEW a \in Seq(T), NEW b \in Seq(T)
    PROVE  a \o b \in Seq(T) /\ Joins(a \o b, a, b)
    BY DEF Joins

\* RStrip ends at the last digit that is not zero.
LEMMA RStripIs ==
    ASSUME NEW q \in Seq(0..9), NEW k \in DOMAIN q, q[k] # 0, \A i \in DOMAIN q : i > k => q[i] = 0
    PROVE  RStrip(q) = SubSeq(q, 1, k)
<1> DEFINE ends == {0} \cup {i \in DOMAIN q : q[i] # 0}
           B == CHOOSE i \in ends : \A j \in ends : i >= j
<1>1. ends \in SUBSET Nat /\ k \in ends /\ k \in Nat
    OBVIOUS
<1>2. \A j \in ends : k >= j
    OBVIOUS
<1>3. RStrip(q) = SubSeq(q, 1, B)
    BY DEF RStrip
<1> HIDE DEF ends
<1>4. B = k
    <2>1. ASSUME NEW i \in ends, \A j \in ends : i >= j PROVE i = k
        BY <1>1, <1>2, <2>1
    <2> QED  BY <1>1, <1>2, <2>1
<1> QED  BY <1>3, <1>4

\* The part that is the whole.
LEMMA WholeSub ==
    ASSUME NEW T, NEW q \in Seq(T)
    PROVE  SubSeq(q, 1, Len(q)) = q
    OBVIOUS

\* The digits of a value, and the zeros around them.
Significant(d) == d \in Seq(0..9) /\ d # <<>> /\ d[1] # 0 /\ d[Len(d)] # 0

\* RStrip takes the zeros behind significant digits,
LEMMA RStripRight ==
    ASSUME NEW d, Significant(d), NEW m \in Nat
    PROVE  RStrip(d \o Zeros(m)) = d /\ RStrip(d) = d
<1> DEFINE z == Zeros(m)
           q == d \o z
           k == Len(d)
<1>0. d \in Seq(0..9) /\ k \in Nat /\ k # 0 /\ DOMAIN d = 1..k /\ d[k] # 0
    BY DEF Significant
<1>1. z \in Seq(0..9) /\ Len(z) = m /\ \A i \in 1..m : z[i] = 0
    BY ZerosAre
<1> HIDE DEF z
<1>2. q \in Seq(0..9) /\ Len(q) = k + m /\ (\A i \in 1..k : q[i] = d[i]) /\ \A i \in 1..m : q[k + i] = z[i]
    <2>1. q \in Seq(0..9) /\ Len(q) = k + Len(z) /\ (\A i \in 1..k : q[i] = d[i]) /\ \A i \in 1..Len(z) : q[k + i] = z[i]
        <3>1. q \in Seq(0..9) /\ Joins(q, d, z)
            BY <1>0, <1>1, JoinAt
        <3> HIDE DEF q
        <3> QED  BY <3>1 DEF Joins
    <2> HIDE DEF q
    <2> QED  BY <1>1, <2>1
<1> HIDE DEF q
<1>3. \A i \in DOMAIN q : i > k => q[i] = 0
    <2> SUFFICES ASSUME NEW i \in 1..(k + m), i > k PROVE q[i] = 0
        BY <1>2
    <2>1. i - k \in 1..m /\ k + (i - k) = i
        BY <1>0
    <2>2. q[k + (i - k)] = z[i - k]
        BY <1>2, <2>1
    <2> QED  BY <1>1, <2>1, <2>2
<1>4. k \in DOMAIN q /\ q[k] # 0
    BY <1>0, <1>2
<1>5. RStrip(q) = SubSeq(q, 1, k)
    BY <1>2, <1>3, <1>4, RStripIs
<1>6. SubSeq(q, 1, k) = d
    <2> DEFINE r == SubSeq(q, 1, k)
    <2>1. r \in Seq(0..9) /\ Len(r) = k /\ \A i \in 1..k : r[i] = q[1 + i - 1]
        <3>1. 1 \in Nat \ {0} /\ k \in Nat /\ k <= Len(q) /\ 1 <= k /\ k - 1 + 1 = k
            BY <1>0, <1>2
        <3>2. r \in Seq(0..9) /\ (1 <= k => Len(r) = k - 1 + 1) /\ \A i \in 1..Len(r) : r[i] = q[1 + i - 1]
            BY <1>2, <3>1, SubAt
        <3> QED  BY <3>1, <3>2
    <2> HIDE DEF r
    <2>2. \A i \in 1..k : r[i] = d[i]
        <3>1. \A i \in 1..k : 1 + i - 1 = i
            BY <1>0
        <3> QED  BY <1>2, <2>1, <3>1
    <2>3. r = d
        BY <1>0, <2>1, <2>2, SameElements
    <2> QED  BY <2>3 DEF r
<1>7. RStrip(d) = d
    <2>1. k \in DOMAIN d /\ \A i \in DOMAIN d : i > k => d[i] = 0
        BY <1>0
    <2>2. RStrip(d) = SubSeq(d, 1, k)
        BY <1>0, <2>1, RStripIs
    <2> QED  BY <1>0, <2>2, WholeSub
<1> QED  BY <1>5, <1>6, <1>7 DEF q, z

\* and leaves what is before them.
LEMMA RStripLeft ==
    ASSUME NEW d, Significant(d), NEW e \in Seq(0..9)
    PROVE  RStrip(e \o d) = e \o d
<1> DEFINE q == e \o d
           k == Len(d)
           m == Len(e)
<1>0. d \in Seq(0..9) /\ k \in Nat /\ k # 0 /\ d[k] # 0
    BY DEF Significant
<1>1. q \in Seq(0..9) /\ m \in Nat /\ Len(q) = m + k /\ \A i \in 1..k : q[m + i] = d[i]
    <2>1. q \in Seq(0..9) /\ Joins(q, e, d)
        BY <1>0, JoinAt
    <2> HIDE DEF q
    <2> QED  BY <1>0, <2>1 DEF Joins
<1> HIDE DEF q
<1>2. m + k \in DOMAIN q /\ q[m + k] # 0 /\ \A i \in DOMAIN q : i > m + k => q[i] = 0
    BY <1>0, <1>1
<1>3. RStrip(q) = SubSeq(q, 1, m + k)
    BY <1>1, <1>2, RStripIs
<1>4. SubSeq(q, 1, Len(q)) = q
    BY <1>1, WholeSub
<1> QED  BY <1>1, <1>3, <1>4 DEF q

-----------------------------------------------------------------------------
\* The four forms of a spelling, for digits d and a point after n of them.
Whole(d, n)   == d \o Zeros(n - Len(d))
Split(d, n)   == SubSeq(d, 1, n) \o <<Dot>> \o SubSeq(d, n + 1, Len(d))
Small(d, n)   == <<0, Dot>> \o Zeros(-n) \o d
Science(d, n) == (IF Len(d) = 1 THEN d ELSE <<d[1], Dot>> \o Tail(d))
                   \o (IF n >= 1 THEN <<Exp, Plus>> \o Str[n - 1] ELSE <<Exp, Minus>> \o Str[1 - n])
Form(d, n) ==
    IF n \in 1..21 THEN (IF Len(d) <= n THEN Whole(d, n) ELSE Split(d, n))
    ELSE IF n \in -5..0 THEN Small(d, n)
    ELSE Science(d, n)
SignOf(f) == IF f.neg THEN <<Minus>> ELSE <<>>

\* Layout of jcs.py writes one of the forms.
LEMMA LayoutForm ==
    ASSUME NEW d, Significant(d), NEW n \in Int
    PROVE  Layout(d, n) = Form(d, n)
<1> DEFINE k == Len(d)
<1>0. k \in Nat /\ k # 0
    BY DEF Significant
<1> HIDE DEF k
<1>1. CASE n \in 1..21 /\ k <= n
    BY <1>0, <1>1 DEF Layout, Form, Whole, k
<1>2. CASE n \in 1..21 /\ k > n
    <2>1. ~(k <= n) /\ n \notin -5..0
        BY <1>0, <1>2
    <2>2. Layout(d, n) = SubSeq(d, 1, n) \o <<Dot>> \o SubSeq(d, n + 1, k)
        BY <1>2, <2>1 DEF Layout, k
    <2> QED  BY <1>2, <2>1, <2>2 DEF Form, Split, k
<1>3. CASE n \in -5..0
    <2>1. n \notin 1..21
        BY <1>3
    <2> QED  BY <1>3, <2>1 DEF Layout, Form, Small, k
<1>4. CASE n \notin 1..21 /\ n \notin -5..0
    BY <1>4 DEF Layout, Form, Science, k
<1> QED  BY <1>0, <1>1, <1>2, <1>3, <1>4

\* A sequence cut in two.
LEMMA SplitJoin ==
    ASSUME NEW T, NEW d \in Seq(T), NEW n \in Nat, n <= Len(d)
    PROVE  /\ SubSeq(d, 1, n) \o SubSeq(d, n + 1, Len(d)) = d
           /\ SubSeq(d, 1, n) \in Seq(T) /\ SubSeq(d, n + 1, Len(d)) \in Seq(T)
           /\ Len(SubSeq(d, 1, n)) = n /\ Len(SubSeq(d, n + 1, Len(d))) = Len(d) - n
           /\ \A i \in 1..n : SubSeq(d, 1, n)[i] = d[i]
           /\ \A i \in 1..(Len(d) - n) : SubSeq(d, n + 1, Len(d))[i] = d[n + i]
<1> DEFINE k == Len(d)
           a == SubSeq(d, 1, n)
           b == SubSeq(d, n + 1, k)
           q == a \o b
<1>0. k \in Nat /\ n + 1 \in Nat \ {0} /\ 1 \in Nat \ {0}
    OBVIOUS
<1>1. a \in Seq(T) /\ Len(a) = n /\ \A i \in 1..n : a[i] = d[i]
    <2>1. a \in Seq(T) /\ (1 <= n => Len(a) = n - 1 + 1) /\ (1 > n => Len(a) = 0) /\ \A i \in 1..Len(a) : a[i] = d[1 + i - 1]
        BY <1>0, SubAt
    <2> HIDE DEF a
    <2>2. Len(a) = n
        BY <2>1
    <2>3. \A i \in 1..n : 1 + i - 1 = i
        OBVIOUS
    <2> QED  BY <2>1, <2>2, <2>3
<1>2. b \in Seq(T) /\ Len(b) = k - n /\ \A i \in 1..(k - n) : b[i] = d[n + i]
    <2>1. b \in Seq(T) /\ (n + 1 <= k => Len(b) = k - (n + 1) + 1) /\ (n + 1 > k => Len(b) = 0) /\ \A i \in 1..Len(b) : b[i] = d[n + 1 + i - 1]
        BY <1>0, SubAt
    <2> HIDE DEF b, k
    <2>2. Len(b) = k - n
        BY <1>0, <2>1 DEF k
    <2>3. \A i \in 1..(k - n) : n + 1 + i - 1 = n + i
        OBVIOUS
    <2> QED  BY <2>1, <2>2, <2>3
<1> HIDE DEF a, b
<1>3. q \in Seq(T) /\ Joins(q, a, b)
    BY <1>1, <1>2, JoinAt
<1> HIDE DEF q
<1>4. Len(q) = k
    BY <1>0, <1>1, <1>2, <1>3 DEF Joins
<1>5. ASSUME NEW i \in 1..k PROVE q[i] = d[i]
    <2>1. CASE i <= n
        BY <1>1, <1>3, <2>1 DEF Joins
    <2>2. CASE i > n
        <3>1. i - n \in 1..(k - n) /\ n + (i - n) = i
            BY <1>0, <2>2
        <3>2. q[n + (i - n)] = b[i - n]
            BY <1>1, <1>2, <1>3, <3>1 DEF Joins
        <3>3. b[i - n] = d[n + (i - n)]
            BY <1>2, <3>1
        <3> QED  BY <3>1, <3>2, <3>3
    <2> QED  BY <1>0, <2>1, <2>2
<1>6. q = d
    BY <1>3, <1>4, <1>5, SameElements
<1> QED  BY <1>1, <1>2, <1>6 DEF q, a, b

\* A sequence behind one element.
LEMMA ConsSub ==
    ASSUME NEW T, NEW x \in T, NEW w \in Seq(T)
    PROVE  LET q == <<x>> \o w IN
           q \in Seq(T) /\ Len(q) = Len(w) + 1 /\ SubSeq(q, 1, 1) = <<x>> /\ SubSeq(q, 2, Len(q)) = w
<1> DEFINE o == <<x>>
           q == o \o w
<1>0. o \in Seq(T) /\ Len(o) = 1 /\ o[1] = x
    OBVIOUS
<1> HIDE DEF o
<1>1. q \in Seq(T) /\ Joins(q, o, w)
    BY <1>0, JoinAt
<1> HIDE DEF q
<1>2. Len(q) = Len(w) + 1 /\ Len(w) \in Nat /\ q[1] = x /\ \A i \in 1..Len(w) : q[1 + i] = w[i]
    BY <1>0, <1>1 DEF Joins
<1>3. /\ SubSeq(q, 1, 1) \in Seq(T) /\ Len(SubSeq(q, 1, 1)) = 1 /\ (\A i \in 1..1 : SubSeq(q, 1, 1)[i] = q[i])
      /\ SubSeq(q, 1 + 1, Len(q)) \in Seq(T) /\ Len(SubSeq(q, 1 + 1, Len(q))) = Len(q) - 1
      /\ \A i \in 1..(Len(q) - 1) : SubSeq(q, 1 + 1, Len(q))[i] = q[1 + i]
    <2>1. 1 \in Nat /\ 1 <= Len(q)
        BY <1>2
    <2> QED  BY <1>1, <2>1, SplitJoin
<1>4. SubSeq(q, 1, 1) = o
    BY <1>0, <1>2, <1>3, SameElements
<1>5. SubSeq(q, 1 + 1, Len(q)) = w
    <2> DEFINE r == SubSeq(q, 1 + 1, Len(q))
    <2>1. r \in Seq(T) /\ Len(r) = Len(w) /\ \A i \in 1..Len(w) : r[i] = w[i]
        BY <1>2, <1>3
    <2> HIDE DEF r
    <2>2. r = w
        BY <2>1, SameElements
    <2> QED  BY <2>2 DEF r
<1>6. 1 + 1 = 2
    OBVIOUS
<1> QED  BY <1>1, <1>2, <1>4, <1>5, <1>6 DEF q, o

\* A sequence is its first element and the rest.
LEMMA HeadTail ==
    ASSUME NEW T, NEW d \in Seq(T), d # <<>>
    PROVE  /\ <<d[1]>> \o Tail(d) = d /\ Tail(d) \in Seq(T) /\ d[1] \in T
           /\ SubSeq(d, 1, 1) = <<d[1]>> /\ (Len(d) = 1 => d = <<d[1]>>)
<1>1. Len(d) \in Nat /\ 1 <= Len(d) /\ d[1] \in T /\ Tail(d) \in Seq(T)
    OBVIOUS
<1>2. (Len(d) = 1 => d = <<d[1]>>) /\ SubSeq(d, 1, 1) = <<d[1]>>
    <2>1. <<d[1]>> \in Seq(T) /\ Len(<<d[1]>>) = 1 /\ <<d[1]>>[1] = d[1]
        BY <1>1
    <2>2. SubSeq(d, 1, 1) \in Seq(T) /\ Len(SubSeq(d, 1, 1)) = 1 /\ (\A i \in 1..1 : SubSeq(d, 1, 1)[i] = d[i])
        <3>1. 1 \in Nat
            OBVIOUS
        <3> QED  BY <1>1, <3>1, SplitJoin
    <2> DEFINE o == <<d[1]>>
               r == SubSeq(d, 1, 1)
    <2> HIDE DEF o, r
    <2>3. o \in Seq(T) /\ Len(o) = 1 /\ o[1] = d[1]
        BY <2>1 DEF o
    <2>4. r \in Seq(T) /\ Len(r) = 1 /\ r[1] = d[1]
        BY <2>2 DEF r
    <2>5. r = o
        BY <2>3, <2>4, SameElements
    <2>6. Len(d) = 1 => d = o
        BY <2>3, SameElements
    <2> QED  BY <2>5, <2>6 DEF o, r
<1>3. <<d[1]>> \o Tail(d) = d
    <2> DEFINE o == <<d[1]>>
               t == Tail(d)
               q == o \o t
    <2>1. o \in Seq(T) /\ Len(o) = 1 /\ o[1] = d[1]
        BY <1>1
    <2>2. t \in Seq(T) /\ Len(t) = Len(d) - 1 /\ \A i \in 1..(Len(d) - 1) : t[i] = d[i + 1]
        OBVIOUS
    <2> HIDE DEF o, t
    <2>3. q \in Seq(T) /\ Joins(q, o, t)
        BY <2>1, <2>2, JoinAt
    <2> HIDE DEF q
    <2>4. ASSUME NEW i \in 1..Len(d) PROVE q[i] = d[i]
        <3>1. CASE i = 1
            BY <2>1, <2>3, <3>1 DEF Joins
        <3>2. CASE i # 1
            <4>1. i - 1 \in 1..(Len(d) - 1) /\ 1 + (i - 1) = i /\ (i - 1) + 1 = i
                BY <1>1, <3>2
            <4>2. q[1 + (i - 1)] = t[i - 1]
                BY <2>1, <2>2, <2>3, <4>1 DEF Joins
            <4>3. t[i - 1] = d[(i - 1) + 1]
                BY <2>2, <4>1
            <4> QED  BY <4>1, <4>2, <4>3
        <3> QED  BY <3>1, <3>2
    <2>5. Len(q) = Len(d)
        BY <1>1, <2>1, <2>2, <2>3 DEF Joins
    <2>6. q = d
        BY <2>3, <2>4, <2>5, SameElements
    <2> QED  BY <2>6 DEF q, o, t
<1> QED  BY <1>1, <1>2, <1>3

\* Two elements, one after the other.
LEMMA TwoOf ==
    ASSUME NEW x \in Int, NEW y \in Int
    PROVE  <<x>> \o <<y>> = <<x, y>>
<1> DEFINE a == <<x>>
           b == <<y>>
           l == a \o b
           r == <<x, y>>
<1>1. a \in Seq(Int) /\ b \in Seq(Int) /\ Len(a) = 1 /\ Len(b) = 1 /\ a[1] = x /\ b[1] = y
    OBVIOUS
<1>2. r \in Seq(Int) /\ Len(r) = 2 /\ r[1] = x /\ r[2] = y
    OBVIOUS
<1> HIDE DEF a, b, r
<1>3. l \in Seq(Int) /\ Joins(l, a, b)
    BY <1>1, JoinAt
<1> HIDE DEF l
<1>4. Len(l) = 2 /\ l[1] = x /\ l[2] = y
    BY <1>1, <1>3 DEF Joins
<1>5. \A i \in 1..2 : i = 1 \/ i = 2
    OBVIOUS
<1>6. l = r
    BY <1>2, <1>3, <1>4, <1>5, SameElements
<1> QED  BY <1>6 DEF l, r, a, b

\* The scientific form as jcs.go puts it together.
LEMMA ScienceIs ==
    ASSUME NEW d, Significant(d), NEW n \in Int
    PROVE  Science(d, n) =
             SubSeq(d, 1, 1) \o (IF Len(d) = 1 THEN <<>> ELSE <<Dot>> \o Tail(d))
               \o <<Exp, IF n >= 1 THEN Plus ELSE Minus>> \o Str[IF n >= 1 THEN n - 1 ELSE 1 - n]
<1> DEFINE o == <<d[1]>>
           t == Tail(d)
           m == IF n >= 1 THEN n - 1 ELSE 1 - n
           x == <<Exp, IF n >= 1 THEN Plus ELSE Minus>>
           y == IF Len(d) = 1 THEN <<>> ELSE <<Dot>> \o t
           z == Str[m]
<1>1. d \in Seq(0..9) /\ d # <<>>
    BY DEF Significant
<1>2. o \o t = d /\ t \in Seq(0..9) /\ d[1] \in 0..9 /\ SubSeq(d, 1, 1) = o /\ (Len(d) = 1 => d = o)
    BY <1>1, HeadTail
<1>3. o \in Seq(Int) /\ t \in Seq(Int) /\ <<Dot>> \in Seq(Int) /\ x \in Seq(Int)
    BY <1>2 DEF Dot, Exp, Plus, Minus
<1>4. m \in Nat
    OBVIOUS
<1>5. z \in Seq(Int)
    <2> HIDE DEF m
    <2>1. z \in Seq(0..9)
        BY <1>4, StrFacts
    <2> HIDE DEF z
    <2> QED  BY <2>1
<1>6. (IF Len(d) = 1 THEN d ELSE <<d[1], Dot>> \o t) = o \o y
    <2>1. CASE Len(d) = 1
        <3>1. d = o
            BY <1>2, <2>1
        <3>2. o \o <<>> = o
            BY <1>3, ConcatEmptySeq
        <3> QED  BY <2>1, <3>1, <3>2
    <2>2. CASE Len(d) # 1
        <3>1. o \o <<Dot>> = <<d[1], Dot>>
            <4>1. d[1] \in Int /\ Dot \in Int
                BY <1>2 DEF Dot
            <4> QED  BY <4>1, TwoOf
        <3> DEFINE p == <<Dot>>
        <3>2. (o \o p) \o t = o \o (p \o t)
            <4> HIDE DEF o, p, t
            <4> QED  BY <1>3, ConcatAssociative DEF p
        <3> QED  BY <2>2, <3>1, <3>2
    <2> QED  BY <2>1, <2>2
<1>7. (IF n >= 1 THEN <<Exp, Plus>> \o Str[n - 1] ELSE <<Exp, Minus>> \o Str[1 - n]) = x \o z
    BY <1>4
<1>8. Science(d, n) = (o \o y) \o (x \o z)
    BY <1>6, <1>7 DEF Science
<1>9. y \in Seq(Int)
    BY <1>3
<1>10. o \o y \in Seq(Int)
    <2> HIDE DEF o, y
    <2> QED  BY <1>3, <1>9, ConcatProperties
<1> DEFINE p == o \o y
<1> HIDE DEF p
<1>11. (p \o x) \o z = p \o (x \o z)
    <2>1. p \in Seq(Int) /\ x \in Seq(Int) /\ z \in Seq(Int)
        BY <1>3, <1>5, <1>10 DEF p
    <2> HIDE DEF x, z
    <2> QED  BY <2>1, ConcatAssociative
<1> HIDE DEF x, z
<1> QED  BY <1>2, <1>8, <1>11 DEF p, x, z

\* FormatNumber of jcs.go writes the form of the value.
LEMMA FormatForm ==
    ASSUME NEW f, IsValue(f), f.digits # <<>>
    PROVE  FormatNumber(f) = SignOf(f) \o Form(f.digits, f.point) /\ Significant(f.digits)
<1> DEFINE d == f.digits
           n == f.point
           k == Len(d)
           Body == CASE k <= n /\ n <= 21 -> d \o Zeros(n - k)
                     [] 0 < n /\ n <= 21 /\ n < k -> SubSeq(d, 1, n) \o <<Dot>> \o SubSeq(d, n + 1, k)
                     [] -6 < n /\ n <= 0 -> <<0, Dot>> \o Zeros(-n) \o d
                     [] OTHER -> SubSeq(d, 1, 1) \o (IF k = 1 THEN <<>> ELSE <<Dot>> \o Tail(d))
                                   \o <<Exp, IF n >= 1 THEN Plus ELSE Minus>> \o Str[IF n >= 1 THEN n - 1 ELSE 1 - n]
<1>1. FormatNumber(f) = SignOf(f) \o Body
    BY DEF FormatNumber, SignOf
<1>2. Significant(d) /\ n \in Int
    BY DEF IsValue, Significant
<1>3. k \in Nat /\ k # 0
    BY <1>2 DEF Significant
<1> HIDE DEF n, d
<1>4. Body = Form(d, n)
    <2>1. CASE k <= n /\ n <= 21
        <3>1. n \in 1..21 /\ ~(n < k) /\ ~(n <= 0)
            BY <1>2, <1>3, <2>1
        <3> QED  BY <2>1, <3>1 DEF Form, Whole
    <2>2. CASE 0 < n /\ n <= 21 /\ n < k
        <3>1. n \in 1..21 /\ ~(k <= n) /\ ~(n <= 0)
            BY <1>2, <1>3, <2>2
        <3>2. Body = SubSeq(d, 1, n) \o <<Dot>> \o SubSeq(d, n + 1, k)
            BY <2>2, <3>1
        <3> HIDE DEF Body
        <3> QED  BY <3>1, <3>2 DEF Form, Split
    <2>3. CASE -6 < n /\ n <= 0
        <3>1. n \notin 1..21 /\ n \in -5..0 /\ ~(k <= n) /\ ~(0 < n)
            BY <1>2, <1>3, <2>3
        <3>2. Body = <<0, Dot>> \o Zeros(-n) \o d
            BY <2>3, <3>1
        <3> HIDE DEF Body
        <3> QED  BY <3>1, <3>2 DEF Form, Small
    <2>4. CASE ~(k <= n /\ n <= 21) /\ ~(0 < n /\ n <= 21 /\ n < k) /\ ~(-6 < n /\ n <= 0)
        <3>1. n \notin 1..21 /\ n \notin -5..0
            BY <1>2, <1>3, <2>4
        <3>2. Body = SubSeq(d, 1, 1) \o (IF k = 1 THEN <<>> ELSE <<Dot>> \o Tail(d))
                       \o <<Exp, IF n >= 1 THEN Plus ELSE Minus>> \o Str[IF n >= 1 THEN n - 1 ELSE 1 - n]
            BY <2>4
        <3>3. Body = Science(d, n)
            <4> HIDE DEF Body
            <4> QED  BY <1>2, <3>2, ScienceIs
        <3> HIDE DEF Body
        <3> QED  BY <3>1, <3>3 DEF Form
    <2> QED  BY <2>1, <2>2, <2>3, <2>4
<1> HIDE DEF Body
<1> QED  BY <1>1, <1>2, <1>4 DEF d, n

\* So does _es_number of jcs.py, although it goes through repr, which switches to
\* the scientific form elsewhere and appends a zero to integers, and through int
\* for safe integers.
LEMMA EsForm ==
    ASSUME NEW f, IsValue(f), f.digits # <<>>
    PROVE  EsNumber(f) = SignOf(f) \o Form(f.digits, f.point)
<1> DEFINE d == f.digits
           n == f.point
           k == Len(d)
           r == Repr(f)
           Body == IF IsSafeInteger(f) THEN d \o Zeros(n - k)
                   ELSE IF r.sci THEN Layout(RStrip(r.lead \o r.frac), r.exp + 1)
                   ELSE Layout(RStrip(r.int \o r.frac), Len(r.int))
<1>1. EsNumber(f) = SignOf(f) \o Body
    BY DEF EsNumber, SignOf
<1>2. Significant(d) /\ n \in Int
    BY DEF IsValue, Significant
<1>3. k \in Nat /\ k # 0 /\ d \in Seq(0..9) /\ d # <<>>
    BY <1>2 DEF Significant
<1>4. /\ IsSafeInteger(f) => n >= k /\ n <= 16
      /\ n < 16 /\ n >= k => IsSafeInteger(f)
    BY <1>2 DEF IsSafeInteger
<1>5. /\ n - 1 \notin -4..15 => r = [sci |-> TRUE, lead |-> <<d[1]>>, frac |-> Tail(d), exp |-> n - 1]
      /\ n - 1 \in -4..15 =>
           r = [sci |-> FALSE,
                int  |-> IF n <= 0 THEN <<0>> ELSE IF k > n THEN SubSeq(d, 1, n) ELSE d \o Zeros(n - k),
                frac |-> IF n <= 0 THEN Zeros(-n) \o d ELSE IF k > n THEN SubSeq(d, n + 1, k) ELSE <<0>>]
    BY DEF Repr
<1>6. RStrip(d) = d
    <2>1. 0 \in Nat
        OBVIOUS
    <2> HIDE DEF d
    <2> QED  BY <1>2, <2>1, RStripRight
<1> HIDE DEF n, d, r
<1>7. Body = Form(d, n)
    <2>1. CASE IsSafeInteger(f)
        <3>1. n \in 1..21 /\ k <= n
            BY <1>2, <1>3, <1>4, <2>1
        <3> QED  BY <2>1, <3>1 DEF Form, Whole
    <2>2. CASE ~IsSafeInteger(f) /\ n - 1 \notin -4..15
        <3>1. r.sci = TRUE /\ r.lead \o r.frac = <<d[1]>> \o Tail(d) /\ r.exp = n - 1
            <4>1. r = [sci |-> TRUE, lead |-> <<d[1]>>, frac |-> Tail(d), exp |-> n - 1]
                BY <1>5, <2>2
            <4> DEFINE u == <<d[1]>>
                       v == Tail(d)
            <4> HIDE DEF u, v
            <4>2. r = [sci |-> TRUE, lead |-> u, frac |-> v, exp |-> n - 1]
                BY <4>1 DEF u, v
            <4>3. r.sci = TRUE /\ r.lead = u /\ r.frac = v /\ r.exp = n - 1
                BY <4>2
            <4> QED  BY <4>3 DEF u, v
        <3>2. <<d[1]>> \o Tail(d) = d /\ (n - 1) + 1 = n
            BY <1>2, <1>3, HeadTail
        <3>3. Body = Layout(d, n)
            BY <1>6, <2>2, <3>1, <3>2
        <3> HIDE DEF Body
        <3> QED  BY <1>2, <3>3, LayoutForm
    <2>3. CASE ~IsSafeInteger(f) /\ n - 1 \in -4..15 /\ n <= 0
        <3> DEFINE z == Zeros(-n)
                   w == z \o d
                   q == <<0>> \o w
        <3>1. r.sci = FALSE /\ r.int = <<0>> /\ r.frac = w
            BY <1>5, <2>3
        <3>2. -n \in Nat /\ n \in -5..0 /\ n \notin 1..21
            BY <1>2, <2>3
        <3>3. z \in Seq(0..9)
            BY <3>2, ZerosAre
        <3> HIDE DEF z
        <3>4. w \in Seq(0..9) /\ Len(w) >= 1 /\ Len(w) \in Nat
            <4>1. w \in Seq(0..9) /\ Joins(w, z, d)
                BY <1>3, <3>3, JoinAt
            <4> HIDE DEF w
            <4> QED  BY <1>3, <4>1 DEF Joins
        <3>5. RStrip(q) = q
            <4> DEFINE o == <<0>>
            <4>1. o \in Seq(0..9)
                OBVIOUS
            <4> HIDE DEF o
            <4>2. (o \o z) \o d = o \o (z \o d) /\ o \o z \in Seq(0..9)
                BY <1>3, <3>3, <4>1, ConcatAssociative, ConcatProperties
            <4>3. RStrip((o \o z) \o d) = (o \o z) \o d
                BY <1>2, <4>2, RStripLeft
            <4> QED  BY <4>2, <4>3 DEF o
        <3> HIDE DEF w
        <3>6. Len(q) = Len(w) + 1 /\ SubSeq(q, 1, 1) = <<0>> /\ SubSeq(q, 2, Len(q)) = w
            <4>1. 0 \in 0..9
                OBVIOUS
            <4> QED  BY <3>4, <4>1, ConsSub
        <3>7. Body = Layout(q, 1)
            <4>1. r.int \o r.frac = q /\ Len(r.int) = 1
                BY <3>1
            <4> HIDE DEF q
            <4> QED  BY <2>3, <3>1, <3>5, <4>1
        <3> HIDE DEF q, Body
        <3>8. Layout(q, 1) = SubSeq(q, 1, 1) \o <<Dot>> \o SubSeq(q, 1 + 1, Len(q))
            <4>1. 1 \in 1..21 /\ ~(Len(q) <= 1) /\ Len(q) > 1 /\ 1 \notin -5..0
                BY <3>4, <3>6
            <4> QED  BY <4>1 DEF Layout
        <3>9. Layout(q, 1) = <<0>> \o <<Dot>> \o w
            <4>1. 1 + 1 = 2
                OBVIOUS
            <4> QED  BY <3>6, <3>8, <4>1
        <3>10. <<0>> \o <<Dot>> \o w = <<0, Dot>> \o z \o d
            <4>1. <<0>> \o <<Dot>> = <<0, Dot>>
                <5>1. 0 \in Int /\ Dot \in Int
                    BY DEF Dot
                <5> QED  BY <5>1, TwoOf
            <4> DEFINE o == <<0, Dot>>
            <4>2. o \in Seq(Int) /\ z \in Seq(Int) /\ d \in Seq(Int)
                BY <1>3, <3>3 DEF Dot
            <4> HIDE DEF o
            <4>3. (o \o z) \o d = o \o (z \o d)
                BY <4>2, ConcatAssociative
            <4> QED  BY <4>1, <4>3 DEF o, w
        <3> QED  BY <3>2, <3>7, <3>9, <3>10 DEF Form, Small, z
    <2>4. CASE ~IsSafeInteger(f) /\ n - 1 \in -4..15 /\ n > 0 /\ k > n
        <3>1. n \in Nat /\ n <= k /\ ~(n <= 0)
            BY <1>2, <1>3, <2>4
        <3>2. r.sci = FALSE /\ r.int = SubSeq(d, 1, n) /\ r.frac = SubSeq(d, n + 1, k)
            BY <1>5, <2>4, <3>1
        <3>3. r.int \o r.frac = d /\ Len(r.int) = n
            <4>1. /\ SubSeq(d, 1, n) \o SubSeq(d, n + 1, Len(d)) = d
                  /\ Len(SubSeq(d, 1, n)) = n
                <5>1. d \in Seq(0..9) /\ n \in Nat /\ n <= Len(d)
                    BY <1>3, <3>1
                <5> HIDE DEF k
                <5> QED  BY <5>1, SplitJoin
            <4> QED  BY <3>2, <4>1
        <3>4. Body = Layout(d, n)
            BY <1>6, <2>4, <3>2, <3>3
        <3> HIDE DEF Body
        <3> QED  BY <1>2, <3>4, LayoutForm
    <2>5. CASE ~IsSafeInteger(f) /\ n - 1 \in -4..15 /\ n > 0 /\ ~(k > n)
        <3> DEFINE m == n - k
                   z == Zeros(m)
        <3>1. n \in Nat /\ m \in Nat /\ ~(n <= 0) /\ m + 1 \in Nat /\ k + m = n
            BY <1>2, <1>3, <2>5
        <3>2. r.sci = FALSE /\ r.int = d \o z /\ r.frac = <<0>>
            BY <1>5, <2>5, <3>1
        <3> HIDE DEF m
        <3>3. z \in Seq(0..9) /\ Len(z) = m /\ \A i \in 1..m : z[i] = 0
            BY <3>1, ZerosAre
        <3>4. z \o <<0>> = Zeros(m + 1)
            <4> DEFINE o == <<0>>
                       p == z \o o
                       y == Zeros(m + 1)
            <4>1. o \in Seq(0..9) /\ Len(o) = 1 /\ o[1] = 0
                OBVIOUS
            <4>2. y \in Seq(0..9) /\ Len(y) = m + 1 /\ \A i \in 1..(m + 1) : y[i] = 0
                BY <3>1, ZerosAre
            <4> HIDE DEF o, y, z
            <4>3. p \in Seq(0..9) /\ Joins(p, z, o)
                BY <3>3, <4>1, JoinAt
            <4> HIDE DEF p
            <4>4. Len(p) = m + 1 /\ \A i \in 1..(m + 1) : p[i] = 0
                <5>1. Len(p) = m + 1 /\ (\A i \in 1..m : p[i] = 0) /\ p[m + 1] = 0
                    BY <3>1, <3>3, <4>1, <4>3 DEF Joins
                <5>2. \A i \in 1..(m + 1) : i \in 1..m \/ i = m + 1
                    BY <3>1
                <5> QED  BY <5>1, <5>2
            <4>5. p = y
                BY <4>2, <4>3, <4>4, SameElements
            <4> QED  BY <4>5 DEF p, y, o
        <3> HIDE DEF z
        <3>5. r.int \o r.frac = d \o Zeros(m + 1)
            <4> DEFINE o == <<0>>
            <4>1. o \in Seq(0..9)
                OBVIOUS
            <4> HIDE DEF o
            <4>2. (d \o z) \o o = d \o (z \o o)
                BY <1>3, <3>3, <4>1, ConcatAssociative
            <4> QED  BY <3>2, <3>4, <4>2 DEF o
        <3>6. RStrip(d \o Zeros(m + 1)) = d
            BY <1>2, <3>1, RStripRight
        <3>7. Len(r.int) = n
            <4>1. Joins(d \o z, d, z)
                BY <1>3, <3>3, JoinAt
            <4> QED  BY <3>1, <3>2, <3>3, <4>1 DEF Joins
        <3>8. Body = Layout(d, n)
            BY <2>5, <3>2, <3>5, <3>6, <3>7
        <3> HIDE DEF Body
        <3> QED  BY <1>2, <3>8, LayoutForm
    <2> QED  BY <1>2, <2>1, <2>2, <2>3, <2>4, <2>5
<1> HIDE DEF Body
<1> QED  BY <1>1, <1>7 DEF d, n

\* w stands in s after p elements.
Placed(s, p, w) ==
    /\ p \in Nat /\ Len(w) \in Nat /\ p + Len(w) <= Len(s)
    /\ \A i \in 1..Len(w) : s[p + i] = w[i]

\* A sequence stands in itself,
LEMMA PlacedWhole ==
    ASSUME NEW T, NEW s \in Seq(T)
    PROVE  Placed(s, 0, s)
    BY DEF Placed

\* the parts of a concatenation where it stands,
LEMMA PlacedParts ==
    ASSUME NEW T, NEW s \in Seq(T), NEW u \in Seq(T), NEW v \in Seq(T), NEW p, Placed(s, p, u \o v)
    PROVE  Placed(s, p, u) /\ Placed(s, p + Len(u), v)
<1> DEFINE q == u \o v
<1>1. Joins(q, u, v)
    BY JoinAt
<1>2. Placed(s, p, q)
    OBVIOUS
<1> HIDE DEF q
<1>3. /\ p \in Nat /\ Len(u) \in Nat /\ Len(v) \in Nat /\ Len(q) = Len(u) + Len(v)
      /\ p + Len(q) <= Len(s) /\ Len(s) \in Nat
    BY <1>1, <1>2 DEF Joins, Placed
<1>4. \A i \in 1..Len(u) : s[p + i] = u[i]
    <2> SUFFICES ASSUME NEW i \in 1..Len(u) PROVE s[p + i] = u[i]
        OBVIOUS
    <2>1. i \in 1..Len(q)
        BY <1>3
    <2> QED  BY <1>1, <1>2, <2>1 DEF Joins, Placed
<1>5. \A i \in 1..Len(v) : s[p + Len(u) + i] = v[i]
    <2> SUFFICES ASSUME NEW i \in 1..Len(v) PROVE s[p + Len(u) + i] = v[i]
        OBVIOUS
    <2> DEFINE j == Len(u) + i
    <2>1. j \in 1..Len(q) /\ p + Len(u) + i = p + j
        BY <1>3
    <2>2. q[j] = v[i]
        BY <1>1 DEF Joins
    <2> HIDE DEF j
    <2>3. s[p + j] = q[j]
        BY <1>2, <2>1 DEF Placed
    <2> QED  BY <2>1, <2>2, <2>3
<1> QED  BY <1>3, <1>4, <1>5 DEF Placed

\* and what stands there can be cut out.
LEMMA PlacedSub ==
    ASSUME NEW T, NEW s \in Seq(T), NEW w \in Seq(T), NEW p, Placed(s, p, w)
    PROVE  SubSeq(s, p + 1, p + Len(w)) = w
<1> DEFINE a == p + 1
           b == p + Len(w)
           q == SubSeq(s, a, b)
<1>1. p \in Nat /\ Len(w) \in Nat /\ b <= Len(s) /\ a \in Nat \ {0} /\ b \in Nat
    BY DEF Placed
<1>2. (a <= b => b - a + 1 = Len(w)) /\ (a > b => Len(w) = 0) /\ \A i \in 1..Len(w) : a + i - 1 = p + i
    BY <1>1
<1> HIDE DEF a, b
<1>3. q \in Seq(T) /\ (a <= b => Len(q) = b - a + 1) /\ (a > b => Len(q) = 0) /\ \A i \in 1..Len(q) : q[i] = s[a + i - 1]
    BY <1>1, SubAt
<1> HIDE DEF q
<1>4. Len(q) = Len(w)
    BY <1>1, <1>2, <1>3
<1>5. \A i \in 1..Len(q) : q[i] = w[i]
    BY <1>2, <1>3, <1>4 DEF Placed
<1>6. q = w
    BY <1>3, <1>4, <1>5, SameElements
<1> QED  BY <1>6 DEF q, a, b

\* A spelling in its parts: the sign, the integer, the fraction if there is
\* one, and the exponent if there is one.
Fraction(fr)       == IF fr = <<>> THEN <<>> ELSE <<Dot>> \o fr
Exponent(ex, g, z) == IF ex THEN <<Exp, g>> \o z ELSE <<>>
IsPart(int, fr, ex, g, z) ==
    /\ int \in Seq(0..9) /\ int # <<>> /\ (int[1] = 0 => Len(int) = 1)
    /\ fr \in Seq(0..9) /\ ex \in BOOLEAN /\ g \in {Plus, Minus}
    /\ z \in Seq(0..9) /\ (ex <=> z # <<>>)

\* Where the parts of s are.
Laid(s, sg, int, fr, ex, g, z) ==
    /\ s \in Seq(Int)
    /\ Len(s) = Len(sg) + Len(int) + Len(Fraction(fr)) + Len(Exponent(ex, g, z))
    /\ Placed(s, 0, sg) /\ Placed(s, Len(sg), int)
    /\ Placed(s, Len(sg) + Len(int), Fraction(fr))
    /\ Placed(s, Len(sg) + Len(int) + Len(Fraction(fr)), Exponent(ex, g, z))

\* The parts are sequences of characters.
LEMMA PartTypes ==
    ASSUME NEW int, NEW fr, NEW ex, NEW g, NEW z, IsPart(int, fr, ex, g, z)
    PROVE  /\ int \in Seq(Int) /\ Fraction(fr) \in Seq(Int) /\ Exponent(ex, g, z) \in Seq(Int)
           /\ fr \in Seq(Int) /\ z \in Seq(Int)
<1>1. int \in Seq(Int) /\ fr \in Seq(Int) /\ z \in Seq(Int) /\ <<Dot>> \in Seq(Int) /\ <<Exp, g>> \in Seq(Int)
    <2>1. int \in Seq(0..9) /\ fr \in Seq(0..9) /\ z \in Seq(0..9) /\ g \in Int
        BY DEF IsPart, Plus, Minus
    <2>2. Dot \in Int /\ Exp \in Int
        BY DEF Dot, Exp
    <2>3. <<Exp, g>> \in Seq(Int)
        BY <2>1, <2>2
    <2>4. <<Dot>> \in Seq(Int)
        BY <2>2
    <2>5. \A q \in Seq(0..9) : q \in Seq(Int)
        OBVIOUS
    <2> QED  BY <2>1, <2>3, <2>4, <2>5
<1> DEFINE u == <<Dot>>
           v == <<Exp, g>>
<1> HIDE DEF u, v
<1>2. u \in Seq(Int) /\ v \in Seq(Int)
    BY <1>1 DEF u, v
<1>3. u \o fr \in Seq(Int) /\ v \o z \in Seq(Int) /\ <<>> \in Seq(Int)
    BY <1>1, <1>2, ConcatProperties
<1>4. Fraction(fr) \in Seq(Int) /\ Exponent(ex, g, z) \in Seq(Int)
    BY <1>3 DEF Fraction, Exponent, u, v
<1> QED  BY <1>1, <1>4

\* The parts of a spelling are where their lengths say.
LEMMA LaidOut ==
    ASSUME NEW sg \in Seq(Int), NEW int, NEW fr, NEW ex, NEW g, NEW z, IsPart(int, fr, ex, g, z)
    PROVE  Laid(sg \o ((int \o Fraction(fr)) \o Exponent(ex, g, z)), sg, int, fr, ex, g, z)
<1> DEFINE f == Fraction(fr)
           x == Exponent(ex, g, z)
           u == int \o f
           w == u \o x
           s == sg \o w
<1>1. int \in Seq(Int) /\ f \in Seq(Int) /\ x \in Seq(Int)
    BY PartTypes
<1> HIDE DEF f, x
<1>2. u \in Seq(Int) /\ Joins(u, int, f)
    BY <1>1, JoinAt
<1> HIDE DEF u
<1>3. w \in Seq(Int) /\ Joins(w, u, x)
    BY <1>1, <1>2, JoinAt
<1> HIDE DEF w
<1>4. s \in Seq(Int) /\ Joins(s, sg, w) /\ Placed(s, 0, sg \o w)
    <2>1. s \in Seq(Int) /\ Joins(s, sg, w)
        BY <1>3, JoinAt
    <2> QED  BY <2>1, PlacedWhole
<1>5. Placed(s, 0, sg) /\ Placed(s, 0 + Len(sg), w)
    <2> HIDE DEF s
    <2> QED  BY <1>3, <1>4, PlacedParts
<1> HIDE DEF s
<1>6. Len(sg) \in Nat /\ Len(int) \in Nat /\ Len(f) \in Nat /\ Len(x) \in Nat
    BY <1>1
<1>7. Placed(s, Len(sg), u \o x)
    BY <1>5, <1>6 DEF w
<1>8. Placed(s, Len(sg), int \o f) /\ Placed(s, Len(sg) + Len(u), x)
    <2>1. Placed(s, Len(sg), u) /\ Placed(s, Len(sg) + Len(u), x)
        BY <1>1, <1>2, <1>4, <1>7, PlacedParts
    <2> QED  BY <2>1 DEF u
<1>9. Placed(s, Len(sg), int) /\ Placed(s, Len(sg) + Len(int), f)
    BY <1>1, <1>4, <1>8, PlacedParts
<1>10. Len(u) = Len(int) + Len(f) /\ Len(s) = Len(sg) + Len(int) + Len(f) + Len(x)
    BY <1>2, <1>3, <1>4, <1>6 DEF Joins
<1>11. Len(sg) + Len(u) = Len(sg) + Len(int) + Len(f)
    BY <1>6, <1>10
<1>12. Placed(s, Len(sg) + Len(int) + Len(f), x)
    BY <1>8, <1>11
<1>13. Laid(s, sg, int, fr, ex, g, z)
    BY <1>4, <1>5, <1>9, <1>10, <1>12 DEF Laid, f, x
<1> QED  BY <1>13 DEF s, w, u, f, x

\* What a scan of s finds.
Scanned(s, int, fr, sign, z) ==
    ScanNumber(s) = [ok |-> TRUE, int |-> int, frac |-> fr, sign |-> sign, exp |-> z]

Scans(s, neg, int, fr, ex, g, z) ==
    /\ Scanned(s, int, fr, IF ex /\ g = Minus THEN -1 ELSE 1, z)
    /\ (s[1] = Minus) = neg
    /\ (\E i \in DOMAIN s : s[i] = Exp) <=> ex

\* A scan of a spelling finds its parts; only the exponent has an e, and only the
\* sign makes the first character a minus.
LEMMA LaidMarks ==
    ASSUME NEW s, NEW neg \in BOOLEAN, NEW int, NEW fr, NEW ex, NEW g, NEW z, IsPart(int, fr, ex, g, z),
           Laid(s, IF neg THEN <<Minus>> ELSE <<>>, int, fr, ex, g, z)
    PROVE  Scans(s, neg, int, fr, ex, g, z)
<1> DEFINE sg == IF neg THEN <<Minus>> ELSE <<>>
           f == Fraction(fr)
           x == Exponent(ex, g, z)
           a == Len(sg) + 1
           b == a + Len(int)
           c == b + Len(f)
           e == IF ex THEN c + 2 ELSE c + 1
           p == c - 1
<1>1. s \in Seq(Int) /\ Len(s) = Len(sg) + Len(int) + Len(f) + Len(x)
    BY DEF Laid
<1>2. /\ Placed(s, 0, sg) /\ Placed(s, Len(sg), int)
      /\ Placed(s, Len(sg) + Len(int), f) /\ Placed(s, Len(sg) + Len(int) + Len(f), x)
    BY DEF Laid
<1>3. /\ int \in Seq(0..9) /\ int # <<>> /\ (int[1] = 0 => Len(int) = 1)
      /\ fr \in Seq(0..9) /\ ex \in BOOLEAN /\ g \in {Plus, Minus}
      /\ z \in Seq(0..9) /\ (ex <=> z # <<>>)
    BY DEF IsPart
<1>4. int \in Seq(Int) /\ f \in Seq(Int) /\ x \in Seq(Int) /\ fr \in Seq(Int) /\ z \in Seq(Int)
    BY PartTypes
<1>5. /\ neg => Len(sg) = 1 /\ sg[1] = Minus
      /\ ~neg => Len(sg) = 0
      /\ sg \in Seq(Int)
    BY DEF Minus
\* The fraction.
<1>6. /\ fr = <<>> => Len(f) = 0
      /\ fr # <<>> => Len(f) = Len(fr) + 1 /\ f[1] = Dot /\ \A i \in 1..Len(fr) : f[1 + i] = fr[i]
    <2>1. CASE fr = <<>>
        BY <2>1 DEF Fraction
    <2>2. CASE fr # <<>>
        <3> DEFINE o == <<Dot>>
        <3>1. o \in Seq(Int) /\ Len(o) = 1 /\ o[1] = Dot
            BY DEF Dot
        <3> HIDE DEF o
        <3>2. f = o \o fr
            BY <2>2 DEF Fraction, o
        <3>3. Joins(o \o fr, o, fr)
            BY <1>4, <3>1, JoinAt
        <3> HIDE DEF f
        <3>4. Joins(f, o, fr) /\ Len(fr) \in Nat
            BY <1>4, <3>2, <3>3
        <3> QED  BY <2>2, <3>1, <3>4 DEF Joins
    <2> QED  BY <2>1, <2>2
\* The exponent.
<1>7. /\ ~ex => Len(x) = 0
      /\ ex => Len(x) = Len(z) + 2 /\ x[1] = Exp /\ x[2] = g /\ \A i \in 1..Len(z) : x[2 + i] = z[i]
    <2>1. CASE ~ex
        BY <2>1 DEF Exponent
    <2>2. CASE ex
        <3> DEFINE o == <<Exp, g>>
        <3>1. o \in Seq(Int) /\ Len(o) = 2 /\ o[1] = Exp /\ o[2] = g
            BY <1>3 DEF Exp, Plus, Minus
        <3> HIDE DEF o
        <3>2. x = o \o z
            BY <2>2 DEF Exponent, o
        <3>3. Joins(o \o z, o, z)
            BY <1>4, <3>1, JoinAt
        <3> HIDE DEF x
        <3>4. Joins(x, o, z) /\ Len(z) \in Nat
            BY <1>4, <3>2, <3>3
        <3> QED  BY <2>2, <3>1, <3>4 DEF Joins
    <2> QED  BY <1>3, <2>1, <2>2
<1> DEFINE l == Len(sg)
           m == Len(int)
           h == Len(f)
           t == Len(x)
           y == Len(z)
           r == Len(fr)
<1>8. /\ l \in 0..1 /\ m \in Nat \ {0} /\ h \in Nat /\ t \in Nat /\ y \in Nat /\ r \in Nat
      /\ (neg <=> l = 1) /\ (ex <=> y # 0) /\ (~ex => t = 0) /\ (ex => t = y + 2)
      /\ (r = 0 => h = 0) /\ (r # 0 => h = r + 1) /\ (fr = <<>> <=> r = 0) /\ (z = <<>> <=> y = 0)
      /\ Len(s) = l + m + h + t
    <2>1. l \in 0..1 /\ (neg <=> l = 1)
        BY <1>5
    <2>2. m \in Nat \ {0} /\ y \in Nat /\ r \in Nat /\ (fr = <<>> <=> r = 0) /\ (z = <<>> <=> y = 0)
        BY <1>3
    <2> HIDE DEF sg, f, x, l
    <2>3. h \in Nat /\ t \in Nat
        BY <1>4
    <2> HIDE DEF m, h, t, y, r
    <2>4. (ex <=> y # 0) /\ (~ex => t = 0) /\ (ex => t = y + 2) /\ (r = 0 => h = 0) /\ (r # 0 => h = r + 1)
        BY <1>3, <1>6, <1>7, <2>2 DEF h, t, y, r
    <2>5. Len(s) = l + m + h + t
        BY <1>1 DEF l, m, h, t
    <2> QED  BY <2>1, <2>2, <2>3, <2>4, <2>5
<1>9. /\ neg => s[1] = Minus
      /\ \A i \in 1..m : s[l + i] = int[i]
      /\ \A i \in 1..h : s[l + m + i] = f[i]
      /\ \A i \in 1..t : s[l + m + h + i] = x[i]
    <2> HIDE DEF sg, f, x
    <2>1. neg => s[0 + 1] = sg[1]
        <3> SUFFICES ASSUME neg PROVE s[0 + 1] = sg[1]
            OBVIOUS
        <3>1. 1 \in 1..Len(sg)
            BY <1>5
        <3>2. \A i \in 1..Len(sg) : s[0 + i] = sg[i]
            BY <1>2 DEF Placed
        <3> QED  BY <3>1, <3>2
    <2>2. 0 + 1 = 1
        OBVIOUS
    <2> QED  BY <1>2, <1>5, <2>1, <2>2 DEF Placed
<1> HIDE DEF l, m, h, t, y, r, sg, f, x
<1>10. a = l + 1 /\ b = l + 1 + m /\ c = l + 1 + m + h
    BY <1>8 DEF l, m, h, a, b, c
<1> HIDE DEF a, b, c
<1>11. \A i \in a..(b - 1) : s[i] = int[i - l] /\ int[i - l] \in 0..9
    <2> SUFFICES ASSUME NEW i \in a..(b - 1) PROVE s[i] = int[i - l] /\ int[i - l] \in 0..9
        OBVIOUS
    <2> DEFINE j == i - l
    <2>1. j \in 1..m /\ l + j = i
        BY <1>8, <1>10
    <2> HIDE DEF j
    <2>2. s[l + j] = int[j] /\ int[j] \in 0..9
        BY <1>3, <1>9, <2>1 DEF m
    <2> QED  BY <2>1, <2>2 DEF j
<1>12. ~(int[1] = Minus) /\ s[a] = int[1]
    <2>1. 1 \in 1..m /\ l + 1 = a
        BY <1>8, <1>10
    <2>2. int[1] \in 0..9
        BY <1>3, <2>1 DEF m
    <2> QED  BY <1>9, <2>1, <2>2 DEF Minus
<1>13. r # 0 => s[b] = Dot /\ \A i \in (b + 1)..(c - 1) : s[i] = fr[i - b] /\ fr[i - b] \in 0..9
    <2> SUFFICES ASSUME r # 0 PROVE s[b] = Dot /\ \A i \in (b + 1)..(c - 1) : s[i] = fr[i - b] /\ fr[i - b] \in 0..9
        OBVIOUS
    <2>1. 1 \in 1..h /\ l + m + 1 = b /\ h = r + 1
        BY <1>8, <1>10
    <2>2. s[b] = Dot
        BY <1>6, <1>8, <1>9, <2>1
    <2>3. ASSUME NEW i \in (b + 1)..(c - 1)
          PROVE  s[i] = fr[i - b] /\ fr[i - b] \in 0..9
        <3> DEFINE j == i - b
                   q == 1 + j
        <3>1. j \in 1..r /\ q \in 1..h /\ l + m + q = i
            BY <1>8, <1>10, <2>1, <2>3
        <3>2. f[q] = fr[j]
            BY <1>6, <1>8, <3>1 DEF r
        <3> HIDE DEF q
        <3>3. s[l + m + q] = f[q]
            BY <1>9, <3>1
        <3>4. fr[j] \in 0..9
            BY <1>3, <3>1 DEF r
        <3> QED  BY <3>1, <3>2, <3>3, <3>4
    <2> QED  BY <2>2, <2>3
<1>14. ex => s[c] = Exp /\ s[c + 1] = g /\ \A i \in (c + 2)..Len(s) : s[i] = z[i - (c + 1)] /\ z[i - (c + 1)] \in 0..9
    <2> SUFFICES ASSUME ex PROVE s[c] = Exp /\ s[c + 1] = g /\ \A i \in (c + 2)..Len(s) : s[i] = z[i - (c + 1)] /\ z[i - (c + 1)] \in 0..9
        OBVIOUS
    <2>1. 1 \in 1..t /\ 2 \in 1..t /\ l + m + h + 1 = c /\ l + m + h + 2 = c + 1 /\ t = y + 2
        BY <1>8, <1>10
    <2>2. s[c] = Exp /\ s[c + 1] = g
        BY <1>7, <1>9, <2>1
    <2>3. ASSUME NEW i \in (c + 2)..Len(s)
          PROVE  s[i] = z[i - (c + 1)] /\ z[i - (c + 1)] \in 0..9
        <3> DEFINE j == i - (c + 1)
                   q == 2 + j
        <3>1. j \in 1..y /\ q \in 1..t /\ l + m + h + q = i
            BY <1>8, <1>10, <2>1, <2>3
        <3>2. x[q] = z[j]
            BY <1>7, <3>1 DEF y
        <3> HIDE DEF q
        <3>3. s[l + m + h + q] = x[q]
            BY <1>9, <3>1
        <3>4. z[j] \in 0..9
            BY <1>3, <3>1 DEF y
        <3> QED  BY <3>1, <3>2, <3>3, <3>4
    <2> QED  BY <2>2, <2>3
<1>15. (s[1] = Minus) = neg
    <2>1. CASE neg
        BY <1>9, <2>1
    <2>2. CASE ~neg
        <3>1. a = 1
            BY <1>8, <1>10, <2>2
        <3> QED  BY <1>12, <2>2, <3>1
    <2> QED  BY <2>1, <2>2
<1>16. Marks(s, a, b, c, e)
    <2>1. /\ a \in 1..2 /\ b \in Nat /\ c \in Nat /\ e \in Nat
          /\ a < b /\ b <= c /\ c <= Len(s) + 1 /\ (a = 2 <=> neg) /\ 1 <= Len(s)
        BY <1>8, <1>10
    <2>2. a = 2 <=> At(s, 1, {Minus})
        BY <1>15, <2>1 DEF At
    <2>3. (\A i \in a..(b - 1) : s[i] \in 0..9) /\ (s[a] = 0 => b = a + 1)
        <3>1. \A i \in a..(b - 1) : s[i] \in 0..9
            BY <1>11
        <3>2. s[a] = 0 => m = 1
            BY <1>3, <1>12 DEF m
        <3> QED  BY <1>8, <1>10, <3>1, <3>2
    <2>4. b < c => s[b] = Dot /\ b + 1 < c /\ \A i \in (b + 1)..(c - 1) : s[i] \in 0..9
        <3> SUFFICES ASSUME b < c PROVE s[b] = Dot /\ b + 1 < c /\ \A i \in (b + 1)..(c - 1) : s[i] \in 0..9
            OBVIOUS
        <3>1. r # 0 /\ b + 1 < c
            BY <1>8, <1>10
        <3>2. \A i \in (b + 1)..(c - 1) : s[i] \in 0..9
            BY <1>13, <3>1
        <3> QED  BY <1>13, <3>1, <3>2
    <2>5. c = Len(s) + 1 => e = c + 1
        BY <1>8, <1>10
    <2>6. c <= Len(s) => /\ s[c] = Exp /\ e \in {c + 1, c + 2} /\ (e = c + 2 => s[c + 1] \in {Plus, Minus})
                         /\ e <= Len(s) /\ \A i \in e..Len(s) : s[i] \in 0..9
        <3> SUFFICES ASSUME c <= Len(s)
                     PROVE  /\ s[c] = Exp /\ e \in {c + 1, c + 2} /\ (e = c + 2 => s[c + 1] \in {Plus, Minus})
                            /\ e <= Len(s) /\ \A i \in e..Len(s) : s[i] \in 0..9
            OBVIOUS
        <3>1. ex /\ e = c + 2 /\ e <= Len(s)
            BY <1>8, <1>10
        <3>2. \A i \in (c + 2)..Len(s) : s[i] \in 0..9
            BY <1>14, <3>1
        <3> HIDE DEF e
        <3> QED  BY <1>3, <1>14, <3>1, <3>2
    <2> HIDE DEF e
    <2> QED  BY <2>1, <2>2, <2>3, <2>4, <2>5, <2>6 DEF Marks
<1>17. Scanned(s, int, fr, IF ex /\ g = Minus THEN -1 ELSE 1, z)
    <2>1. SubSeq(s, a, b - 1) = int
        <3>1. SubSeq(s, l + 1, l + Len(int)) = int
            BY <1>1, <1>2, <1>4, PlacedSub DEF l
        <3>2. l + 1 = a /\ l + Len(int) = b - 1
            BY <1>8, <1>10 DEF m
        <3> QED  BY <3>1, <3>2
    <2>2. SubSeq(s, b + 1, c - 1) = fr
        <3>1. CASE r = 0
            <4>1. b + 1 > c - 1
                BY <1>8, <1>10, <3>1
            <4>2. SubSeq(s, b + 1, c - 1) = <<>>
                <5>1. b + 1 \in Nat \ {0} /\ c - 1 \in Nat /\ c - 1 <= Len(s)
                    BY <1>8, <1>10
                <5> DEFINE q == SubSeq(s, b + 1, c - 1)
                <5>2. q \in Seq(Int) /\ Len(q) = 0
                    BY <1>1, <4>1, <5>1, SubAt
                <5> HIDE DEF q
                <5>3. q = <<>>
                    BY <5>2
                <5> QED  BY <5>3 DEF q
            <4> QED  BY <1>8, <3>1, <4>2
        <3>2. CASE r # 0
            <4>1. \A i \in 1..r : s[b + i] = fr[i]
                <5> SUFFICES ASSUME NEW i \in 1..r PROVE s[b + i] = fr[i]
                    OBVIOUS
                <5> DEFINE j == b + i
                <5>1. j \in (b + 1)..(c - 1) /\ j - b = i
                    BY <1>8, <1>10, <3>2
                <5> HIDE DEF j
                <5>2. s[j] = fr[i]
                    BY <1>13, <3>2, <5>1
                <5> QED  BY <5>2 DEF j
            <4>2. b \in Nat /\ b + r <= Len(s) /\ b + r = c - 1
                BY <1>8, <1>10, <3>2
            <4>3. Placed(s, b, fr)
                BY <1>8, <4>1, <4>2 DEF Placed, r
            <4>4. SubSeq(s, b + 1, b + Len(fr)) = fr
                BY <1>1, <1>4, <4>3, PlacedSub
            <4> QED  BY <4>2, <4>4 DEF r
        <3> QED  BY <3>1, <3>2
    <2>3. SubSeq(s, e, Len(s)) = z
        <3>1. CASE ~ex
            <4>1. e > Len(s) /\ e \in Nat \ {0} /\ Len(s) \in Nat
                BY <1>8, <1>10, <3>1
            <4> DEFINE q == SubSeq(s, e, Len(s))
            <4> HIDE DEF e
            <4>2. q \in Seq(Int) /\ Len(q) = 0
                BY <1>1, <4>1, SubAt
            <4> HIDE DEF q
            <4>3. q = <<>>
                BY <4>2
            <4> QED  BY <1>3, <3>1, <4>3 DEF q
        <3>2. CASE ex
            <4> DEFINE d == c + 1
            <4>1. d \in Nat /\ d + y = Len(s) /\ e = d + 1
                BY <1>8, <1>10, <3>2
            <4>2. \A i \in 1..y : s[d + i] = z[i]
                <5> SUFFICES ASSUME NEW i \in 1..y PROVE s[d + i] = z[i]
                    OBVIOUS
                <5> DEFINE j == d + i
                <5>1. j \in (c + 2)..Len(s) /\ j - (c + 1) = i
                    BY <1>8, <1>10, <3>2
                <5> HIDE DEF j
                <5>2. s[j] = z[i]
                    BY <1>14, <3>2, <5>1
                <5> QED  BY <5>2 DEF j
            <4> HIDE DEF d, e
            <4>3. Placed(s, d, z)
                BY <1>8, <4>1, <4>2 DEF Placed, y
            <4>4. SubSeq(s, d + 1, d + Len(z)) = z
                BY <1>1, <1>4, <4>3, PlacedSub
            <4> QED  BY <4>1, <4>4 DEF y
        <3> QED  BY <3>1, <3>2
    <2>4. At(s, c + 1, {Minus}) <=> ex /\ g = Minus
        <3>1. CASE ex
            <4>1. c + 1 <= Len(s)
                BY <1>8, <1>10, <3>1
            <4> QED  BY <1>14, <3>1, <4>1 DEF At
        <3>2. CASE ~ex
            <4>1. ~(c + 1 <= Len(s))
                BY <1>8, <1>10, <3>2
            <4> QED  BY <3>2, <4>1 DEF At
        <3> QED  BY <3>1, <3>2
    <2> HIDE DEF e
    <2>5. ScanNumber(s) =
             [ok |-> TRUE, int |-> SubSeq(s, a, b - 1), frac |-> SubSeq(s, b + 1, c - 1),
              sign |-> IF At(s, c + 1, {Minus}) THEN -1 ELSE 1, exp |-> SubSeq(s, e, Len(s))]
        BY <1>1, <1>16, ScanIs
    <2> QED  BY <2>1, <2>2, <2>3, <2>4, <2>5 DEF Scanned
<1>18. (\E i \in DOMAIN s : s[i] = Exp) <=> ex
    <2>1. CASE ex
        <3>1. c \in DOMAIN s
            BY <1>1, <1>8, <1>10, <2>1
        <3> QED  BY <1>14, <2>1, <3>1
    <2>2. CASE ~ex
        <3> SUFFICES ASSUME NEW i \in DOMAIN s PROVE s[i] # Exp
            BY <2>2
        <3>1. /\ i \in Nat /\ 1 <= i
              /\ (i = 1 /\ neg) \/ i \in a..(b - 1) \/ (r # 0 /\ i = b) \/ (r # 0 /\ i \in (b + 1)..(c - 1))
            BY <1>1, <1>8, <1>10, <2>2
        <3>2. CASE i = 1 /\ neg
            BY <1>9, <3>2 DEF Minus, Exp
        <3>3. CASE i \in a..(b - 1)
            <4>1. s[i] \in 0..9
                BY <1>11, <3>3
            <4> QED  BY <4>1 DEF Exp
        <3>4. CASE r # 0 /\ i = b
            BY <1>13, <3>4 DEF Dot, Exp
        <3>5. CASE r # 0 /\ i \in (b + 1)..(c - 1)
            <4>1. s[i] \in 0..9
                BY <1>13, <3>5
            <4> QED  BY <4>1 DEF Exp
        <3> QED  BY <3>1, <3>2, <3>3, <3>4, <3>5
    <2> QED  BY <2>1, <2>2
<1> QED  BY <1>15, <1>17, <1>18 DEF Scans

\* Digits d in q, after a zeros and before others.
Within(q, a, d) ==
    /\ q \in Seq(0..9) /\ Placed(q, a, d)
    /\ \A i \in 1..Len(q) : i <= a \/ i > a + Len(d) => q[i] = 0

IsRead(f) == [ok |-> TRUE, value |-> f]

\* A spelling is read as the value its digits and its exponent say.
LEMMA ReadBack ==
    ASSUME NEW f, IsValue(f), f.digits # <<>>, NEW s, NEW int, NEW fr, NEW sign \in {-1, 1}, NEW z \in Seq(0..9),
           Scanned(s, int, fr, sign, z), (s[1] = Minus) = f.neg, NEW a,
           Within(int \o fr, a, f.digits), Len(int) \in Nat,
           Len(int) + sign * IntOf(z) - a = f.point
    PROVE  PyNumber(s) = IsRead(f)
<1> DEFINE d == f.digits
           n == f.point
           q == int \o fr
           p == Len(int) + sign * IntOf(z)
           k == Len(d)
           u == a + 1
           v == a + k
<1>1. Significant(d) /\ n \in Int /\ -MinPoint <= n /\ n <= MaxPoint /\ f.neg \in BOOLEAN
    BY DEF IsValue, Significant
<1>2. f = [neg |-> f.neg, digits |-> d, point |-> n]
    BY DEF IsValue
<1>3. ParseFloat(s) = Float(f.neg, q, p) /\ ScanNumber(s).ok
    BY DEF Scanned, ParseFloat
<1>4. p \in Int /\ p - a = n
    <2>1. IntOf(z) \in Nat
        <3>1. z \in Seq(Nat)
            OBVIOUS
        <3> QED  BY <3>1, IntNat
    <2>2. sign * IntOf(z) \in Int
        BY <2>1
    <2>3. p \in Int
        BY <2>2
    <2>4. p - a = n
        <3>1. a \in Nat
            BY DEF Within, Placed
        <3> QED  BY <2>2, <3>1
    <2> QED  BY <2>3, <2>4
<1>5. Within(q, a, d)
    OBVIOUS
<1>6. d \in Seq(0..9) /\ k \in Nat /\ k # 0 /\ d[1] # 0 /\ d[k] # 0
    BY <1>1 DEF Significant
<1> HIDE DEF d, n, q, p, k
<1>7. a \in Nat /\ q \in Seq(0..9) /\ a + k <= Len(q) /\ u \in Nat /\ v \in Nat /\ u <= v
    BY <1>5, <1>6 DEF Within, Placed, k
<1>8. Counts(q, u, v)
    <2>1. u \in DOMAIN q /\ v \in DOMAIN q
        BY <1>6, <1>7
    <2>2. q[u] # 0 /\ q[v] # 0
        <3>1. 1 \in 1..k /\ k \in 1..k
            BY <1>6
        <3>2. \A i \in 1..k : q[a + i] = d[i]
            BY <1>5 DEF Within, Placed, k
        <3> QED  BY <1>6, <3>1, <3>2
    <2>3. \A i \in DOMAIN q : q[i] # 0 => u <= i /\ i <= v
        <3> SUFFICES ASSUME NEW i \in DOMAIN q, q[i] # 0 PROVE u <= i /\ i <= v
            OBVIOUS
        <3>1. i \in 1..Len(q)
            BY <1>7
        <3>2. ~(i <= a \/ i > a + k)
            BY <1>5, <3>1 DEF Within, k
        <3> QED  BY <1>6, <1>7, <3>1, <3>2
    <2> QED  BY <1>7, <2>1, <2>2, <2>3 DEF Counts
<1>9. SubSeq(q, u, v) = d
    <2>1. Placed(q, a, d)
        BY <1>5 DEF Within
    <2> QED  BY <1>6, <1>7, <2>1, PlacedSub DEF k
<1>10. p - (u - 1) = n
    BY <1>1, <1>4, <1>7
<1> HIDE DEF u, v
<1>11. FloatOf(f.neg, q, p, u, v)
    BY <1>1, <1>4, <1>7, <1>8, FloatIs
<1>12. Float(f.neg, q, p) = Rounded(f.neg, d, n)
    BY <1>9, <1>10, <1>11 DEF FloatOf
<1>13. Rounded(f.neg, d, n) = [finite |-> TRUE, value |-> f]
    <2>1. ~(n < -MinPoint) /\ ~(n > MaxPoint)
        BY <1>1, ScalarAssumption
    <2> QED  BY <1>2, <2>1 DEF Rounded
<1>14. ParseFloat(s) = [finite |-> TRUE, value |-> f]
    BY <1>3, <1>12, <1>13
<1>15. f.digits # <<>>
    BY <1>6
<1> QED  BY <1>3, <1>14, <1>15 DEF PyNumber, IsRead

-----------------------------------------------------------------------------
\* The spelling of digits d and point n in its parts.
Spells(d, n, int, fr, ex, g, z, a) ==
    /\ IsPart(int, fr, ex, g, z)
    /\ Form(d, n) = (int \o Fraction(fr)) \o Exponent(ex, g, z)
    /\ Within(int \o fr, a, d)
    /\ Len(int) + (IF ex /\ g = Minus THEN -1 ELSE 1) * IntOf(z) - a = n
    /\ ex <=> n \notin -5..21

\* Concatenation is associative.
LEMMA Regroup ==
    ASSUME NEW u \in Seq(Int), NEW v \in Seq(Int), NEW w \in Seq(Int)
    PROVE  (u \o v) \o w = u \o (v \o w)
    BY ConcatAssociative

\* Parts that are missing.
LEMMA NoParts ==
    ASSUME NEW T, NEW w \in Seq(T)
    PROVE  w \o <<>> = w /\ (w \o <<>>) \o <<>> = w
    BY ConcatEmptySeq

\* An integer: digits and zeros.
LEMMA SpellsWhole ==
    ASSUME NEW d, Significant(d), NEW n \in 1..21, Len(d) <= n
    PROVE  Spells(d, n, d \o Zeros(n - Len(d)), <<>>, FALSE, Plus, <<>>, 0)
<1> DEFINE k == Len(d)
           m == n - k
           z == Zeros(m)
           w == d \o z
<1>1. d \in Seq(0..9) /\ k \in Nat /\ k # 0 /\ d[1] # 0 /\ m \in Nat /\ n \in Int
    BY DEF Significant
<1>2. z \in Seq(0..9) /\ Len(z) = m /\ \A i \in 1..m : z[i] = 0
    <2> HIDE DEF m
    <2> QED  BY <1>1, ZerosAre
<1> HIDE DEF z
<1>3. w \in Seq(0..9) /\ Joins(w, d, z)
    BY <1>1, <1>2, JoinAt
<1>4. Form(d, n) = w
    BY DEF Form, Whole, z
<1> HIDE DEF w
<1>5. Len(w) = n /\ w # <<>> /\ w[1] # 0
    <2>1. Len(w) = k + m /\ w[1] = d[1]
        BY <1>1, <1>2, <1>3 DEF Joins
    <2> QED  BY <1>1, <1>3, <2>1
<1>6. IsPart(w, <<>>, FALSE, Plus, <<>>)
    BY <1>3, <1>5 DEF IsPart
<1>7. w \o <<>> = w /\ (w \o <<>>) \o <<>> = w
    BY <1>3, NoParts
<1>8. Form(d, n) = (w \o Fraction(<<>>)) \o Exponent(FALSE, Plus, <<>>)
    BY <1>4, <1>7 DEF Fraction, Exponent
<1>9. Within(w, 0, d)
    <2>1. Placed(w, 0, d)
        BY <1>1, <1>2, <1>3, <1>5 DEF Joins, Placed
    <2>2. \A i \in 1..Len(w) : i <= 0 \/ i > 0 + k => w[i] = 0
        <3> SUFFICES ASSUME NEW i \in 1..Len(w), i <= 0 \/ i > 0 + k PROVE w[i] = 0
            OBVIOUS
        <3> DEFINE j == i - k
        <3>1. j \in 1..m /\ k + j = i
            BY <1>1, <1>5
        <3> HIDE DEF j
        <3>2. w[k + j] = z[j]
            BY <1>2, <1>3, <3>1 DEF Joins
        <3> QED  BY <1>2, <3>1, <3>2
    <2> QED  BY <1>3, <2>1, <2>2 DEF Within
<1>10. Within(w \o <<>>, 0, d)
    BY <1>7, <1>9
<1>11. Len(w) + (IF FALSE /\ Plus = Minus THEN -1 ELSE 1) * IntOf(<<>>) - 0 = n
    BY <1>1, <1>5, IntNone
<1>12. FALSE <=> n \notin -5..21
    OBVIOUS
<1>13. Spells(d, n, w, <<>>, FALSE, Plus, <<>>, 0)
    BY <1>6, <1>8, <1>10, <1>11, <1>12 DEF Spells
<1> QED  BY <1>13 DEF w, z

\* A point among the digits.
LEMMA SpellsSplit ==
    ASSUME NEW d, Significant(d), NEW n \in 1..21, n < Len(d)
    PROVE  Spells(d, n, SubSeq(d, 1, n), SubSeq(d, n + 1, Len(d)), FALSE, Plus, <<>>, 0)
<1> DEFINE k == Len(d)
           u == SubSeq(d, 1, n)
           v == SubSeq(d, n + 1, k)
           o == <<Dot>>
<1>1. d \in Seq(0..9) /\ k \in Nat /\ d[1] # 0 /\ n \in Nat /\ n <= k /\ n >= 1
    BY DEF Significant
<1>2. u \o v = d /\ u \in Seq(0..9) /\ v \in Seq(0..9) /\ Len(u) = n /\ Len(v) = k - n /\ \A i \in 1..n : u[i] = d[i]
    BY <1>1, SplitJoin
<1>3. Form(d, n) = u \o o \o v
    <2>1. ~(Len(d) <= n) /\ n \in 1..21
        BY <1>1
    <2> QED  BY <2>1 DEF Form, Split
<1> HIDE DEF u, v
<1>4. u # <<>> /\ v # <<>> /\ u[1] # 0
    BY <1>1, <1>2
<1>5. IsPart(u, v, FALSE, Plus, <<>>)
    BY <1>2, <1>4 DEF IsPart
<1>6. o \in Seq(Int) /\ u \in Seq(Int) /\ v \in Seq(Int)
    <2>1. \A q \in Seq(0..9) : q \in Seq(Int)
        OBVIOUS
    <2>2. Dot \in Int
        BY DEF Dot
    <2>3. o \in Seq(Int)
        BY <2>2
    <2> QED  BY <1>2, <2>1, <2>3
<1> HIDE DEF o
<1>7. u \o o \o v = u \o (o \o v) /\ (u \o (o \o v)) \o <<>> = u \o (o \o v)
    <2>1. o \o v \in Seq(Int)
        BY <1>6, ConcatProperties
    <2>2. u \o (o \o v) \in Seq(Int)
        BY <1>6, <2>1, ConcatProperties
    <2>3. (u \o (o \o v)) \o <<>> = u \o (o \o v)
        BY <2>2, ConcatEmptySeq
    <2>4. (u \o o) \o v = u \o (o \o v)
        BY <1>6, Regroup
    <2> QED  BY <2>3, <2>4
<1>8. Form(d, n) = (u \o Fraction(v)) \o Exponent(FALSE, Plus, <<>>)
    BY <1>3, <1>4, <1>7 DEF Fraction, Exponent, o
<1>9. Within(d, 0, d)
    BY <1>1, PlacedWhole DEF Within
<1>10. Len(u) + (IF FALSE /\ Plus = Minus THEN -1 ELSE 1) * IntOf(<<>>) - 0 = n
    BY <1>1, <1>2, IntNone
<1>11. FALSE <=> n \notin -5..21
    OBVIOUS
<1>12. Spells(d, n, u, v, FALSE, Plus, <<>>, 0)
    BY <1>2, <1>5, <1>8, <1>9, <1>10, <1>11 DEF Spells
<1> QED  BY <1>12 DEF u, v

\* A point and zeros before the digits.
LEMMA SpellsSmall ==
    ASSUME NEW d, Significant(d), NEW n \in -5..0
    PROVE  Spells(d, n, <<0>>, Zeros(-n) \o d, FALSE, Plus, <<>>, 1 - n)
<1> DEFINE m == -n
           z == Zeros(m)
           v == z \o d
           u == <<0>>
           o == <<Dot>>
           k == Len(d)
           q == u \o v
<1>1. d \in Seq(0..9) /\ k \in Nat /\ k # 0 /\ m \in Nat /\ 1 - n = m + 1
    BY DEF Significant
<1>2. z \in Seq(0..9) /\ Len(z) = m /\ \A i \in 1..m : z[i] = 0
    <2> HIDE DEF m
    <2> QED  BY <1>1, ZerosAre
<1>3. Form(d, n) = <<0, Dot>> \o z \o d
    <2>1. n \notin 1..21
        OBVIOUS
    <2> QED  BY <2>1 DEF Form, Small
<1> HIDE DEF m, z
<1>4. v \in Seq(0..9) /\ Joins(v, z, d)
    BY <1>1, <1>2, JoinAt
<1>5. u \in Seq(0..9) /\ Len(u) = 1 /\ u[1] = 0 /\ u # <<>>
    OBVIOUS
<1>6. Len(v) = m + k /\ v # <<>>
    <2> HIDE DEF v
    <2>1. Len(v) = m + k
        BY <1>2, <1>4 DEF Joins
    <2> QED  BY <1>1, <1>4, <2>1
<1>7. IsPart(u, v, FALSE, Plus, <<>>)
    <2> HIDE DEF u, v
    <2> QED  BY <1>4, <1>5 DEF IsPart
<1>8. <<0, Dot>> = u \o o
    <2>1. 0 \in Int /\ Dot \in Int
        BY DEF Dot
    <2> QED  BY <2>1, TwoOf
<1>9. o \in Seq(Int) /\ u \in Seq(Int) /\ z \in Seq(Int) /\ d \in Seq(Int) /\ v \in Seq(Int)
    <2> HIDE DEF u, v
    <2>1. \A w \in Seq(0..9) : w \in Seq(Int)
        OBVIOUS
    <2>2. Dot \in Int
        BY DEF Dot
    <2>3. o \in Seq(Int)
        BY <2>2
    <2> QED  BY <1>1, <1>2, <1>4, <1>5, <2>1, <2>3
<1>10. Form(d, n) = (u \o (o \o v)) \o <<>>
    <2> HIDE DEF o, u
    <2>1. u \o o \in Seq(Int) /\ o \o v \in Seq(Int)
        BY <1>9, ConcatProperties
    <2>2. (u \o o) \o z \o d = (u \o o) \o v
        <3> DEFINE w == u \o o
        <3> HIDE DEF w, v
        <3>1. w \in Seq(Int)
            BY <2>1 DEF w
        <3>2. (w \o z) \o d = w \o (z \o d)
            BY <1>9, <3>1, Regroup
        <3> QED  BY <3>2 DEF w, v
    <2> HIDE DEF v
    <2>3. (u \o o) \o v = u \o (o \o v)
        BY <1>9, Regroup
    <2>4. u \o (o \o v) \in Seq(Int)
        BY <1>9, <2>1, ConcatProperties
    <2>5. (u \o (o \o v)) \o <<>> = u \o (o \o v)
        BY <2>4, ConcatEmptySeq
    <2> QED  BY <1>3, <1>8, <2>2, <2>3, <2>5
<1>11. Form(d, n) = (u \o Fraction(v)) \o Exponent(FALSE, Plus, <<>>)
    BY <1>6, <1>10 DEF Fraction, Exponent
<1>12. q \in Seq(0..9) /\ Joins(q, u, v)
    <2> HIDE DEF u, v
    <2> QED  BY <1>4, <1>5, JoinAt
<1> HIDE DEF q, u, v
<1>13. Len(q) = m + 1 + k
    BY <1>1, <1>5, <1>6, <1>12 DEF Joins
<1>14. Placed(q, m + 1, d)
    <2> SUFFICES ASSUME NEW i \in 1..k PROVE q[m + 1 + i] = d[i]
        BY <1>1, <1>13 DEF Placed
    <2> DEFINE j == m + i
    <2>1. j \in 1..(m + k) /\ m + 1 + i = 1 + j
        BY <1>1
    <2>2. v[j] = d[i]
        BY <1>2, <1>4 DEF Joins
    <2> HIDE DEF j
    <2>3. q[1 + j] = v[j]
        BY <1>5, <1>6, <1>12, <2>1 DEF Joins
    <2> QED  BY <2>1, <2>2, <2>3
<1>15. \A i \in 1..Len(q) : i <= m + 1 \/ i > m + 1 + k => q[i] = 0
    <2> SUFFICES ASSUME NEW i \in 1..Len(q), i <= m + 1 \/ i > m + 1 + k PROVE q[i] = 0
        OBVIOUS
    <2>1. CASE i = 1
        <3>1. q[1] = u[1]
            BY <1>5, <1>12 DEF Joins
        <3> QED  BY <1>5, <2>1, <3>1
    <2>2. CASE i # 1
        <3> DEFINE j == i - 1
        <3>1. j \in 1..m /\ j \in 1..(m + k) /\ 1 + j = i
            BY <1>1, <1>13, <2>2
        <3> HIDE DEF j
        <3>2. q[1 + j] = v[j]
            BY <1>5, <1>6, <1>12, <3>1 DEF Joins
        <3>3. v[j] = z[j]
            BY <1>2, <1>4, <3>1 DEF Joins
        <3> QED  BY <1>2, <3>1, <3>2, <3>3
    <2> QED  BY <2>1, <2>2
<1>16. Within(q, 1 - n, d)
    BY <1>1, <1>12, <1>14, <1>15 DEF Within
<1>17. Len(u) + (IF FALSE /\ Plus = Minus THEN -1 ELSE 1) * IntOf(<<>>) - (1 - n) = n
    BY <1>5, IntNone
<1>18. FALSE <=> n \notin -5..21
    OBVIOUS
<1>19. Spells(d, n, u, v, FALSE, Plus, <<>>, 1 - n)
    BY <1>7, <1>11, <1>16, <1>17, <1>18 DEF Spells, q
<1> QED  BY <1>19 DEF u, v, z, m

\* One digit, the others behind a point, and the exponent.
LEMMA SpellsScience ==
    ASSUME NEW d, Significant(d), NEW n \in Int, n \notin -5..21
    PROVE  Spells(d, n, <<d[1]>>, Tail(d), TRUE, IF n >= 1 THEN Plus ELSE Minus, Str[IF n >= 1 THEN n - 1 ELSE 1 - n], 0)
<1> DEFINE g == IF n >= 1 THEN Plus ELSE Minus
           m == IF n >= 1 THEN n - 1 ELSE 1 - n
           z == Str[m]
           u == <<d[1]>>
           v == Tail(d)
           x == <<Exp, g>>
           y == IF Len(d) = 1 THEN <<>> ELSE <<Dot>> \o v
<1>1. d \in Seq(0..9) /\ d # <<>> /\ d[1] # 0 /\ Len(d) \in Nat
    BY DEF Significant
<1>2. u \o v = d /\ v \in Seq(0..9) /\ d[1] \in 0..9 /\ SubSeq(d, 1, 1) = u
    BY <1>1, HeadTail
<1>3. m \in Nat
    OBVIOUS
<1>4. z \in Seq(0..9) /\ z # <<>> /\ IntOf(z) = m
    <2> HIDE DEF m
    <2> QED  BY <1>3, StrFacts
<1>5. v = <<>> <=> Len(d) = 1
    <2>1. Len(v) = Len(d) - 1
        BY <1>1
    <2> HIDE DEF v
    <2>2. v = <<>> <=> Len(v) = 0
        BY <1>2
    <2> QED  BY <1>1, <2>1, <2>2
<1>6. Form(d, n) = u \o y \o x \o z
    <2>1. Form(d, n) = Science(d, n)
        <3>1. n \notin 1..21 /\ n \notin -5..0
            OBVIOUS
        <3> QED  BY <3>1 DEF Form
    <2>2. Science(d, n) = SubSeq(d, 1, 1) \o y \o x \o z
        BY ScienceIs
    <2> QED  BY <1>2, <2>1, <2>2
<1>7. y = Fraction(v)
    BY <1>5 DEF Fraction
<1>8. u \in Seq(0..9) /\ u # <<>> /\ u[1] = d[1] /\ Len(u) = 1
    BY <1>2
<1>9. g \in {Plus, Minus} /\ g \in Int /\ (g = Minus <=> ~(n >= 1))
    BY DEF Plus, Minus
<1> HIDE DEF u, v, z, y, g
<1>10. IsPart(u, v, TRUE, g, z)
    BY <1>1, <1>2, <1>4, <1>8, <1>9 DEF IsPart
<1>11. u \in Seq(Int) /\ y \in Seq(Int) /\ z \in Seq(Int)
    BY <1>7, <1>10, PartTypes
<1>12. x \in Seq(Int)
    <2>1. Exp \in Int
        BY DEF Exp
    <2> QED  BY <1>9, <2>1
<1> HIDE DEF x
<1>13. (u \o y) \o x \o z = (u \o y) \o (x \o z)
    <2> DEFINE w == u \o y
    <2>1. w \in Seq(Int)
        BY <1>11, ConcatProperties
    <2> HIDE DEF w
    <2>2. (w \o x) \o z = w \o (x \o z)
        BY <1>11, <1>12, <2>1, Regroup
    <2> QED  BY <2>2 DEF w
<1>14. Form(d, n) = (u \o Fraction(v)) \o Exponent(TRUE, g, z)
    BY <1>6, <1>7, <1>13 DEF Exponent, x
<1>15. Within(d, 0, d)
    BY <1>1, PlacedWhole DEF Within
<1>16. Len(u) + (IF TRUE /\ g = Minus THEN -1 ELSE 1) * IntOf(z) - 0 = n
    <2>1. CASE n >= 1
        BY <1>4, <1>8, <1>9, <2>1
    <2>2. CASE ~(n >= 1)
        BY <1>4, <1>8, <1>9, <2>2
    <2> QED  BY <2>1, <2>2
<1>17. Spells(d, n, u, v, TRUE, g, z, 0)
    BY <1>2, <1>10, <1>14, <1>15, <1>16 DEF Spells
<1> QED  BY <1>17 DEF u, v, g, z

\* One of the four spellings.
LEMMA Spelling ==
    ASSUME NEW d, Significant(d), NEW n \in Int
    PROVE  \E int, fr, ex, g, z, a : Spells(d, n, int, fr, ex, g, z, a)
<1>0. Len(d) \in Nat
    BY DEF Significant
<1>1. CASE n \in 1..21 /\ Len(d) <= n
    <2>1. Spells(d, n, d \o Zeros(n - Len(d)), <<>>, FALSE, Plus, <<>>, 0)
        BY <1>1, SpellsWhole
    <2> QED  BY <2>1
<1>2. CASE n \in 1..21 /\ n < Len(d)
    <2>1. Spells(d, n, SubSeq(d, 1, n), SubSeq(d, n + 1, Len(d)), FALSE, Plus, <<>>, 0)
        BY <1>2, SpellsSplit
    <2> QED  BY <2>1
<1>3. CASE n \in -5..0
    <2>1. Spells(d, n, <<0>>, Zeros(-n) \o d, FALSE, Plus, <<>>, 1 - n)
        BY <1>3, SpellsSmall
    <2> QED  BY <2>1
<1>4. CASE n \notin -5..21
    <2>1. Spells(d, n, <<d[1]>>, Tail(d), TRUE, IF n >= 1 THEN Plus ELSE Minus, Str[IF n >= 1 THEN n - 1 ELSE 1 - n], 0)
        BY <1>4, SpellsScience
    <2> QED  BY <2>1
<1> QED  BY <1>0, <1>1, <1>2, <1>3, <1>4

\* What a spelling is read as.
ReadsAs(s, f) ==
    /\ PyNumber(s) = IsRead(f)
    /\ (\E i \in DOMAIN s : s[i] = Exp) <=> f.digits # <<>> /\ f.point \notin -5..21

\* Whatever form it has, a spelling is read as the value that was spelt, and has
\* an exponent exactly from 10^21 on and below 10^-6.
LEMMA SpellingRead ==
    ASSUME NEW f, IsValue(f), f.digits # <<>>
    PROVE  ReadsAs(SignOf(f) \o Form(f.digits, f.point), f)
<1> DEFINE d == f.digits
           n == f.point
           sg == IF f.neg THEN <<Minus>> ELSE <<>>
<1>1. Significant(d) /\ n \in Int /\ f.neg \in BOOLEAN
    BY DEF IsValue, Significant
<1>2. PICK int, fr, ex, g, z, a : Spells(d, n, int, fr, ex, g, z, a)
    <2> HIDE DEF d, n
    <2> QED  BY <1>1, Spelling
<1> DEFINE s == sg \o ((int \o Fraction(fr)) \o Exponent(ex, g, z))
           sign == IF ex /\ g = Minus THEN -1 ELSE 1
<1>3. /\ IsPart(int, fr, ex, g, z)
      /\ Form(d, n) = (int \o Fraction(fr)) \o Exponent(ex, g, z)
      /\ Within(int \o fr, a, d)
      /\ Len(int) + sign * IntOf(z) - a = n
      /\ ex <=> n \notin -5..21
    BY <1>2 DEF Spells
<1>4. s = SignOf(f) \o Form(d, n)
    BY <1>3 DEF SignOf
<1>5. sg \in Seq(Int)
    BY DEF Minus
<1>6. Laid(s, sg, int, fr, ex, g, z)
    <2> HIDE DEF sg
    <2> QED  BY <1>3, <1>5, LaidOut
<1> HIDE DEF s
<1>7. /\ Scanned(s, int, fr, sign, z)
      /\ (s[1] = Minus) = f.neg
      /\ (\E i \in DOMAIN s : s[i] = Exp) <=> ex
    <2>1. Laid(s, IF f.neg THEN <<Minus>> ELSE <<>>, int, fr, ex, g, z)
        BY <1>6
    <2> HIDE DEF sg
    <2>2. Scans(s, f.neg, int, fr, ex, g, z)
        BY <1>1, <1>3, <2>1, LaidMarks
    <2> QED  BY <2>2 DEF Scans
<1>8. sign \in {-1, 1} /\ z \in Seq(0..9) /\ Len(int) \in Nat
    BY <1>3 DEF IsPart
<1> HIDE DEF sign
<1>9. PyNumber(s) = IsRead(f)
    BY <1>3, <1>7, <1>8, ReadBack
<1>10. ReadsAs(s, f)
    BY <1>3, <1>7, <1>9 DEF ReadsAs
<1> QED  BY <1>4, <1>10

\* So is the spelling of zero.
LEMMA ZeroRead == EsNumber(Zero(FALSE)) = <<0>> /\ FormatNumber(Zero(FALSE)) = <<0>> /\ ReadsAs(<<0>>, Zero(FALSE))
<1> DEFINE s == <<0>>
           none == <<>>
           f == Zero(FALSE)
<1>1. f.digits = <<>> /\ f.neg = FALSE
    BY DEF Zero
<1>2. EsNumber(f) = <<0>> /\ FormatNumber(f) = <<0>>
    <2> HIDE DEF f
    <2> QED  BY <1>1 DEF EsNumber, FormatNumber
<1>3. s \in Seq(0..9) /\ s # <<>> /\ s[1] = 0 /\ Len(s) = 1 /\ s \in Seq(Int)
    OBVIOUS
<1>4. IsPart(s, <<>>, FALSE, Plus, <<>>)
    <2> HIDE DEF s
    <2> QED  BY <1>3 DEF IsPart
<1>5. <<>> \o ((s \o Fraction(<<>>)) \o Exponent(FALSE, Plus, <<>>)) = s
    <2> HIDE DEF s
    <2>1. (s \o <<>>) \o <<>> = s /\ <<>> \o s = s
        BY <1>3, ConcatEmptySeq
    <2> QED  BY <2>1 DEF Fraction, Exponent
<1>6. Laid(s, IF FALSE THEN <<Minus>> ELSE <<>>, s, <<>>, FALSE, Plus, <<>>)
    <2> HIDE DEF s
    <2>1. <<>> \in Seq(Int)
        OBVIOUS
    <2>2. Laid(<<>> \o ((s \o Fraction(<<>>)) \o Exponent(FALSE, Plus, <<>>)), <<>>, s, <<>>, FALSE, Plus, <<>>)
        BY <1>4, <2>1, LaidOut
    <2> QED  BY <1>5, <2>2
<1>7. /\ Scanned(s, s, <<>>, IF FALSE /\ Plus = Minus THEN -1 ELSE 1, <<>>)
      /\ (s[1] = Minus) = FALSE
      /\ (\E i \in DOMAIN s : s[i] = Exp) <=> FALSE
    <2> HIDE DEF s
    <2>1. FALSE \in BOOLEAN
        OBVIOUS
    <2>2. Scans(s, FALSE, s, <<>>, FALSE, Plus, <<>>)
        BY <1>4, <1>6, <2>1, LaidMarks
    <2> QED  BY <2>2 DEF Scans
<1>8. ParseFloat(s) = [finite |-> TRUE, value |-> f] /\ ScanNumber(s).ok
    <2>1. s \o <<>> = s
        BY <1>3, ConcatEmptySeq
    <2>2. \A i \in DOMAIN s : s[i] = 0
        BY <1>3
    <2> HIDE DEF s
    <2>3. ScanNumber(s) = [ok |-> TRUE, int |-> s, frac |-> <<>>, sign |-> 1, exp |-> <<>>]
        BY <1>7 DEF Scanned
    <2>4. ParseFloat(s) = Float(FALSE, s, Len(s) + 1 * IntOf(<<>>))
        <3>1. /\ ScanNumber(s).int = s /\ ScanNumber(s).frac = <<>>
              /\ ScanNumber(s).sign = 1 /\ ScanNumber(s).exp = <<>>
            BY <2>3
        <3>2. ParseFloat(s) = Float(s[1] = Minus, s \o <<>>, Len(s) + 1 * IntOf(<<>>))
            BY <3>1 DEF ParseFloat
        <3> QED  BY <1>7, <2>1, <3>2
    <2>5. Float(FALSE, s, Len(s) + 1 * IntOf(<<>>)) = [finite |-> TRUE, value |-> Zero(FALSE)]
        BY <2>2, FloatNone
    <2>6. ScanNumber(s).ok = TRUE
        BY <2>3
    <2>7. ParseFloat(s) = [finite |-> TRUE, value |-> f]
        BY <2>4, <2>5
    <2> QED  BY <2>6, <2>7
<1>9. PyNumber(s) = IsRead(f)
    <2> HIDE DEF s, f
    <2>1. ParseFloat(s).finite = TRUE /\ ParseFloat(s).value = f /\ ScanNumber(s).ok /\ ~(s[1] = Minus)
        BY <1>7, <1>8
    <2> QED  BY <2>1 DEF PyNumber, IsRead
<1>10. ReadsAs(s, f)
    <2> HIDE DEF s, f
    <2> QED  BY <1>1, <1>7, <1>9 DEF ReadsAs
<1> QED  BY <1>2, <1>10

\* The readers and the writers, on any literal.
LEMMA NumbersExact ==
    ASSUME NEW s \in Seq(Int)
    PROVE  \A read \in {PyNumber(s)} :
            /\ read = GoNumber(s)
            /\ read.ok <=> /\ IsNumber(s) /\ ParseFloat(s).finite
                           /\ s[1] = Minus => ParseFloat(s).value.digits # <<>>
            /\ read.ok =>
                  \A w \in {EsNumber(read.value)} :
                      /\ w = FormatNumber(read.value)
                      /\ PyNumber(w) = read
                      /\ (\E i \in DOMAIN w : w[i] = Exp)
                            <=> read.value.digits # <<>> /\ read.value.point \notin -5..21
<1> DEFINE read == PyNumber(s)
           f == ParseFloat(s).value
           w == EsNumber(f)
<1>1. /\ read = GoNumber(s)
      /\ read.ok <=> /\ IsNumber(s) /\ ParseFloat(s).finite
                     /\ s[1] = Minus => ParseFloat(s).value.digits # <<>>
      /\ read.ok => read = IsRead(f) /\ IsValue(f) /\ (f.digits = <<>> => f = Zero(FALSE))
    BY ReadersAgree DEF IsRead
<1>2. ASSUME read.ok
      PROVE  w = FormatNumber(f) /\ ReadsAs(w, f) /\ read = IsRead(f)
    <2>1. read = IsRead(f) /\ IsValue(f) /\ (f.digits = <<>> => f = Zero(FALSE))
        BY <1>1, <1>2
    <2> HIDE DEF read, f
    <2>2. CASE f.digits = <<>>
        BY <2>1, <2>2, ZeroRead
    <2>3. CASE f.digits # <<>>
        <3>1. EsNumber(f) = SignOf(f) \o Form(f.digits, f.point)
            BY <2>1, <2>3, EsForm
        <3>2. FormatNumber(f) = SignOf(f) \o Form(f.digits, f.point)
            BY <2>1, <2>3, FormatForm
        <3>3. ReadsAs(SignOf(f) \o Form(f.digits, f.point), f)
            BY <2>1, <2>3, SpellingRead
        <3> QED  BY <2>1, <3>1, <3>2, <3>3
    <2> QED  BY <2>2, <2>3
<1>3. read.ok => /\ read.value = f /\ w = FormatNumber(f) /\ PyNumber(w) = read
                 /\ (\E i \in DOMAIN w : w[i] = Exp) <=> f.digits # <<>> /\ f.point \notin -5..21
    <2> SUFFICES ASSUME read.ok
                 PROVE  /\ read.value = f /\ w = FormatNumber(f) /\ PyNumber(w) = read
                        /\ (\E i \in DOMAIN w : w[i] = Exp) <=> f.digits # <<>> /\ f.point \notin -5..21
        OBVIOUS
    <2>1. w = FormatNumber(f) /\ ReadsAs(w, f) /\ read = IsRead(f)
        BY <1>2
    <2> HIDE DEF read, f, w
    <2>2. PyNumber(w) = IsRead(f) /\ ((\E i \in DOMAIN w : w[i] = Exp) <=> f.digits # <<>> /\ f.point \notin -5..21)
        BY <2>1 DEF ReadsAs
    <2>3. IsRead(f).value = f
        BY DEF IsRead
    <2> QED  BY <2>1, <2>2, <2>3
<1> HIDE DEF read, f, w
<1>4. read.ok =>
         \A x \in {EsNumber(read.value)} :
             /\ x = FormatNumber(read.value) /\ PyNumber(x) = read
             /\ (\E i \in DOMAIN x : x[i] = Exp) <=> read.value.digits # <<>> /\ read.value.point \notin -5..21
    BY <1>3 DEF w
<1> QED  BY <1>1, <1>4 DEF read

SpeltNumber == mode = "number" => text \in Seq(Int)

\* For every number literal, of any length, _number with float, and parseNumber
\* with ParseFloat, accept it exactly when the grammar does, it is in range and
\* it is not a negative zero; _es_number and FormatNumber spell the value the
\* same way, with an exponent exactly where ECMAScript has one, and the spelling
\* is read back as the value.
THEOREM NumbersAlwaysExact == ScalarSpec => []NumbersReadAndWrite
<1>1. ScalarInit => SpeltNumber
    BY DEF ScalarInit, SpeltNumber
<1>2. ASSUME SpeltNumber, [ScalarNext]_scalarVars
      PROVE  SpeltNumber'
    <2>1. CASE SpellString
        BY <2>1 DEF SpellString, SpeltNumber
    <2>2. CASE SpellNumber
        <3>1. text \in Seq(Int) /\ mode' = mode
            BY <1>2, <2>2 DEF SpellNumber, SpeltNumber
        <3>2. PICK c \in Digits \cup {Minus, Plus, Dot, Exp} : text' = Append(text, c)
            BY <2>2 DEF SpellNumber
        <3>3. c \in Int
            BY ScalarAssumption DEF Minus, Plus, Dot, Exp
        <3> QED  BY <3>1, <3>2, <3>3 DEF SpeltNumber
    <2>3. CASE UNCHANGED scalarVars
        BY <1>2, <2>3 DEF scalarVars, SpeltNumber
    <2> QED  BY <1>2, <2>1, <2>2, <2>3 DEF ScalarNext
<1>3. SpeltNumber => NumbersReadAndWrite
    BY NumbersExact DEF SpeltNumber, NumbersReadAndWrite
<1> QED  BY <1>1, <1>2, <1>3, PTL DEF ScalarSpec
=============================================================================
