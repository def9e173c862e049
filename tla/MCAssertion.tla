----------------------------- MODULE MCAssertion -----------------------------
(* Assertions and the ways in which a message may differ from a valid one. *)
EXTENDS SppVerify

Number(n)       == [kind |-> "number", value |-> n, integral |-> TRUE]
Fraction(n)     == [kind |-> "number", value |-> n, integral |-> FALSE]
Text(form)      == [kind |-> "string", form |-> form]
Locator(bytes)  == [kind |-> "string", form |-> "text", bytes |-> bytes]
Decimal(w, n)   == [kind |-> "string", form |-> "decimal", digits |-> w, value |-> n]
List(els)       == [kind |-> "array", els |-> els]
Literal         == [kind |-> "literal"]
Ref(hash, locs) == [kind |-> "object", members |-> RefMembers, hash |-> hash, locators |-> locs]
Object(names)   == [kind |-> "object", members |-> names]

GoodRef == Ref(Text("sha256"), List(<<Locator(1)>>))

\* References: not an object, a member missing or too many, each member of
\* the wrong kind or grammar, lists at and over their limits.
Refs == {Absent, Literal, Object({}), Object(RefMembers \cup {"ext"}), GoodRef,
         Ref(Literal, List(<<>>)), Ref(Text("text"), List(<<Literal>>)),
         Ref(Text("sha256"), Literal), Ref(Text("sha256"), List(<<>>)),
         Ref(Text("sha256"), List(<<Locator(MaxLocatorBytes), Locator(1)>>)),
         Ref(Text("sha256"), List(<<Locator(1), Locator(MaxLocatorBytes + 1)>>)),
         Ref(Text("sha256"), List(<<Locator(MaxLocatorBytes + 1), Literal>>)),
         Ref(Text("text"), List(<<Locator(1), Locator(1), Locator(1)>>)),
         Ref(Text("sha256"), List(<<Locator(1), Locator(1), Locator(1)>>))}

Input(bom, bytes, syntax) == [bom |-> bom, bytes |-> bytes, syntax |-> syntax]

MCAlterations == [
    input      |-> {Input(TRUE, "ok", "ok"), Input(TRUE, "noncharacter", "ok"),
                    Input(FALSE, "invalid-utf8", "invalid-json"), Input(FALSE, "ok", "not-object")},
    unknown    |-> {TRUE},
    v          |-> {Absent, Literal, Number(2), Fraction(1)},
    type       |-> {Absent, Literal, Text("text"), Text("pointer"), Text("channel")},
    actor      |-> {Absent, Literal, Text("sha256")},
    created    |-> {Absent, Literal, Number(-1), Fraction(1), Number(MaxCreated),
                    Number(MaxCreated + 1)},
    nonce      |-> {Absent, Literal, Text("text"), Decimal(2, MaxNonce),
                    Decimal(2, MaxNonce + 1), Decimal(3, 100)},
    ext        |-> {Literal, Object({})},
    channel    |-> {Absent, Literal, Text("text"), Text("sha256")},
    ref        |-> Refs,
    descriptor |-> Refs,
    parents    |-> {Literal, List(<<>>), List(<<Literal>>), List(<<Text("text")>>),
                    List(<<Text("sha256"), Text("sha256")>>),
                    List(<<Text("sha256"), Text("text"), Text("sha256")>>)},
    id         |-> {Absent, Literal, [kind |-> "string", form |-> "text", match |-> FALSE],
                    [kind |-> "string", form |-> "sha256", match |-> FALSE]},
    sig        |-> {Absent, Literal, Text("text"),
                    [kind |-> "string", form |-> "hex128", verifies |-> FALSE]},
    jcs        |-> {1023, 1024, 1025, MaxJcs, MaxJcs + 1},
    h          |-> {2, 10, 12}]

\* A pointer and a channel description whose canonical form passes a
\* kilobyte when the nonce gets its second digit.
Draft(type, channel, ref) ==
    [input |-> Input(FALSE, "ok", "ok"), unknown |-> FALSE, v |-> Number(1), type |-> Text(type),
     actor |-> Text("ed25519"), created |-> Number(1), nonce |-> Absent, ext |-> Absent,
     channel |-> channel, ref |-> ref, parents |-> Absent, descriptor |-> Absent,
     id |-> Absent, sig |-> Absent, jcs |-> 1023, h |-> 0]

MCDrafts == {Draft("pointer", Text("sha256"), GoodRef), Draft("channel", Absent, Absent)}
MCPow10  == [n \in 0..NonceDigits |-> 10^n]
MCHashes == {2, 12, 20}
=============================================================================
