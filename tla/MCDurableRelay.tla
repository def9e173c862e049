--------------------------- MODULE MCDurableRelay ---------------------------
(* Instances of the durable relay for TLC. *)
EXTENDS DurableRelayRefinement

CONSTANTS c1, c2, p, o, x, key

MCBody(id, env, type, channel, object) ==
    [transport |-> "ok", size |-> 1, verdict |-> "valid", id |-> id, env |-> env,
     type |-> type, actor |-> key, channel |-> channel, object |-> object,
     h |-> 2, units |-> 1, locators |-> 1, locator_bytes |-> 1, parents |-> 0]

\* Two channel descriptions, a pointer of the first channel with two
\* different signatures, and a body that does not verify.
Chan1    == MCBody(c1, 1, "channel", None, o)
Chan2    == MCBody(c2, 1, "channel", None, o)
Pointer  == MCBody(p, 1, "pointer", c1, o)
Resigned == MCBody(p, 2, "pointer", c1, o)
Broken   == [MCBody(x, 1, "pointer", c1, o) EXCEPT !.verdict = "invalid"]

WriterBodies == {Chan1, Chan2, Pointer, Resigned, Broken}
ReaderBodies == {Chan1, Chan2, Pointer}

AllAdvertised == [kind |-> "advertised", key |-> None]
InChannel     == [kind |-> "channel", key |-> c1]
OfObject      == [kind |-> "object", key |-> o]
ById          == [kind |-> "assertion", key |-> p]
AllQueries    == {AllAdvertised, InChannel, OfObject, ById}

MCSetting(pages) ==
    [max_record_bytes |-> 2, max_locators |-> 256, max_locator_bytes |-> 8192,
     max_parents |-> 1024, page_size |-> pages, pow_multiplier |-> 1,
     block_actor |-> None, block_channel |-> None]

\* A page size that build_config has to raise to 1, and a relay that blocks
\* the first channel.
AllSettings == {MCSetting(0), [MCSetting(2) EXCEPT !.block_channel = c1]}
OpenSettings == {MCSetting(0), MCSetting(2)}
=============================================================================
