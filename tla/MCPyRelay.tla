----------------------------- MODULE MCPyRelay -----------------------------
(* Instances of the Python in-memory relay for TLC. *)
EXTENDS PyRelay

CONSTANTS c1, p, o, x, key

MCBody(id, type, channel) ==
    [transport |-> "ok", size |-> 1, verdict |-> "valid", id |-> id,
     type |-> type, actor |-> key, channel |-> channel, object |-> o,
     h |-> 2, units |-> 1]

\* A channel description, a pointer in that channel and a body that does not
\* verify.
Chan    == MCBody(c1, "channel", None)
Pointer == MCBody(p, "pointer", c1)
Broken  == [MCBody(x, "pointer", c1) EXCEPT !.verdict = "invalid"]

MCBodies   == {Chan, Pointer, Broken}
GoodBodies == {Chan, Pointer}

\* Handler threads are interchangeable.
ThreadSymmetry == Permutations(Threads)

MCQueries == {Advertised, InChannel(c1), OfObject(o), [kind |-> "assertion", key |-> p]}
=============================================================================
