---------------------------- MODULE MCFederation ----------------------------
(* Instances of the federation of two relays for TLC. *)
EXTENDS Federation

CONSTANTS A, B, wAB, wBA, c, p, q, x

MCBody(id, type, channel, verdict) ==
    [id |-> id, type |-> type, channel |-> channel, verdict |-> verdict]

\* An advertised channel with a pointer, and a pointer in a capability
\* channel nobody describes, genuine and with a signature that is not.
Chan    == MCBody(c, "channel", None, "valid")
Pointer == MCBody(p, "pointer", c, "valid")
Secret  == MCBody(q, "pointer", x, "valid")
Forged  == MCBody(q, "pointer", x, "invalid")

\* Two honest relays, each synchronised from the other: a channel that
\* clients of A fill, and a description that clients of both publish while
\* answers come without their bodies.
Mutual(bodies, clientsA, clientsB, lost) ==
    [honest    |-> {A, B},
     from      |-> [w \in {wAB, wBA} |-> IF w = wAB THEN A ELSE B],
     to        |-> [w \in {wAB, wBA} |-> IF w = wAB THEN B ELSE A],
     bodies    |-> bodies,
     clients   |-> [r \in Relays |-> IF r = A THEN clientsA ELSE clientsB],
     channels  |-> {},
     blocked   |-> [r \in Relays |-> {}],
     maxUnread |-> lost]
Filling == Mutual({Chan, Pointer}, {Chan, Pointer}, {}, 0)
Racing  == Mutual({Chan}, {Chan}, {Chan}, 1)

\* One worker between relays of which the source may serve anything and the
\* destination has a policy.
Sources(trusted, refused) ==
    [honest    |-> trusted,
     from      |-> [w \in {wAB} |-> A],
     to        |-> [w \in {wAB} |-> B],
     bodies    |-> {Chan, Secret, Forged},
     clients   |-> [r \in Relays |-> {Chan, Secret}],
     channels  |-> {x},
     blocked   |-> [r \in Relays |-> IF r = B THEN refused ELSE {}],
     maxUnread |-> 1]
AllDeployments == {Filling, Racing, Sources({A, B}, {q}), Sources({B}, {c})}
=============================================================================
