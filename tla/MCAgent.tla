------------------------------ MODULE MCAgent ------------------------------
(* Instances of an agent's state directory for TLC. *)
EXTENDS Agent, TLC

CONSTANTS m, f, o1, o2, x

MCItem(id, type, object, verdict) ==
    [id |-> id, type |-> type, object |-> object, verdict |-> verdict]

\* A pointer and a channel description of this agent, a pointer of another
\* agent and an item that does not verify.
Mine    == MCItem(m, "pointer", o1, "valid")
Channel == MCItem(x, "channel", None, "valid")
Foreign == MCItem(f, "pointer", o2, "valid")
Broken  == MCItem(f, "pointer", o2, "invalid")

MixedItems == {Channel, Foreign, Broken}
OwnChannel == {Channel}
Pointers   == {Mine, Foreign}
OwnPointer == {Mine}

ProcSymmetry  == Permutations(Procs)
RelaySymmetry == Permutations(Relays)
=============================================================================
