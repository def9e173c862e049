SPECIFICATION Spec
CONSTANTS
    Procs = {p1, p2}
    Relays = {r1}
    Items <- OwnPointer
    Own <- OwnPointer
    Savers = {"A", "B"}
    Torn = Torn
    NoFile = NoFile
    None = None
    m = m
    f = f
    o1 = o1
    o2 = o2
    x = x
INVARIANTS
    PublishedIsHeld
CHECK_DEADLOCK FALSE
SYMMETRY ProcSymmetry
