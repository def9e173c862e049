SPECIFICATION Spec
CONSTANTS
    Procs = {p1}
    Relays = {r1, r2}
    Items <- MixedItems
    Own <- OwnChannel
    Savers = {"A"}
    Torn = Torn
    NoFile = NoFile
    None = None
    m = m
    f = f
    o1 = o1
    o2 = o2
    x = x
INVARIANTS
    DeliveredOnce
    PollComplete
    RecordedIsStored
    StateReadable
SYMMETRY RelaySymmetry
