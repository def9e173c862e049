SPECIFICATION Spec
CONSTANTS
    Threads = {t1,t2}
    Readers = {r1}
    Bodies <- MCBodies
    Queries <- MCQueries
    PageSize = 1
    MaxRecord = 2
    Multiplier = 1
    BlockActor = None
    BlockChannel = None
    MaxH = 8
    UnitScale = 2
    None = None
    c1 = c1
    p = p
    o = o
    x = x
    key = key
INVARIANTS
    PromisedIsHeld
    ListingComplete
    HeldIsListed
SYMMETRY ThreadSymmetry
