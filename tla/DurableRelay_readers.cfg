SPECIFICATION FairSpec
CONSTANTS
    Threads = {t1}
    Readers = {r1}
    Bodies <- ReaderBodies
    Queries <- AllQueries
    Settings <- OpenSettings
    MaxSeq = 3
    MaxH = 8
    UnitScale = 2
    NoRow = NoRow
    NoThread = NoThread
    None = None
    c1 = c1
    c2 = c2
    p = p
    o = o
    x = x
    key = key
INVARIANTS
    ListingComplete
    NoItemTwice
PROPERTIES
    ImplementsRelaySpec
    WalkEnds
