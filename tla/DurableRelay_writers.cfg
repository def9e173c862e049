SPECIFICATION Spec
CONSTANTS
    Threads = {t1, t2}
    Readers = {}
    Bodies <- WriterBodies
    Queries <- AllQueries
    Settings <- AllSettings
    MaxSeq = 4
    MaxH = 8
    UnitScale = 2
    NoRow = NoRow
    NoThread = NoThread
    None = None
    c1 = c1
    c2 = c2
    p = p
    o = o
    x = x
    key = key
INVARIANTS
    TypeOK
    AckedIsDurable
    AtMostOneFresh
    AdvertisedExactly
PROPERTIES
    AppendOnly
    ImplementsRelaySpec
