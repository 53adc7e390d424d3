SPECIFICATION FairSpec
CONSTANTS
    Threads = {t1, t2, t3}
    NoThread = NoThread
    Items = {v1, v2}
    Null = Null
    Garbage = Garbage
INVARIANTS
    TypeOK
    ReadersSeeWhole
    LocksMatchPlaces
PROPERTIES
    SectionsEnd
    ImplementsAtomicQueue
