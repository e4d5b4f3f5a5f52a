SPECIFICATION FairSpec
CONSTANTS
    Thread = {t1, t2, t3}
    Handle = {c1, c2, c3}
    NoThread = NoThread
    NoHandle = NoHandle
    MaxFailed = 1
INVARIANTS
    TypeOK
    LibraryUpWhileUsed
    CountExact
PROPERTIES
    LifetimeRefined
    TornDownEventually
