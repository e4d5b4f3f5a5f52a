SPECIFICATION FairSpec
CONSTANTS
    Row = {r1, r2, r3}
    Table = {t1, t2}
    NoTable = NoTable
    NoRecord = NoRecord
    MaxErrors = 2
INVARIANTS
    TypeOK
    NoPhantomRow
    AckedIsBatched
PROPERTIES
    PromiseKept
    MethodsReturn
CHECK_DEADLOCK FALSE
