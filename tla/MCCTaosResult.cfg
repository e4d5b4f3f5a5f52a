SPECIFICATION Spec
CONSTANTS
    Task = {t1, t2}
    Result = {r1, r2, r3}
    NoResult = NoResult
    MaxRows = 2
SYMMETRY Symmetry
INVARIANTS
    TypeOK
    OwnedIsLive
    OnlyProbesLeak
    RowsExact
    AllRows
CHECK_DEADLOCK FALSE
