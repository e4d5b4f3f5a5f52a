SPECIFICATION Spec
CONSTANTS
    Row = {r1, r2}
    Table = {t1, t2}
    NoTable = NoTable
    NoRecord = NoRecord
    MaxErrors = 2
SYMMETRY Symmetry
INVARIANT OkMeansStored
CHECK_DEADLOCK FALSE
