SPECIFICATION Spec
CONSTANTS
    Errno <- Errnos
    Stmt = {s1, s2}
    Table <- Tables
    MaxCalls = 4
SYMMETRY Symmetry
INVARIANTS
    TypeOK
    ErrorsReported
    TextsOwn
    SchemaExact
CHECK_DEADLOCK FALSE
