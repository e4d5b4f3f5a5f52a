SPECIFICATION Spec
CONSTANTS
    Errno <- Errnos
    Stmt = {s1, s2}
    Table <- Tables
    MaxCalls = 2
INVARIANT TextsStay
CHECK_DEADLOCK FALSE
