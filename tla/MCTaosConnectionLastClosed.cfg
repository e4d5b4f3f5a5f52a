SPECIFICATION Spec
CONSTANTS
    Thread = {t1, t2}
    Handle = {c1, c2}
    NoThread = NoThread
    NoHandle = NoHandle
    MaxFailed = 1
SYMMETRY Symmetry
INVARIANT CleanedUpAfterLastClosed
