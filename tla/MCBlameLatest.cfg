SPECIFICATION Spec
CONSTANTS
    first = first
    second = second
    third = third
    ann = ann
    bob = bob
    NoTime = NoTime
    NoCommit = NoCommit
    Commit <- SomeCommit
    Time <- SomeTime
    Author <- SomeAuthor
    MaxChunks = 3
INVARIANT LastIsLatest
CHECK_DEADLOCK FALSE
