SPECIFICATION Spec
CONSTANTS
    first = first
    second = second
    third = third
    ann = ann
    bob = bob
    NoTime = NoTime
    NoCommit = NoCommit
    Commit <- SomeCommit
    Time <- SomeTime
    Author <- SomeAuthor
    MaxChunks = 4
INVARIANTS
    TypeOK
    CreatedAtEarliest
    AuthorsExact
    LastIsOneCommit
CHECK_DEADLOCK FALSE
