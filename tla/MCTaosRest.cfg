SPECIFICATION FairSpec
CONSTANTS
    t1 = t1
    t2 = t2
    demo = demo
    shared = shared
    Database <- SomeDatabase
    Task <- PairTask
    Script <- PairScript
INVARIANTS
    TypeOK
    FirstAttemptOnce
    RefusedMeansDone
    StateAsAnswered
PROPERTIES
    ServiceKept
    CallsReturn
CHECK_DEADLOCK FALSE
