SPECIFICATION FairSpec
CONSTANTS
    Test = {a, b, c}
    NoTest = NoTest
    MaxEdits = 1
    MaxEdited = 1
    MaxRuns = 2
    MaxUnblamed = 2
INVARIANTS
    TypeOK
    OwnVerdict
    TimesAreOwn
    DescriptionCurrent
PROPERTY RunsEnd
CHECK_DEADLOCK FALSE
