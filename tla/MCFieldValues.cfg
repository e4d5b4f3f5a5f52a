SPECIFICATION Spec
CONSTANTS
    Half <- SmallHalf
    Ratio = 2
    Bound <- EveryValue
INVARIANTS
    TypeOK
    RoundTrip
    TransportsAgree
    RestReads
    TimesAgree
    BuffersFreed
CHECK_DEADLOCK FALSE
