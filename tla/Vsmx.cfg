\* Two rounds of decoding and encoding.
CONSTANTS
    WordSize = 100000
    LineMax = 6
    Files <- MCFiles
    Spelled <- MCSpelled
SPECIFICATION Spec
INVARIANTS
    SameProgram
    PoolsExact
    ReadsBack
    SecondRoundSame
PROPERTIES
    IndicesHold
CHECK_DEADLOCK FALSE
