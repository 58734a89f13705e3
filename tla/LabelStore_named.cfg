\* Documents without empty names.
CONSTANTS
    short = short
    long = long
    empty = empty
    Names = {short, long, empty}
    Empty = empty
    Width <- MCWidth
    Documents <- NamedDocuments
SPECIFICATION FairSpec
INVARIANTS
    TypeOK
    OffsetsHold
    ReorderedNames
    StoredOnce
    SameLength
PROPERTIES
    Ends
CHECK_DEADLOCK FALSE
