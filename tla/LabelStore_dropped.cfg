\* Documents in which a name may be empty.
CONSTANTS
    short = short
    long = long
    empty = empty
    Names = {short, long, empty}
    Empty = empty
    Width <- MCWidth
    Documents <- DocumentsWithEmpty
SPECIFICATION Spec
INVARIANTS
    NamesKept
CHECK_DEADLOCK FALSE
