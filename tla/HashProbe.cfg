\* Five entries in a table of five slots, in every order.
CONSTANTS
    a = a
    b = b
    c = c
    d = d
    e = e
    NoKey = NoKey
    Keys <- MCKeys
    KeySum <- MCSum
    Place <- MCPlace
    N <- MCSize
SPECIFICATION FairSpec
INVARIANTS
    TypeOK
    Findable
    FreeSlotLeft
PROPERTIES
    StoresAtProbeSlot
    AllStored
CHECK_DEADLOCK FALSE
