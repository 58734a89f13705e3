\* Complete archives, written and read under every kind of packing.
CONSTANTS
    Archives <- CompleteArchives
    Options <- AllOptions
    PackedLens <- GoodLens
    LabelSum <- MCLabelSum
    Garbage <- MCGarbage
    Roles <- MCRoles
    Memories <- MCMemories
SPECIFICATION RoundSpec
INVARIANTS
    RoundTypeOK
    TreeLinked
    RefsResolve
    NamesHashed
    DataLocated
    SectionsDisjoint
    InStep
    Aligned
    Accepted
PROPERTIES
    WriteOnce
    RestoresArchive
CHECK_DEADLOCK FALSE
