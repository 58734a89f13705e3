\* A sound without channels.
CONSTANTS
    Archives <- MuteArchives
    Options <- PlainOptions
    PackedLens <- GoodLens
    LabelSum <- MCLabelSum
    Garbage <- MCGarbage
    Roles <- MCRoles
    Memories <- MCMemories
SPECIFICATION RoundSpec
INVARIANTS
    InStep
CHECK_DEADLOCK FALSE
