\* Trees that follow the objects and animations.
CONSTANTS
    Archives <- MisorderedArchives
    Options <- PlainOptions
    PackedLens <- GoodLens
    LabelSum <- MCLabelSum
    Garbage <- MCGarbage
SPECIFICATION Spec
INVARIANTS
    TreeLinked
CHECK_DEADLOCK FALSE
