\* Archives that are written badly: resources, texts or references are lost.
CONSTANTS
    Archives <- AwkwardArchives
    Options <- AllOptions
    PackedLens <- AnyLens
    LabelSum <- MCLabelSum
    Garbage <- AwkwardGarbage
    Roles <- MCRoles
    Memories <- MCMemories
SPECIFICATION FairRoundSpec
INVARIANTS
    ResourcesLocated
PROPERTIES
    Ends
CHECK_DEADLOCK FALSE
