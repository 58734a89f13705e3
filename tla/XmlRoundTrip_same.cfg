\* Every way of dumping and reading back.
CONSTANTS
    Inflated <- MCInflated
    PackedTables <- MCPackedTables
    Junk <- MCJunk
    Jobs <- GoodJobs
SPECIFICATION RoundSpec
INVARIANTS
    RoundTypeOK
    SizesTrue
    TextsApart
    DumpCompiles
PROPERTIES
    FilesKept
    RestoresArchive
CHECK_DEADLOCK FALSE
