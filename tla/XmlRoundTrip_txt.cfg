\* The texts of a PSP archive as text files.
CONSTANTS
    Inflated <- MCInflated
    PackedTables <- MCPackedTables
    Junk <- MCJunk
    Jobs <- TxtJobs
SPECIFICATION RoundSpec
INVARIANTS
    DumpCompiles
CHECK_DEADLOCK FALSE
