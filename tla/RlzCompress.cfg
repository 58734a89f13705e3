\* Short, repetitive and late matches, in the modes that are tried.
CONSTANTS
    Bits = 4
    Inputs <- MCInputs
    Modes = {5, 6, 7, 26}
    WindowSize = 7
    DictionarySize = 130
    Near = 21
    Nearer = 12
    Farthest <- MCFarthest
SPECIFICATION CSpec
INVARIANTS
    RlzTypeOK
    TokensExpand
    BitsReadBack
    Decodes
    ChainsFall
CHECK_DEADLOCK FALSE
