\* What lies in a buffer that is full.
CONSTANTS
    Bits = 4
    Inputs <- MCInputs
    Modes = {5, 6, 7, 26}
    WindowSize = 7
    DictionarySize = 130
    Near = 21
    Nearer = 12
    Farthest <- MCFarthest
SPECIFICATION CSpec
INVARIANTS
    LengthOfData
CHECK_DEADLOCK FALSE
