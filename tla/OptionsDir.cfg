CONSTANTS
    d = d
    s = s
    x = x
    y = y
    g = g
    Char <- MCChar
    NUL = NUL
    DIR_SIZE = 4
    DefaultDir <- MCDefaultDir
    DefaultPort = 0
    Dir <- MCDir
    Port = {1, 2}
    BAD = BAD
    Config <- MCConfig
    Existing <- MCExisting
    MaxArgs = 4
SPECIFICATION OptionsSpec
INVARIANTS
    SavesToNamed
CHECK_DEADLOCK FALSE
