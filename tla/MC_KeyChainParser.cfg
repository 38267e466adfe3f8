CONSTANTS
    KeyNames = {"a"}
    Modifiers = {"Shift+"}
    Comma = ","
    HexComma = "0x2c"
    SizeMax = 65535
    MaxKeyLen = 6

SPECIFICATION Spec

INVARIANTS
    ParserTypeOK
    ParseMatchesReference
    ParseCostBound
