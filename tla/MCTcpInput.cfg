SPECIFICATION Spec
CONSTANTS
    IdLength = 1
    MaxLength = 2
    HttpOctets = {"W", "P", "SP", "CR", "LF", "CTL"}
    AppOctets = {0, 1, 2, 3}
    MaxHead = 9
    MaxFed = 5
    MaxConnections = 2
    AnyHeads = 1
INVARIANTS
    HeadIsRecognised
    MessagesSplit
CHECK_DEADLOCK FALSE
