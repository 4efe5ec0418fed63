SPECIFICATION MCSpec
CONSTANTS
    Top = 12
    Byte = {0, 1, 2, 3, 4, 5, 6, 7, 8, 9, 10, 11, 12, 13}
    Memories <- MCMemories
    Fill = 13
    Word = 256
    HexWidth = 2
    NUM_COLS = 3
    NUM_ROWS = 2
    CMD_LENGTH = 7
    BUFSIZE = 3
    Calls <- MCCalls
INVARIANTS
    Fills
    LibraryConforms
    PrintsFormat
    CommandSplit
    GrepPrintsLines
PROPERTIES
    Ends
CHECK_DEADLOCK FALSE
