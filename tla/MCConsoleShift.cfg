SPECIFICATION Spec
CONSTANTS
    MaxStrokes = 5
    MaxPackets = 3
    MaxLost = 1
    Cap = 3
    Rows = 1
    MaxLines = 4
    UrlCap = 3
    Wheel = 1
    TextCap = 1
    NumCap = 35
    TabTop = 2
    TabHeight = 12
    Word = 64
    Scenes <- ShiftScenes
    MaxCursors = 2
    Heights = {3, 8, 20}
INVARIANT ShiftAsHeld
CHECK_DEADLOCK FALSE
