CONSTANTS
    Frames <- MCFrames
    Base = 3
    Len16 = 1
    Len64 = 2
    PayloadSizeBasic = 1
    PayloadSizeExtended = 2
    MaxMessageSize = 3
    SizeWidth = 9
    MaxRead = 4
    MaxUnread = 1
SPECIFICATION Spec
INVARIANT TextEndsComplete
CHECK_DEADLOCK FALSE
