CONSTANTS
    CR = CR
    LF = LF
    Bad = Bad
    Switch = Switch
    Plain = Plain
    Frames <- MCFrames
    Base = 3
    Len16 = 1
    Len64 = 2
    PayloadSizeBasic = 1
    PayloadSizeExtended = 2
    MaxMessageSize = 3
    SizeWidth = 9
    MaxRead = 4
    MaxUnread = 1
    Answers <- MCAnswers
    MaxHeaderSize = 65
SPECIFICATION StreamSpec
INVARIANT
    TypeOK
    MessageBounded
    AsSent
    OpenNothingHeldBack
    OpensOnceRead
    HeaderBounded
    StreamIInv
PROPERTY
    AnsweredAsMeant
CHECK_DEADLOCK FALSE
