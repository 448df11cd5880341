CONSTANTS
    MaxSends = 1
    MaxPongs = 1
    MaxMessages = 1
    MaxCloses = 2
SPECIFICATION FairSpec
INVARIANT
    TypeOK
    IInv
    WaitsAreBounded
    NoFrameLeftBehind
    WireInOrder
    HandlersOnce
PROPERTY
    ImplementsLife
    HandshakesEnd
