CONSTANTS
    Connections = {c1, c2}
SPECIFICATION FairSpec
INVARIANT
    IInv
    OnceOnly
    SomeoneCalls
    ShutdownLast
PROPERTY
    FailsOnItsOwn
    ImplementsCalls
    CallsReturn
CHECK_DEADLOCK FALSE
