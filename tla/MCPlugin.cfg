CONSTANTS
    s1 = s1
    w1 = w1
    w2 = w2
    Handles = {s1, w1}
    SecureHandles = {s1}
    MaxQueue = 3
SPECIFICATION Spec
INVARIANT
    IInv
    ConnectedIsUsable
PROPERTY
    SocketMethodsNeverFault
    ImplementsContract
