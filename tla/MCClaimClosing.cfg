CONSTANTS
    s1 = s1
    w1 = w1
    Handles = {s1, w1}
    SecureHandles = {s1}
    MaxQueue = 1
SPECIFICATION FairSpec
PROPERTY ClosingIsBounded
