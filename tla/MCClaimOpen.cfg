CONSTANTS
    MaxSends = 1
    MaxPongs = 1
    MaxMessages = 1
    MaxCloses = 2
SPECIFICATION Spec
INVARIANT OpenOrFail
