SPECIFICATION Spec
CONSTANTS
    Messages <- LargeMessages
    MaxMessages = 1
    InitCap = 8
    Reserve = 2
    MaxHeaders = 2
    Lengths = {2}
    SendBuffer = 3
INVARIANT TruncatedMeansShort
