SPECIFICATION Spec
CONSTANTS
    Messages <- MixedMessages
    MaxMessages = 2
    InitCap = 10
    Reserve = 2
    MaxHeaders = 2
    Lengths = {2, 4}
    SendBuffer = 3
INVARIANT TypeOK
INVARIANT RecvHasRoom
INVARIANT BodyIsOwnOrNext
INVARIANT PatientServed
PROPERTY NoNeedlessWait
PROPERTY EachAnswered
