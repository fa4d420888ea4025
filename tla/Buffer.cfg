CONSTANTS
    Bytes = {0, 1}
    Zero = 0
    FreePrepend = 1
    InitialSize = 2
    ExtraSize = 2
    MaxLen = 3
    MaxContent = 4
    WordBits = 8
    WordBytes = 2
    GroupBits = 3
    TmpSize = 3
SPECIFICATION Spec
INVARIANTS IndicesInBounds IntegersRoundTrip
PROPERTIES ImplementsQueue
