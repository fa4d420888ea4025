SPECIFICATION FairSpec
CHECK_DEADLOCK FALSE
CONSTANTS
    Bytes = {"a", "b", "c"}
    Size <- MCSize
    Responses <- MCResponses
    MaxPieces = 4
INVARIANTS
    ResponseAsSent
    RequestSentOnce
PROPERTY
    CallerReturns
