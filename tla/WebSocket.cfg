CONSTANTS
    Keys = {"Upgrade", "Connection", "Sec-WebSocket-Key"}
    MaxMessages = 2
    MaxFragments = 5
    Opcodes = {"TEXT_FRAME", "PING"}
SPECIFICATION FairWSSpec
CHECK_DEADLOCK FALSE
INVARIANTS MessagesIntact
PROPERTIES HandshakeEnds
