CONSTANTS
    Keys = {"Connection"}
    Paths = {"/a", "/b"}
    Patterns = {"/*"}
    Matching <- MCMatching
    Servlets = {s1}
    Registrars = {r1}
    MaxRegistrations = 2
    Lines <- MCLines
    MaxLines = 5
SPECIFICATION Spec
CHECK_DEADLOCK FALSE
INVARIANTS ParsedAsSent AnsweredInOrder 
