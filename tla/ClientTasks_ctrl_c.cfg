\* A /send, a message that arrives meanwhile, and then Ctrl+C.
CONSTANTS
    Peer = {bob}
    None = none
    Capacity = 2
    MaxEvents = 2
    MaxKeys = 2
    MaxConns = 1
    Answers = {TRUE, FALSE}
SPECIFICATION Spec
PROPERTY CtrlCExits
CHECK_DEADLOCK FALSE
