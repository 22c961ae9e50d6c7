\* No proxy answers, and Arti boots.
CONSTANTS
    Peer = {bob}
    None = none
    Capacity = 2
    MaxEvents = 1
    MaxKeys = 1
    MaxConns = 0
    Answers = {FALSE}
SPECIFICATION Spec
INVARIANT BadgeMeansProxy
CHECK_DEADLOCK FALSE
