\* A connection to a peer, and a /send to it.
CONSTANTS
    Peer = {bob}
    None = none
    Capacity = 2
    MaxEvents = 2
    MaxKeys = 2
    MaxConns = 1
    Answers = {TRUE, FALSE}
SPECIFICATION Spec
PROPERTY SendTransmits
CHECK_DEADLOCK FALSE
