\* One peer with up to two connections, channels of two entries, three events of
\* the network and two keys: a second connection, the closing of one of the two, a
\* channel that fills up under either sender, and a /send that meets a message
\* before Ctrl+C is pressed.
CONSTANTS
    Peer = {bob}
    None = none
    Capacity = 2
    MaxEvents = 3
    MaxKeys = 2
    MaxConns = 2
    Answers = {FALSE}
SPECIFICATION Spec
INVARIANTS TypeOK EventsKept CountInStep ListedPeersConnected
PROPERTIES ExitOrCircle NetworkServed LastTorStatusKept
\* The program may have ended, wait in a circle, or have used up its bounds.
CHECK_DEADLOCK FALSE
