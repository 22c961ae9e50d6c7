CONSTANTS
    Thread = {t1, t2}
    Key = {alice, bob}
    Broadcast = Broadcast
    Conv = {c1, c2}
    alice = alice
    bob = bob
    Members <- MCMembers
    Free = Free
    CreatedAt = {0, 1}
    TTL = 1
    MaxTime = 2
    MaxRequests = 3
SPECIFICATION Spec
CHECK_DEADLOCK FALSE
INVARIANTS
    TypeOK
    HandedOnce
    NothingLost
    SignalMeansPurged
    SignalOnce
    NoCircle
PROPERTIES
    MailboxSpec
    EveryRequestAnswered
