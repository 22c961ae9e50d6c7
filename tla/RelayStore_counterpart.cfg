CONSTANTS
    Thread = {t1}
    Key = {alice, bob, carol}
    Broadcast = Broadcast
    Conv = {c1}
    alice = alice
    bob = bob
    Members <- MCMembers
    Free = Free
    CreatedAt = {0}
    TTL = 1
    MaxTime = 0
    MaxRequests = 2
SPECIFICATION Spec
CHECK_DEADLOCK FALSE
INVARIANT
    CounterpartNotified
