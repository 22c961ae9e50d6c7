CONSTANTS
    Alice = Alice
    Bob = Bob
    None = None
    Stranger = {}
    SeedLen <- TestSeedLen
    MaxSkip <- SmallMaxSkip
    MaxSent = 4
    MaxDup = 0
SPECIFICATION Spec
CHECK_DEADLOCK FALSE
INVARIANTS
    TypeOK
    InFlightOpens
    CachedKeysAwaited
PROPERTY
    CallCachesBounded
