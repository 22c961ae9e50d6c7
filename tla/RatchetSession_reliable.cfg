CONSTANTS
    Alice = Alice
    Bob = Bob
    None = None
    Stranger = {}
    SeedLen <- TestSeedLen
    MaxSkip <- CodeMaxSkip
    MaxSent = 3
    MaxDup = 0
SPECIFICATION ReliableSpec
CHECK_DEADLOCK FALSE
PROPERTY
    AllOpened
INVARIANT
    NothingStranded
