CONSTANTS
    Alice = Alice
    Bob = Bob
    None = None
    Stranger = {}
    SeedLen <- TestSeedLen
    MaxSkip <- CodeMaxSkip
    MaxSent = 2
    MaxDup = 2
SPECIFICATION Spec
CHECK_DEADLOCK FALSE
INVARIANTS
    NoDoubleOpen
    OpenedKeysErased
    MessageKeysUnique
PROPERTY
    ChannelSpec
