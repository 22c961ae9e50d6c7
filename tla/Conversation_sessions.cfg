\* The users type either key of the other, one of them in capitals as well; the
\* seed is that of the tests.
CONSTANTS
    Alice = Alice
    Bob = Bob
    None = None
    Stranger <- Ed25519Owners
    PublicKey <- Ed25519
    SeedLen <- TestSeedLen
    MaxSkip <- SmallMaxSkip
    Typed <- AnyKeys
    MaxSent = 2
    MaxRestarts = 2
SPECIFICATION Spec
CHECK_DEADLOCK FALSE
INVARIANTS
    TypeOK
    X25519SessionsWork
    KeysReusedInFirstChainOnly
