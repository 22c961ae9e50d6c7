CONSTANTS
    Alice = Alice
    Bob = Bob
    None = None
    Stranger <- Ed25519Owners
    PublicKey <- Ed25519
    SeedLen <- ClientSeedLen
    MaxSkip <- SmallMaxSkip
    Typed <- ShownKeys
    MaxSent = 1
    MaxRestarts = 0
SPECIFICATION Spec
CHECK_DEADLOCK FALSE
INVARIANT
    SessionWorks
