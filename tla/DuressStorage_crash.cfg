\* Three codes, so that a second setup can choose others, and two messages.
CONSTANTS
    Code = {red, green, blue}
    Message = {m1, m2}
    None = none
SPECIFICATION Spec
INVARIANTS TypeOK CodesMatchIdentity SetupOrLogin BlankBeforeUnlink ErasedWhenDone
PROPERTY VaultSpec
