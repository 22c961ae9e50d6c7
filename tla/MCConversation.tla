--------------------------- MODULE MCConversation ---------------------------
(***************************************************************************)
(* Instances of Conversation for TLC: the keys and the seeds that the      *)
(* tests use, and those that the client uses.                              *)
(***************************************************************************)
EXTENDS Conversation

\* b"HexaprivTestSharedSeed123456789012345", crates/common/src/lib.rs:71
TestSeedLen == 37

\* b"HexaprivDefaultSignalSeed123456", crates/client/src/lib.rs:152 and 242
ClientSeedLen == 31

\* a limit small enough for a run to exceed it: 2000 in the code
SmallMaxSkip == 1

\* one name for the Ed25519 key of each party, read as an X25519 key
Ed25519Owners == {"ed25519 of Alice", "ed25519 of Bob"}

Ed25519 ==
    [p \in {Alice, Bob} |->
        [owner |-> IF p = Alice THEN "ed25519 of Alice" ELSE "ed25519 of Bob", gen |-> 0]]

AsShown(key) == [key |-> key, form |-> "lower"]

\* Identity::public_key_hex of the peer: the key a client shows to its user.
ShownKeys == [p \in {Alice, Bob} |-> {AsShown(Ed25519[IF p = Alice THEN Bob ELSE Alice])}]

DhPublicKey(p) == [owner |-> p, gen |-> 0]

\* Identity::dh_public_key_hex of the peer, which no client shows.
DhKeys == [p \in {Alice, Bob} |-> {AsShown(DhPublicKey(IF p = Alice THEN Bob ELSE Alice))}]

\* Either of the two, and the second of Bob in capital letters as well.
AnyKeys ==
    [p \in {Alice, Bob} |->
        ShownKeys[p] \cup DhKeys[p] \cup
            IF p = Alice THEN {[key |-> DhPublicKey(Bob), form |-> "upper"]} ELSE {}]

=============================================================================
