---------------------------- MODULE DoubleRatchet ----------------------------
(***************************************************************************)
(* The Double Ratchet of crates/common/src/signal.rs as operators on the   *)
(* RatchetState record: init_alice, init_bob, kdf_chain, dh_ratchet,       *)
(* encrypt, skip_message_keys and decrypt.                                 *)
(*                                                                         *)
(* Cryptography is ideal.  A key pair is named by its owner and by how     *)
(* many key pairs the owner drew before it; X25519 is symmetric, so the    *)
(* shared secret of two keys is the set of the two; HKDF has no            *)
(* collisions, so a root key is the list of what was hashed into it, a     *)
(* chain key is the root key it was derived next to and its position in    *)
(* the chain, and the message key of a chain position is named by the      *)
(* chain key it is derived from.  A ciphertext is the key that opens it.   *)
(*                                                                         *)
(* A definition marked `variant' is the definition after it with a         *)
(* plausible bug; no specification uses it.  It is there to put in the     *)
(* place of the original and see the properties notice.                    *)
(***************************************************************************)
EXTENDS Integers, Sequences, FiniteSets

CONSTANTS
    Alice, Bob,   \* the two ends of a conversation
    Stranger,     \* owners of other public keys that a user may take for the peer's
    None,         \* the None of the Option fields
    SeedLen,      \* length in bytes of shared_secret_seed
    MaxSkip       \* how many keys one call may skip: 2000 in the code

ASSUME PartyAssumption == Alice # Bob
ASSUME StrangerAssumption == Stranger \cap {Alice, Bob} = {}
ASSUME SeedLenAssumption == SeedLen \in Nat
ASSUME MaxSkipAssumption == MaxSkip \in Nat

Party == {Alice, Bob}

Peer(p) == IF p = Alice THEN Bob ELSE Alice

Key == [owner : Party \cup Stranger, gen : Nat]

\* What a root key starts from: the first 32 bytes of the seed, 32 zero bytes,
\* or the HKDF of a seed that is too short to be copied.
Salt == {"seed", "zeros", "hkdf"}

RootKey == [salt : Salt, dh : Seq(SUBSET Key)]

ChainKey == [root : RootKey, n : Nat]

ASSUME NoneAssumption == None \notin Key /\ None \notin ChainKey

CachedKey == [dh : Key, n : Nat, mk : ChainKey]

RatchetState ==
    [dh_self              : Key,
     dh_remote            : Key \cup {None},
     root_key             : RootKey,
     chain_key_send       : ChainKey \cup {None},
     chain_key_recv       : ChainKey \cup {None},
     n_send               : Nat,
     n_recv               : Nat,
     pn                   : Nat,
     skipped_message_keys : SUBSET CachedKey]

Message == [dh : Key, pn : Nat, n : Nat, mk : ChainKey]

-----------------------------------------------------------------------------
\* Key derivation.

DH(a, b) == {a, b}

KdfRoot(root, dh) == [root EXCEPT !.dh = Append(@, dh)]

Chain(root) == [root |-> root, n |-> 0]

\* kdf_chain applied `steps' times
Advance(ck, steps) == [ck EXCEPT !.n = @ + steps]

\* variant: the chain key is not advanced
KdfChainStuck(ck) == ck

KdfChain(ck) == Advance(ck, 1)

IdentityKey(p) == [owner |-> p, gen |-> 0]

FreshKey(k) == [k EXCEPT !.gen = @ + 1]

-----------------------------------------------------------------------------
\* The initial states of the two sides of a session.

AliceSalt == IF SeedLen >= 32 THEN "seed" ELSE "zeros"

BobSalt == IF SeedLen >= 32 THEN "seed" ELSE "hkdf"

\* init_alice of party p, for the public key it takes for the peer's.
InitAlice(p, remote) ==
    LET self == IdentityKey(p)
        root == KdfRoot([salt |-> AliceSalt, dh |-> << >>], DH(self, remote))
    IN  [dh_self              |-> self,
         dh_remote            |-> remote,
         root_key             |-> root,
         chain_key_send       |-> Chain(root),
         chain_key_recv       |-> None,
         n_send               |-> 0,
         n_recv               |-> 0,
         pn                   |-> 0,
         skipped_message_keys |-> {}]

\* init_bob of party p.
InitBob(p) ==
    [dh_self              |-> IdentityKey(p),
     dh_remote            |-> None,
     root_key             |-> [salt |-> BobSalt, dh |-> << >>],
     chain_key_send       |-> None,
     chain_key_recv       |-> None,
     n_send               |-> 0,
     n_recv               |-> 0,
     pn                   |-> 0,
     skipped_message_keys |-> {}]

-----------------------------------------------------------------------------
\* Encryption: the header names the sending key pair, the length of the
\* previous sending chain and the position in the current one.

CanEncrypt(s) == s.chain_key_send # None

\* variant: pn is the last index of the previous chain, not its length
EncryptLastIndex(s) ==
    [message |-> [dh |-> s.dh_self, pn |-> s.pn - 1, n |-> s.n_send,
                  mk |-> s.chain_key_send],
     state   |-> [s EXCEPT !.chain_key_send = KdfChain(@), !.n_send = @ + 1]]

Encrypt(s) ==
    [message |-> [dh |-> s.dh_self, pn |-> s.pn, n |-> s.n_send,
                  mk |-> s.chain_key_send],
     state   |-> [s EXCEPT !.chain_key_send = KdfChain(@), !.n_send = @ + 1]]

-----------------------------------------------------------------------------
\* Decryption.

\* dh_ratchet: a receiving chain for the peer's new key, then a new key pair
\* of one's own and a sending chain for it.
DhRatchet(s, remote) ==
    LET recvRoot == KdfRoot(s.root_key, DH(s.dh_self, remote))
        newSelf  == FreshKey(s.dh_self)
        sendRoot == KdfRoot(recvRoot, DH(newSelf, remote))
    IN  [s EXCEPT !.pn             = s.n_send,
                  !.n_send         = 0,
                  !.n_recv         = 0,
                  !.dh_remote      = remote,
                  !.chain_key_recv = Chain(recvRoot),
                  !.root_key       = sendRoot,
                  !.chain_key_send = Chain(sendRoot),
                  !.dh_self        = newSelf]

\* variant: one key more than the limit
TooFarOffByOne(s, until) == s.n_recv + MaxSkip + 1 < until

TooFar(s, until) == s.n_recv + MaxSkip < until

\* variant: the loop runs to `until' included
SkippedKeysInclusive(s, until) ==
    {[dh |-> s.dh_remote, n |-> i,
      mk |-> Advance(s.chain_key_recv, i - s.n_recv)] :
         i \in s.n_recv .. until}

\* The cache entries the loop of skip_message_keys inserts.
SkippedKeys(s, until) ==
    {[dh |-> s.dh_remote, n |-> i,
      mk |-> Advance(s.chain_key_recv, i - s.n_recv)] :
         i \in s.n_recv .. (until - 1)}

\* skip_message_keys when it does not refuse: the keys up to `until' go to the
\* cache, replacing an entry for the same position (HashMap::insert).
SkipMessageKeys(s, until) ==
    IF s.chain_key_recv = None \/ s.dh_remote = None \/ until <= s.n_recv
    THEN s
    ELSE [s EXCEPT
            !.skipped_message_keys =
                {k \in @ : ~ (k.dh = s.dh_remote /\ k.n \in s.n_recv .. (until - 1))}
                    \cup SkippedKeys(s, until),
            !.chain_key_recv = Advance(@, until - s.n_recv),
            !.n_recv = until]

\* variant: the chain advances, the counter does not
StepReceivingChainUncounted(s) == [s EXCEPT !.chain_key_recv = KdfChain(@)]

StepReceivingChain(s) ==
    [s EXCEPT !.chain_key_recv = KdfChain(@), !.n_recv = @ + 1]

Result == {"ok", "auth_failed", "too_many", "no_chain"}

\* variant: the tag is not checked
AuthenticateAny(mk, m) == "ok"

\* The AEAD authenticates a ciphertext under the message key and nothing else.
Authenticate(mk, m) == IF mk = m.mk THEN "ok" ELSE "auth_failed"

\* The cached keys filed under the header of m.
Cached(s, m) == {k \in s.skipped_message_keys : k.dh = m.dh /\ k.n = m.n}

\* variant: HashMap::get where the code has HashMap::remove
DecryptCachedKept(s, m) ==
    LET k == CHOOSE k \in Cached(s, m) : TRUE
    IN  [state |-> s, result |-> Authenticate(k.mk, m)]

\* A cached key leaves the cache whether or not it opens the message.
DecryptCached(s, m) ==
    LET k == CHOOSE k \in Cached(s, m) : TRUE
    IN  [state  |-> [s EXCEPT !.skipped_message_keys = @ \ Cached(s, m)],
         result |-> Authenticate(k.mk, m)]

\* The end of decrypt, in the chain of m.dh.  A refusal keeps the state it
\* was given, and the chain advances before the message is authenticated.
DecryptInChain(s, m) ==
    LET r == SkipMessageKeys(s, m.n)
    IN  IF TooFar(s, m.n) THEN [state |-> s, result |-> "too_many"]
        ELSE IF r.chain_key_recv = None THEN [state |-> r, result |-> "no_chain"]
        ELSE [state  |-> StepReceivingChain(r),
              result |-> Authenticate(r.chain_key_recv, m)]

\* variant: the old chain is not closed before the ratchet turns
DecryptNewKeyUnclosed(s, m) ==
    IF TooFar(s, m.pn) THEN [state |-> s, result |-> "too_many"]
    ELSE DecryptInChain(DhRatchet(s, m.dh), m)

\* A header with another key than the current one: close the old chain, turn
\* the ratchet, go on in the new chain.  An error after the turn keeps it.
DecryptNewKey(s, m) ==
    IF TooFar(s, m.pn) THEN [state |-> s, result |-> "too_many"]
    ELSE DecryptInChain(DhRatchet(SkipMessageKeys(s, m.pn), m.dh), m)

Decrypt(s, m) ==
    IF Cached(s, m) # {} THEN DecryptCached(s, m)
    ELSE IF s.dh_remote # m.dh THEN DecryptNewKey(s, m)
    ELSE DecryptInChain(s, m)

=============================================================================
