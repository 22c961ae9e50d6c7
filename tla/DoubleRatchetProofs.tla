------------------------- MODULE DoubleRatchetProofs -------------------------
(***************************************************************************)
(* What the operators of DoubleRatchet return and preserve, for every      *)
(* state and message: their types, and that no message key is used twice.  *)
(***************************************************************************)
EXTENDS DoubleRatchet, FiniteSetTheorems, TLAPS

-----------------------------------------------------------------------------
\* Types.

\* Hashing a shared secret into a root key gives a root key one level deeper
\* (the Hkdf::expand calls of init_alice and dh_ratchet).
LEMMA KdfRootType ==
    ASSUME NEW root \in RootKey, NEW d \in SUBSET Key
    PROVE  /\ KdfRoot(root, d) \in RootKey
           /\ Len(KdfRoot(root, d).dh) = Len(root.dh) + 1
  BY DEF KdfRoot, RootKey

\* A party's two ends are different and are each other's peer.
LEMMA PeerType ==
    ASSUME NEW p \in Party
    PROVE  /\ Peer(p) \in Party
           /\ Peer(p) # p
           /\ Peer(Peer(p)) = p
  BY PartyAssumption DEF Party, Peer

\* The identity key of a party is a key.
LEMMA IdentityKeyType ==
    ASSUME NEW p \in Party
    PROVE  IdentityKey(p) \in Key
  BY DEF IdentityKey, Key

\* init_alice and init_bob return well-formed states.
LEMMA InitStateType ==
    ASSUME NEW p \in Party, NEW remote \in Key
    PROVE  InitAlice(p, remote) \in RatchetState /\ InitBob(p) \in RatchetState
<1>1. IdentityKey(p) \in Key
  BY IdentityKeyType
<1>2. AliceSalt \in Salt /\ BobSalt \in Salt
  BY DEF AliceSalt, BobSalt, Salt
<1>3. DH(IdentityKey(p), remote) \in SUBSET Key
  BY <1>1 DEF DH
<1>4. [salt |-> AliceSalt, dh |-> << >>] \in RootKey /\ [salt |-> BobSalt, dh |-> << >>] \in RootKey
  BY <1>2 DEF RootKey
<1>5. KdfRoot([salt |-> AliceSalt, dh |-> << >>], DH(IdentityKey(p), remote)) \in RootKey
  BY <1>3, <1>4, KdfRootType
<1>. QED
  BY <1>1, <1>4, <1>5 DEF InitAlice, InitBob, RatchetState, Chain, ChainKey

\* encrypt returns a well-formed message and state.
LEMMA EncryptType ==
    ASSUME NEW s \in RatchetState, CanEncrypt(s)
    PROVE  Encrypt(s).message \in Message /\ Encrypt(s).state \in RatchetState
<1>1. s.chain_key_send \in ChainKey
  BY DEF CanEncrypt, RatchetState
<1>2. KdfChain(s.chain_key_send) \in ChainKey
  BY <1>1 DEF KdfChain, Advance, ChainKey
<1>3. Encrypt(s).message \in Message
  BY <1>1 DEF Encrypt, RatchetState, Message
<1>4. s.n_send + 1 \in Nat
  BY DEF RatchetState
<1>5. Encrypt(s).state \in RatchetState
  BY <1>2, <1>4 DEF Encrypt, RatchetState
<1>. QED
  BY <1>3, <1>5

\* dh_ratchet returns a well-formed state.
LEMMA DhRatchetType ==
    ASSUME NEW s \in RatchetState, NEW remote \in Key
    PROVE  DhRatchet(s, remote) \in RatchetState
<1>1. FreshKey(s.dh_self) \in Key /\ s.dh_self \in Key /\ s.root_key \in RootKey
  BY DEF FreshKey, RatchetState, Key
<1>2. KdfRoot(s.root_key, DH(s.dh_self, remote)) \in RootKey
  BY <1>1, KdfRootType DEF DH
<1>3. KdfRoot(KdfRoot(s.root_key, DH(s.dh_self, remote)), DH(FreshKey(s.dh_self), remote)) \in RootKey
  BY <1>1, <1>2, KdfRootType DEF DH
<1>. QED
  BY <1>1, <1>2, <1>3 DEF DhRatchet, RatchetState, Chain, ChainKey

\* skip_message_keys returns a well-formed state.
LEMMA SkipMessageKeysType ==
    ASSUME NEW s \in RatchetState, NEW until \in Nat
    PROVE  SkipMessageKeys(s, until) \in RatchetState
<1>1. CASE s.chain_key_recv = None \/ s.dh_remote = None \/ until <= s.n_recv
  BY <1>1 DEF SkipMessageKeys
<1>2. CASE ~ (s.chain_key_recv = None \/ s.dh_remote = None \/ until <= s.n_recv)
  <2>1. s.chain_key_recv \in ChainKey /\ s.dh_remote \in Key /\ s.n_recv \in Nat /\ s.n_recv < until
    BY <1>2 DEF RatchetState
  <2>2. SkippedKeys(s, until) \subseteq CachedKey
    BY <2>1 DEF SkippedKeys, CachedKey, ChainKey, Advance
  <2>3. Advance(s.chain_key_recv, until - s.n_recv) \in ChainKey
    BY <2>1 DEF ChainKey, Advance
  <2>. QED
    BY <1>2, <2>2, <2>3 DEF SkipMessageKeys, RatchetState
<1>. QED
  BY <1>1, <1>2

\* The steps of decrypt return well-formed states.
LEMMA StepReceivingChainType ==
    ASSUME NEW s \in RatchetState, s.chain_key_recv # None
    PROVE  StepReceivingChain(s) \in RatchetState
<1>1. KdfChain(s.chain_key_recv) \in ChainKey
  BY DEF KdfChain, Advance, RatchetState, ChainKey
<1>2. s.n_recv + 1 \in Nat
  BY DEF RatchetState
<1>. QED
  BY <1>1, <1>2 DEF StepReceivingChain, RatchetState

\* Decrypting in the current receiving chain returns a state.
LEMMA DecryptInChainType ==
    ASSUME NEW s \in RatchetState, NEW m \in Message
    PROVE  DecryptInChain(s, m).state \in RatchetState
<1>1. SkipMessageKeys(s, m.n) \in RatchetState
  BY SkipMessageKeysType DEF Message
<1>2. SkipMessageKeys(s, m.n).chain_key_recv # None
        => StepReceivingChain(SkipMessageKeys(s, m.n)) \in RatchetState
  BY <1>1, StepReceivingChainType
<1>. QED
  BY <1>1, <1>2 DEF DecryptInChain

\* decrypt returns a well-formed state, whatever it makes of the message.
LEMMA DecryptType ==
    ASSUME NEW s \in RatchetState, NEW m \in Message
    PROVE  Decrypt(s, m).state \in RatchetState
<1>1. DecryptCached(s, m).state \in RatchetState
  BY DEF DecryptCached, RatchetState
<1>2. SkipMessageKeys(s, m.pn) \in RatchetState
  BY SkipMessageKeysType DEF Message
<1>3. DhRatchet(SkipMessageKeys(s, m.pn), m.dh) \in RatchetState
  BY <1>2, DhRatchetType DEF Message
<1>4. DecryptNewKey(s, m).state \in RatchetState
  BY <1>3, DecryptInChainType DEF DecryptNewKey
<1>. QED
  BY <1>1, <1>4, DecryptInChainType DEF Decrypt

-----------------------------------------------------------------------------
\* Key erasure.  A root key is deeper than every root key hashed into it, so
\* no receiving chain of a state has the root of an earlier one, and the
\* position of the current chain separates the keys it still yields from
\* those it does not.

Depth(root) == Len(root.dh)

InCache(s, mk) == \E k \in s.skipped_message_keys : k.mk = mk

\* The receiving chains are past mk.
Passed(s, mk) ==
    /\ s.chain_key_recv # None
    /\ Depth(mk.root) < Depth(s.root_key)
    /\ mk.root = s.chain_key_recv.root => mk.n < s.chain_key_recv.n

Erased(s, mk) == Passed(s, mk) /\ ~ InCache(s, mk)

KeyInv(s) ==
    /\ s.chain_key_recv # None => Depth(s.chain_key_recv.root) < Depth(s.root_key)
    /\ \A k \in s.skipped_message_keys : Passed(s, k.mk)
    /\ \A k1, k2 \in s.skipped_message_keys : k1.mk = k2.mk => k1 = k2

\* init_alice and init_bob hold no receiving chain and no skipped key.
LEMMA InitKeyInv ==
    ASSUME NEW p \in Party, NEW remote \in Key
    PROVE  KeyInv(InitAlice(p, remote)) /\ KeyInv(InitBob(p))
  BY DEF KeyInv, InitAlice, InitBob

\* A step from s to t that re-opens no erased key.
Safe(s, t) ==
    /\ KeyInv(t)
    /\ \A mk \in ChainKey : Erased(s, mk) => Erased(t, mk)

\* dh_ratchet starts a receiving chain under a root key never used before.
LEMMA DhRatchetSafe ==
    ASSUME NEW s \in RatchetState, NEW remote \in Key, KeyInv(s)
    PROVE  Safe(s, DhRatchet(s, remote))
<1>. DEFINE t == DhRatchet(s, remote)
            recvRoot == KdfRoot(s.root_key, DH(s.dh_self, remote))
<1>1. s.root_key \in RootKey /\ s.dh_self \in Key /\ FreshKey(s.dh_self) \in Key
  BY DEF RatchetState, FreshKey, Key
<1>2. recvRoot \in RootKey /\ Depth(recvRoot) = Depth(s.root_key) + 1
  BY <1>1, KdfRootType DEF DH, Depth
<1>3. t.root_key \in RootKey /\ Depth(t.root_key) = Depth(recvRoot) + 1
  BY <1>1, <1>2, KdfRootType DEF DH, Depth, DhRatchet, RatchetState
<1>4. /\ t.chain_key_recv = [root |-> recvRoot, n |-> 0]
      /\ t.chain_key_recv # None
      /\ t.skipped_message_keys = s.skipped_message_keys
  <2>1. [root |-> recvRoot, n |-> 0] \in ChainKey
    BY <1>2 DEF ChainKey
  <2>. QED
    BY <2>1, NoneAssumption DEF DhRatchet, Chain, RatchetState
<1>5. Depth(s.root_key) \in Nat
  BY <1>1 DEF RootKey, Depth
<1>6. ASSUME NEW mk \in ChainKey, Passed(s, mk)
      PROVE  Passed(t, mk)
  <2>1. Depth(mk.root) \in Nat
    BY DEF ChainKey, RootKey, Depth
  <2>2. Depth(mk.root) < Depth(s.root_key)
    BY <1>6 DEF Passed
  <2>3. mk.root # recvRoot
    BY <2>2, <1>2, <1>5, <2>1
  <2>. QED
    BY <2>1, <2>2, <2>3, <1>2, <1>3, <1>4, <1>5 DEF Passed
<1>7. KeyInv(t)
  <2>1. \A k \in s.skipped_message_keys : k.mk \in ChainKey
    BY DEF RatchetState, CachedKey
  <2>. QED
    BY <2>1, <1>2, <1>3, <1>4, <1>5, <1>6 DEF KeyInv
<1>8. ASSUME NEW mk \in ChainKey, Erased(s, mk)
      PROVE  Erased(t, mk)
  BY <1>4, <1>6, <1>8 DEF Erased, InCache
<1>. QED
  BY <1>7, <1>8 DEF Safe

\* skip_message_keys caches keys the chain had not passed, each once.
LEMMA SkipMessageKeysSafe ==
    ASSUME NEW s \in RatchetState, NEW until \in Nat, KeyInv(s)
    PROVE  Safe(s, SkipMessageKeys(s, until))
<1>. DEFINE t == SkipMessageKeys(s, until)
            ck == s.chain_key_recv
<1>1. CASE s.chain_key_recv = None \/ s.dh_remote = None \/ until <= s.n_recv
  BY <1>1 DEF SkipMessageKeys, Safe
<1>2. CASE ~ (s.chain_key_recv = None \/ s.dh_remote = None \/ until <= s.n_recv)
  <2>1. ck \in ChainKey /\ s.dh_remote \in Key /\ s.n_recv \in Nat /\ s.n_recv < until
    BY <1>2 DEF RatchetState
  <2>2. /\ t.chain_key_recv = [root |-> ck.root, n |-> ck.n + (until - s.n_recv)]
        /\ t.chain_key_recv # None
        /\ t.root_key = s.root_key
        /\ t.skipped_message_keys \subseteq s.skipped_message_keys \cup SkippedKeys(s, until)
    <3>1. Advance(ck, until - s.n_recv) = [root |-> ck.root, n |-> ck.n + (until - s.n_recv)]
      BY <2>1 DEF Advance, ChainKey
    <3>2. Advance(ck, until - s.n_recv) \in ChainKey
      BY <2>1, <3>1 DEF ChainKey
    <3>. QED
      BY <1>2, <3>1, <3>2, NoneAssumption DEF SkipMessageKeys, RatchetState
  <2>3. \A k \in SkippedKeys(s, until) :
           \E i \in s.n_recv .. (until - 1) :
              /\ k = [dh |-> s.dh_remote, n |-> i,
                      mk |-> [root |-> ck.root, n |-> ck.n + (i - s.n_recv)]]
    BY <2>1 DEF SkippedKeys, Advance, ChainKey
  <2>4. Depth(ck.root) < Depth(s.root_key) /\ ck.n \in Nat
    BY <1>2, <2>1 DEF KeyInv, ChainKey
  <2>5. ASSUME NEW mk \in ChainKey, Passed(s, mk)
        PROVE  Passed(t, mk)
    BY <2>1, <2>2, <2>4, <2>5 DEF Passed, ChainKey
  <2>6. \A k \in SkippedKeys(s, until) : Passed(t, k.mk) /\ ~ Passed(s, k.mk)
    BY <2>1, <2>2, <2>3, <2>4 DEF Passed
  <2>7. \A k \in s.skipped_message_keys : k.mk \in ChainKey /\ Passed(s, k.mk)
    BY DEF RatchetState, CachedKey, KeyInv
  <2>8. \A k1, k2 \in SkippedKeys(s, until) : k1.mk = k2.mk => k1 = k2
    BY <2>1, <2>3, <2>4
  <2>9. KeyInv(t)
    <3>1. Depth(t.chain_key_recv.root) < Depth(t.root_key)
      BY <2>2, <2>4
    <3>2. \A k \in t.skipped_message_keys : Passed(t, k.mk)
      BY <2>2, <2>5, <2>6, <2>7
    <3>3. \A k1, k2 \in t.skipped_message_keys : k1.mk = k2.mk => k1 = k2
      BY <2>2, <2>6, <2>7, <2>8 DEF KeyInv
    <3>. QED
      BY <3>1, <3>2, <3>3 DEF KeyInv
  <2>10. ASSUME NEW mk \in ChainKey, Erased(s, mk)
         PROVE  Erased(t, mk)
    BY <2>2, <2>5, <2>6, <2>10 DEF Erased, InCache
  <2>. QED
    BY <2>9, <2>10 DEF Safe
<1>. QED
  BY <1>1, <1>2

\* A call that ends in state t hands over m only if its key was not erased
\* before, and erases it.
OpensOnce(s, t, m, result) ==
    /\ Safe(s, t)
    /\ result = "ok" => ~ Erased(s, m.mk) /\ Erased(t, m.mk)

\* A cached key is used once: it leaves the cache with the call.
LEMMA DecryptCachedOnce ==
    ASSUME NEW s \in RatchetState, NEW m \in Message, KeyInv(s), Cached(s, m) # {}
    PROVE  OpensOnce(s, DecryptCached(s, m).state, m, DecryptCached(s, m).result)
<1>. DEFINE t == DecryptCached(s, m).state
<1>1. PICK k \in Cached(s, m) :
         DecryptCached(s, m) =
           [state  |-> [s EXCEPT !.skipped_message_keys = @ \ Cached(s, m)],
            result |-> Authenticate(k.mk, m)]
  BY DEF DecryptCached
<1>2. /\ t.skipped_message_keys = s.skipped_message_keys \ Cached(s, m)
      /\ t.chain_key_recv = s.chain_key_recv
      /\ t.root_key = s.root_key
  BY <1>1 DEF RatchetState
<1>3. \A mk : Passed(s, mk) <=> Passed(t, mk)
  BY <1>2 DEF Passed
<1>4. Safe(s, t)
  BY <1>2, <1>3 DEF Safe, KeyInv, Erased, InCache
<1>5. k \in s.skipped_message_keys /\ Passed(s, k.mk)
  BY DEF Cached, KeyInv
<1>6. ASSUME DecryptCached(s, m).result = "ok"
      PROVE  ~ Erased(s, m.mk) /\ Erased(t, m.mk)
  <2>1. k.mk = m.mk
    BY <1>1, <1>6 DEF Authenticate
  <2>2. InCache(s, m.mk) /\ ~ InCache(t, m.mk)
    BY <1>2, <1>5, <2>1 DEF InCache, KeyInv
  <2>. QED
    BY <1>3, <1>5, <2>1, <2>2 DEF Erased
<1>. QED
  BY <1>4, <1>6 DEF OpensOnce

\* The end of kdf_chain in decrypt: the chain leaves the key it used behind.
LEMMA StepReceivingChainOnce ==
    ASSUME NEW s \in RatchetState, KeyInv(s), s.chain_key_recv # None
    PROVE  /\ Safe(s, StepReceivingChain(s))
           /\ ~ Erased(s, s.chain_key_recv)
           /\ Erased(StepReceivingChain(s), s.chain_key_recv)
<1>. DEFINE t == StepReceivingChain(s)
            ck == s.chain_key_recv
<1>1. ck \in ChainKey /\ ck.n \in Nat
  BY DEF RatchetState, ChainKey
<1>2. Depth(ck.root) < Depth(s.root_key)
  BY DEF KeyInv
<1>3. /\ t.chain_key_recv = [root |-> ck.root, n |-> ck.n + 1]
      /\ t.chain_key_recv # None
      /\ t.root_key = s.root_key
      /\ t.skipped_message_keys = s.skipped_message_keys
  <2>1. KdfChain(ck) = [root |-> ck.root, n |-> ck.n + 1]
    BY <1>1 DEF KdfChain, Advance, ChainKey
  <2>2. KdfChain(ck) \in ChainKey
    BY <1>1, <2>1 DEF ChainKey
  <2>. QED
    BY <2>1, <2>2, NoneAssumption DEF StepReceivingChain, RatchetState
<1>4. ASSUME NEW mk \in ChainKey, Passed(s, mk)
      PROVE  Passed(t, mk)
  BY <1>1, <1>3, <1>4 DEF Passed, ChainKey
<1>5. \A k \in s.skipped_message_keys : k.mk \in ChainKey /\ Passed(s, k.mk)
  BY DEF RatchetState, CachedKey, KeyInv
<1>6. KeyInv(t)
  BY <1>2, <1>3, <1>4, <1>5 DEF KeyInv
<1>7. ASSUME NEW mk \in ChainKey, Erased(s, mk)
      PROVE  Erased(t, mk)
  BY <1>3, <1>4, <1>7 DEF Erased, InCache
<1>8. ~ Passed(s, ck) /\ Passed(t, ck)
  BY <1>1, <1>2, <1>3 DEF Passed
<1>9. ~ InCache(t, ck)
  BY <1>3, <1>5, <1>8 DEF InCache
<1>. QED
  BY <1>6, <1>7, <1>8, <1>9 DEF Safe, Erased

\* The rest of decrypt once the ratchet stands on the chain of m.dh.
LEMMA DecryptInChainOnce ==
    ASSUME NEW s \in RatchetState, NEW m \in Message, KeyInv(s)
    PROVE  OpensOnce(s, DecryptInChain(s, m).state, m, DecryptInChain(s, m).result)
<1>. DEFINE r == SkipMessageKeys(s, m.n)
<1>1. m.n \in Nat /\ m.mk \in ChainKey
  BY DEF Message
<1>2. r \in RatchetState /\ Safe(s, r)
  BY <1>1, SkipMessageKeysType, SkipMessageKeysSafe
<1>3. CASE TooFar(s, m.n)
  BY <1>3 DEF DecryptInChain, OpensOnce, Safe
<1>4. CASE ~ TooFar(s, m.n) /\ r.chain_key_recv = None
  BY <1>2, <1>4 DEF DecryptInChain, OpensOnce
<1>5. CASE ~ TooFar(s, m.n) /\ r.chain_key_recv # None
  <2>1. /\ DecryptInChain(s, m).state = StepReceivingChain(r)
        /\ DecryptInChain(s, m).result = Authenticate(r.chain_key_recv, m)
    BY <1>5 DEF DecryptInChain
  <2>2. /\ Safe(r, StepReceivingChain(r))
        /\ ~ Erased(r, r.chain_key_recv)
        /\ Erased(StepReceivingChain(r), r.chain_key_recv)
    BY <1>2, <1>5, StepReceivingChainOnce DEF Safe
  <2>3. Authenticate(r.chain_key_recv, m) = "ok" => r.chain_key_recv = m.mk
    BY DEF Authenticate
  <2>. QED
    BY <1>1, <1>2, <2>1, <2>2, <2>3 DEF OpensOnce, Safe
<1>. QED
  BY <1>3, <1>4, <1>5

\* decrypt never uses a message key twice: if it opens m, the key of m was
\* not erased before the call, is erased after it, and no erased key returns.
LEMMA DecryptOnce ==
    ASSUME NEW s \in RatchetState, NEW m \in Message, KeyInv(s)
    PROVE  OpensOnce(s, Decrypt(s, m).state, m, Decrypt(s, m).result)
<1>. DEFINE r == SkipMessageKeys(s, m.pn)
            u == DhRatchet(r, m.dh)
<1>1. m.pn \in Nat /\ m.dh \in Key /\ m.mk \in ChainKey
  BY DEF Message
<1>2. r \in RatchetState /\ Safe(s, r)
  BY <1>1, SkipMessageKeysType, SkipMessageKeysSafe
<1>3. u \in RatchetState /\ Safe(r, u)
  BY <1>1, <1>2, DhRatchetType, DhRatchetSafe DEF Safe
<1>4. OpensOnce(u, DecryptInChain(u, m).state, m, DecryptInChain(u, m).result)
  BY <1>3, DecryptInChainOnce DEF Safe
<1>5. OpensOnce(s, DecryptInChain(u, m).state, m, DecryptInChain(u, m).result)
  BY <1>1, <1>2, <1>3, <1>4 DEF OpensOnce, Safe
<1>6. OpensOnce(s, DecryptNewKey(s, m).state, m, DecryptNewKey(s, m).result)
  <2>1. CASE TooFar(s, m.pn)
    BY <2>1 DEF DecryptNewKey, OpensOnce, Safe
  <2>2. CASE ~ TooFar(s, m.pn)
    BY <1>5, <2>2 DEF DecryptNewKey
  <2>. QED
    BY <2>1, <2>2
<1>. QED
  BY <1>6, DecryptCachedOnce, DecryptInChainOnce DEF Decrypt

\* encrypt touches nothing the receiving side depends on.
LEMMA EncryptSafe ==
    ASSUME NEW s \in RatchetState, CanEncrypt(s), KeyInv(s)
    PROVE  Safe(s, Encrypt(s).state)
<1>. DEFINE t == Encrypt(s).state
<1>1. /\ t.skipped_message_keys = s.skipped_message_keys
      /\ t.chain_key_recv = s.chain_key_recv
      /\ t.root_key = s.root_key
  BY DEF Encrypt, RatchetState
<1>. QED
  BY <1>1 DEF Safe, KeyInv, Erased, Passed, InCache

-----------------------------------------------------------------------------
\* The sending side.  decrypt leaves it alone or turns the ratchet once.

SameSending(s, t) ==
    /\ t.dh_self = s.dh_self
    /\ t.root_key = s.root_key
    /\ t.chain_key_send = s.chain_key_send
    /\ t.n_send = s.n_send
    /\ t.pn = s.pn

RecvRoot(s, remote) == KdfRoot(s.root_key, DH(s.dh_self, remote))

Turned(s, t, remote) ==
    /\ t.dh_self = FreshKey(s.dh_self)
    /\ t.root_key = KdfRoot(RecvRoot(s, remote), DH(t.dh_self, remote))
    /\ t.chain_key_send = Chain(t.root_key)
    /\ t.n_send = 0
    /\ t.pn = s.n_send

\* skip_message_keys changes the receiving side only.
LEMMA SkipMessageKeysSending ==
    ASSUME NEW s \in RatchetState, NEW until \in Nat
    PROVE  SameSending(s, SkipMessageKeys(s, until))
  BY DEF SkipMessageKeys, SameSending, RatchetState

\* dh_ratchet turns the sending side: new key pair, new chain, counter zero.
LEMMA DhRatchetSending ==
    ASSUME NEW s \in RatchetState, NEW remote \in Key
    PROVE  Turned(s, DhRatchet(s, remote), remote)
  BY DEF DhRatchet, Turned, RecvRoot, RatchetState

\* Neither does the rest of decrypt on the chain of m.dh.
LEMMA DecryptInChainSending ==
    ASSUME NEW s \in RatchetState, NEW m \in Message
    PROVE  SameSending(s, DecryptInChain(s, m).state)
<1>. DEFINE r == SkipMessageKeys(s, m.n)
<1>1. r \in RatchetState /\ SameSending(s, r)
  BY SkipMessageKeysType, SkipMessageKeysSending DEF Message
<1>2. SameSending(r, StepReceivingChain(r))
  BY <1>1 DEF StepReceivingChain, SameSending, RatchetState
<1>. QED
  BY <1>1, <1>2 DEF DecryptInChain, SameSending

\* Decrypting under a new remote key leaves the sending side as it is or turns it.
LEMMA DecryptNewKeySending ==
    ASSUME NEW s \in RatchetState, NEW m \in Message
    PROVE  \/ SameSending(s, DecryptNewKey(s, m).state)
           \/ Turned(s, DecryptNewKey(s, m).state, m.dh)
<1>. DEFINE r == SkipMessageKeys(s, m.pn)
            u == DhRatchet(r, m.dh)
<1>1. m.pn \in Nat /\ m.dh \in Key
  BY DEF Message
<1>2. r \in RatchetState /\ SameSending(s, r)
  BY <1>1, SkipMessageKeysType, SkipMessageKeysSending
<1>3. u \in RatchetState /\ Turned(s, u, m.dh)
  BY <1>1, <1>2, DhRatchetType, DhRatchetSending DEF Turned, SameSending, RecvRoot
<1>4. SameSending(u, DecryptInChain(u, m).state)
  BY <1>3, DecryptInChainSending
<1>5. Turned(s, DecryptInChain(u, m).state, m.dh)
  BY <1>3, <1>4 DEF Turned, SameSending
<1>. QED
  BY <1>5 DEF DecryptNewKey, SameSending

\* One call of decrypt turns the sending side at most once.
LEMMA DecryptSending ==
    ASSUME NEW s \in RatchetState, NEW m \in Message
    PROVE  \/ SameSending(s, Decrypt(s, m).state)
           \/ Turned(s, Decrypt(s, m).state, m.dh)
<1>1. SameSending(s, DecryptCached(s, m).state)
  BY DEF DecryptCached, SameSending, RatchetState
<1>. QED
  BY <1>1, DecryptInChainSending, DecryptNewKeySending DEF Decrypt

-----------------------------------------------------------------------------
\* The receiving side.  A state expects a message when it holds its key in
\* the cache or will reach it in the current receiving chain.

Entry(m) == [dh |-> m.dh, n |-> m.n, mk |-> m.mk]

InChain(s, m) ==
    /\ s.chain_key_recv # None
    /\ m.dh = s.dh_remote
    /\ m.mk = [root |-> s.chain_key_recv.root, n |-> m.n]
    /\ s.n_recv <= m.n

Expects(s, m) == Entry(m) \in s.skipped_message_keys \/ InChain(s, m)

\* What holds of a receiving side that has seen every message at most once.
RecvInv(s) ==
    /\ s.chain_key_recv # None => s.dh_remote # None /\ s.chain_key_recv.n = s.n_recv
    /\ s.dh_remote = None => s.skipped_message_keys = {}
    /\ \A k \in s.skipped_message_keys :
          /\ k.dh.owner = s.dh_remote.owner
          /\ k.dh.gen <= s.dh_remote.gen
          /\ k.dh = s.dh_remote => k.n < s.n_recv
    /\ \A k1, k2 \in s.skipped_message_keys :
          k1.dh = k2.dh /\ k1.n = k2.n => k1 = k2

\* What skip_message_keys leaves behind, when there is a chain to skip in.
LEMMA SkipMessageKeysResult ==
    ASSUME NEW s \in RatchetState, NEW until \in Nat, RecvInv(s),
           s.chain_key_recv # None, s.n_recv < until
    PROVE  LET t == SkipMessageKeys(s, until) IN
           /\ t.dh_remote = s.dh_remote
           /\ t.n_recv = until
           /\ t.chain_key_recv = [root |-> s.chain_key_recv.root, n |-> until]
           /\ t.chain_key_recv # None
           /\ \A k : k \in t.skipped_message_keys <=>
                 \/ k \in s.skipped_message_keys
                 \/ \E i \in s.n_recv .. (until - 1) :
                       k = [dh |-> s.dh_remote, n |-> i,
                            mk |-> [root |-> s.chain_key_recv.root, n |-> i]]
<1>. DEFINE t == SkipMessageKeys(s, until)
            ck == s.chain_key_recv
<1>1. /\ ck \in ChainKey /\ s.dh_remote \in Key /\ s.n_recv \in Nat
      /\ ck.n = s.n_recv /\ ck = [root |-> ck.root, n |-> ck.n]
  BY DEF RatchetState, RecvInv, ChainKey
<1>2. \A i \in Nat : s.n_recv <= i => Advance(ck, i - s.n_recv) = [root |-> ck.root, n |-> i]
  BY <1>1 DEF Advance
<1>3. ASSUME NEW k
      PROVE  k \in SkippedKeys(s, until) <=>
               \E i \in s.n_recv .. (until - 1) :
                  k = [dh |-> s.dh_remote, n |-> i, mk |-> [root |-> ck.root, n |-> i]]
  <2>1. \A i \in s.n_recv .. (until - 1) : Advance(ck, i - s.n_recv) = [root |-> ck.root, n |-> i]
    BY <1>1, <1>2
  <2>. QED
    BY <2>1 DEF SkippedKeys
<1>4. {k \in s.skipped_message_keys : ~ (k.dh = s.dh_remote /\ k.n \in s.n_recv .. (until - 1))}
        = s.skipped_message_keys
  BY <1>1 DEF RecvInv, RatchetState, CachedKey
<1>5. t = [s EXCEPT !.skipped_message_keys = s.skipped_message_keys \cup SkippedKeys(s, until),
                    !.chain_key_recv = [root |-> ck.root, n |-> until],
                    !.n_recv = until]
  <2>1. ~ (s.chain_key_recv = None \/ s.dh_remote = None \/ until <= s.n_recv)
    BY <1>1, NoneAssumption
  <2>2. Advance(ck, until - s.n_recv) = [root |-> ck.root, n |-> until]
    BY <1>1, <1>2
  <2>. QED
    BY <1>4, <2>1, <2>2 DEF SkipMessageKeys
<1>6. [root |-> ck.root, n |-> until] \in ChainKey
  BY <1>1 DEF ChainKey
<1>. QED
  BY <1>1, <1>3, <1>5, <1>6, NoneAssumption DEF RatchetState

\* It loses no expected message, and files those below `until' in the cache.
LEMMA SkipMessageKeysExpects ==
    ASSUME NEW s \in RatchetState, NEW until \in Nat, RecvInv(s)
    PROVE  LET t == SkipMessageKeys(s, until) IN
           /\ RecvInv(t)
           /\ t.dh_remote = s.dh_remote
           /\ (s.chain_key_recv = None) => (t = s)
           /\ (s.chain_key_recv # None) =>
                  /\ t.chain_key_recv # None
                  /\ t.chain_key_recv.root = s.chain_key_recv.root
                  /\ t.n_recv = (IF until <= s.n_recv THEN s.n_recv ELSE until)
           /\ \A m \in Message : Expects(s, m) =>
                  /\ Expects(t, m)
                  /\ m.dh = s.dh_remote /\ m.n < until => Entry(m) \in t.skipped_message_keys
<1>. DEFINE t == SkipMessageKeys(s, until)
            ck == s.chain_key_recv
<1>0. s.n_recv \in Nat
  BY DEF RatchetState
<1>1. CASE ck = None
  <2>1. t = s
    BY <1>1 DEF SkipMessageKeys
  <2>. QED
    BY <1>1, <2>1 DEF Expects, InChain
<1>2. CASE ck # None /\ until <= s.n_recv
  <2>1. t = s
    BY <1>2 DEF SkipMessageKeys
  <2>. QED
    BY <1>0, <1>2, <2>1 DEF Expects, InChain, Message
<1>3. CASE ck # None /\ ~ (until <= s.n_recv)
  <2>1. s.n_recv < until /\ s.dh_remote \in Key
    BY <1>0, <1>3 DEF RecvInv, RatchetState
  <2>2. /\ t.dh_remote = s.dh_remote
        /\ t.n_recv = until
        /\ t.chain_key_recv = [root |-> ck.root, n |-> until]
        /\ t.chain_key_recv # None
        /\ \A k : k \in t.skipped_message_keys <=>
              \/ k \in s.skipped_message_keys
              \/ \E i \in s.n_recv .. (until - 1) :
                    k = [dh |-> s.dh_remote, n |-> i, mk |-> [root |-> ck.root, n |-> i]]
    BY <1>3, <2>1, SkipMessageKeysResult
  <2>3. \A k \in s.skipped_message_keys : k.n \in Nat
    BY DEF RatchetState, CachedKey
  <2>4. RecvInv(t)
    <3>1. \A k \in t.skipped_message_keys :
            /\ k.dh.owner = t.dh_remote.owner
            /\ k.dh.gen <= t.dh_remote.gen
            /\ k.dh = t.dh_remote => k.n < t.n_recv
      BY <1>0, <2>1, <2>2, <2>3 DEF RecvInv, Key
    <3>2. \A k1, k2 \in t.skipped_message_keys : k1.dh = k2.dh /\ k1.n = k2.n => k1 = k2
      BY <1>0, <2>1, <2>2, <2>3 DEF RecvInv
    <3>. QED
      BY <2>1, <2>2, <3>1, <3>2, NoneAssumption DEF RecvInv
  <2>5. ASSUME NEW m \in Message, Expects(s, m)
        PROVE  /\ Expects(t, m)
               /\ m.dh = s.dh_remote /\ m.n < until => Entry(m) \in t.skipped_message_keys
    <3>1. m.n \in Nat
      BY DEF Message
    <3>2. CASE Entry(m) \in s.skipped_message_keys
      BY <2>2, <3>2 DEF Expects
    <3>3. CASE InChain(s, m) /\ m.n < until
      <4>1. m.n \in s.n_recv .. (until - 1)
        BY <1>0, <3>1, <3>3 DEF InChain
      <4>2. Entry(m) = [dh |-> s.dh_remote, n |-> m.n, mk |-> [root |-> ck.root, n |-> m.n]]
        BY <3>3 DEF InChain, Entry
      <4>. QED
        BY <2>2, <4>1, <4>2 DEF Expects
    <3>4. CASE InChain(s, m) /\ ~ (m.n < until)
      BY <2>2, <3>1, <3>4 DEF InChain, Expects
    <3>. QED
      BY <2>5, <3>2, <3>3, <3>4 DEF Expects
  <2>. QED
    BY <1>3, <2>2, <2>4, <2>5
<1>. QED
  BY <1>1, <1>2, <1>3

\* A key pair that the owner of `old' drew after it.
Later(old, new) == new.owner = old.owner /\ old.gen < new.gen

\* The next key pair of a party is a later one.
LEMMA FreshKeyLater ==
    ASSUME NEW k \in Key
    PROVE  Later(k, FreshKey(k))
  BY DEF Later, FreshKey, Key

\* dh_ratchet keeps the cache and starts the chain of the new key at zero.
LEMMA DhRatchetExpects ==
    ASSUME NEW s \in RatchetState, NEW remote \in Key, RecvInv(s),
           s.dh_remote = None \/ Later(s.dh_remote, remote)
    PROVE  LET t == DhRatchet(s, remote) IN
           /\ RecvInv(t)
           /\ t.dh_remote = remote
           /\ t.n_recv = 0
           /\ t.chain_key_recv = [root |-> RecvRoot(s, remote), n |-> 0]
           /\ t.chain_key_recv # None
           /\ t.skipped_message_keys = s.skipped_message_keys
<1>. DEFINE t == DhRatchet(s, remote)
<1>1. RecvRoot(s, remote) \in RootKey
  BY KdfRootType DEF RecvRoot, RatchetState, DH
<1>2. [root |-> RecvRoot(s, remote), n |-> 0] \in ChainKey
  BY <1>1 DEF ChainKey
<1>3. /\ t.dh_remote = remote
      /\ t.n_recv = 0
      /\ t.chain_key_recv = [root |-> RecvRoot(s, remote), n |-> 0]
      /\ t.chain_key_recv # None
      /\ t.skipped_message_keys = s.skipped_message_keys
  BY <1>2, NoneAssumption DEF DhRatchet, RecvRoot, Chain, RatchetState
<1>4. CASE s.dh_remote = None
  BY <1>3, <1>4, NoneAssumption DEF RecvInv
<1>5. CASE s.dh_remote # None
  <2>1. /\ s.dh_remote \in Key
        /\ remote.owner = s.dh_remote.owner
        /\ s.dh_remote.gen < remote.gen
        /\ s.dh_remote.gen \in Nat /\ remote.gen \in Nat
    BY <1>5, NoneAssumption DEF RatchetState, Later, Key
  <2>2. \A k \in s.skipped_message_keys : k.dh \in Key /\ k.dh.gen \in Nat
    BY DEF RatchetState, CachedKey, Key
  <2>3. \A k \in s.skipped_message_keys :
           /\ k.dh.owner = remote.owner
           /\ k.dh.gen < remote.gen
    BY <2>1, <2>2 DEF RecvInv
  <2>4. \A k \in t.skipped_message_keys :
           /\ k.dh.owner = t.dh_remote.owner
           /\ k.dh.gen <= t.dh_remote.gen
           /\ k.dh # t.dh_remote
    BY <1>3, <2>1, <2>2, <2>3
  <2>. QED
    BY <1>3, <2>4, NoneAssumption DEF RecvInv
<1>. QED
  BY <1>3, <1>4, <1>5

\* The last step of decrypt passes one position of the chain.
LEMMA StepReceivingChainExpects ==
    ASSUME NEW s \in RatchetState, RecvInv(s), s.chain_key_recv # None
    PROVE  LET t == StepReceivingChain(s) IN
           /\ RecvInv(t)
           /\ t.dh_remote = s.dh_remote
           /\ t.n_recv = s.n_recv + 1
           /\ t.chain_key_recv # None
           /\ t.chain_key_recv.root = s.chain_key_recv.root
           /\ \A m \in Message :
                  Expects(s, m) /\ ~ (m.dh = s.dh_remote /\ m.n = s.n_recv) => Expects(t, m)
<1>. DEFINE t == StepReceivingChain(s)
            ck == s.chain_key_recv
<1>1. ck \in ChainKey /\ ck.n \in Nat /\ ck.n = s.n_recv /\ s.dh_remote \in Key
  BY DEF RatchetState, ChainKey, RecvInv
<1>2. /\ t.chain_key_recv = [root |-> ck.root, n |-> ck.n + 1]
      /\ t.chain_key_recv # None
      /\ t.n_recv = s.n_recv + 1
      /\ t.dh_remote = s.dh_remote
      /\ t.skipped_message_keys = s.skipped_message_keys
  <2>1. KdfChain(ck) = [root |-> ck.root, n |-> ck.n + 1]
    BY <1>1 DEF KdfChain, Advance, ChainKey
  <2>2. KdfChain(ck) \in ChainKey
    BY <1>1, <2>1 DEF ChainKey
  <2>. QED
    BY <2>1, <2>2, NoneAssumption DEF StepReceivingChain, RatchetState
<1>3. \A k \in s.skipped_message_keys : k.n \in Nat
  BY DEF RatchetState, CachedKey
<1>4. RecvInv(t)
  BY <1>1, <1>2, <1>3, NoneAssumption DEF RecvInv
<1>5. ASSUME NEW m \in Message, Expects(s, m), ~ (m.dh = s.dh_remote /\ m.n = s.n_recv)
      PROVE  Expects(t, m)
  <2>1. m.n \in Nat
    BY DEF Message
  <2>. QED
    BY <1>1, <1>2, <1>5, <2>1 DEF Expects, InChain
<1>. QED
  BY <1>2, <1>4, <1>5

\* From s to t no message but m was forgotten.
Kept(s, t, m) ==
    \A x \in Message : Expects(s, x) /\ ~ (x.dh = m.dh /\ x.n = m.n) => Expects(t, x)

SameReceiving(s, t) ==
    /\ t.dh_remote = s.dh_remote
    /\ t.chain_key_recv = None <=> s.chain_key_recv = None
    /\ t.chain_key_recv # None => t.chain_key_recv.root = s.chain_key_recv.root

\* A message that the current chain will reach opens, or is further ahead
\* than one call may skip; every other expected message stays expected.
LEMMA DecryptInChainExpects ==
    ASSUME NEW s \in RatchetState, NEW m \in Message, RecvInv(s), InChain(s, m)
    PROVE  LET t == DecryptInChain(s, m).state IN
           /\ DecryptInChain(s, m).result \in {"ok", "too_many"}
           /\ RecvInv(t)
           /\ SameReceiving(s, t)
           /\ Kept(s, t, m)
           /\ t.n_recv = s.n_recv \/ t.n_recv = m.n + 1
<1>. DEFINE r == SkipMessageKeys(s, m.n)
            t == DecryptInChain(s, m).state
<1>1. m.n \in Nat /\ s.n_recv \in Nat /\ s.n_recv <= m.n /\ s.chain_key_recv # None
  BY DEF Message, RatchetState, InChain
<1>2. r \in RatchetState
  BY <1>1, SkipMessageKeysType
<1>3. /\ RecvInv(r)
      /\ r.dh_remote = s.dh_remote
      /\ r.chain_key_recv # None
      /\ r.chain_key_recv.root = s.chain_key_recv.root
      /\ r.n_recv = m.n
      /\ \A x \in Message : Expects(s, x) => Expects(r, x)
  BY <1>1, SkipMessageKeysExpects
<1>4. CASE TooFar(s, m.n)
  BY <1>4 DEF DecryptInChain, SameReceiving, Kept
<1>5. CASE ~ TooFar(s, m.n)
  <2>1. /\ t = StepReceivingChain(r)
        /\ DecryptInChain(s, m).result = Authenticate(r.chain_key_recv, m)
    BY <1>3, <1>5 DEF DecryptInChain
  <2>2. /\ RecvInv(t)
        /\ t.dh_remote = r.dh_remote
        /\ t.n_recv = m.n + 1
        /\ t.chain_key_recv # None
        /\ t.chain_key_recv.root = r.chain_key_recv.root
        /\ \A x \in Message :
              Expects(r, x) /\ ~ (x.dh = r.dh_remote /\ x.n = r.n_recv) => Expects(t, x)
    BY <1>2, <1>3, <2>1, StepReceivingChainExpects
  <2>3. r.chain_key_recv = m.mk
    BY <1>2, <1>3 DEF RecvInv, RatchetState, ChainKey, InChain
  <2>4. m.dh = s.dh_remote
    BY DEF InChain
  <2>. QED
    BY <1>1, <1>3, <2>1, <2>2, <2>3, <2>4 DEF Authenticate, SameReceiving, Kept
<1>. QED
  BY <1>4, <1>5

\* A message whose key is cached opens.
LEMMA DecryptCachedExpects ==
    ASSUME NEW s \in RatchetState, NEW m \in Message, RecvInv(s),
           Entry(m) \in s.skipped_message_keys
    PROVE  LET t == DecryptCached(s, m).state IN
           /\ Cached(s, m) # {}
           /\ DecryptCached(s, m).result = "ok"
           /\ RecvInv(t)
           /\ SameReceiving(s, t)
           /\ SameSending(s, t)
           /\ Kept(s, t, m)
           /\ t.n_recv = s.n_recv
<1>. DEFINE t == DecryptCached(s, m).state
<1>1. Cached(s, m) = {Entry(m)}
  BY DEF Cached, Entry, RecvInv
<1>2. (CHOOSE k \in Cached(s, m) : TRUE) = Entry(m)
  BY <1>1
<1>3. /\ DecryptCached(s, m).result = "ok"
      /\ t = [s EXCEPT !.skipped_message_keys = @ \ {Entry(m)}]
  BY <1>1, <1>2 DEF DecryptCached, Authenticate, Entry
<1>4. /\ t.dh_remote = s.dh_remote
      /\ t.n_recv = s.n_recv
      /\ t.chain_key_recv = s.chain_key_recv
      /\ t.skipped_message_keys = s.skipped_message_keys \ {Entry(m)}
      /\ SameSending(s, t)
  BY <1>3 DEF RatchetState, SameSending
<1>5. RecvInv(t)
  BY <1>4 DEF RecvInv
<1>6. Kept(s, t, m)
  BY <1>4 DEF Kept, Expects, InChain, Entry
<1>. QED
  BY <1>1, <1>3, <1>4, <1>5, <1>6 DEF SameReceiving

\* decrypt of an expected message: it opens or too many keys are missing, the
\* ratchet does not turn, and no other expected message is forgotten.
LEMMA DecryptExpected ==
    ASSUME NEW s \in RatchetState, NEW m \in Message, RecvInv(s), Expects(s, m)
    PROVE  LET t == Decrypt(s, m).state IN
           /\ Decrypt(s, m).result \in {"ok", "too_many"}
           /\ RecvInv(t)
           /\ SameReceiving(s, t)
           /\ SameSending(s, t)
           /\ Kept(s, t, m)
           /\ t.n_recv = s.n_recv \/ (m.dh = s.dh_remote /\ t.n_recv = m.n + 1)
<1>1. CASE Entry(m) \in s.skipped_message_keys
  <2>1. Decrypt(s, m) = DecryptCached(s, m)
    BY <1>1, DecryptCachedExpects DEF Decrypt
  <2>. QED
    BY <1>1, <2>1, DecryptCachedExpects
<1>2. CASE InChain(s, m)
  <2>1. s.dh_remote = m.dh /\ s.n_recv <= m.n /\ s.n_recv \in Nat /\ m.n \in Nat
    BY <1>2 DEF InChain, RatchetState, Message
  <2>2. Cached(s, m) = {}
    BY <2>1 DEF Cached, RecvInv, RatchetState, CachedKey
  <2>3. Decrypt(s, m) = DecryptInChain(s, m)
    BY <2>1, <2>2 DEF Decrypt
  <2>. QED
    BY <1>2, <2>1, <2>3, DecryptInChainExpects, DecryptInChainSending
<1>. QED
  BY <1>1, <1>2 DEF Expects

\* A message of the peer's next chain.
IsNext(s, m) ==
    /\ s.dh_remote = None \/ Later(s.dh_remote, m.dh)
    /\ m.mk = [root |-> RecvRoot(s, m.dh), n |-> m.n]

\* decrypt of the first message of the peer's next chain to arrive: either it
\* is refused and nothing changes, or the ratchet turns.  Then what is left of
\* the old chain below pn is in the cache, and the rest of the new chain is
\* expected.
LEMMA DecryptNext ==
    ASSUME NEW s \in RatchetState, NEW m \in Message, RecvInv(s), IsNext(s, m)
    PROVE  LET t == Decrypt(s, m).state IN
           /\ Decrypt(s, m).result \in {"ok", "too_many"}
           /\ \/ t = s
              \/ /\ Turned(s, t, m.dh)
                 /\ RecvInv(t)
                 /\ t.dh_remote = m.dh
                 /\ t.chain_key_recv # None
                 /\ t.chain_key_recv.root = RecvRoot(s, m.dh)
                 /\ t.n_recv = 0 \/ t.n_recv = m.n + 1
                 /\ \A x \in Message :
                       Expects(s, x) /\ (x.dh = s.dh_remote => x.n < m.pn) => Expects(t, x)
                 /\ \A x \in Message :
                       /\ x.dh = m.dh
                       /\ x.mk = [root |-> RecvRoot(s, m.dh), n |-> x.n]
                       /\ x.n # m.n
                       => Expects(t, x)
<1>. DEFINE r == SkipMessageKeys(s, m.pn)
            u == DhRatchet(r, m.dh)
            t == DecryptInChain(u, m).state
<1>1. /\ m.pn \in Nat /\ m.n \in Nat /\ m.dh \in Key
      /\ s.dh_remote # m.dh
  <2>1. m.dh \in Key /\ m.pn \in Nat /\ m.n \in Nat
    BY DEF Message
  <2>2. CASE s.dh_remote = None
    BY <2>1, <2>2, NoneAssumption
  <2>3. CASE Later(s.dh_remote, m.dh)
    BY <2>1, <2>3 DEF Later, Key
  <2>. QED
    BY <2>1, <2>2, <2>3 DEF IsNext
<1>2. Cached(s, m) = {}
  <2>1. CASE s.dh_remote = None
    BY <2>1 DEF Cached, RecvInv
  <2>2. CASE s.dh_remote # None
    <3>1. /\ s.dh_remote \in Key /\ s.dh_remote.gen \in Nat
          /\ s.dh_remote.gen < m.dh.gen /\ m.dh.gen \in Nat
      BY <1>1, <2>2 DEF IsNext, Later, RatchetState, Key
    <3>2. \A k \in s.skipped_message_keys : k.dh.gen \in Nat /\ k.dh.gen <= s.dh_remote.gen
      BY DEF RecvInv, RatchetState, CachedKey, Key
    <3>. QED
      BY <3>1, <3>2 DEF Cached
  <2>. QED
    BY <2>1, <2>2
<1>3. Decrypt(s, m) = DecryptNewKey(s, m)
  BY <1>1, <1>2 DEF Decrypt
<1>4. CASE TooFar(s, m.pn)
  BY <1>3, <1>4 DEF DecryptNewKey
<1>5. CASE ~ TooFar(s, m.pn)
  <2>1. Decrypt(s, m) = DecryptInChain(u, m)
    BY <1>3, <1>5 DEF DecryptNewKey
  <2>2. r \in RatchetState /\ SameSending(s, r)
    BY <1>1, SkipMessageKeysType, SkipMessageKeysSending
  <2>3. /\ RecvInv(r)
        /\ r.dh_remote = s.dh_remote
        /\ \A x \in Message : Expects(s, x) =>
              /\ Expects(r, x)
              /\ x.dh = s.dh_remote /\ x.n < m.pn => Entry(x) \in r.skipped_message_keys
    BY <1>1, SkipMessageKeysExpects
  <2>4. u \in RatchetState /\ Turned(r, u, m.dh)
    BY <1>1, <2>2, DhRatchetType, DhRatchetSending
  <2>5. Turned(s, u, m.dh) /\ RecvRoot(r, m.dh) = RecvRoot(s, m.dh)
    BY <2>2, <2>4 DEF Turned, SameSending, RecvRoot
  <2>6. /\ RecvInv(u)
        /\ u.dh_remote = m.dh
        /\ u.n_recv = 0
        /\ u.chain_key_recv = [root |-> RecvRoot(s, m.dh), n |-> 0]
        /\ u.chain_key_recv # None
        /\ u.skipped_message_keys = r.skipped_message_keys
    BY <1>1, <2>2, <2>3, <2>5, DhRatchetExpects DEF IsNext
  <2>7. InChain(u, m)
    BY <1>1, <2>6 DEF InChain, IsNext
  <2>8. /\ Decrypt(s, m).result \in {"ok", "too_many"}
        /\ RecvInv(t)
        /\ SameReceiving(u, t)
        /\ Kept(u, t, m)
        /\ t.n_recv = 0 \/ t.n_recv = m.n + 1
    BY <2>1, <2>4, <2>6, <2>7, DecryptInChainExpects
  <2>9. Turned(s, t, m.dh)
    BY <2>4, <2>5, DecryptInChainSending DEF Turned, SameSending
  <2>10. ASSUME NEW x \in Message, Expects(s, x), x.dh = s.dh_remote => x.n < m.pn
         PROVE  Expects(t, x)
    <3>1. Entry(x) \in u.skipped_message_keys
      <4>1. CASE Entry(x) \in s.skipped_message_keys
        <5>1. x.dh = s.dh_remote => Entry(x) \in r.skipped_message_keys
          BY <2>3, <2>10
        <5>2. x.dh # s.dh_remote => Entry(x) \in r.skipped_message_keys
          BY <2>3, <2>10 DEF Expects, InChain
        <5>. QED
          BY <2>6, <5>1, <5>2
      <4>2. CASE InChain(s, x)
        BY <2>3, <2>6, <2>10, <4>2 DEF InChain
      <4>. QED
        BY <2>10, <4>1, <4>2 DEF Expects
    <3>2. ~ (x.dh = m.dh /\ x.n = m.n)
      BY <2>6, <3>1, <1>1 DEF RecvInv, Entry
    <3>. QED
      BY <2>8, <3>1, <3>2 DEF Kept, Expects
  <2>11. ASSUME NEW x \in Message, x.dh = m.dh,
                x.mk = [root |-> RecvRoot(s, m.dh), n |-> x.n], x.n # m.n
         PROVE  Expects(t, x)
    <3>1. x.n \in Nat
      BY DEF Message
    <3>2. InChain(u, x)
      BY <2>6, <2>11, <3>1 DEF InChain
    <3>. QED
      BY <2>8, <2>11, <3>2 DEF Kept, Expects
  <2>. QED
    BY <2>1, <2>6, <2>8, <2>9, <2>10, <2>11 DEF SameReceiving
<1>. QED
  BY <1>4, <1>5

-----------------------------------------------------------------------------
\* What a call of decrypt adds to the cache.

\* The cache entry for position i of the chain of dh that hangs on root.
KeyAt(dh, root, i) == [dh |-> dh, n |-> i, mk |-> [root |-> root, n |-> i]]

\* k is the key of a position before `until' of the chain that s is receiving.
Skipped(s, until, k) ==
    /\ s.chain_key_recv # None
    /\ \E i \in Nat : i < until /\ k = KeyAt(s.dh_remote, s.chain_key_recv.root, i)

\* The cache after keys were skipped: what it held, and keys of the current chain.
LEMMA SkipMessageKeysCaches ==
    ASSUME NEW s \in RatchetState, NEW until \in Nat, RecvInv(s),
           NEW k \in SkipMessageKeys(s, until).skipped_message_keys
    PROVE  k \in s.skipped_message_keys \/ Skipped(s, until, k)
<1>1. CASE s.chain_key_recv # None /\ s.n_recv < until
  <2>1. \/ k \in s.skipped_message_keys
        \/ \E i \in s.n_recv .. (until - 1) : k = KeyAt(s.dh_remote, s.chain_key_recv.root, i)
    <3>1. \A x : x \in SkipMessageKeys(s, until).skipped_message_keys <=>
             \/ x \in s.skipped_message_keys
             \/ \E i \in s.n_recv .. (until - 1) :
                   x = [dh |-> s.dh_remote, n |-> i,
                        mk |-> [root |-> s.chain_key_recv.root, n |-> i]]
      BY <1>1, SkipMessageKeysResult
    <3>. QED
      BY <3>1 DEF KeyAt
  <2>2. \A i \in s.n_recv .. (until - 1) : i \in Nat /\ i < until
    BY DEF RatchetState
  <2>. QED
    BY <1>1, <2>1, <2>2 DEF Skipped
<1>2. CASE ~ (s.chain_key_recv # None /\ s.n_recv < until)
  <2>1. s.chain_key_recv = None \/ until <= s.n_recv
    BY <1>2 DEF RatchetState
  <2>. QED
    BY <2>1 DEF SkipMessageKeys
<1>. QED
  BY <1>1, <1>2

\* The cache after decrypting in the current receiving chain.
LEMMA DecryptInChainCaches ==
    ASSUME NEW s \in RatchetState, NEW m \in Message, RecvInv(s),
           NEW k \in DecryptInChain(s, m).state.skipped_message_keys
    PROVE  k \in s.skipped_message_keys \/ Skipped(s, m.n, k)
<1>. DEFINE r == SkipMessageKeys(s, m.n)
<1>1. m.n \in Nat /\ r \in RatchetState
  BY SkipMessageKeysType DEF Message
<1>2. StepReceivingChain(r).skipped_message_keys = r.skipped_message_keys
  BY <1>1 DEF StepReceivingChain, RatchetState
<1>3. k \in s.skipped_message_keys \/ k \in r.skipped_message_keys
  BY <1>2 DEF DecryptInChain
<1>. QED
  BY <1>1, <1>3, SkipMessageKeysCaches

\* An expected message adds keys of the current chain, of earlier positions.
LEMMA DecryptExpectedCaches ==
    ASSUME NEW s \in RatchetState, NEW m \in Message, RecvInv(s), Expects(s, m),
           NEW k \in Decrypt(s, m).state.skipped_message_keys
    PROVE  k \in s.skipped_message_keys \/ (InChain(s, m) /\ Skipped(s, m.n, k))
<1>1. CASE Cached(s, m) # {}
  BY <1>1 DEF Decrypt, DecryptCached, RatchetState
<1>2. CASE Cached(s, m) = {}
  <2>1. InChain(s, m)
    BY <1>2, DecryptCachedExpects DEF Expects
  <2>2. Decrypt(s, m) = DecryptInChain(s, m)
    BY <1>2, <2>1 DEF Decrypt, InChain
  <2>. QED
    BY <2>1, <2>2, DecryptInChainCaches
<1>. QED
  BY <1>1, <1>2

\* A message of the next chain adds keys of the old chain, up to pn, and keys of
\* the new one, of earlier positions.
LEMMA DecryptNextCaches ==
    ASSUME NEW s \in RatchetState, NEW m \in Message, RecvInv(s), IsNext(s, m),
           NEW k \in Decrypt(s, m).state.skipped_message_keys
    PROVE  \/ k \in s.skipped_message_keys
           \/ Skipped(s, m.pn, k)
           \/ \E i \in Nat : i < m.n /\ k = KeyAt(m.dh, RecvRoot(s, m.dh), i)
<1>. DEFINE r == SkipMessageKeys(s, m.pn)
            u == DhRatchet(r, m.dh)
<1>1. m.pn \in Nat /\ m.n \in Nat /\ m.dh \in Key
  BY DEF Message
<1>2. /\ r \in RatchetState /\ RecvInv(r) /\ r.dh_remote = s.dh_remote /\ SameSending(s, r)
      /\ u \in RatchetState
  BY <1>1, SkipMessageKeysType, SkipMessageKeysExpects, SkipMessageKeysSending, DhRatchetType
<1>3. RecvRoot(r, m.dh) = RecvRoot(s, m.dh)
  BY <1>2 DEF SameSending, RecvRoot
<1>4. /\ RecvInv(u) /\ u.dh_remote = m.dh
      /\ u.chain_key_recv = [root |-> RecvRoot(s, m.dh), n |-> 0]
      /\ u.skipped_message_keys = r.skipped_message_keys
  BY <1>1, <1>2, <1>3, DhRatchetExpects DEF IsNext
<1>5. CASE Cached(s, m) # {}
  BY <1>5 DEF Decrypt, DecryptCached, RatchetState
<1>6. CASE Cached(s, m) = {}
  <2>1. s.dh_remote # m.dh
    <3>1. CASE s.dh_remote = None
      BY <1>1, <3>1, NoneAssumption
    <3>2. CASE s.dh_remote # None
      BY <1>1, <3>2 DEF IsNext, Later, Key
    <3>. QED
      BY <3>1, <3>2
  <2>2. Decrypt(s, m).state = s \/ Decrypt(s, m) = DecryptInChain(u, m)
    BY <1>6, <2>1 DEF Decrypt, DecryptNewKey
  <2>3. CASE Decrypt(s, m) = DecryptInChain(u, m)
    <3>1. k \in r.skipped_message_keys \/ Skipped(u, m.n, k)
      BY <1>2, <1>4, <2>3, DecryptInChainCaches
    <3>2. k \in r.skipped_message_keys => k \in s.skipped_message_keys \/ Skipped(s, m.pn, k)
      BY <1>1, SkipMessageKeysCaches
    <3>3. Skipped(u, m.n, k) =>
            \E i \in Nat : i < m.n /\ k = KeyAt(m.dh, RecvRoot(s, m.dh), i)
      BY <1>4 DEF Skipped
    <3>. QED
      BY <3>1, <3>2, <3>3
  <2>. QED
    BY <2>2, <2>3
<1>. QED
  BY <1>5, <1>6

-----------------------------------------------------------------------------
\* How many keys a call of decrypt adds to the cache.

\* A is a set of at most MaxSkip keys of the chain of dh.
Batch(A, dh) == IsFiniteSet(A) /\ Cardinality(A) <= MaxSkip /\ \A k \in A : k.dh = dh

\* What t has in its cache and s has not.
NewKeys(s, t) == t.skipped_message_keys \ s.skipped_message_keys

\* No keys are a batch, and so is a part of one.
LEMMA BatchPart ==
    ASSUME NEW A, NEW B \in SUBSET A, NEW dh, Batch(A, dh)
    PROVE  Batch(B, dh)
<1>1. IsFiniteSet(B) /\ Cardinality(B) <= Cardinality(A)
      /\ Cardinality(A) \in Nat /\ Cardinality(B) \in Nat
  BY FS_Subset, FS_CardinalityType DEF Batch
<1>2. Cardinality(B) <= MaxSkip
  BY <1>1, MaxSkipAssumption DEF Batch
<1>. QED
  BY <1>1, <1>2 DEF Batch

\* The loop of skip_message_keys inserts one key per position it passes, and no
\* more than MaxSkip unless it is refused.
LEMMA SkipMessageKeysAdds ==
    ASSUME NEW s \in RatchetState, NEW until \in Nat, ~ TooFar(s, until)
    PROVE  Batch(NewKeys(s, SkipMessageKeys(s, until)), s.dh_remote)
<1>. DEFINE t == SkipMessageKeys(s, until)
            I == s.n_recv .. (until - 1)
            E(i) == [dh |-> s.dh_remote, n |-> i,
                     mk |-> Advance(s.chain_key_recv, i - s.n_recv)]
            K == {E(i) : i \in I}
            f == [i \in I |-> E(i)]
<1>1. s.n_recv \in Nat /\ until <= s.n_recv + MaxSkip
  BY MaxSkipAssumption DEF RatchetState, TooFar
<1>2. IsFiniteSet(I) /\ Cardinality(I) \in Nat /\ Cardinality(I) <= MaxSkip
  <2>. DEFINE a == s.n_recv   b == until - 1
  <2>0. a \in Int /\ b \in Int
    BY <1>1
  <2>2. (IF a > b THEN 0 ELSE b - a + 1) \in 0 .. MaxSkip
    BY <1>1, MaxSkipAssumption
  <2>. HIDE DEF a, b
  <2>1. IsFiniteSet(a .. b) /\ Cardinality(a .. b) = IF a > b THEN 0 ELSE b - a + 1
    BY <2>0, FS_Interval
  <2>3. IsFiniteSet(I) /\ Cardinality(I) \in 0 .. MaxSkip
    BY <2>1, <2>2 DEF a, b
  <2>. QED
    BY <2>3, MaxSkipAssumption
<1>3. f \in Surjection(I, K)
  <2>1. f \in [I -> K] /\ \A k \in K : \E i \in I : f[i] = k
    OBVIOUS
  <2>. HIDE DEF f, K, I
  <2>. QED
    BY <2>1 DEF Surjection
<1>4. IsFiniteSet(K) /\ Cardinality(K) <= MaxSkip
  <2>. HIDE DEF f, K, I
  <2>1. IsFiniteSet(K) /\ Cardinality(K) <= Cardinality(I)
    BY <1>2, <1>3, FS_Surjection
  <2>2. Cardinality(K) \in Nat
    BY <2>1, FS_CardinalityType
  <2>. QED
    BY <1>2, <2>1, <2>2, MaxSkipAssumption
<1>5. \A k \in K : k.dh = s.dh_remote
  OBVIOUS
<1>6. NewKeys(s, t) \subseteq K
  <2>1. t.skipped_message_keys \subseteq s.skipped_message_keys \cup SkippedKeys(s, until)
    BY DEF SkipMessageKeys, RatchetState
  <2>2. SkippedKeys(s, until) = K
    BY DEF SkippedKeys
  <2>. QED
    BY <2>1, <2>2 DEF NewKeys
<1>7. Batch(K, s.dh_remote)
  BY <1>4, <1>5 DEF Batch
<1>. HIDE DEF K, t
<1>8. Batch(NewKeys(s, t), s.dh_remote)
  BY <1>6, <1>7, BatchPart
<1>. QED
  BY <1>8 DEF t

\* Decrypting in the current receiving chain adds a batch of its keys.
LEMMA DecryptInChainAdds ==
    ASSUME NEW s \in RatchetState, NEW m \in Message
    PROVE  Batch(NewKeys(s, DecryptInChain(s, m).state), s.dh_remote)
<1>. DEFINE r == SkipMessageKeys(s, m.n)
<1>1. m.n \in Nat /\ r \in RatchetState
  BY SkipMessageKeysType DEF Message
<1>2. CASE TooFar(s, m.n)
  <2>1. NewKeys(s, DecryptInChain(s, m).state) = {}
    BY <1>2 DEF DecryptInChain, NewKeys
  <2>. QED
    BY <2>1, FS_EmptySet, MaxSkipAssumption DEF Batch
<1>3. CASE ~ TooFar(s, m.n)
  <2>1. StepReceivingChain(r).skipped_message_keys = r.skipped_message_keys
    BY <1>1 DEF StepReceivingChain, RatchetState
  <2>2. NewKeys(s, DecryptInChain(s, m).state) = NewKeys(s, r)
    BY <1>3, <2>1 DEF DecryptInChain, NewKeys
  <2>. QED
    BY <1>1, <1>3, <2>2, SkipMessageKeysAdds
<1>. QED
  BY <1>2, <1>3

\* One call of decrypt adds a batch of the chain it was receiving, and one of the
\* chain of the message when that is a new one.
LEMMA DecryptAdds ==
    ASSUME NEW s \in RatchetState, NEW m \in Message
    PROVE  \E A, B : /\ NewKeys(s, Decrypt(s, m).state) = A \cup B
                     /\ Batch(A, s.dh_remote) /\ Batch(B, m.dh)
                     /\ s.dh_remote = m.dh => B = {}
<1>. DEFINE new == NewKeys(s, Decrypt(s, m).state)
            r == SkipMessageKeys(s, m.pn)
            u == DhRatchet(r, m.dh)
<1>0. \A dh : Batch({}, dh)
  BY FS_EmptySet, MaxSkipAssumption DEF Batch
<1>. SUFFICES \E A, B : /\ new \subseteq A \cup B
                        /\ Batch(A, s.dh_remote) /\ Batch(B, m.dh)
                        /\ s.dh_remote = m.dh => B = {}
  <2>1. PICK A, B : /\ new \subseteq A \cup B
                    /\ Batch(A, s.dh_remote) /\ Batch(B, m.dh)
                    /\ s.dh_remote = m.dh => B = {}
    OBVIOUS
  <2>2. new = (new \cap A) \cup (new \cap B)
    BY <2>1
  <2>. HIDE DEF new
  <2>3. Batch(new \cap A, s.dh_remote) /\ Batch(new \cap B, m.dh)
    BY <2>1, BatchPart
  <2>4. \E C, D : /\ new = C \cup D
                  /\ Batch(C, s.dh_remote) /\ Batch(D, m.dh)
                  /\ s.dh_remote = m.dh => D = {}
    BY <2>1, <2>2, <2>3
  <2>. QED
    BY <2>4 DEF new
<1>1. CASE Cached(s, m) # {}
  <2>1. new = {}
    BY <1>1 DEF Decrypt, DecryptCached, RatchetState, NewKeys
  <2>. QED
    BY <1>0, <2>1
<1>2. CASE Cached(s, m) = {} /\ s.dh_remote = m.dh
  <2>1. Decrypt(s, m) = DecryptInChain(s, m)
    BY <1>2 DEF Decrypt
  <2>2. Batch(new, s.dh_remote)
    BY <2>1, DecryptInChainAdds
  <2>. QED
    BY <1>0, <2>2
<1>3. CASE Cached(s, m) = {} /\ s.dh_remote # m.dh
  <2>1. CASE TooFar(s, m.pn)
    <3>1. new = {}
      BY <1>3, <2>1 DEF Decrypt, DecryptNewKey, NewKeys
    <3>. QED
      BY <1>0, <3>1
  <2>2. CASE ~ TooFar(s, m.pn)
    <3>1. Decrypt(s, m) = DecryptInChain(u, m)
      BY <1>3, <2>2 DEF Decrypt, DecryptNewKey
    <3>2. m.pn \in Nat /\ m.dh \in Key
      BY DEF Message
    <3>3. r \in RatchetState /\ u \in RatchetState
      BY <3>2, SkipMessageKeysType, DhRatchetType
    <3>4. u.dh_remote = m.dh /\ u.skipped_message_keys = r.skipped_message_keys
      BY <3>3 DEF DhRatchet, RatchetState
    <3>5. Batch(NewKeys(s, r), s.dh_remote)
      BY <2>2, <3>2, SkipMessageKeysAdds
    <3>6. Batch(NewKeys(u, DecryptInChain(u, m).state), m.dh)
      BY <3>3, <3>4, DecryptInChainAdds
    <3>. HIDE DEF r, u
    <3>7. new \subseteq NewKeys(s, r) \cup NewKeys(u, DecryptInChain(u, m).state)
      BY <3>1, <3>4 DEF NewKeys
    <3>. QED
      BY <1>3, <3>5, <3>6, <3>7
  <2>. QED
    BY <2>1, <2>2
<1>. QED
  BY <1>1, <1>2, <1>3

\* Two batches of different chains are of two chains at most, and no more than
\* MaxSkip keys of any.
LEMMA TwoBatches ==
    ASSUME NEW A, NEW B, NEW a, NEW b, Batch(A, a), Batch(B, b), a = b => B = {}
    PROVE  /\ Cardinality({k.dh : k \in A \cup B}) <= 2
           /\ \A chain \in {k.dh : k \in A \cup B} :
                 Cardinality({k \in A \cup B : k.dh = chain}) <= MaxSkip
<1>1. Cardinality({k.dh : k \in A \cup B}) <= 2
  <2>. DEFINE D == {k.dh : k \in A \cup B}
  <2>1. D \subseteq {a, b}
    BY DEF Batch
  <2>. HIDE DEF D
  <2>2. IsFiniteSet({a}) /\ IsFiniteSet({b}) /\ Cardinality({a}) = 1 /\ Cardinality({b}) = 1
    BY FS_Singleton
  <2>3. {a, b} = {a} \cup {b}
    OBVIOUS
  <2>4. IsFiniteSet({a, b})
        /\ Cardinality({a, b}) = Cardinality({a}) + Cardinality({b}) - Cardinality({a} \cap {b})
    BY <2>2, <2>3, FS_Union
  <2>5. Cardinality({a} \cap {b}) \in Nat
    BY <2>2, FS_Intersection, FS_CardinalityType
  <2>6. IsFiniteSet(D) /\ Cardinality(D) <= Cardinality({a, b})
    BY <2>1, <2>4, FS_Subset
  <2>7. Cardinality(D) \in Nat /\ Cardinality({a, b}) \in Nat
    BY <2>4, <2>6, FS_CardinalityType
  <2>8. Cardinality(D) <= 2
    BY <2>2, <2>4, <2>5, <2>6, <2>7
  <2>. QED
    BY <2>8 DEF D
<1>2. ASSUME NEW chain \in {k.dh : k \in A \cup B}
      PROVE  Cardinality({k \in A \cup B : k.dh = chain}) <= MaxSkip
  <2>. DEFINE C == {k \in A \cup B : k.dh = chain}
  <2>1. C \subseteq A \/ C \subseteq B
    BY DEF Batch
  <2>. HIDE DEF C
  <2>2. Batch(C, a) \/ Batch(C, b)
    BY <2>1, BatchPart
  <2>3. Cardinality(C) <= MaxSkip
    BY <2>2 DEF Batch
  <2>. QED
    BY <2>3 DEF C
<1>. QED
  BY <1>1, <1>2

=============================================================================
