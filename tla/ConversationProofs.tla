------------------------- MODULE ConversationProofs -------------------------
(***************************************************************************)
(* What holds of Conversation for every number of messages and restarts,   *)
(* every seed length and skip limit, and whatever keys the users type:     *)
(* the types, and which message keys are used twice.                       *)
(*                                                                         *)
(* The inductive invariant says, of each entry of a client and of every    *)
(* packet it sent, which key pair the chain belongs to and how the root    *)
(* key betrays that (Rooted), that a drawn key pair belongs to one         *)
(* conversation, and it numbers the packets of a chain.                    *)
(***************************************************************************)
EXTENDS Conversation, DoubleRatchetProofs, FiniteSetTheorems

\* The root key that a sending chain of party p with key pair a hangs on: the
\* hash of one shared secret before the first turn; after a turn the last two
\* secrets are those of the old and of the new key pair with one key of the peer.
Rooted(p, a, root) ==
    \/ a.gen = 0 /\ Len(root.dh) = 1
    \/ \E b \in Key, r \in Key :
          /\ b.owner = p /\ r.owner = Peer(p) /\ b.gen < a.gen
          /\ Len(root.dh) >= 2
          /\ root.dh[Len(root.dh)] = {a, r}
          /\ root.dh[Len(root.dh) - 1] = {b, r}

\* The entry s of party p, who has drawn d key pairs.
GoodEntry(p, s, d) ==
    /\ s.dh_self.owner = p
    /\ s.dh_self.gen <= d
    /\ s.chain_key_send = None => s.dh_self.gen = 0
    /\ s.chain_key_send # None =>
          /\ s.chain_key_send.root = s.root_key
          /\ s.chain_key_send.n = s.n_send
          /\ Rooted(p, s.dh_self, s.root_key)

EntryInv ==
    \A p \in Party, c \in Conv :
        ratchet[p][c] # None => GoodEntry(p, ratchet[p][c], drawn[p])

\* A key pair drawn in a turn belongs to one entry.
DistinctInv ==
    \A p \in Party : \A c, d \in Conv :
        /\ ratchet[p][c] # None /\ ratchet[p][d] # None
        /\ ratchet[p][c].dh_self = ratchet[p][d].dh_self
        /\ ratchet[p][c].dh_self.gen # 0
        => c = d

\* A packet of p whose key pair is told from all others by the life, or without.
Recent(p, x) == x.msg.dh.gen # 0 \/ x.life = life[p]

\* What is known of a packet by itself.
GoodPacket(p, x) ==
    /\ x.msg.dh.owner = p
    /\ x.msg.dh.gen <= drawn[p]
    /\ x.life <= life[p]
    /\ x.msg.mk.n = x.msg.n
    /\ Rooted(p, x.msg.dh, x.msg.mk.root)

\* A packet x of this life in the light of the entry s of its conversation.
Covers(p, s, x) ==
    x.life = life[p] => s # None /\ x.msg.dh.gen <= s.dh_self.gen

\* A packet x in the light of the entry s of conversation c.
Behind(p, s, c, x) ==
    s # None /\ x.msg.dh = s.dh_self =>
        /\ x.msg.dh.gen # 0 => x.conv = c
        /\ Recent(p, x) /\ x.conv = c => s.chain_key_send # None /\ x.msg.n < s.n_send

SentInv ==
    \A p \in Party : \A x \in sent[p] :
        /\ GoodPacket(p, x)
        /\ Covers(p, ratchet[p][x.conv], x)
        /\ \A c \in Conv : Behind(p, ratchet[p][c], c, x)

\* A position of a chain is used for one packet.
PositionInv ==
    \A p \in Party : \A x, y \in sent[p] :
        /\ x.msg.dh = y.msg.dh /\ x.msg.n = y.msg.n
        /\ x.msg.dh.gen # 0 \/ (x.life = y.life /\ x.conv = y.conv)
        => x = y

NetInv == \A x \in net : From(x) \in Party /\ x \in sent[From(x)]

ConvInv == TypeOK /\ EntryInv /\ DistinctInv /\ SentInv /\ PositionInv /\ NetInv

-----------------------------------------------------------------------------
\* Roots.

\* Chains of different key pairs have different root keys: a party does not use
\* a key pair for two chains after its first, and the two parties' chains differ
\* in the order in which the secrets were mixed in.
LEMMA RootsDiffer ==
    ASSUME NEW p \in Party, NEW q \in Party, NEW a \in Key, NEW c \in Key, NEW root \in RootKey,
           a.owner = p, c.owner = q, Rooted(p, a, root), Rooted(q, c, root)
    PROVE  \/ a = c /\ p = q
           \/ a.gen = 0 /\ c.gen = 0
<1>1. Len(root.dh) \in Nat
  BY DEF RootKey
<1>2. CASE Len(root.dh) = 1
  BY <1>2 DEF Rooted
<1>3. CASE Len(root.dh) # 1
  <2>1. PICK b \in Key, r \in Key :
           /\ b.owner = p /\ r.owner = Peer(p) /\ b.gen < a.gen
           /\ root.dh[Len(root.dh)] = {a, r}
           /\ root.dh[Len(root.dh) - 1] = {b, r}
    BY <1>3 DEF Rooted
  <2>2. PICK d \in Key, t \in Key :
           /\ d.owner = q /\ t.owner = Peer(q) /\ d.gen < c.gen
           /\ root.dh[Len(root.dh)] = {c, t}
           /\ root.dh[Len(root.dh) - 1] = {d, t}
    BY <1>3 DEF Rooted
  <2>3. {a, r} = {c, t} /\ {b, r} = {d, t}
    BY <2>1, <2>2
  <2>4. Peer(p) # p /\ Peer(q) # q
    BY PeerType
  <2>5. CASE p = q
    BY <2>1, <2>2, <2>3, <2>4, <2>5
  <2>6. CASE p # q
    <3>1. a = t /\ r = c
      BY <2>1, <2>2, <2>3, <2>4, <2>6
    <3>2. a = b
      BY <2>1, <2>2, <2>3, <2>4, <2>6, <3>1
    <3>. QED
      BY <2>1, <3>2 DEF Key
  <2>. QED
    BY <2>5, <2>6
<1>. QED
  BY <1>2, <1>3

\* A key pair that no turn has replaced is the identity key.
LEMMA FirstKeyPair ==
    ASSUME NEW k \in Key, k.gen = 0
    PROVE  k = IdentityKey(k.owner)
  BY DEF Key, IdentityKey

-----------------------------------------------------------------------------
\* Entries.

\* When decrypt turns the ratchet, the new remote key is the one in the header.
LEMMA TurnedRemote ==
    ASSUME NEW s \in RatchetState, NEW m \in Message
    PROVE  \/ SameSending(s, Decrypt(s, m).state)
           \/ /\ Turned(s, Decrypt(s, m).state, m.dh)
              /\ Decrypt(s, m).state.dh_remote = m.dh
<1>. DEFINE r == SkipMessageKeys(s, m.pn)
            u == DhRatchet(r, m.dh)
<1>1. m.pn \in Nat /\ m.n \in Nat /\ m.dh \in Key
  BY DEF Message
<1>2. SameSending(s, DecryptCached(s, m).state)
  BY DEF DecryptCached, SameSending, RatchetState
<1>3. r \in RatchetState /\ u \in RatchetState /\ u.dh_remote = m.dh
  BY <1>1, SkipMessageKeysType, DhRatchetType DEF DhRatchet, RatchetState
<1>4. DecryptInChain(u, m).state.dh_remote = m.dh
  <2>1. SkipMessageKeys(u, m.n).dh_remote = m.dh
    BY <1>3 DEF SkipMessageKeys, RatchetState
  <2>2. SkipMessageKeys(u, m.n) \in RatchetState
    BY <1>1, <1>3, SkipMessageKeysType
  <2>. QED
    BY <1>3, <2>1, <2>2 DEF DecryptInChain, StepReceivingChain, RatchetState
<1>5. \/ SameSending(s, DecryptNewKey(s, m).state)
      \/ DecryptNewKey(s, m).state.dh_remote = m.dh
  BY <1>4 DEF DecryptNewKey, SameSending
<1>. QED
  BY <1>2, <1>5, DecryptInChainSending, DecryptSending DEF Decrypt

\* The entry of an initiator.
LEMMA InitiatorEntry ==
    ASSUME NEW p \in Party, NEW remote \in Key, NEW d \in Nat
    PROVE  LET s == InitAlice(p, remote) IN
           /\ s \in RatchetState /\ GoodEntry(p, s, d)
           /\ s.dh_self = IdentityKey(p) /\ s.chain_key_send # None /\ s.n_send = 0
<1>. DEFINE root == KdfRoot([salt |-> AliceSalt, dh |-> << >>], DH(IdentityKey(p), remote))
<1>1. InitAlice(p, remote) \in RatchetState
  BY InitStateType
<1>2. IdentityKey(p) \in Key /\ IdentityKey(p).gen = 0 /\ IdentityKey(p).owner = p
  BY IdentityKeyType DEF IdentityKey
<1>3. [salt |-> AliceSalt, dh |-> << >>] \in RootKey
  BY DEF RootKey, AliceSalt, Salt
<1>4. root \in RootKey /\ Len(root.dh) = 1
  <2>1. DH(IdentityKey(p), remote) \in SUBSET Key
    BY <1>2 DEF DH
  <2>2. \A r \in RootKey : r.dh = << >> => Len(r.dh) + 1 = 1
    OBVIOUS
  <2>3. [salt |-> AliceSalt, dh |-> << >>].dh = << >>
    OBVIOUS
  <2>. HIDE DEF root
  <2>4. root \in RootKey /\ Len(root.dh) = Len([salt |-> AliceSalt, dh |-> << >>].dh) + 1
    BY <1>3, <2>1, KdfRootType DEF root
  <2>. QED
    BY <1>3, <2>2, <2>3, <2>4
<1>5. Chain(root) # None /\ Chain(root).root = root /\ Chain(root).n = 0
  BY <1>4, NoneAssumption DEF Chain, ChainKey
<1>. QED
  BY <1>1, <1>2, <1>4, <1>5 DEF InitAlice, GoodEntry, Rooted

\* The entry of a responder.
LEMMA ResponderEntry ==
    ASSUME NEW p \in Party, NEW d \in Nat
    PROVE  LET s == InitBob(p) IN
           /\ s \in RatchetState /\ GoodEntry(p, s, d)
           /\ s.dh_self = IdentityKey(p) /\ s.chain_key_send = None
<1>1. InitBob(p) \in RatchetState
  BY InitStateType, IdentityKeyType
<1>. QED
  BY <1>1 DEF InitBob, GoodEntry, IdentityKey

\* encrypt stamps the position and the chain on the message and moves on.
LEMMA EncryptEntry ==
    ASSUME NEW p \in Party, NEW s \in RatchetState, NEW d \in Nat, GoodEntry(p, s, d), CanEncrypt(s)
    PROVE  LET e == Encrypt(s) IN
           /\ GoodEntry(p, e.state, d)
           /\ e.state.dh_self = s.dh_self /\ e.state.n_send = s.n_send + 1
           /\ e.state.chain_key_send # None
           /\ e.message.dh = s.dh_self /\ e.message.n = s.n_send
           /\ e.message.mk.n = s.n_send /\ Rooted(p, s.dh_self, e.message.mk.root)
<1>1. s.chain_key_send \in ChainKey
  BY DEF RatchetState, CanEncrypt
<1>2. KdfChain(s.chain_key_send) \in ChainKey /\ KdfChain(s.chain_key_send) # None
  BY <1>1, NoneAssumption DEF KdfChain, Advance, ChainKey
<1>3. KdfChain(s.chain_key_send).root = s.chain_key_send.root
      /\ KdfChain(s.chain_key_send).n = s.chain_key_send.n + 1
  BY <1>1 DEF KdfChain, Advance, ChainKey
<1>. QED
  BY <1>1, <1>2, <1>3 DEF Encrypt, GoodEntry, CanEncrypt, RatchetState

\* The entry after its ratchet has turned with a key of the peer: a new key pair,
\* rooted in the old and the new one.
LEMMA TurnedEntry ==
    ASSUME NEW p \in Party, NEW s \in RatchetState, NEW t \in RatchetState, NEW d \in Nat,
           NEW remote \in Key, remote.owner = Peer(p), GoodEntry(p, s, d),
           Turned(s, t, remote), t.dh_remote = remote
    PROVE  LET u == WithKeyPair(t, d + 1) IN
           /\ u \in RatchetState
           /\ GoodEntry(p, u, d + 1)
           /\ u.dh_self.gen = d + 1 /\ u.dh_self # s.dh_self
<1>. DEFINE self == [t.dh_self EXCEPT !.gen = d + 1]
            n == Len(t.root_key.dh)
            root == [t.root_key EXCEPT !.dh[Len(t.root_key.dh)] = DH(self, t.dh_remote)]
            u == WithKeyPair(t, d + 1)
<1>1. s.dh_self \in Key /\ t.dh_self \in Key /\ t.root_key \in RootKey /\ s.root_key \in RootKey
  BY DEF RatchetState
<1>2. self \in Key /\ self.owner = p /\ self.gen = d + 1 /\ self # s.dh_self
  <2>1. s.dh_self.owner = p /\ s.dh_self.gen <= d /\ s.dh_self.gen \in Nat
    BY <1>1 DEF GoodEntry, Key
  <2>2. t.dh_self.owner = p
    BY <1>1, <2>1 DEF Turned, FreshKey, Key
  <2>3. self \in Key /\ self.owner = p /\ self.gen = d + 1
    BY <1>1, <2>2 DEF Key
  <2>4. self.gen # s.dh_self.gen
    BY <2>1, <2>3
  <2>. QED
    BY <2>3, <2>4
<1>3. RecvRoot(s, remote) \in RootKey
  BY <1>1, KdfRootType DEF RecvRoot, DH
<1>4. /\ n \in Nat /\ n >= 2
      /\ t.root_key.dh[n - 1] = {s.dh_self, remote}
  <2>1. /\ s.root_key.dh \in Seq(SUBSET Key)
        /\ DH(s.dh_self, remote) \in SUBSET Key /\ DH(t.dh_self, remote) \in SUBSET Key
    BY <1>1 DEF RootKey, DH
  <2>2. t.root_key.dh = Append(Append(s.root_key.dh, DH(s.dh_self, remote)), DH(t.dh_self, remote))
    BY <1>1, <1>3 DEF Turned, KdfRoot, RecvRoot, RootKey
  <2>. QED
    BY <2>1, <2>2 DEF DH
<1>5. /\ root \in RootKey /\ Len(root.dh) = n
      /\ root.dh[n] = {self, remote} /\ root.dh[n - 1] = {s.dh_self, remote}
  <2>1. t.root_key.dh \in Seq(SUBSET Key) /\ DH(self, t.dh_remote) \in SUBSET Key
    BY <1>1, <1>2 DEF RootKey, DH
  <2>2. root.dh = [t.root_key.dh EXCEPT ![n] = DH(self, t.dh_remote)]
    BY <1>1 DEF RootKey
  <2>3. root.dh \in Seq(SUBSET Key) /\ Len(root.dh) = n
    BY <1>4, <2>1, <2>2
  <2>4. root.dh[n] = DH(self, t.dh_remote) /\ root.dh[n - 1] = t.root_key.dh[n - 1]
    BY <1>4, <2>1, <2>2
  <2>. QED
    BY <1>1, <1>4, <2>3, <2>4 DEF RootKey, DH
<1>6. Chain(root) \in ChainKey /\ Chain(root).root = root /\ Chain(root).n = 0
  BY <1>5 DEF Chain, ChainKey
<1>7. u = [t EXCEPT !.dh_self = self, !.root_key = root, !.chain_key_send = Chain(root)]
  BY DEF WithKeyPair
<1>8. /\ u \in RatchetState /\ u.dh_self = self /\ u.root_key = root
      /\ u.chain_key_send = Chain(root) /\ u.n_send = t.n_send
  BY <1>2, <1>5, <1>6, <1>7 DEF RatchetState
<1>9. Rooted(p, self, root)
  <2>1. s.dh_self.owner = p /\ s.dh_self.gen < self.gen
    BY <1>1, <1>2 DEF GoodEntry, Key
  <2>2. Len(root.dh) >= 2 /\ root.dh[Len(root.dh)] = {self, remote}
        /\ root.dh[Len(root.dh) - 1] = {s.dh_self, remote}
    BY <1>4, <1>5
  <2>. QED
    BY <1>1, <2>1, <2>2 DEF Rooted
<1>10. t.n_send = 0 /\ Chain(root) # None
  BY <1>6, NoneAssumption DEF Turned
<1>11. u.dh_self.owner = p /\ u.dh_self.gen = d + 1 /\ u.dh_self # s.dh_self
  BY <1>2, <1>8
<1>12. /\ u.chain_key_send # None /\ u.chain_key_send.root = u.root_key
       /\ u.chain_key_send.n = u.n_send /\ Rooted(p, u.dh_self, u.root_key)
  BY <1>6, <1>8, <1>9, <1>10
<1>13. GoodEntry(p, u, d + 1)
  BY <1>11, <1>12 DEF GoodEntry
<1>. QED
  BY <1>8, <1>11, <1>13

-----------------------------------------------------------------------------
\* Steps.

\* What /send derives from the keys is a conversation, and the typed key is a key.
LEMMA ConvIdType ==
    ASSUME NEW p \in Party, NEW t \in Typed[p]
    PROVE  ConvId(p, t) \in Conv /\ t.key \in Key
<1>1. t.key \in Key
  BY TypedAssumption DEF Text
<1>2. ConvId(p, t) \in Conv
  BY DEF Conv
<1>. QED
  BY <1>1, <1>2

\* A packet in flight was sent by the peer of the client it is for.
LEMMA PacketInFlight ==
    ASSUME ConvInv, NEW x \in net
    PROVE  /\ x.msg \in Message /\ To(x) \in Party /\ From(x) \in Party
           /\ x.msg.dh \in Key /\ x.msg.dh.owner = From(x) /\ x.conv \in Conv
           /\ From(x) = Peer(To(x)) /\ x \in sent[From(x)] /\ x \in Packet
<1>1. x \in Packet /\ From(x) \in Party /\ x \in sent[From(x)]
  BY DEF ConvInv, TypeOK, NetInv
<1>. QED
  BY <1>1, PeerType DEF Packet, Message, From, To

\* The entry an incoming message is decrypted with, and what becomes of it.
LEMMA AfterEntry ==
    ASSUME ConvInv, NEW x \in net
    PROVE  LET p == To(x)
               s == EntryOf(x)
               t == After(x) IN
           /\ s \in RatchetState /\ t \in RatchetState /\ GoodEntry(p, s, drawn[p])
           /\ \/ /\ t.dh_self = s.dh_self /\ GoodEntry(p, t, drawn[p])
                 /\ t.chain_key_send = s.chain_key_send /\ t.n_send = s.n_send
              \/ /\ t.dh_self # s.dh_self /\ GoodEntry(p, t, drawn[p] + 1)
                 /\ t.dh_self.gen = drawn[p] + 1
<1>. DEFINE p == To(x)
            s == EntryOf(x)
            t == Decrypt(s, x.msg).state
<1>1. x.msg \in Message /\ p \in Party /\ x.msg.dh \in Key /\ x.msg.dh.owner = Peer(p)
      /\ x.conv \in Conv
  BY PacketInFlight
<1>2. drawn[p] \in Nat /\ ratchet[p][x.conv] \in RatchetState \cup {None}
  BY <1>1 DEF ConvInv, TypeOK
<1>3. s \in RatchetState /\ GoodEntry(p, s, drawn[p])
  BY <1>1, <1>2, ResponderEntry DEF EntryOf, OrInsert, ConvInv, EntryInv
<1>4. t \in RatchetState
  BY <1>1, <1>3, DecryptType
<1>5. CASE SameSending(s, t)
  <2>1. GoodEntry(p, t, drawn[p])
    BY <1>3, <1>5 DEF GoodEntry, SameSending
  <2>2. After(x) = t
    BY <1>5 DEF After, SameSending
  <2>. QED
    BY <1>3, <1>4, <1>5, <2>1, <2>2 DEF SameSending
<1>6. CASE Turned(s, t, x.msg.dh) /\ t.dh_remote = x.msg.dh
  <2>1. t.dh_self # s.dh_self
    BY <1>3, <1>6 DEF Turned, FreshKey, RatchetState, Key
  <2>2. After(x) = WithKeyPair(t, drawn[p] + 1)
    BY <2>1 DEF After
  <2>. HIDE DEF p, s, t
  <2>3. /\ WithKeyPair(t, drawn[p] + 1) \in RatchetState
        /\ GoodEntry(p, WithKeyPair(t, drawn[p] + 1), drawn[p] + 1)
        /\ WithKeyPair(t, drawn[p] + 1).dh_self.gen = drawn[p] + 1
        /\ WithKeyPair(t, drawn[p] + 1).dh_self # s.dh_self
    BY <1>1, <1>2, <1>3, <1>4, <1>6, TurnedEntry
  <2>. QED
    BY <1>3, <2>2, <2>3 DEF p, s
<1>. QED
  BY <1>1, <1>3, <1>5, <1>6, TurnedRemote

\* The entry that /send uses, and the packet that it makes.
SendEntry(p, t) == OrInsert(p, ConvId(p, t), InitAlice(p, t.key))

SendPacket(p, t) ==
    [msg |-> Encrypt(SendEntry(p, t)).message, conv |-> ConvId(p, t), life |-> life[p]]

\* What /send does: the entry it uses, and the packet.
LEMMA SendEffect ==
    ASSUME ConvInv, NEW p \in Party, NEW t \in Typed[p], Send(p, t)
    PROVE  LET c == ConvId(p, t)
               s == SendEntry(p, t)
               e == Encrypt(s)
               x == SendPacket(p, t)
           IN  /\ c \in Conv /\ t.key \in Key
               /\ s \in RatchetState /\ GoodEntry(p, s, drawn[p]) /\ CanEncrypt(s)
               /\ e.state \in RatchetState /\ e.state # None
               /\ GoodEntry(p, e.state, drawn[p])
               /\ e.state.dh_self = s.dh_self /\ e.state.n_send = s.n_send + 1
               /\ e.state.chain_key_send # None
               /\ x \in Packet /\ x.conv = c /\ x.life = life[p]
               /\ x.msg.dh = s.dh_self /\ x.msg.n = s.n_send
               /\ x.msg.mk.n = s.n_send /\ Rooted(p, s.dh_self, x.msg.mk.root)
               /\ ratchet[p][c] = None => s = InitAlice(p, t.key) /\ s.dh_self = IdentityKey(p)
               /\ ratchet[p][c] # None => s = ratchet[p][c]
               /\ \A q \in Party, d \in Conv :
                     ratchet'[q][d] = IF q = p /\ d = c THEN e.state ELSE ratchet[q][d]
               /\ \A q \in Party : sent'[q] = IF q = p THEN sent[q] \cup {x} ELSE sent[q]
               /\ net' \in {net, net \cup {x}}
<1>. DEFINE c == ConvId(p, t)
            s == SendEntry(p, t)
            e == Encrypt(s)
            x == SendPacket(p, t)
<1>1. c \in Conv /\ t.key \in Key
  BY ConvIdType
<1>2. drawn[p] \in Nat /\ life[p] \in Nat /\ ratchet[p][c] \in RatchetState \cup {None}
  BY <1>1 DEF ConvInv, TypeOK
<1>3. s \in RatchetState /\ GoodEntry(p, s, drawn[p])
      /\ (ratchet[p][c] = None => s = InitAlice(p, t.key) /\ s.dh_self = IdentityKey(p))
      /\ (ratchet[p][c] # None => s = ratchet[p][c])
  BY <1>1, <1>2, InitiatorEntry DEF SendEntry, OrInsert, ConvInv, EntryInv
<1>4. /\ CanEncrypt(s)
      /\ ratchet' = [ratchet EXCEPT ![p][c] = e.state]
      /\ sent' = [sent EXCEPT ![p] = @ \cup {x}]
      /\ net' \in {net, net \cup {x}}
  BY DEF Send, SendEntry, SendPacket
<1>. HIDE DEF s, c
<1>5. e.message \in Message /\ e.state \in RatchetState /\ e.state # None
  <2>1. e.message \in Message /\ e.state \in RatchetState
    BY <1>3, <1>4, EncryptType
  <2>. QED
    BY <2>1, EntryAssumption
<1>6. /\ GoodEntry(p, e.state, drawn[p])
      /\ e.state.dh_self = s.dh_self /\ e.state.n_send = s.n_send + 1
      /\ e.state.chain_key_send # None
      /\ e.message.dh = s.dh_self /\ e.message.n = s.n_send
      /\ e.message.mk.n = s.n_send /\ Rooted(p, s.dh_self, e.message.mk.root)
  BY <1>2, <1>3, <1>4, EncryptEntry
<1>. HIDE DEF e
<1>7. x \in Packet /\ x.conv = c /\ x.life = life[p] /\ x.msg = e.message
  BY <1>1, <1>2, <1>5 DEF Packet, SendPacket, c, s, e
<1>. HIDE DEF x
<1>8. \A q \in Party, d \in Conv :
         ratchet'[q][d] = IF q = p /\ d = c THEN e.state ELSE ratchet[q][d]
  BY <1>1, <1>4 DEF ConvInv, TypeOK
<1>9. \A q \in Party : sent'[q] = IF q = p THEN sent[q] \cup {x} ELSE sent[q]
  BY <1>4 DEF ConvInv, TypeOK
<1>. QED
  BY <1>1, <1>3, <1>4, <1>5, <1>6, <1>7, <1>8, <1>9 DEF c, s, e, x

\* /send numbers its packet with a position that no other packet of the chain has.
LEMMA SendInv ==
    ASSUME ConvInv, NEW p \in Party, NEW t \in Typed[p], Send(p, t)
    PROVE  ConvInv'
<1>. DEFINE c == ConvId(p, t)
            s == SendEntry(p, t)
            e == Encrypt(s)
            x == SendPacket(p, t)
<1>1. /\ c \in Conv /\ t.key \in Key
      /\ s \in RatchetState /\ GoodEntry(p, s, drawn[p]) /\ CanEncrypt(s)
      /\ e.state \in RatchetState /\ e.state # None
      /\ GoodEntry(p, e.state, drawn[p])
      /\ e.state.dh_self = s.dh_self /\ e.state.n_send = s.n_send + 1
      /\ e.state.chain_key_send # None
      /\ x \in Packet /\ x.conv = c /\ x.life = life[p]
      /\ x.msg.dh = s.dh_self /\ x.msg.n = s.n_send
      /\ x.msg.mk.n = s.n_send /\ Rooted(p, s.dh_self, x.msg.mk.root)
      /\ ratchet[p][c] = None => s.dh_self = IdentityKey(p)
      /\ ratchet[p][c] # None => s = ratchet[p][c]
  BY SendEffect
<1>2. /\ \A q \in Party, d \in Conv :
            ratchet'[q][d] = IF q = p /\ d = c THEN e.state ELSE ratchet[q][d]
      /\ \A q \in Party : sent'[q] = IF q = p THEN sent[q] \cup {x} ELSE sent[q]
      /\ net' \in {net, net \cup {x}}
  BY SendEffect
<1>3. /\ ratchet' = [ratchet EXCEPT ![p][c] = e.state]
      /\ sent' = [sent EXCEPT ![p] = @ \cup {x}]
      /\ saved' = [saved EXCEPT ![p] = @ \cup {c}]
      /\ life' = life /\ drawn' = drawn /\ heard' = heard
  BY DEF Send, SendEntry, SendPacket
<1>4. drawn[p] \in Nat /\ life[p] \in Nat /\ sent[p] \in SUBSET Packet
  BY DEF ConvInv, TypeOK
<1>. HIDE DEF c, s, e, x
<1>5. s.n_send \in Nat /\ s.dh_self \in Key /\ s.dh_self.gen \in Nat
      /\ s.dh_self.owner = p /\ s.dh_self.gen <= drawn[p]
      /\ (ratchet[p][c] = None => s.dh_self.gen = 0)
  BY <1>1 DEF RatchetState, GoodEntry, Key, IdentityKey
<1>6. TypeOK'
  <2>1. net' \in SUBSET Packet /\ saved' \in [Party -> SUBSET Conv]
    BY <1>1, <1>2, <1>3 DEF ConvInv, TypeOK
  <2>2. sent' \in [Party -> SUBSET Packet]
    BY <1>1, <1>3 DEF ConvInv, TypeOK
  <2>3. ratchet' \in [Party -> [Conv -> RatchetState \cup {None}]]
    BY <1>1, <1>3 DEF ConvInv, TypeOK
  <2>. QED
    BY <1>3, <2>1, <2>2, <2>3 DEF ConvInv, TypeOK
<1>7. EntryInv'
  BY <1>1, <1>2, <1>3 DEF ConvInv, EntryInv
<1>8. DistinctInv'
  BY <1>1, <1>2, <1>5 DEF ConvInv, DistinctInv
<1>9. \A y \in sent[p] : GoodPacket(p, y) /\ Covers(p, ratchet[p][y.conv], y)
                         /\ \A d \in Conv : Behind(p, ratchet[p][d], d, y)
  BY DEF ConvInv, SentInv
<1>10. \A y \in sent[p] : Covers(p, s, y) \/ y.conv # c
  BY <1>1, <1>9 DEF Covers
<1>11. ASSUME NEW y \in sent[p], y.msg.dh = s.dh_self
       PROVE  /\ y.msg.dh.gen # 0 => y.conv = c
              /\ Recent(p, y) /\ y.conv = c => y.msg.n < s.n_send
  <2>1. CASE ratchet[p][c] # None
    BY <1>1, <1>9, <1>11, <2>1 DEF Behind
  <2>2. CASE ratchet[p][c] = None
    BY <1>5, <1>9, <1>11, <2>2 DEF Recent, Covers
  <2>. QED
    BY <2>1, <2>2
<1>12. ASSUME NEW y \in sent[p]
       PROVE  GoodPacket(p, y) /\ Covers(p, ratchet'[p][y.conv], y)
              /\ \A d \in Conv : Behind(p, ratchet'[p][d], d, y)
  <2>1. y.conv \in Conv /\ y.msg.n \in Nat
    BY <1>4 DEF Packet, Message
  <2>2. Covers(p, ratchet'[p][y.conv], y)
    BY <1>1, <1>2, <1>9, <1>10, <2>1 DEF Covers
  <2>3. ASSUME NEW d \in Conv
        PROVE  Behind(p, ratchet'[p][d], d, y)
    <3>1. CASE d # c
      BY <1>2, <1>9, <3>1
    <3>2. CASE d = c
      BY <1>1, <1>2, <1>5, <1>11, <2>1, <3>2 DEF Behind
    <3>. QED
      BY <3>1, <3>2
  <2>. QED
    BY <1>9, <2>2, <2>3
<1>13. GoodPacket(p, x) /\ Covers(p, ratchet'[p][x.conv], x)
       /\ \A d \in Conv : Behind(p, ratchet'[p][d], d, x)
  <2>1. GoodPacket(p, x)
    BY <1>1, <1>4, <1>5 DEF GoodPacket
  <2>2. Covers(p, ratchet'[p][x.conv], x)
    BY <1>1, <1>2, <1>5 DEF Covers
  <2>3. ASSUME NEW d \in Conv
        PROVE  Behind(p, ratchet'[p][d], d, x)
    <3>1. CASE d = c
      BY <1>1, <1>2, <1>5, <3>1 DEF Behind
    <3>2. CASE d # c
      <4>1. ratchet'[p][d] = ratchet[p][d]
        BY <1>2, <3>2
      <4>2. ratchet[p][d] # None /\ s.dh_self = ratchet[p][d].dh_self => s.dh_self.gen = 0
        BY <1>1, <1>5, <3>2 DEF ConvInv, DistinctInv
      <4>. QED
        BY <1>1, <3>2, <4>1, <4>2 DEF Behind
    <3>. QED
      BY <3>1, <3>2
  <2>. QED
    BY <2>1, <2>2, <2>3
<1>14. SentInv'
  <2>. SUFFICES ASSUME NEW q \in Party, NEW y \in sent'[q]
                PROVE  /\ GoodPacket(q, y)
                       /\ Covers(q, ratchet'[q][y.conv], y)
                       /\ \A d \in Conv : Behind(q, ratchet'[q][d], d, y)
    BY <1>3 DEF SentInv, Covers, Behind, GoodPacket, Recent
  <2>1. CASE q # p
    <3>1. y \in sent[q] /\ sent[q] \in SUBSET Packet
      BY <1>2, <2>1 DEF ConvInv, TypeOK
    <3>2. y.conv \in Conv
      BY <3>1 DEF Packet
    <3>3. \A d \in Conv : ratchet'[q][d] = ratchet[q][d]
      BY <1>2, <2>1
    <3>4. /\ GoodPacket(q, y) /\ Covers(q, ratchet[q][y.conv], y)
          /\ \A d \in Conv : Behind(q, ratchet[q][d], d, y)
      BY <3>1 DEF ConvInv, SentInv
    <3>. QED
      BY <3>2, <3>3, <3>4
  <2>2. CASE q = p /\ y \in sent[p]
    BY <1>12, <2>2
  <2>3. CASE q = p /\ y = x
    BY <1>13, <2>3
  <2>. QED
    BY <1>2, <2>1, <2>2, <2>3
<1>15. PositionInv'
  <2>. SUFFICES ASSUME NEW q \in Party, NEW y \in sent'[q], NEW z \in sent'[q],
                       y.msg.dh = z.msg.dh, y.msg.n = z.msg.n,
                       y.msg.dh.gen # 0 \/ (y.life = z.life /\ y.conv = z.conv)
                PROVE  y = z
    BY DEF PositionInv
  <2>1. CASE q # p
    <3>1. y \in sent[q] /\ z \in sent[q]
      BY <1>2, <2>1
    <3>. QED
      BY <3>1 DEF ConvInv, PositionInv
  <2>2. \A w \in sent[p] : w.msg.n \in Nat
    BY <1>4 DEF Packet, Message
  <2>3. \A w \in sent[p] :
           /\ w.msg.dh = x.msg.dh
           /\ w.msg.dh.gen # 0 \/ (w.life = x.life /\ w.conv = x.conv)
           => w.msg.n # x.msg.n
    BY <1>1, <1>5, <1>11, <2>2 DEF Recent
  <2>4. CASE q = p
    <3>1. y \in sent[p] \cup {x} /\ z \in sent[p] \cup {x}
      BY <1>2, <2>4
    <3>2. CASE y \in sent[p] /\ z \in sent[p]
      BY <3>2 DEF ConvInv, PositionInv
    <3>3. CASE y = x /\ z \in sent[p]
      BY <2>3, <3>3
    <3>4. CASE z = x /\ y \in sent[p]
      BY <2>3, <3>4
    <3>. QED
      BY <3>1, <3>2, <3>3, <3>4
  <2>. QED
    BY <2>1, <2>4
<1>16. NetInv'
  <2>1. From(x) = p
    BY <1>1, <1>5 DEF From
  <2>. QED
    BY <1>2, <2>1 DEF ConvInv, NetInv, From
<1>. QED
  BY <1>6, <1>7, <1>8, <1>14, <1>15, <1>16 DEF ConvInv

\* An incoming message leaves the sending chain alone, or starts one with a key
\* pair that was never used.
LEMMA ReceiveInv ==
    ASSUME ConvInv, NEW x \in net, Receive(x)
    PROVE  ConvInv'
<1>. DEFINE p == To(x)
            c == x.conv
            s == EntryOf(x)
            t == After(x)
            n == IF t.dh_self = s.dh_self THEN drawn[p] ELSE drawn[p] + 1
<1>1. p \in Party /\ c \in Conv /\ drawn[p] \in Nat /\ sent[p] \in SUBSET Packet /\ x.life \in Nat
  BY PacketInFlight DEF ConvInv, TypeOK, Packet
<1>2. /\ s \in RatchetState /\ t \in RatchetState /\ t # None /\ GoodEntry(p, s, drawn[p])
      /\ GoodEntry(p, t, n)
      /\ t.dh_self = s.dh_self => t.chain_key_send = s.chain_key_send /\ t.n_send = s.n_send
      /\ t.dh_self # s.dh_self => t.dh_self.gen = drawn[p] + 1
  BY AfterEntry, EntryAssumption
<1>3. /\ ratchet[p][c] = None => s.dh_self = IdentityKey(p)
      /\ ratchet[p][c] # None => s = ratchet[p][c]
  BY <1>1, ResponderEntry DEF EntryOf, OrInsert
<1>4. /\ ratchet' = [ratchet EXCEPT ![p][c] = t]
      /\ drawn' = [drawn EXCEPT ![p] = n]
      /\ heard' = [heard EXCEPT ![p][c] = @ \cup {x.life}]
      /\ net' = net \ {x} /\ life' = life /\ sent' = sent /\ saved' = saved
  BY DEF Receive
<1>. HIDE DEF p, c, s, t
<1>5. /\ \A q \in Party, d \in Conv :
            ratchet'[q][d] = IF q = p /\ d = c THEN t ELSE ratchet[q][d]
      /\ drawn'[p] = n /\ n \in Nat /\ drawn[p] <= n
      /\ \A q \in Party : q # p => drawn'[q] = drawn[q]
  <2>1. \A q \in Party, d \in Conv :
            ratchet'[q][d] = IF q = p /\ d = c THEN t ELSE ratchet[q][d]
    BY <1>1, <1>4 DEF ConvInv, TypeOK
  <2>. QED
    BY <1>1, <1>4, <2>1 DEF ConvInv, TypeOK
<1>6. TypeOK'
  <2>1. ratchet' \in [Party -> [Conv -> RatchetState \cup {None}]]
    BY <1>1, <1>2, <1>4 DEF ConvInv, TypeOK
  <2>2. drawn' \in [Party -> Nat]
    BY <1>4, <1>5 DEF ConvInv, TypeOK
  <2>3. heard' \in [Party -> [Conv -> SUBSET Nat]]
    BY <1>1, <1>4 DEF ConvInv, TypeOK
  <2>. QED
    BY <1>4, <2>1, <2>2, <2>3 DEF ConvInv, TypeOK
<1>7. s.dh_self \in Key /\ s.dh_self.gen \in Nat /\ s.dh_self.gen <= drawn[p]
      /\ t.dh_self \in Key /\ t.dh_self.gen \in Nat
      /\ (ratchet[p][c] = None => s.dh_self.gen = 0)
  BY <1>2, <1>3 DEF RatchetState, GoodEntry, Key, IdentityKey
<1>8. \A d \in Conv : ratchet[p][d] # None =>
         /\ GoodEntry(p, ratchet[p][d], drawn[p])
         /\ ratchet[p][d].dh_self.gen \in Nat /\ ratchet[p][d].dh_self.gen <= drawn[p]
  <2>. SUFFICES ASSUME NEW d \in Conv, ratchet[p][d] # None
                PROVE  /\ GoodEntry(p, ratchet[p][d], drawn[p])
                       /\ ratchet[p][d].dh_self.gen \in Nat /\ ratchet[p][d].dh_self.gen <= drawn[p]
    OBVIOUS
  <2>1. ratchet[p][d] \in RatchetState /\ GoodEntry(p, ratchet[p][d], drawn[p])
    BY <1>1 DEF ConvInv, TypeOK, EntryInv
  <2>. QED
    BY <2>1 DEF RatchetState, Key, GoodEntry
<1>9. EntryInv'
  <2>. SUFFICES ASSUME NEW q \in Party, NEW d \in Conv, ratchet'[q][d] # None
                PROVE  GoodEntry(q, ratchet'[q][d], drawn'[q])
    BY DEF EntryInv
  <2>1. CASE q # p
    BY <1>5, <2>1 DEF ConvInv, EntryInv
  <2>2. CASE q = p /\ d = c
    BY <1>2, <1>5, <2>2
  <2>3. CASE q = p /\ d # c
    <3>. HIDE DEF n
    <3>1. ratchet'[p][d] = ratchet[p][d] /\ ratchet[p][d] # None
      BY <1>5, <2>3
    <3>2. ratchet[p][d].dh_self.gen <= n
      BY <1>1, <1>5, <1>8, <3>1
    <3>. QED
      BY <1>5, <1>8, <2>3, <3>1, <3>2 DEF GoodEntry
  <2>. QED
    BY <2>1, <2>2, <2>3
<1>10. DistinctInv'
  <2>. SUFFICES ASSUME NEW q \in Party, NEW d \in Conv, NEW f \in Conv,
                       ratchet'[q][d] # None, ratchet'[q][f] # None,
                       ratchet'[q][d].dh_self = ratchet'[q][f].dh_self,
                       ratchet'[q][d].dh_self.gen # 0, d # f
                PROVE  FALSE
    BY DEF DistinctInv
  <2>1. CASE q # p \/ (d # c /\ f # c)
    BY <1>5, <2>1 DEF ConvInv, DistinctInv
  <2>2. ASSUME NEW g \in Conv, g # c, ratchet[p][g] # None, ratchet[p][g].dh_self = t.dh_self,
               t.dh_self.gen # 0
        PROVE  FALSE
    <3>1. t.dh_self = s.dh_self
      BY <1>1, <1>2, <1>8, <2>2
    <3>2. ratchet[p][c] # None /\ ratchet[p][c].dh_self = ratchet[p][g].dh_self
      BY <1>3, <1>7, <2>2, <3>1
    <3>. QED
      BY <1>1, <2>2, <3>2 DEF ConvInv, DistinctInv
  <2>3. CASE q = p /\ d = c
    BY <1>5, <2>2, <2>3
  <2>4. CASE q = p /\ f = c
    BY <1>5, <2>2, <2>4
  <2>. QED
    BY <2>1, <2>3, <2>4
<1>11. SentInv'
  <2>. SUFFICES ASSUME NEW q \in Party, NEW y \in sent[q]
                PROVE  /\ GoodPacket(q, y)'
                       /\ Covers(q, ratchet'[q][y.conv], y)
                       /\ \A d \in Conv : Behind(q, ratchet'[q][d], d, y)
    BY <1>4 DEF SentInv, Covers, Behind, GoodPacket, Recent
  <2>0. /\ GoodPacket(q, y) /\ Covers(q, ratchet[q][y.conv], y)
        /\ \A d \in Conv : Behind(q, ratchet[q][d], d, y)
        /\ y.conv \in Conv
    <3>1. sent[q] \in SUBSET Packet
      BY DEF ConvInv, TypeOK
    <3>. QED
      BY <3>1 DEF ConvInv, SentInv, Packet
  <2>1. CASE q # p
    <3>1. \A d \in Conv : ratchet'[q][d] = ratchet[q][d]
      BY <1>5, <2>1
    <3>2. GoodPacket(q, y)'
      BY <1>4, <1>5, <2>0, <2>1 DEF GoodPacket
    <3>. QED
      BY <2>0, <3>1, <3>2
  <2>2. CASE q = p
    <3>. HIDE DEF n
    <3>1. y.msg.dh.gen \in Nat /\ y.msg.dh.gen <= drawn[p]
      BY <1>1, <2>0, <2>2 DEF GoodPacket, Packet, Message, Key
    <3>2. GoodPacket(p, y)'
      <4>1. y.msg.dh.gen <= drawn'[p]
        BY <1>1, <1>5, <3>1
      <4>. QED
        BY <1>4, <2>0, <2>2, <4>1 DEF GoodPacket
    <3>3. Covers(p, t, y) \/ y.conv # c
      <4>1. CASE t.dh_self = s.dh_self
        BY <1>2, <1>3, <2>0, <2>2, <4>1 DEF Covers
      <4>2. CASE t.dh_self # s.dh_self
        <5>1. y.msg.dh.gen <= t.dh_self.gen
          BY <1>1, <1>2, <3>1, <4>2
        <5>. QED
          BY <1>2, <5>1 DEF Covers
      <4>. QED
        BY <4>1, <4>2
    <3>4. Behind(p, t, c, y)
      <4>1. CASE t.dh_self = s.dh_self /\ ratchet[p][c] # None
        BY <1>1, <1>2, <1>3, <2>0, <2>2, <4>1 DEF Behind
      <4>2. CASE t.dh_self = s.dh_self /\ ratchet[p][c] = None
        BY <1>7, <2>0, <2>2, <4>2 DEF Behind, Recent, Covers
      <4>3. CASE t.dh_self # s.dh_self
        <5>1. y.msg.dh # t.dh_self
          BY <1>1, <1>2, <3>1, <4>3
        <5>. QED
          BY <5>1 DEF Behind
      <4>. QED
        BY <4>1, <4>2, <4>3
    <3>5. Covers(p, ratchet'[p][y.conv], y) /\ \A d \in Conv : Behind(p, ratchet'[p][d], d, y)
      BY <1>1, <1>5, <2>0, <2>2, <3>3, <3>4
    <3>. QED
      BY <2>2, <3>2, <3>5
  <2>. QED
    BY <2>1, <2>2
<1>12. PositionInv' /\ NetInv'
  BY <1>4 DEF ConvInv, PositionInv, NetInv, From
<1>. QED
  BY <1>6, <1>9, <1>10, <1>11, <1>12 DEF ConvInv

\* A lost packet changes nothing but what is in flight.
LEMMA LoseInv ==
    ASSUME ConvInv, NEW x \in net, Lose(x)
    PROVE  ConvInv'
<1>1. /\ net' = net \ {x}
      /\ UNCHANGED <<ratchet, life, drawn, sent, saved, heard>>
  BY DEF Lose
<1>. QED
  BY <1>1 DEF ConvInv, TypeOK, EntryInv, DistinctInv, SentInv, PositionInv, NetInv,
              GoodPacket, Covers, Behind, Recent, From

\* A restart begins a life of which no packet is known.
LEMMA RestartInv ==
    ASSUME ConvInv, NEW p \in Party, Restart(p)
    PROVE  ConvInv'
<1>1. /\ ratchet' = [ratchet EXCEPT ![p] = [c \in Conv |-> None]]
      /\ life' = [life EXCEPT ![p] = @ + 1]
      /\ heard' = [heard EXCEPT ![p] = [c \in Conv |-> {}]]
      /\ net' \in SUBSET net /\ drawn' = drawn /\ sent' = sent /\ saved' = saved
  BY DEF Restart
<1>2. life[p] \in Nat /\ life'[p] = life[p] + 1 /\ \A c \in Conv : ratchet'[p][c] = None
  BY <1>1 DEF ConvInv, TypeOK
<1>3. \A q \in Party : q # p => life'[q] = life[q] /\ ratchet'[q] = ratchet[q]
  BY <1>1 DEF ConvInv, TypeOK
<1>4. TypeOK'
  <2>1. ratchet' \in [Party -> [Conv -> RatchetState \cup {None}]]
    BY <1>1 DEF ConvInv, TypeOK
  <2>2. heard' \in [Party -> [Conv -> SUBSET Nat]] /\ life' \in [Party -> Nat]
    BY <1>1, <1>2 DEF ConvInv, TypeOK
  <2>. QED
    BY <1>1, <2>1, <2>2 DEF ConvInv, TypeOK
<1>5. EntryInv' /\ DistinctInv'
  BY <1>1, <1>2, <1>3 DEF ConvInv, EntryInv, DistinctInv
<1>6. \A x \in sent[p] : x.life \in Nat /\ x.life <= life[p] /\ x.conv \in Conv
  BY DEF ConvInv, SentInv, GoodPacket, TypeOK, Packet
<1>7. \A x \in sent[p] : x.life <= life'[p] /\ x.life # life'[p]
  BY <1>2, <1>6
<1>8. SentInv'
  <2>. SUFFICES ASSUME NEW q \in Party, NEW y \in sent[q]
                PROVE  /\ GoodPacket(q, y)'
                       /\ Covers(q, ratchet[q][y.conv], y)'
                       /\ \A d \in Conv : Behind(q, ratchet[q][d], d, y)'
    BY <1>1 DEF SentInv
  <2>1. /\ GoodPacket(q, y) /\ Covers(q, ratchet[q][y.conv], y)
        /\ \A d \in Conv : Behind(q, ratchet[q][d], d, y)
    BY DEF ConvInv, SentInv
  <2>2. CASE q # p
    BY <1>1, <1>3, <2>1, <2>2 DEF GoodPacket, Covers, Behind, Recent
  <2>3. CASE q = p
    <3>1. /\ y.life <= life'[p] /\ y.life # life'[p]
          /\ \A d \in Conv : ratchet'[p][d] = None
      BY <1>2, <1>7, <2>3
    <3>2. GoodPacket(p, y)'
      BY <1>1, <2>1, <2>3, <3>1 DEF GoodPacket
    <3>3. Covers(p, ratchet[p][y.conv], y)'
      BY <3>1 DEF Covers
    <3>4. \A d \in Conv : Behind(p, ratchet[p][d], d, y)'
      BY <3>1 DEF Behind
    <3>. QED
      BY <2>3, <3>2, <3>3, <3>4
  <2>. QED
    BY <2>2, <2>3
<1>9. PositionInv' /\ NetInv'
  BY <1>1 DEF ConvInv, PositionInv, NetInv, From
<1>. QED
  BY <1>4, <1>5, <1>8, <1>9 DEF ConvInv

\* /delete changes nothing that the invariant speaks of.
LEMMA DeleteInv ==
    ASSUME ConvInv, NEW p \in Party, NEW c \in Conv, Delete(p, c)
    PROVE  ConvInv'
<1>1. saved' \in [Party -> SUBSET Conv] /\ UNCHANGED <<ratchet, life, drawn, sent, net, heard>>
  BY DEF Delete, ConvInv, TypeOK
<1>. QED
  BY <1>1 DEF ConvInv, TypeOK, EntryInv, DistinctInv, SentInv, PositionInv, NetInv,
              GoodPacket, Covers, Behind, Recent, From

\* The invariant holds before anybody has sent ...
LEMMA ConvInit == Init => ConvInv
BY DEF Init, ConvInv, TypeOK, EntryInv, DistinctInv, SentInv, PositionInv, NetInv

\* ... and every step keeps it.
LEMMA ConvStep == ConvInv /\ [Next]_vars => ConvInv'
<1>. SUFFICES ASSUME ConvInv, [Next]_vars PROVE ConvInv'
  OBVIOUS
<1>1. ASSUME NEW p \in Party, NEW t \in Typed[p], Send(p, t) PROVE ConvInv'
  BY <1>1, SendInv
<1>2. ASSUME NEW x \in net, Receive(x) \/ Lose(x) PROVE ConvInv'
  BY <1>2, ReceiveInv, LoseInv
<1>3. ASSUME NEW p \in Party, Restart(p) PROVE ConvInv'
  BY <1>3, RestartInv
<1>4. ASSUME NEW p \in Party, NEW c \in Conv, Delete(p, c) PROVE ConvInv'
  BY <1>4, DeleteInv
<1>5. CASE UNCHANGED vars
  BY <1>5 DEF vars, ConvInv, TypeOK, EntryInv, DistinctInv, SentInv, PositionInv, NetInv,
              GoodPacket, Covers, Behind, Recent, From
<1>. QED
  BY <1>1, <1>2, <1>3, <1>4, <1>5 DEF Next

-----------------------------------------------------------------------------
\* Theorems.

\* So it holds always.
LEMMA ConvAlways == Spec => []ConvInv
BY ConvInit, ConvStep, PTL DEF Spec

\* Entries, packets and counters keep their types.
THEOREM ConversationTypes == Spec => []TypeOK
<1>1. ConvInv => TypeOK
  BY DEF ConvInv
<1>. QED
  BY <1>1, ConvAlways, PTL

\* Every message key is used for one packet only, except those of the first chain
\* of an initiator, in however many conversations and lives of the clients.
THEOREM KeysUsedOnce == Spec => []KeysReusedInFirstChainOnly
<1>1. ConvInv => KeysReusedInFirstChainOnly
  <2>. SUFFICES ASSUME ConvInv,
                       NEW p \in Party, NEW x \in sent[p], NEW q \in Party, NEW y \in sent[q],
                       x.msg.mk = y.msg.mk, x # y
                PROVE  /\ x.msg.dh = IdentityKey(From(x)) /\ y.msg.dh = IdentityKey(From(y))
                       /\ From(x) # From(y) \/ x.life # y.life \/ x.conv # y.conv
    BY DEF KeysReusedInFirstChainOnly, Party
  <2>1. /\ x.msg.dh \in Key /\ y.msg.dh \in Key /\ x.msg.mk.root \in RootKey
        /\ x.msg.dh.owner = p /\ y.msg.dh.owner = q /\ From(x) = p /\ From(y) = q
        /\ x.msg.n = y.msg.n
    BY DEF ConvInv, TypeOK, SentInv, GoodPacket, Packet, Message, ChainKey, From
  <2>2. \/ x.msg.dh = y.msg.dh /\ p = q
        \/ x.msg.dh.gen = 0 /\ y.msg.dh.gen = 0
    BY <2>1, RootsDiffer DEF ConvInv, SentInv, GoodPacket
  <2>3. x.msg.dh.gen = 0 /\ y.msg.dh.gen = 0
    BY <2>1, <2>2 DEF ConvInv, PositionInv
  <2>4. x.msg.dh = IdentityKey(p) /\ y.msg.dh = IdentityKey(q)
    BY <2>1, <2>3, FirstKeyPair
  <2>. QED
    BY <2>1, <2>4 DEF ConvInv, PositionInv
<1>. QED
  BY <1>1, ConvAlways, PTL

=============================================================================
