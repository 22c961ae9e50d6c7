---------------------------- MODULE SessionProofs ----------------------------
(***************************************************************************)
(* What is sent to the X25519 key of a peer opens (X25519SessionsWork),    *)
(* for every number of messages and restarts, every skip limit and         *)
(* whatever else the users type, when the seed is long enough to be copied *)
(* by both sides.                                                          *)
(*                                                                         *)
(* Such a conversation has its id from the Ed25519 key of the sender and   *)
(* the X25519 key of the recipient, and no id of the recipient's is that.  *)
(* So one side only ever sends in it, on its first chain, and the other    *)
(* only ever receives; the invariant (OneWayInv) says how far each is.     *)
(***************************************************************************)
EXTENDS ConversationProofs

\* Conversation c is what p sends to the X25519 key of its peer.
OneWay(p, c) ==
    \E t \in Typed[p] : t.key = IdentityKey(Peer(p)) /\ c = ConvId(p, t)

\* The root key of the first chain of p.
FirstRoot(p) ==
    KdfRoot([salt |-> AliceSalt, dh |-> << >>], DH(IdentityKey(p), IdentityKey(Peer(p))))

\* The entry s of the sender p.
SendsWith(p, s) ==
    s.dh_self = IdentityKey(p) /\ s.root_key = FirstRoot(p) /\ s.chain_key_send # None

\* What conversation c is sent with: always the first chain of p.
SendSide(p, c) ==
    /\ ratchet[p][c] # None => SendsWith(p, ratchet[p][c])
    /\ \A q \in Party : \A x \in sent[q] : x.conv = c =>
          /\ q = p /\ x.msg.dh = IdentityKey(p)
          /\ x.msg.mk = [root |-> FirstRoot(p), n |-> x.msg.n]

\* What the recipient q decrypts with: its entry, or the one a message would make.
Reader(q, c) == OrInsert(q, c, InitBob(q))

\* The state y of the recipient has nothing yet, or is receiving the chain of p.
ReadsWith(p, y) ==
    /\ RecvInv(y)
    /\ \/ y = InitBob(Peer(p))
       \/ /\ y.dh_remote = IdentityKey(p)
          /\ y.chain_key_recv # None /\ y.chain_key_recv.root = FirstRoot(p)

\* What is in flight in conversation c is expected, unless it is of another life of
\* p than what came before; and y, whose packets h are of, is not ahead of p.
Awaits(p, c, y, h) ==
    /\ h = {} => y = InitBob(Peer(p))
    /\ \A l \in h : l <= life[p] /\ (l = life[p] => ratchet[p][c] # None)
    /\ h \subseteq {life[p]} /\ ratchet[p][c] # None => y.n_recv <= ratchet[p][c].n_send
    /\ \A x \in net : x.conv = c /\ h \subseteq {x.life} =>
          y = InitBob(Peer(p)) \/ Expects(y, x.msg)

RecvSide(p, c) ==
    /\ ReadsWith(p, Reader(Peer(p), c))
    /\ Awaits(p, c, Reader(Peer(p), c), heard[Peer(p)][c])

OneWayInv ==
    \A p \in Party, c \in Conv : OneWay(p, c) => SendSide(p, c) /\ RecvSide(p, c)

-----------------------------------------------------------------------------
\* Ids and roots.

\* The id of a conversation to the X25519 key of the peer tells its sender, and that
\* it is such a conversation.
LEMMA OneWayIds ==
    ASSUME NEW p \in Party, NEW c, OneWay(p, c)
    PROVE  /\ \A u \in Typed[p] : ConvId(p, u) = c => u.key = IdentityKey(Peer(p))
           /\ \A u \in Typed[Peer(p)] : ConvId(Peer(p), u) # c
<1>. DEFINE q == Peer(p)
            a == [key |-> PublicKey[p], form |-> "lower"]
            b == [key |-> PublicKey[q], form |-> "lower"]
<1>1. PICK t \in Typed[p] : t.key = IdentityKey(q) /\ c = {a, t}
  BY DEF OneWay, ConvId
<1>2. q \in Party /\ q # p
  BY PeerType
<1>3. PublicKey[p].owner \in Stranger /\ PublicKey[q].owner \in Stranger /\ PublicKey[p] # PublicKey[q]
  BY <1>2, PublicKeyAssumption DEF Party
<1>4. t.key.owner = q /\ q \notin Stranger
  BY <1>1, <1>2, StrangerAssumption DEF IdentityKey, Party
<1>5. t # a /\ t # b /\ a # b
  BY <1>3, <1>4
<1>6. ASSUME NEW u \in Typed[p], ConvId(p, u) = c
      PROVE  u.key = IdentityKey(q)
  <2>1. {a, u} = {a, t}
    BY <1>1, <1>6 DEF ConvId
  <2>2. u = t
    BY <1>5, <2>1
  <2>. QED
    BY <1>1, <2>2
<1>7. ASSUME NEW u \in Typed[q], ConvId(q, u) = c
      PROVE  FALSE
  <2>1. {b, u} = {a, t}
    BY <1>1, <1>7 DEF ConvId
  <2>. QED
    BY <1>5, <2>1
<1>. QED
  BY <1>6, <1>7

\* The first packet of p is next for a recipient that has nothing yet: both derive
\* the same root key, if they took the same salt from the seed.
LEMMA FirstIsNext ==
    ASSUME SeedLen >= 32, NEW p \in Party, NEW m \in Message,
           m.dh = IdentityKey(p), m.mk = [root |-> FirstRoot(p), n |-> m.n]
    PROVE  LET s == InitBob(Peer(p)) IN
           /\ s \in RatchetState /\ RecvInv(s) /\ IsNext(s, m)
           /\ RecvRoot(s, m.dh) = FirstRoot(p)
           /\ s.n_recv = 0
<1>. DEFINE s == InitBob(Peer(p))
<1>1. s \in RatchetState
  BY PeerType, InitStateType, IdentityKeyType
<1>2. /\ s.dh_remote = None /\ s.chain_key_recv = None /\ s.skipped_message_keys = {} /\ s.n_recv = 0
      /\ s.dh_self = IdentityKey(Peer(p)) /\ s.root_key = [salt |-> BobSalt, dh |-> << >>]
  BY DEF InitBob
<1>3. AliceSalt = BobSalt
  BY DEF AliceSalt, BobSalt
<1>4. DH(IdentityKey(Peer(p)), IdentityKey(p)) = DH(IdentityKey(p), IdentityKey(Peer(p)))
  BY DEF DH
<1>5. RecvRoot(s, m.dh) = FirstRoot(p)
  BY <1>2, <1>3, <1>4 DEF RecvRoot, FirstRoot
<1>6. RecvInv(s)
  BY <1>2 DEF RecvInv
<1>. QED
  BY <1>1, <1>2, <1>5, <1>6 DEF IsNext

-----------------------------------------------------------------------------
\* What decrypt makes of the recipient's entry.

\* Two states that receive alike.  The new key pair that After gives an entry whose
\* ratchet turned changes its sending side only.
SameRecv(s, t) ==
    /\ t.dh_remote = s.dh_remote
    /\ t.chain_key_recv = s.chain_key_recv
    /\ t.n_recv = s.n_recv
    /\ t.skipped_message_keys = s.skipped_message_keys

\* So what is said of the one is said of the other.
LEMMA SameRecvAlike ==
    ASSUME NEW s, NEW t, SameRecv(s, t)
    PROVE  /\ RecvInv(s) => RecvInv(t)
           /\ \A m : Expects(s, m) => Expects(t, m)
  BY DEF SameRecv, RecvInv, Expects, InChain

\* A message of the chain that s receives, expected or not, keeps s receiving it.
LEMMA DecryptSameChain ==
    ASSUME NEW s \in RatchetState, NEW m \in Message, RecvInv(s),
           s.chain_key_recv # None, m.dh = s.dh_remote
    PROVE  LET t == Decrypt(s, m).state IN
           RecvInv(t) /\ SameReceiving(s, t) /\ SameSending(s, t)
<1>. DEFINE r == SkipMessageKeys(s, m.n)
            t == Decrypt(s, m).state
<1>1. m.n \in Nat
  BY DEF Message
<1>2. CASE Cached(s, m) # {}
  <2>1. t = [s EXCEPT !.skipped_message_keys = @ \ Cached(s, m)]
    BY <1>2 DEF Decrypt, DecryptCached
  <2>. QED
    BY <2>1 DEF RatchetState, RecvInv, SameReceiving, SameSending
<1>3. CASE Cached(s, m) = {} /\ TooFar(s, m.n)
  <2>1. t = s
    BY <1>3 DEF Decrypt, DecryptInChain
  <2>. QED
    BY <2>1 DEF SameReceiving, SameSending
<1>4. CASE Cached(s, m) = {} /\ ~ TooFar(s, m.n)
  <2>1. /\ r \in RatchetState /\ RecvInv(r) /\ r.dh_remote = s.dh_remote
        /\ r.chain_key_recv # None /\ r.chain_key_recv.root = s.chain_key_recv.root
    BY <1>1, SkipMessageKeysType, SkipMessageKeysExpects
  <2>2. t = StepReceivingChain(r)
    BY <1>4, <2>1 DEF Decrypt, DecryptInChain
  <2>3. SameSending(s, t)
    BY <1>4, DecryptInChainSending DEF Decrypt
  <2>. HIDE DEF r, t
  <2>4. /\ RecvInv(t) /\ t.dh_remote = r.dh_remote
        /\ t.chain_key_recv # None /\ t.chain_key_recv.root = r.chain_key_recv.root
    BY <2>1, <2>2, StepReceivingChainExpects
  <2>. QED
    BY <2>1, <2>3, <2>4 DEF SameReceiving, t
<1>. QED
  BY <1>2, <1>3, <1>4

\* A packet opens or is beyond the limit if the entry it meets has nothing yet or
\* expects it; the other packets of the chain are expected then.  If it is not
\* expected, the entry goes on receiving the chain nevertheless.
LEMMA DecryptOneWay ==
    ASSUME SeedLen >= 32, NEW p \in Party, NEW y \in RatchetState, ReadsWith(p, y),
           NEW m \in Message, m.dh = IdentityKey(p), m.mk = [root |-> FirstRoot(p), n |-> m.n]
    PROVE  LET t == Decrypt(y, m).state IN
           /\ ReadsWith(p, t)
           /\ t = InitBob(Peer(p)) => t.dh_self = y.dh_self
           /\ y = InitBob(Peer(p)) \/ Expects(y, m) =>
                 /\ Decrypt(y, m).result \in {"ok", "too_many"}
                 /\ t.n_recv = y.n_recv \/ t.n_recv = 0 \/ t.n_recv = m.n + 1
                 /\ \A x \in Message :
                       /\ y = InitBob(Peer(p)) \/ Expects(y, x)
                       /\ x.dh = m.dh /\ x.mk = [root |-> FirstRoot(p), n |-> x.n] /\ x.n # m.n
                       => t = InitBob(Peer(p)) \/ Expects(t, x)
<1>. DEFINE t == Decrypt(y, m).state
<1>1. CASE y = InitBob(Peer(p))
  <2>1. IsNext(y, m) /\ RecvInv(y) /\ RecvRoot(y, m.dh) = FirstRoot(p)
    BY <1>1, FirstIsNext
  <2>2. /\ Decrypt(y, m).result \in {"ok", "too_many"}
        /\ \/ t = y
           \/ /\ Turned(y, t, m.dh)
              /\ RecvInv(t)
              /\ t.dh_remote = m.dh
              /\ t.chain_key_recv # None
              /\ t.chain_key_recv.root = RecvRoot(y, m.dh)
              /\ t.n_recv = 0 \/ t.n_recv = m.n + 1
              /\ \A x \in Message :
                    /\ x.dh = m.dh
                    /\ x.mk = [root |-> RecvRoot(y, m.dh), n |-> x.n]
                    /\ x.n # m.n
                    => Expects(t, x)
    BY <2>1, DecryptNext
  <2>3. CASE t = y
    BY <1>1, <2>2, <2>3
  <2>4. CASE t # y
    <3>. HIDE DEF t
    <3>1. ReadsWith(p, t)
      BY <2>1, <2>2, <2>4 DEF ReadsWith
    <3>. QED
      BY <1>1, <2>1, <2>2, <2>4, <3>1 DEF t
  <2>. QED
    BY <2>3, <2>4
<1>2. CASE y # InitBob(Peer(p))
  <2>1. RecvInv(y) /\ y.dh_remote = m.dh /\ y.chain_key_recv # None
        /\ y.chain_key_recv.root = FirstRoot(p)
    BY <1>2 DEF ReadsWith
  <2>2. RecvInv(t) /\ SameReceiving(y, t) /\ SameSending(y, t)
    BY <2>1, DecryptSameChain
  <2>3. Expects(y, m) =>
           /\ Decrypt(y, m).result \in {"ok", "too_many"}
           /\ Kept(y, t, m)
           /\ t.n_recv = y.n_recv \/ t.n_recv = m.n + 1
    BY <2>1, DecryptExpected
  <2>. HIDE DEF t
  <2>4. ReadsWith(p, t)
    BY <2>1, <2>2 DEF ReadsWith, SameReceiving
  <2>. QED
    BY <1>2, <2>2, <2>3, <2>4 DEF Kept, SameSending, t
<1>. QED
  BY <1>1, <1>2

-----------------------------------------------------------------------------
\* Steps.

\* The types of what the invariant speaks of.
LEMMA OneWayTypes ==
    ASSUME ConvInv, NEW p \in Party, NEW c \in Conv
    PROVE  /\ Peer(p) \in Party /\ Peer(p) # p /\ Peer(Peer(p)) = p /\ Party = {p, Peer(p)}
           /\ life[p] \in Nat
           /\ Reader(Peer(p), c) \in RatchetState
           /\ ratchet[p][c] # None => ratchet[p][c] \in RatchetState
           /\ heard[Peer(p)][c] \in SUBSET Nat
<1>1. Peer(p) \in Party /\ Peer(p) # p /\ Peer(Peer(p)) = p /\ Party = {p, Peer(p)}
  BY PeerType DEF Party
<1>2. /\ life[p] \in Nat /\ heard[Peer(p)][c] \in SUBSET Nat
      /\ ratchet[p][c] \in RatchetState \cup {None}
      /\ ratchet[Peer(p)][c] \in RatchetState \cup {None}
  BY <1>1 DEF ConvInv, TypeOK
<1>3. InitBob(Peer(p)) \in RatchetState
  BY <1>1, InitStateType, IdentityKeyType
<1>. QED
  BY <1>1, <1>2, <1>3 DEF Reader, OrInsert

\* A packet of the conversation, as its sender sees it.
LEMMA OneWayPacket ==
    ASSUME ConvInv, NEW p \in Party, NEW c \in Conv, SendSide(p, c), NEW x \in net, x.conv = c
    PROVE  /\ From(x) = p /\ To(x) = Peer(p) /\ x.msg \in Message /\ x.msg.n \in Nat
           /\ x.life \in Nat /\ x.life <= life[p]
           /\ x.msg.dh = IdentityKey(p) /\ x.msg.mk = [root |-> FirstRoot(p), n |-> x.msg.n]
           /\ x.life = life[p] => ratchet[p][c] # None /\ x.msg.n + 1 <= ratchet[p][c].n_send
           /\ \A z \in net : z.conv = c /\ z.life = x.life /\ z.msg.n = x.msg.n => z = x
<1>1. /\ From(x) \in Party /\ x \in sent[From(x)] /\ x.msg \in Message /\ x \in Packet
      /\ From(x) = Peer(To(x))
  BY PacketInFlight
<1>2. From(x) = p /\ x \in sent[p] /\ x.msg.dh = IdentityKey(p)
      /\ x.msg.mk = [root |-> FirstRoot(p), n |-> x.msg.n]
  BY <1>1 DEF SendSide
<1>3. To(x) = Peer(p)
  BY <1>2 DEF To
<1>4. x.msg.n \in Nat /\ x.life \in Nat
  BY <1>1 DEF Message, Packet
<1>5. /\ x.life <= life[p] /\ Covers(p, ratchet[p][c], x) /\ Behind(p, ratchet[p][c], c, x)
  BY <1>2 DEF ConvInv, SentInv, GoodPacket
<1>6. ASSUME x.life = life[p]
      PROVE  ratchet[p][c] # None /\ x.msg.n + 1 <= ratchet[p][c].n_send
  <2>1. ratchet[p][c] # None
    BY <1>5, <1>6 DEF Covers
  <2>2. x.msg.dh = ratchet[p][c].dh_self /\ ratchet[p][c].n_send \in Nat
    BY <1>2, <2>1, OneWayTypes DEF SendSide, SendsWith, RatchetState
  <2>3. x.msg.n < ratchet[p][c].n_send
    BY <1>5, <1>6, <2>1, <2>2 DEF Behind, Recent
  <2>. QED
    BY <1>4, <2>1, <2>2, <2>3
<1>7. ASSUME NEW z \in net, z.conv = c, z.life = x.life, z.msg.n = x.msg.n
      PROVE  z = x
  <2>1. From(z) \in Party /\ z \in sent[From(z)]
    BY PacketInFlight
  <2>2. z \in sent[p] /\ z.msg.dh = x.msg.dh
    BY <1>2, <1>7, <2>1 DEF SendSide
  <2>. QED
    BY <1>2, <1>7, <2>2 DEF ConvInv, PositionInv
<1>. QED
  BY <1>1, <1>2, <1>3, <1>4, <1>5, <1>6, <1>7

\* A step that leaves the conversation alone, or loses packets of it.
LEMMA OneWayFrame ==
    ASSUME NEW p \in Party, NEW c \in Conv, SendSide(p, c), RecvSide(p, c),
           \A q \in Party : ratchet'[q][c] = ratchet[q][c] /\ heard'[q][c] = heard[q][c],
           \A q \in Party : \A x \in sent'[q] : x.conv = c => x \in sent[q],
           \A x \in net' : x.conv = c => x \in net,
           life' = life
    PROVE  SendSide(p, c)' /\ RecvSide(p, c)'
<1>1. Peer(p) \in Party
  BY PeerType
<1>2. SendSide(p, c)'
  BY DEF SendSide
<1>3. Reader(Peer(p), c)' = Reader(Peer(p), c)
  BY <1>1 DEF Reader, OrInsert
<1>. QED
  BY <1>1, <1>2, <1>3 DEF RecvSide, Awaits

\* The sender goes on in its first chain, or starts it.
LEMMA SendOneWay ==
    ASSUME ConvInv, NEW p \in Party, NEW c \in Conv, OneWay(p, c), SendSide(p, c), RecvSide(p, c),
           NEW o \in Party, NEW u \in Typed[o], Send(o, u)
    PROVE  SendSide(p, c)' /\ RecvSide(p, c)'
<1>. DEFINE d == ConvId(o, u)
            s == SendEntry(o, u)
            e == Encrypt(s)
            x == SendPacket(o, u)
            y == Reader(Peer(p), c)
            h == heard[Peer(p)][c]
<1>1. /\ d \in Conv /\ u.key \in Key /\ s \in RatchetState /\ CanEncrypt(s)
      /\ GoodEntry(o, s, drawn[o])
      /\ e.state \in RatchetState /\ e.state # None
      /\ e.state.chain_key_send # None /\ e.state.n_send = s.n_send + 1
      /\ e.state.dh_self = s.dh_self
      /\ x.conv = d /\ x.life = life[o]
      /\ x.msg.dh = s.dh_self /\ x.msg.n = s.n_send /\ x.msg.mk.n = s.n_send
      /\ (ratchet[o][d] = None => s = InitAlice(o, u.key) /\ s.dh_self = IdentityKey(o))
      /\ (ratchet[o][d] # None => s = ratchet[o][d])
  BY SendEffect
<1>2. /\ \A q \in Party, f \in Conv :
            ratchet'[q][f] = IF q = o /\ f = d THEN e.state ELSE ratchet[q][f]
      /\ \A q \in Party : sent'[q] = IF q = o THEN sent[q] \cup {x} ELSE sent[q]
      /\ net' \in {net, net \cup {x}}
  BY SendEffect
<1>3. life' = life /\ heard' = heard
  BY DEF Send
<1>4. Peer(p) \in Party /\ Peer(p) # p /\ y \in RatchetState /\ life[p] \in Nat /\ h \in SUBSET Nat
  BY OneWayTypes
<1>5. e.state.root_key = s.root_key /\ x.msg.mk = s.chain_key_send
  BY <1>1 DEF Encrypt, RatchetState, SendPacket
<1>6. s.chain_key_send.root = s.root_key /\ s.chain_key_send \in ChainKey /\ s.n_send \in Nat
  BY <1>1 DEF GoodEntry, CanEncrypt, RatchetState
<1>. HIDE DEF d, s, e, x, y, h
<1>7. x.msg.mk = [root |-> s.root_key, n |-> x.msg.n]
  BY <1>1, <1>5, <1>6 DEF ChainKey
<1>8. CASE d # c
  <2>1. \A q \in Party : ratchet'[q][c] = ratchet[q][c] /\ heard'[q][c] = heard[q][c]
    BY <1>2, <1>3, <1>8
  <2>2. \A q \in Party : \A z \in sent'[q] : z.conv = c => z \in sent[q]
    BY <1>1, <1>2, <1>8
  <2>3. \A z \in net' : z.conv = c => z \in net
    BY <1>1, <1>2, <1>8
  <2>. QED
    BY <1>3, <2>1, <2>2, <2>3, OneWayFrame
<1>9. CASE d = c
  <2>1. o = p /\ u.key = IdentityKey(Peer(p))
    BY <1>9, OneWayIds, PeerType DEF Party, d
  <2>2. s.dh_self = IdentityKey(p) /\ s.root_key = FirstRoot(p)
    <3>1. CASE ratchet[p][c] # None
      BY <1>1, <1>9, <2>1, <3>1 DEF SendSide, SendsWith
    <3>2. CASE ratchet[p][c] = None
      BY <1>1, <1>9, <2>1, <3>2 DEF InitAlice, FirstRoot
    <3>. QED
      BY <3>1, <3>2
  <2>3. ratchet'[p][c] = e.state /\ ratchet'[Peer(p)][c] = ratchet[Peer(p)][c]
    BY <1>2, <1>4, <1>9, <2>1
  <2>4. SendSide(p, c)'
    <3>1. SendsWith(p, e.state)
      BY <1>1, <1>5, <2>2 DEF SendsWith
    <3>2. ASSUME NEW q \in Party, NEW z \in sent'[q], z.conv = c
          PROVE  /\ q = p /\ z.msg.dh = IdentityKey(p)
                 /\ z.msg.mk = [root |-> FirstRoot(p), n |-> z.msg.n]
      <4>1. CASE z \in sent[q]
        BY <3>2, <4>1 DEF SendSide
      <4>2. CASE q = p /\ z = x
        BY <1>1, <1>7, <2>2, <4>2
      <4>. QED
        BY <1>2, <2>1, <3>2, <4>1, <4>2
    <3>. QED
      BY <2>3, <3>1, <3>2 DEF SendSide
  <2>5. Reader(Peer(p), c)' = y
    BY <2>3 DEF Reader, OrInsert, y
  <2>6. ReadsWith(p, y) /\ Awaits(p, c, y, h)
    BY DEF RecvSide, y, h
  <2>7. ASSUME h \subseteq {life[p]}
        PROVE  y = InitBob(Peer(p)) \/ (ratchet[p][c] # None /\ y.n_recv <= s.n_send)
    <3>1. CASE ratchet[p][c] = None
      <4>1. h = {}
        BY <2>6, <2>7, <3>1 DEF Awaits
      <4>. QED
        BY <2>6, <4>1 DEF Awaits
    <3>2. CASE ratchet[p][c] # None
      BY <1>1, <1>9, <2>1, <2>6, <2>7, <3>2 DEF Awaits
    <3>. QED
      BY <3>1, <3>2
  <2>8. h \subseteq {life[p]} => y.n_recv <= e.state.n_send
    <3>1. y.n_recv \in Nat /\ InitBob(Peer(p)).n_recv = 0
      BY <1>4 DEF RatchetState, InitBob
    <3>. QED
      BY <1>1, <1>6, <2>7, <3>1
  <2>9. h \subseteq {x.life} => y = InitBob(Peer(p)) \/ Expects(y, x.msg)
    <3>1. h \subseteq {life[p]} /\ y # InitBob(Peer(p)) =>
             /\ y.dh_remote = IdentityKey(p) /\ y.chain_key_recv # None
             /\ y.chain_key_recv.root = FirstRoot(p) /\ y.n_recv <= s.n_send
      BY <2>6, <2>7 DEF ReadsWith
    <3>2. h \subseteq {life[p]} /\ y # InitBob(Peer(p)) => InChain(y, x.msg)
      BY <1>1, <1>7, <2>2, <3>1 DEF InChain
    <3>. QED
      BY <1>1, <2>1, <3>2 DEF Expects
  <2>10. Awaits(p, c, y, h)'
    <3>1. \A z \in net' : z.conv = c /\ h \subseteq {z.life} =>
             y = InitBob(Peer(p)) \/ Expects(y, z.msg)
      BY <1>2, <2>6, <2>9 DEF Awaits
    <3>2. /\ h = {} => y = InitBob(Peer(p))
          /\ \A l \in h : l <= life[p]
      BY <2>6 DEF Awaits
    <3>3. y' = y /\ h' = h
      BY <1>3, <2>5 DEF y, h
    <3>. QED
      BY <1>1, <1>3, <2>3, <2>8, <3>1, <3>2, <3>3 DEF Awaits
  <2>. QED
    BY <2>4, <2>5, <2>6, <2>10, <1>3 DEF RecvSide, y, h
<1>. QED
  BY <1>8, <1>9

\* The recipient goes on receiving the chain of p, or starts to.
LEMMA ReceiveOneWay ==
    ASSUME SeedLen >= 32, ConvInv,
           NEW p \in Party, NEW c \in Conv, SendSide(p, c), RecvSide(p, c),
           NEW x \in net, Receive(x)
    PROVE  SendSide(p, c)' /\ RecvSide(p, c)'
<1>. DEFINE q == Peer(p)
            m == x.msg
            y == Reader(q, c)
            h == heard[q][c]
            t == Decrypt(y, m).state
            z == After(x)
<1>1. /\ q \in Party /\ q # p /\ Peer(q) = p /\ life[p] \in Nat
      /\ y \in RatchetState /\ h \in SUBSET Nat
  BY OneWayTypes
<1>2. To(x) \in Party /\ x.conv \in Conv
  BY PacketInFlight
<1>3. /\ ratchet' = [ratchet EXCEPT ![To(x)][x.conv] = z]
      /\ heard' = [heard EXCEPT ![To(x)][x.conv] = @ \cup {x.life}]
      /\ net' = net \ {x} /\ life' = life /\ sent' = sent
  BY DEF Receive
<1>4. CASE x.conv # c
  <2>1. \A r \in Party : ratchet'[r][c] = ratchet[r][c] /\ heard'[r][c] = heard[r][c]
    BY <1>2, <1>3, <1>4 DEF ConvInv, TypeOK
  <2>. QED
    BY <1>3, <2>1, OneWayFrame
<1>5. CASE x.conv = c
  <2>1. /\ To(x) = q /\ m \in Message /\ m.n \in Nat /\ x.life \in Nat /\ x.life <= life[p]
        /\ m.dh = IdentityKey(p) /\ m.mk = [root |-> FirstRoot(p), n |-> m.n]
        /\ x.life = life[p] => ratchet[p][c] # None /\ m.n + 1 <= ratchet[p][c].n_send
        /\ \A w \in net : w.conv = c /\ w.life = x.life /\ w.msg.n = m.n => w = x
    BY <1>5, OneWayPacket
  <2>2. EntryOf(x) = y
    BY <1>5, <2>1 DEF EntryOf, Reader
  <2>3. ReadsWith(p, y) /\ Awaits(p, c, y, h)
    BY DEF RecvSide
  <2>. HIDE DEF q, m, y, h, t, z
  <2>4. /\ ReadsWith(p, t)
        /\ t = InitBob(q) => t.dh_self = y.dh_self
        /\ y = InitBob(q) \/ Expects(y, m) =>
              /\ t.n_recv = y.n_recv \/ t.n_recv = 0 \/ t.n_recv = m.n + 1
              /\ \A w \in Message :
                    /\ y = InitBob(q) \/ Expects(y, w)
                    /\ w.dh = m.dh /\ w.mk = [root |-> FirstRoot(p), n |-> w.n] /\ w.n # m.n
                    => t = InitBob(q) \/ Expects(t, w)
    BY <1>1, <2>1, <2>3, DecryptOneWay DEF t, q
  <2>5. /\ z \in RatchetState /\ z # None /\ SameRecv(t, z)
        /\ t = InitBob(q) => z = t
    <3>1. z = IF t.dh_self = y.dh_self THEN t ELSE WithKeyPair(t, drawn[q] + 1)
      BY <2>1, <2>2 DEF After, z, t, m
    <3>2. t \in RatchetState
      BY <1>1, <2>1, DecryptType DEF t
    <3>3. SameRecv(t, WithKeyPair(t, drawn[q] + 1))
      BY <3>2 DEF WithKeyPair, RatchetState, SameRecv
    <3>4. z \in RatchetState /\ z # None
      BY AfterEntry, EntryAssumption DEF z
    <3>. QED
      BY <2>4, <3>1, <3>3, <3>4 DEF SameRecv
  <2>6. /\ ratchet'[q][c] = z /\ ratchet'[p][c] = ratchet[p][c] /\ heard'[q][c] = h \cup {x.life}
    BY <1>1, <1>2, <1>3, <1>5, <2>1 DEF ConvInv, TypeOK, h
  <2>7. SendSide(p, c)'
    BY <1>3, <2>6 DEF SendSide
  <2>8. ReadsWith(p, z)
    <3>1. RecvInv(z)
      BY <2>4, <2>5, SameRecvAlike DEF ReadsWith
    <3>. QED
      BY <2>4, <2>5, <3>1 DEF ReadsWith, SameRecv, q
  <2>9. Reader(q, c)' = z
    BY <2>5, <2>6 DEF Reader, OrInsert
  <2>10. ASSUME h \subseteq {x.life}
         PROVE  y = InitBob(q) \/ Expects(y, m)
    BY <1>5, <2>3, <2>10 DEF Awaits, m, q
  <2>11. /\ h \cup {x.life} # {}
         /\ \A l \in h \cup {x.life} : l <= life[p] /\ (l = life[p] => ratchet[p][c] # None)
    BY <2>1, <2>3 DEF Awaits
  <2>12. ASSUME h \cup {x.life} \subseteq {life[p]}, ratchet[p][c] # None
         PROVE  z.n_recv <= ratchet[p][c].n_send
    <3>1. x.life = life[p] /\ h \subseteq {x.life}
      BY <2>12
    <3>2. t.n_recv = y.n_recv \/ t.n_recv = 0 \/ t.n_recv = m.n + 1
      BY <2>4, <2>10, <3>1
    <3>3. y.n_recv <= ratchet[p][c].n_send /\ m.n + 1 <= ratchet[p][c].n_send
      BY <2>1, <2>3, <2>12, <3>1 DEF Awaits
    <3>4. z.n_recv = t.n_recv
      BY <2>5 DEF SameRecv
    <3>5. ratchet[p][c].n_send \in Nat
      BY <2>12, OneWayTypes DEF RatchetState
    <3>. QED
      BY <3>2, <3>3, <3>4, <3>5
  <2>13. ASSUME NEW w \in net, w # x, w.conv = c, h \cup {x.life} \subseteq {w.life}
         PROVE  z = InitBob(q) \/ Expects(z, w.msg)
    <3>1. x.life = w.life /\ h \subseteq {x.life} /\ h \subseteq {w.life}
      BY <2>13
    <3>2. /\ w.msg \in Message /\ w.msg.dh = m.dh
          /\ w.msg.mk = [root |-> FirstRoot(p), n |-> w.msg.n]
      BY <2>1, <2>13, OneWayPacket
    <3>3. w.msg.n # m.n
      BY <2>1, <2>13, <3>1
    <3>4. y = InitBob(q) \/ Expects(y, w.msg)
      BY <2>3, <2>13, <3>1 DEF Awaits, q
    <3>5. t = InitBob(q) \/ Expects(t, w.msg)
      BY <2>4, <2>10, <3>1, <3>2, <3>3, <3>4
    <3>. QED
      BY <2>5, <3>5, SameRecvAlike
  <2>14. Awaits(p, c, Reader(q, c), heard[q][c])'
    <3>1. heard'[q][c] = h \cup {x.life} /\ net' = net \ {x} /\ life' = life
          /\ ratchet'[p][c] = ratchet[p][c]
      BY <1>3, <2>6
    <3>. QED
      BY <2>9, <2>11, <2>12, <2>13, <3>1 DEF Awaits, q
  <2>. QED
    BY <2>7, <2>8, <2>9, <2>14 DEF RecvSide, q
<1>. QED
  BY <1>4, <1>5

\* A restart begins a life of the sender of which nothing has arrived, or takes the
\* recipient back to where it has nothing yet, with nothing in flight to it.
LEMMA RestartOneWay ==
    ASSUME ConvInv, NEW p \in Party, NEW c \in Conv, SendSide(p, c), RecvSide(p, c),
           NEW o \in Party, Restart(o)
    PROVE  SendSide(p, c)' /\ RecvSide(p, c)'
<1>. DEFINE q == Peer(p)
            y == Reader(q, c)
            h == heard[q][c]
<1>1. /\ q \in Party /\ q # p /\ Party = {p, q} /\ life[p] \in Nat /\ h \in SUBSET Nat
  BY OneWayTypes
<1>2. /\ ratchet' = [ratchet EXCEPT ![o] = [d \in Conv |-> None]]
      /\ life' = [life EXCEPT ![o] = @ + 1]
      /\ heard' = [heard EXCEPT ![o] = [d \in Conv |-> {}]]
      /\ net' = {x \in net : To(x) # o} /\ sent' = sent
  BY DEF Restart
<1>3. /\ \A r \in Party : ratchet'[r][c] = IF r = o THEN None ELSE ratchet[r][c]
      /\ \A r \in Party : heard'[r][c] = IF r = o THEN {} ELSE heard[r][c]
      /\ \A r \in Party : life'[r] = IF r = o THEN life[r] + 1 ELSE life[r]
  BY <1>2 DEF ConvInv, TypeOK
<1>4. ReadsWith(p, y) /\ Awaits(p, c, y, h)
  BY DEF RecvSide
<1>5. SendSide(p, c)'
  BY <1>2, <1>3 DEF SendSide
<1>. HIDE DEF q, y, h
<1>6. CASE o = p
  <2>1. Reader(q, c)' = y
    BY <1>1, <1>3, <1>6 DEF Reader, OrInsert, y
  <2>2. heard'[q][c] = h /\ ratchet'[p][c] = None /\ life'[p] = life[p] + 1
    BY <1>1, <1>3, <1>6 DEF h
  <2>3. \A l \in h : l <= life'[p] /\ l # life'[p]
    BY <1>1, <1>4, <2>2 DEF Awaits
  <2>4. Awaits(p, c, Reader(q, c), heard[q][c])'
    BY <1>2, <1>4, <2>1, <2>2, <2>3 DEF Awaits
  <2>. QED
    BY <1>4, <1>5, <2>1, <2>4 DEF RecvSide, q
<1>7. CASE o = q
  <2>1. Reader(q, c)' = InitBob(q)
    BY <1>1, <1>3, <1>7 DEF Reader, OrInsert
  <2>2. heard'[q][c] = {} /\ ratchet'[p][c] = ratchet[p][c]
    BY <1>1, <1>3, <1>7
  <2>3. ReadsWith(p, InitBob(q))
    BY DEF ReadsWith, RecvInv, InitBob, q
  <2>4. ratchet[p][c] # None => InitBob(q).n_recv <= ratchet[p][c].n_send
    BY OneWayTypes DEF RatchetState, InitBob
  <2>5. Awaits(p, c, Reader(q, c), heard[q][c])'
    BY <2>1, <2>2, <2>4 DEF Awaits, q
  <2>. QED
    BY <1>5, <2>1, <2>3, <2>5 DEF RecvSide, q
<1>. QED
  BY <1>1, <1>6, <1>7

\* The invariant holds before anybody has sent ...
LEMMA OneWayInit == Init => OneWayInv
<1>. SUFFICES ASSUME Init, NEW p \in Party, NEW c \in Conv
              PROVE  SendSide(p, c) /\ RecvSide(p, c)
  BY DEF OneWayInv
<1>1. Peer(p) \in Party
  BY PeerType
<1>2. /\ ratchet[p][c] = None /\ heard[Peer(p)][c] = {} /\ net = {}
      /\ \A q \in Party : sent[q] = {}
  BY <1>1 DEF Init
<1>3. Reader(Peer(p), c) = InitBob(Peer(p))
  BY <1>1 DEF Init, Reader, OrInsert
<1>4. RecvInv(InitBob(Peer(p)))
  BY DEF RecvInv, InitBob
<1>. QED
  BY <1>2, <1>3, <1>4 DEF SendSide, RecvSide, ReadsWith, Awaits

\* ... and every step keeps it.
LEMMA OneWayStep ==
    SeedLen >= 32 => (ConvInv /\ OneWayInv /\ [Next]_vars => OneWayInv')
<1>. SUFFICES ASSUME SeedLen >= 32, ConvInv, OneWayInv, [Next]_vars,
                     NEW p \in Party, NEW c \in Conv, OneWay(p, c)
              PROVE  SendSide(p, c)' /\ RecvSide(p, c)'
  BY DEF OneWayInv, OneWay, ConvId
<1>0. SendSide(p, c) /\ RecvSide(p, c)
  BY DEF OneWayInv
<1>1. ASSUME NEW o \in Party, NEW u \in Typed[o], Send(o, u)
      PROVE  SendSide(p, c)' /\ RecvSide(p, c)'
  BY <1>0, <1>1, SendOneWay
<1>2. ASSUME NEW x \in net, Receive(x)
      PROVE  SendSide(p, c)' /\ RecvSide(p, c)'
  BY <1>0, <1>2, ReceiveOneWay
<1>3. ASSUME NEW o \in Party, Restart(o)
      PROVE  SendSide(p, c)' /\ RecvSide(p, c)'
  BY <1>0, <1>3, RestartOneWay
<1>4. ASSUME UNCHANGED <<ratchet, life, sent, heard>>, net' \in SUBSET net
      PROVE  SendSide(p, c)' /\ RecvSide(p, c)'
  BY <1>0, <1>4, OneWayFrame
<1>5. ASSUME NEW x \in net, Lose(x)
      PROVE  SendSide(p, c)' /\ RecvSide(p, c)'
  BY <1>4, <1>5 DEF Lose
<1>6. ASSUME NEW o \in Party, NEW d \in Conv, Delete(o, d)
      PROVE  SendSide(p, c)' /\ RecvSide(p, c)'
  BY <1>4, <1>6 DEF Delete
<1>7. CASE UNCHANGED vars
  BY <1>4, <1>7 DEF vars
<1>. QED
  BY <1>1, <1>2, <1>3, <1>5, <1>6, <1>7 DEF Next

-----------------------------------------------------------------------------
\* Theorem.

\* What is sent to the X25519 key of the peer opens or is beyond the skip limit,
\* whatever is lost or overtaken and whatever the peer sends itself, unless the
\* entry it meets was given packets of another life of the sender.
THEOREM X25519SessionsOpen ==
    ASSUME SeedLen >= 32
    PROVE  Spec => []X25519SessionsWork
<1>1. ConvInv /\ OneWayInv => X25519SessionsWork
  <2>. SUFFICES ASSUME ConvInv, OneWayInv, NEW x \in net, OneWay(From(x), x.conv),
                       heard[To(x)][x.conv] \subseteq {x.life}
                PROVE  Outcome(x) \in {"ok", "too_many"}
    BY PacketInFlight DEF X25519SessionsWork, Works, OneWay, Peer, To
  <2>. DEFINE p == From(x)
              c == x.conv
              y == Reader(Peer(p), c)
  <2>1. p \in Party /\ c \in Conv
    BY PacketInFlight
  <2>2. SendSide(p, c) /\ RecvSide(p, c)
    BY <2>1 DEF OneWayInv
  <2>3. /\ To(x) = Peer(p) /\ x.msg \in Message
        /\ x.msg.dh = IdentityKey(p) /\ x.msg.mk = [root |-> FirstRoot(p), n |-> x.msg.n]
    BY <2>1, <2>2, OneWayPacket
  <2>4. ReadsWith(p, y) /\ (y = InitBob(Peer(p)) \/ Expects(y, x.msg))
    BY <2>2, <2>3 DEF RecvSide, Awaits
  <2>5. y \in RatchetState
    BY <2>1, OneWayTypes
  <2>6. Outcome(x) = Decrypt(y, x.msg).result
    BY <2>3 DEF Outcome, EntryOf, Reader
  <2>. HIDE DEF p, c, y
  <2>. QED
    BY <2>1, <2>3, <2>4, <2>5, <2>6, DecryptOneWay
<1>2. ConvInv /\ OneWayInv /\ ConvInv' /\ [Next]_vars => OneWayInv'
  BY OneWayStep
<1>. QED
  BY <1>1, <1>2, OneWayInit, ConvAlways, PTL DEF Spec

=============================================================================
