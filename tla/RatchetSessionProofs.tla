------------------------ MODULE RatchetSessionProofs ------------------------
(***************************************************************************)
(* Theorems of RatchetSession for every seed, skip limit and bound.        *)
(***************************************************************************)
EXTENDS RatchetSession, DoubleRatchetProofs

-----------------------------------------------------------------------------
\* Types.

\* The recipient of a message is a party.
LEMMA ToType == ASSUME NEW m \in Message PROVE To(m) \in Party
  BY DEF To, Peer, Party

\* Every entry of an inbox is a message.
LEMMA InboxType ==
    ASSUME TypeOK, NEW q \in Party, NEW i \in DOMAIN inbox[q]
    PROVE  /\ inbox[q] \in Seq(Message)
           /\ inbox[q][i] \in Message
           /\ inbox[q][i].mk \in ChainKey
<1>1. inbox[q] \in Seq(Message)
  BY DEF TypeOK
<1>2. inbox[q][i] \in Message
  BY <1>1
<1>. QED
  BY <1>1, <1>2 DEF Message

\* What a call of decrypt at party p does to the state and to the inbox.
LEMMA HandleMessageType ==
    ASSUME TypeOK, NEW p \in Party, NEW m \in Message, HandleMessage(p, m)
    PROVE  /\ rs' \in [Party -> RatchetState]
           /\ inbox' \in [Party -> Seq(Message)]
  BY DecryptType DEF TypeOK, HandleMessage

\* The two initial states.
LEMMA StartType ==
    /\ First \in RatchetState /\ Second \in RatchetState
    /\ KeyInv(First) /\ KeyInv(Second)
<1>1. Alice \in Party /\ Bob \in Party /\ IdentityKey(Bob) \in Key
  BY IdentityKeyType DEF Party
<1>. QED
  BY <1>1, InitStateType, InitKeyInv DEF First, Second

\* TypeOK is inductive on its own.
LEMMA TypeInit == Init => TypeOK
  BY StartType, MaxDupAssumption DEF Init, TypeOK

\* Every step keeps the types.
LEMMA TypeStep == TypeOK /\ [Next]_vars => TypeOK'
<1>. SUFFICES ASSUME TypeOK, [Next]_vars
              PROVE  TypeOK'
  OBVIOUS
<1>1. ASSUME NEW p \in Party, Send(p)
      PROVE  TypeOK'
  <2>1. Encrypt(rs[p]).message \in Message /\ Encrypt(rs[p]).state \in RatchetState
    BY <1>1, EncryptType DEF TypeOK, Send
  <2>. QED
    BY <1>1, <2>1 DEF TypeOK, Send
<1>2. ASSUME NEW m \in net, Receive(m)
      PROVE  TypeOK'
  BY <1>2, ToType, HandleMessageType DEF TypeOK, Receive
<1>3. ASSUME NEW p \in Party, NEW m \in sent[p], Repeat(m)
      PROVE  TypeOK'
  <2>1. m \in Message
    BY DEF TypeOK
  <2>2. dups + 1 \in 0 .. MaxDup
    BY <1>3, MaxDupAssumption DEF TypeOK, Repeat
  <2>. QED
    BY <1>3, <2>1, <2>2, ToType, HandleMessageType DEF TypeOK, Repeat
<1>4. ASSUME NEW m \in net, Lose(m)
      PROVE  TypeOK'
  BY <1>4 DEF TypeOK, Lose
<1>5. CASE UNCHANGED vars
  BY <1>5 DEF TypeOK, vars
<1>. QED
  BY <1>1, <1>2, <1>3, <1>4, <1>5 DEF Next, SendSome, ReceiveSome

\* The variables of a session always hold what their declarations say: in
\* particular no counter of RatchetState goes below zero and every chain key
\* is one that the key schedule produces.
THEOREM TypeCorrect == Spec => []TypeOK
  BY TypeInit, TypeStep, PTL DEF Spec

-----------------------------------------------------------------------------
\* At-most-once delivery and forward secrecy.

\* The inductive invariant: each state keeps KeyInv, every opened message is
\* erased at its recipient, and nothing was opened twice.
OnceInv ==
    /\ \A p \in Party : KeyInv(rs[p])
    /\ \A p \in Party : \A i \in DOMAIN inbox[p] : Erased(rs[p], inbox[p][i].mk)
    /\ NoDoubleOpen

\* OnceInv holds in the initial state.
LEMMA OnceInit == Init => OnceInv
  BY StartType DEF Init, OnceInv, NoDoubleOpen, IsInjective

\* A call of decrypt keeps the invariant, and what it appends is new.
LEMMA HandleMessageOnce ==
    ASSUME TypeOK, OnceInv, NEW p \in Party, NEW m \in Message, HandleMessage(p, m)
    PROVE  /\ OnceInv'
           /\ \/ UNCHANGED inbox
              \/ /\ inbox' = [inbox EXCEPT ![p] = Append(@, m)]
                 /\ m \notin Range(inbox[p])
<1>. DEFINE s == rs[p]
            d == Decrypt(s, m)
<1>1. s \in RatchetState /\ KeyInv(s)
  BY DEF TypeOK, OnceInv
<1>2. OpensOnce(s, d.state, m, d.result)
  BY <1>1, DecryptOnce
<1>3. \A q \in Party : rs'[q] = IF q = p THEN d.state ELSE rs[q]
  BY DEF HandleMessage, TypeOK
<1>4. \A q \in Party : inbox'[q] = IF q = p /\ d.result = "ok" THEN Append(inbox[q], m) ELSE inbox[q]
  BY DEF HandleMessage, TypeOK
<1>5. \A q \in Party : \A i \in DOMAIN inbox[q] :
         /\ inbox[q] \in Seq(Message)
         /\ inbox[q][i] \in Message
         /\ inbox[q][i].mk \in ChainKey
  BY InboxType
<1>6. \A q \in Party : KeyInv(rs'[q])
  BY <1>2, <1>3 DEF OpensOnce, Safe, OnceInv
<1>7. \A q \in Party : \A i \in DOMAIN inbox[q] : Erased(rs'[q], inbox[q][i].mk)
  BY <1>2, <1>3, <1>5 DEF OpensOnce, Safe, OnceInv
<1>8. CASE d.result # "ok"
  <2>1. inbox' = inbox
    BY <1>8 DEF HandleMessage, TypeOK
  <2>. QED
    BY <1>6, <1>7, <2>1 DEF OnceInv, NoDoubleOpen
<1>9. CASE d.result = "ok"
  <2>1. ~ Erased(s, m.mk) /\ Erased(d.state, m.mk)
    BY <1>2, <1>9 DEF OpensOnce
  <2>2. \A i \in DOMAIN inbox[p] : inbox[p][i] # m
    BY <2>1 DEF OnceInv
  <2>3. inbox[p] \in Seq(Message)
    BY DEF TypeOK
  <2>4. /\ DOMAIN inbox'[p] = 1 .. (Len(inbox[p]) + 1)
        /\ DOMAIN inbox[p] = 1 .. Len(inbox[p])
        /\ Len(inbox[p]) \in Nat
        /\ \A i \in DOMAIN inbox[p] : inbox'[p][i] = inbox[p][i]
        /\ inbox'[p][Len(inbox[p]) + 1] = m
    <3>1. inbox'[p] = Append(inbox[p], m)
      BY <1>4, <1>9
    <3>. QED
      BY <2>3, <3>1
  <2>5. \A q \in Party : \A i \in DOMAIN inbox'[q] : Erased(rs'[q], inbox'[q][i].mk)
    BY <1>3, <1>4, <1>7, <2>1, <2>4
  <2>6. IsInjective(inbox'[p])
    <3>1. IsInjective(inbox[p])
      BY DEF OnceInv, NoDoubleOpen
    <3>. QED
      BY <2>2, <2>4, <3>1 DEF IsInjective
  <2>7. NoDoubleOpen'
    BY <1>4, <2>6 DEF NoDoubleOpen, OnceInv
  <2>8. inbox' = [inbox EXCEPT ![p] = Append(@, m)]
    BY <1>9 DEF HandleMessage
  <2>9. m \notin Range(inbox[p])
    BY <2>2 DEF Range
  <2>. QED
    BY <1>6, <2>5, <2>7, <2>8, <2>9 DEF OnceInv
<1>. QED
  BY <1>8, <1>9

\* Every step keeps OnceInv.
LEMMA OnceStep == TypeOK /\ OnceInv /\ [Next]_vars => OnceInv'
<1>. SUFFICES ASSUME TypeOK, OnceInv, [Next]_vars
              PROVE  OnceInv'
  OBVIOUS
<1>1. ASSUME NEW p \in Party, Send(p)
      PROVE  OnceInv'
  <2>1. rs[p] \in RatchetState /\ KeyInv(rs[p]) /\ CanEncrypt(rs[p])
    BY <1>1 DEF TypeOK, OnceInv, Send
  <2>2. Safe(rs[p], Encrypt(rs[p]).state)
    BY <2>1, EncryptSafe
  <2>3. inbox' = inbox /\ \A q \in Party : rs'[q] = IF q = p THEN Encrypt(rs[p]).state ELSE rs[q]
    BY <1>1 DEF Send, TypeOK
  <2>4. \A q \in Party : \A i \in DOMAIN inbox[q] : inbox[q][i].mk \in ChainKey
    BY InboxType
  <2>. QED
    BY <2>2, <2>3, <2>4 DEF OnceInv, Safe, NoDoubleOpen
<1>2. ASSUME NEW m \in net, Receive(m)
      PROVE  OnceInv'
  BY <1>2, ToType, HandleMessageOnce DEF TypeOK, Receive
<1>3. ASSUME NEW p \in Party, NEW m \in sent[p], Repeat(m)
      PROVE  OnceInv'
  <2>1. m \in Message
    BY DEF TypeOK
  <2>. QED
    BY <1>3, <2>1, ToType, HandleMessageOnce DEF Repeat
<1>4. ASSUME NEW m \in net, Lose(m)
      PROVE  OnceInv'
  BY <1>4 DEF OnceInv, Lose, NoDoubleOpen
<1>5. CASE UNCHANGED vars
  BY <1>5 DEF OnceInv, vars, NoDoubleOpen
<1>. QED
  BY <1>1, <1>2, <1>3, <1>4, <1>5 DEF Next, SendSome, ReceiveSome

\* decrypt hands no message over twice, however often and in whatever order
\* the network delivers it.
THEOREM OpensAtMostOnce == Spec => []NoDoubleOpen
<1>1. OnceInv => NoDoubleOpen
  BY DEF OnceInv
<1>. QED
  BY <1>1, TypeInit, TypeStep, OnceInit, OnceStep, PTL DEF Spec

\* Forward secrecy: no key of an opened message can be computed from the
\* state its recipient keeps.
THEOREM ForwardSecrecy == Spec => []OpenedKeysErased
<1>1. TypeOK /\ OnceInv => OpenedKeysErased
  <2>. SUFFICES ASSUME TypeOK, OnceInv, NEW p \in Party, NEW i \in DOMAIN inbox[p]
                PROVE  ~ Derivable(rs[p], inbox[p][i].mk)
    BY DEF OpenedKeysErased, Range
  <2>1. rs[p] \in RatchetState /\ inbox[p][i].mk \in ChainKey
    BY InboxType DEF TypeOK
  <2>2. Erased(rs[p], inbox[p][i].mk)
    BY DEF OnceInv
  <2>. QED
    BY <2>1, <2>2, NoneAssumption DEF Derivable, Erased, Passed, InCache, RatchetState, ChainKey
<1>. QED
  BY <1>1, TypeInit, TypeStep, OnceInit, OnceStep, PTL DEF Spec

-----------------------------------------------------------------------------
\* The sending side of a party against everything it has sent.

SendInv(p, s, S) ==
    /\ s.dh_self.owner = p
    /\ s.chain_key_send # None => s.chain_key_send = [root |-> s.root_key, n |-> s.n_send]
    /\ \A m \in S :
          /\ m.dh.owner = p
          /\ m.dh.gen <= s.dh_self.gen
          /\ m.dh = s.dh_self =>
                /\ m.n < s.n_send
                /\ m.pn = s.pn
                /\ m.mk = [root |-> s.root_key, n |-> m.n]
          /\ FreshKey(m.dh) = s.dh_self => m.n < s.pn
          /\ Depth(m.mk.root) <= Depth(s.root_key)
          /\ Depth(m.mk.root) % 2 = Depth(s.root_key) % 2
          /\ m.mk.root = s.root_key => m.mk.n < s.n_send
    /\ \A m1, m2 \in S : m1.dh = m2.dh /\ m1.n = m2.n => m1 = m2
    /\ \A m1, m2 \in S : m1.mk = m2.mk => m1 = m2

\* The ratchet turns: the sent messages are now of an earlier chain.
LEMMA TurnedSendInv ==
    ASSUME NEW p, NEW s \in RatchetState, NEW t \in RatchetState, NEW S \in SUBSET Message,
           NEW remote \in Key, SendInv(p, s, S), Turned(s, t, remote)
    PROVE  /\ SendInv(p, t, S)
           /\ Depth(t.root_key) = Depth(s.root_key) + 2
           /\ t.chain_key_send # None
<1>1. /\ s.dh_self \in Key /\ t.dh_self \in Key /\ s.dh_self.gen \in Nat
      /\ t.dh_self = [owner |-> s.dh_self.owner, gen |-> s.dh_self.gen + 1]
  BY DEF RatchetState, Key, Turned, FreshKey
<1>2. /\ s.root_key \in RootKey /\ t.root_key \in RootKey
      /\ Depth(s.root_key) \in Nat
      /\ Depth(t.root_key) = Depth(s.root_key) + 2
  <2>1. s.root_key \in RootKey /\ Depth(s.root_key) \in Nat
    BY DEF RatchetState, RootKey, Depth
  <2>2. RecvRoot(s, remote) \in RootKey /\ Depth(RecvRoot(s, remote)) = Depth(s.root_key) + 1
    BY <1>1, <2>1, KdfRootType DEF RecvRoot, DH, Depth
  <2>3. t.root_key \in RootKey /\ Depth(t.root_key) = Depth(RecvRoot(s, remote)) + 1
    BY <1>1, <2>2, KdfRootType DEF Turned, DH, Depth
  <2>. QED
    BY <2>1, <2>2, <2>3
<1>3. t.chain_key_send = [root |-> t.root_key, n |-> t.n_send] /\ t.chain_key_send # None
  <2>1. t.chain_key_send = [root |-> t.root_key, n |-> 0] /\ t.n_send = 0
    BY DEF Turned, Chain
  <2>2. [root |-> t.root_key, n |-> 0] \in ChainKey
    BY <1>2 DEF ChainKey
  <2>. QED
    BY <2>1, <2>2, NoneAssumption
<1>4. ASSUME NEW m \in S
      PROVE  /\ m.dh.owner = p
             /\ m.dh.gen <= t.dh_self.gen
             /\ m.dh # t.dh_self
             /\ FreshKey(m.dh) = t.dh_self => m.n < t.pn
             /\ Depth(m.mk.root) <= Depth(t.root_key)
             /\ Depth(m.mk.root) % 2 = Depth(t.root_key) % 2
             /\ m.mk.root # t.root_key
  <2>1. m.dh \in Key /\ m.dh.gen \in Nat /\ Depth(m.mk.root) \in Nat
    BY DEF Message, Key, ChainKey, RootKey, Depth
  <2>2. m.dh.owner = p /\ m.dh.gen <= s.dh_self.gen
    BY DEF SendInv
  <2>3. m.dh # t.dh_self
    BY <1>1, <2>1, <2>2
  <2>4. FreshKey(m.dh) = t.dh_self => m.dh = s.dh_self
    BY <1>1, <2>1 DEF FreshKey, Key
  <2>5. m.dh = s.dh_self => m.n < t.pn
    BY DEF SendInv, Turned
  <2>6. Depth(m.mk.root) <= Depth(s.root_key) /\ Depth(m.mk.root) % 2 = Depth(s.root_key) % 2
    BY DEF SendInv
  <2>7. m.mk.root # t.root_key
    BY <1>2, <2>1, <2>6
  <2>. QED
    BY <1>1, <1>2, <2>1, <2>2, <2>3, <2>4, <2>5, <2>6, <2>7
<1>. QED
  BY <1>1, <1>2, <1>3, <1>4 DEF SendInv

\* decrypt keeps the sending side consistent with what was sent.
LEMMA DecryptSendInv ==
    ASSUME NEW p, NEW s \in RatchetState, NEW S \in SUBSET Message, NEW m \in Message,
           SendInv(p, s, S)
    PROVE  /\ SendInv(p, Decrypt(s, m).state, S)
           /\ Depth(Decrypt(s, m).state.root_key) % 2 = Depth(s.root_key) % 2
<1>. DEFINE t == Decrypt(s, m).state
<1>1. t \in RatchetState /\ m.dh \in Key
  BY DecryptType DEF Message
<1>2. CASE SameSending(s, t)
  BY <1>2 DEF SendInv, SameSending
<1>3. CASE Turned(s, t, m.dh)
  <2>1. SendInv(p, t, S) /\ Depth(t.root_key) = Depth(s.root_key) + 2
    BY <1>1, <1>3, TurnedSendInv
  <2>2. Depth(s.root_key) \in Nat
    BY DEF RatchetState, RootKey, Depth
  <2>. QED
    BY <2>1, <2>2
<1>. QED
  BY <1>2, <1>3, DecryptSending

\* encrypt sends a message whose position and key are new.
LEMMA EncryptSendInv ==
    ASSUME NEW p, NEW s \in RatchetState, NEW S \in SUBSET Message,
           SendInv(p, s, S), CanEncrypt(s)
    PROVE  LET e == Encrypt(s) IN
           /\ SendInv(p, e.state, S \cup {e.message})
           /\ e.message \notin S
           /\ e.message = [dh |-> s.dh_self, pn |-> s.pn, n |-> s.n_send,
                           mk |-> [root |-> s.root_key, n |-> s.n_send]]
           /\ e.state.dh_self = s.dh_self
           /\ e.state.root_key = s.root_key
           /\ e.state.n_send = s.n_send + 1
           /\ e.state.chain_key_send # None
<1>. DEFINE e == Encrypt(s).message
            t == Encrypt(s).state
<1>1. /\ s.chain_key_send = [root |-> s.root_key, n |-> s.n_send]
      /\ s.n_send \in Nat /\ s.root_key \in RootKey
      /\ s.dh_self \in Key /\ s.dh_self.gen \in Nat
      /\ Depth(s.root_key) \in Nat
  BY DEF SendInv, CanEncrypt, RatchetState, Key, RootKey, Depth
<1>2. e = [dh |-> s.dh_self, pn |-> s.pn, n |-> s.n_send,
           mk |-> [root |-> s.root_key, n |-> s.n_send]]
  BY <1>1 DEF Encrypt
<1>3. /\ t.dh_self = s.dh_self
      /\ t.root_key = s.root_key
      /\ t.pn = s.pn
      /\ t.n_send = s.n_send + 1
      /\ t.chain_key_send = [root |-> s.root_key, n |-> s.n_send + 1]
      /\ t.chain_key_send # None
  <2>1. KdfChain(s.chain_key_send) = [root |-> s.root_key, n |-> s.n_send + 1]
    BY <1>1 DEF KdfChain, Advance
  <2>2. KdfChain(s.chain_key_send) \in ChainKey
    BY <1>1, <2>1 DEF ChainKey
  <2>. QED
    BY <2>1, <2>2, NoneAssumption DEF Encrypt, RatchetState
<1>4. ASSUME NEW m \in S
      PROVE  /\ m.n \in Nat /\ m.mk.n \in Nat
             /\ m.dh = s.dh_self => m.n < s.n_send
             /\ m.mk.root = s.root_key => m.mk.n < s.n_send
  <2>1. m \in Message
    OBVIOUS
  <2>2. m.n \in Nat /\ m.mk.n \in Nat
    BY <2>1 DEF Message, ChainKey
  <2>. QED
    BY <2>2 DEF SendInv
<1>5. ASSUME NEW m \in S
      PROVE  ~ (m.dh = e.dh /\ m.n = e.n) /\ m.mk # e.mk
  <2>1. e.dh = s.dh_self /\ e.n = s.n_send /\ e.mk.root = s.root_key /\ e.mk.n = s.n_send
    BY <1>2
  <2>2. /\ m.n \in Nat /\ m.mk.n \in Nat
        /\ m.dh = s.dh_self => m.n < s.n_send
        /\ m.mk.root = s.root_key => m.mk.n < s.n_send
    BY <1>4
  <2>. QED
    BY <1>1, <2>1, <2>2
<1>6. FreshKey(s.dh_self) # s.dh_self
  BY <1>1 DEF FreshKey, Key
<1>7. \A m \in S \cup {e} :
         /\ m.dh.owner = p
         /\ m.dh.gen <= t.dh_self.gen
         /\ m.dh = t.dh_self =>
               /\ m.n < t.n_send
               /\ m.pn = t.pn
               /\ m.mk = [root |-> t.root_key, n |-> m.n]
         /\ FreshKey(m.dh) = t.dh_self => m.n < t.pn
         /\ Depth(m.mk.root) <= Depth(t.root_key)
         /\ Depth(m.mk.root) % 2 = Depth(t.root_key) % 2
         /\ m.mk.root = t.root_key => m.mk.n < t.n_send
  <2>1. ASSUME NEW m \in S
        PROVE  /\ m.dh.owner = p
               /\ m.dh.gen <= t.dh_self.gen
               /\ m.dh = t.dh_self =>
                     /\ m.n < t.n_send
                     /\ m.pn = t.pn
                     /\ m.mk = [root |-> t.root_key, n |-> m.n]
               /\ FreshKey(m.dh) = t.dh_self => m.n < t.pn
               /\ Depth(m.mk.root) <= Depth(t.root_key)
               /\ Depth(m.mk.root) % 2 = Depth(t.root_key) % 2
               /\ m.mk.root = t.root_key => m.mk.n < t.n_send
    <3>1. /\ m.dh.owner = p
          /\ m.dh.gen <= s.dh_self.gen
          /\ m.dh = s.dh_self => m.pn = s.pn /\ m.mk = [root |-> s.root_key, n |-> m.n]
          /\ FreshKey(m.dh) = s.dh_self => m.n < s.pn
          /\ Depth(m.mk.root) <= Depth(s.root_key)
          /\ Depth(m.mk.root) % 2 = Depth(s.root_key) % 2
      BY DEF SendInv
    <3>2. /\ m.dh = s.dh_self => m.n < s.n_send + 1
          /\ m.mk.root = s.root_key => m.mk.n < s.n_send + 1
      BY <1>1, <1>4
    <3>. QED
      BY <1>3, <3>1, <3>2
  <2>2. /\ e.dh.owner = p
        /\ e.dh.gen <= t.dh_self.gen
        /\ e.n < t.n_send
        /\ e.pn = t.pn
        /\ e.mk = [root |-> t.root_key, n |-> e.n]
        /\ FreshKey(e.dh) # t.dh_self
        /\ e.mk.root = t.root_key
        /\ e.mk.n < t.n_send
    BY <1>1, <1>2, <1>3, <1>6 DEF SendInv
  <2>3. Depth(e.mk.root) <= Depth(t.root_key) /\ Depth(e.mk.root) % 2 = Depth(t.root_key) % 2
    BY <1>1, <1>3, <2>2
  <2>. QED
    BY <2>1, <2>2, <2>3
<1>8. SendInv(p, t, S \cup {e})
  BY <1>1, <1>3, <1>5, <1>7 DEF SendInv
<1>. QED
  BY <1>2, <1>3, <1>5, <1>8

-----------------------------------------------------------------------------
\* Message keys are unique and the network carries only what was sent.

SentInv ==
    /\ \A p \in Party : SendInv(p, rs[p], sent[p])
    /\ Depth(rs[Alice].root_key) % 2 = 1
    /\ Depth(rs[Bob].root_key) % 2 = 0
    /\ \A m \in net : m.dh.owner \in Party /\ m \in sent[m.dh.owner]

\* SentInv holds in the initial state.
LEMMA SentInit == Init => SentInv
<1>. SUFFICES ASSUME Init
              PROVE  SentInv
  OBVIOUS
<1>1. Alice \in Party /\ Bob \in Party /\ Alice # Bob
  BY PartyAssumption DEF Party
<1>2. rs[Alice] = First /\ rs[Bob] = Second
  BY <1>1 DEF Init
<1>3. Depth(First.root_key) = 1 /\ Depth(Second.root_key) = 0
  BY DEF First, InitAlice, Second, InitBob, KdfRoot, Depth
<1>4. \A p \in Party : sent[p] = {}
  BY DEF Init
<1>5. SendInv(Alice, First, {})
  <2>1. First.dh_self.owner = Alice
    BY DEF First, InitAlice, IdentityKey
  <2>2. First.chain_key_send = [root |-> First.root_key, n |-> First.n_send]
    BY DEF First, InitAlice, Chain
  <2>. QED
    BY <2>1, <2>2 DEF SendInv
<1>6. SendInv(Bob, Second, {})
  BY DEF SendInv, Second, InitBob, IdentityKey
<1>7. net = {}
  BY DEF Init
<1>. QED
  BY <1>1, <1>2, <1>3, <1>4, <1>5, <1>6, <1>7 DEF SentInv, Party

\* A message that is handled, opened or not, keeps SentInv.
LEMMA HandleMessageSent ==
    ASSUME TypeOK, SentInv, NEW p \in Party, NEW m \in Message, HandleMessage(p, m),
           UNCHANGED sent, net' \subseteq net
    PROVE  SentInv'
<1>. DEFINE t == Decrypt(rs[p], m).state
<1>1. rs[p] \in RatchetState /\ sent[p] \in SUBSET Message /\ SendInv(p, rs[p], sent[p])
  BY DEF TypeOK, SentInv
<1>2. SendInv(p, t, sent[p]) /\ Depth(t.root_key) % 2 = Depth(rs[p].root_key) % 2
  BY <1>1, DecryptSendInv
<1>3. \A q \in Party : rs'[q] = IF q = p THEN t ELSE rs[q]
  BY DEF HandleMessage, TypeOK
<1>4. Alice \in Party /\ Bob \in Party
  BY DEF Party
<1>. QED
  BY <1>2, <1>3, <1>4 DEF SentInv

\* Every step keeps SentInv.
LEMMA SentStep == TypeOK /\ SentInv /\ [Next]_vars => SentInv'
<1>. SUFFICES ASSUME TypeOK, SentInv, [Next]_vars
              PROVE  SentInv'
  OBVIOUS
<1>1. ASSUME NEW p \in Party, Send(p)
      PROVE  SentInv'
  <2>. DEFINE e == Encrypt(rs[p])
  <2>1. /\ rs[p] \in RatchetState /\ sent[p] \in SUBSET Message
        /\ SendInv(p, rs[p], sent[p]) /\ CanEncrypt(rs[p])
        /\ rs[p].dh_self.owner = p
    BY <1>1 DEF TypeOK, SentInv, SendInv, Send
  <2>2. /\ SendInv(p, e.state, sent[p] \cup {e.message})
        /\ e.message.dh.owner = p
        /\ e.state.root_key = rs[p].root_key
    <3>1. /\ SendInv(p, e.state, sent[p] \cup {e.message})
          /\ e.message = [dh |-> rs[p].dh_self, pn |-> rs[p].pn, n |-> rs[p].n_send,
                          mk |-> [root |-> rs[p].root_key, n |-> rs[p].n_send]]
          /\ e.state.root_key = rs[p].root_key
      BY <2>1, EncryptSendInv
    <3>. QED
      BY <2>1, <3>1
  <2>3. /\ \A q \in Party : rs'[q] = IF q = p THEN e.state ELSE rs[q]
        /\ \A q \in Party : sent'[q] = IF q = p THEN sent[p] \cup {e.message} ELSE sent[q]
        /\ net' = net \cup {e.message}
    BY <1>1 DEF Send, TypeOK
  <2>4. Alice \in Party /\ Bob \in Party
    BY DEF Party
  <2>5. \A m \in net : m.dh.owner \in Party
    BY DEF SentInv
  <2>. QED
    BY <2>2, <2>3, <2>4, <2>5 DEF SentInv
<1>2. ASSUME NEW m \in net, Receive(m)
      PROVE  SentInv'
  BY <1>2, ToType, HandleMessageSent DEF TypeOK, Receive
<1>3. ASSUME NEW p \in Party, NEW m \in sent[p], Repeat(m)
      PROVE  SentInv'
  <2>1. m \in Message
    BY DEF TypeOK
  <2>. QED
    BY <1>3, <2>1, ToType, HandleMessageSent DEF Repeat
<1>4. ASSUME NEW m \in net, Lose(m)
      PROVE  SentInv'
  BY <1>4 DEF SentInv, Lose
<1>5. CASE UNCHANGED vars
  BY <1>5 DEF SentInv, vars
<1>. QED
  BY <1>1, <1>2, <1>3, <1>4, <1>5 DEF Next, SendSome, ReceiveSome

\* No message key encrypts two messages: within a party because its chains
\* only go forward, between the parties because their sending chains hang at
\* odd and at even depths of the root chain.
THEOREM KeysUsedOnce == Spec => []MessageKeysUnique
<1>1. TypeOK /\ SentInv => MessageKeysUnique
  <2>. SUFFICES ASSUME TypeOK, SentInv,
                       NEW p \in Party, NEW q \in Party,
                       NEW m1 \in sent[p], NEW m2 \in sent[q], m1.mk = m2.mk
                PROVE  m1 = m2
    BY DEF MessageKeysUnique
  <2>1. CASE p = q
    BY <2>1 DEF SentInv, SendInv
  <2>2. CASE p # q
    <3>1. /\ Depth(m1.mk.root) % 2 = Depth(rs[p].root_key) % 2
          /\ Depth(m2.mk.root) % 2 = Depth(rs[q].root_key) % 2
      <4>1. SendInv(p, rs[p], sent[p]) /\ SendInv(q, rs[q], sent[q])
        BY DEF SentInv
      <4>. QED
        BY <4>1 DEF SendInv
    <3>. QED
      BY <2>2, <3>1 DEF SentInv, Party
  <2>. QED
    BY <2>1, <2>2
<1>. QED
  BY <1>1, TypeInit, TypeStep, SentInit, SentStep, PTL DEF Spec

-----------------------------------------------------------------------------
\* The session implements the at-most-once channel.

\* The initial state is one of the channel.
LEMMA ChannelInit == Init => Channel!ChanInit
  BY DEF Init, Channel!ChanInit

\* A call of decrypt delivers a message of the peer that was not delivered
\* before, or nothing.
LEMMA HandleMessageDelivers ==
    ASSUME TypeOK, OnceInv, NEW m \in Message, m.dh.owner \in Party, m \in sent[m.dh.owner],
           HandleMessage(To(m), m), UNCHANGED sent
    PROVE  UNCHANGED inbox \/ Channel!ChanDeliver(To(m))
<1>1. To(m) \in Party /\ Peer(To(m)) = m.dh.owner
  BY PeerType DEF To
<1>2. \/ UNCHANGED inbox
      \/ /\ inbox' = [inbox EXCEPT ![To(m)] = Append(@, m)]
         /\ m \notin Range(inbox[To(m)])
  BY <1>1, HandleMessageOnce
<1>. QED
  BY <1>1, <1>2 DEF Channel!ChanDeliver, Channel!Range, Range

\* Every step is one of the channel or changes nothing in it.
LEMMA ChannelStep ==
    TypeOK /\ OnceInv /\ SentInv /\ [Next]_vars => [Channel!ChanNext]_(Channel!chanVars)
<1>. SUFFICES ASSUME TypeOK, OnceInv, SentInv, [Next]_vars
              PROVE  Channel!ChanNext \/ UNCHANGED <<sent, inbox>>
  BY DEF Channel!chanVars
<1>1. ASSUME NEW p \in Party, Send(p)
      PROVE  Channel!ChanNext
  <2>. DEFINE e == Encrypt(rs[p])
  <2>1. rs[p] \in RatchetState /\ SendInv(p, rs[p], sent[p]) /\ CanEncrypt(rs[p])
        /\ sent[p] \in SUBSET Message
    BY <1>1 DEF TypeOK, SentInv, Send
  <2>2. e.message \in Message
    BY <2>1, EncryptType
  <2>3. e.message \notin sent[p]
    BY <2>1, EncryptSendInv
  <2>4. /\ sent' = [sent EXCEPT ![p] = @ \cup {e.message}]
        /\ sent'[p] = sent[p] \cup {e.message}
        /\ inbox' = inbox
    BY <1>1 DEF Send, TypeOK
  <2>. QED
    BY <2>2, <2>3, <2>4 DEF Channel!ChanNext, Channel!ChanSend
<1>2. ASSUME NEW m \in net, Receive(m)
      PROVE  Channel!ChanNext \/ UNCHANGED <<sent, inbox>>
  <2>1. m \in Message /\ m.dh.owner \in Party /\ m \in sent[m.dh.owner] /\ HandleMessage(To(m), m) /\ UNCHANGED sent
    BY <1>2 DEF TypeOK, SentInv, Receive
  <2>. QED
    BY <2>1, ToType, HandleMessageDelivers DEF Channel!ChanNext
<1>3. ASSUME NEW p \in Party, NEW m \in sent[p], Repeat(m)
      PROVE  Channel!ChanNext \/ UNCHANGED <<sent, inbox>>
  <2>1. m \in Message /\ m.dh.owner = p /\ HandleMessage(To(m), m) /\ UNCHANGED sent
    BY <1>3 DEF TypeOK, SentInv, SendInv, Repeat
  <2>. QED
    BY <2>1, ToType, HandleMessageDelivers DEF Channel!ChanNext
<1>4. ASSUME NEW m \in net, Lose(m)
      PROVE  UNCHANGED <<sent, inbox>>
  BY <1>4 DEF Lose
<1>5. CASE UNCHANGED vars
  BY <1>5 DEF vars
<1>. QED
  BY <1>1, <1>2, <1>3, <1>4, <1>5 DEF Next, SendSome, ReceiveSome

\* Over any network that loses, reorders and repeats messages, the session is
\* the channel of SecureChannel: it delivers only what the peer sent, and
\* that at most once.
THEOREM ImplementsChannel == Spec => ChannelSpec
  BY TypeInit, TypeStep, OnceInit, OnceStep, SentInit, SentStep, ChannelInit, ChannelStep, PTL
     DEF Spec, ChannelSpec, Channel!ChanSpec

-----------------------------------------------------------------------------
\* A network that repeats nothing.  One party, p, turned the ratchet last: its
\* root key is one shared secret ahead of its peer's, which will catch up on
\* the next chain of p.

Sync(p) ==
    LET q == Peer(p)
        x == rs[p]
        y == rs[q]
    IN  /\ x.dh_remote = y.dh_self
        /\ x.root_key = RecvRoot(y, x.dh_self)
        /\ x.chain_key_send # None
        /\ x.chain_key_recv # None => x.chain_key_recv.root = y.root_key
        /\ x.chain_key_recv = None => y.chain_key_send = None
        /\ x.n_recv <= y.n_send
        /\ y.dh_remote = None \/ FreshKey(y.dh_remote) = x.dh_self
        /\ \A m \in net : To(m) = p => Expects(x, m)
        /\ \A m \in net : To(m) = q => Expects(y, m) \/ m.dh = x.dh_self

SyncInv ==
    /\ dups = 0
    /\ \A p \in Party : RecvInv(rs[p])
    /\ \E p \in Party : Sync(p)

\* With a seed of at least 32 bytes both sides derive the same first root key.
LEMMA SyncInit == Init /\ SeedLen >= 32 /\ MaxDup = 0 => SyncInv
<1>. SUFFICES ASSUME Init, SeedLen >= 32
              PROVE  SyncInv
  OBVIOUS
<1>1. Alice \in Party /\ Bob \in Party /\ Alice # Bob /\ Peer(Alice) = Bob
  BY PartyAssumption DEF Party, Peer
<1>2. rs[Alice] = First /\ rs[Bob] = Second /\ net = {} /\ dups = 0
  BY <1>1 DEF Init
<1>3. RecvInv(First) /\ RecvInv(Second)
  BY DEF RecvInv, First, InitAlice, Second, InitBob
<1>4. AliceSalt = BobSalt
  BY DEF AliceSalt, BobSalt
<1>5. First.root_key = RecvRoot(Second, First.dh_self)
  <2>1. DH(IdentityKey(Alice), IdentityKey(Bob)) = DH(IdentityKey(Bob), IdentityKey(Alice))
    BY DEF DH
  <2>. QED
    BY <1>4, <2>1 DEF First, InitAlice, Second, InitBob, RecvRoot
<1>6. First.chain_key_send # None
  BY StartType, NoneAssumption, KdfRootType DEF First, InitAlice, RatchetState, Chain, ChainKey
<1>7. Sync(Alice)
  BY <1>1, <1>2, <1>5, <1>6 DEF Sync, First, InitAlice, Second, InitBob
<1>. QED
  BY <1>1, <1>2, <1>3, <1>7 DEF SyncInv, Party

\* A party sends: its message is of the chain the peer is on or of the next.
LEMMA SendSync ==
    ASSUME TypeOK, SentInv, SyncInv, NEW p \in Party, Send(p)
    PROVE  SyncInv'
<1>. DEFINE q == Peer(p)
            s == rs[p]
            e == Encrypt(s).message
            t == Encrypt(s).state
<1>1. /\ q \in Party /\ q # p /\ Peer(q) = p
      /\ s \in RatchetState /\ sent[p] \in SUBSET Message
      /\ SendInv(p, s, sent[p]) /\ CanEncrypt(s) /\ s.dh_self.owner = p
  BY PeerType DEF TypeOK, SentInv, SendInv, Send
<1>2. /\ e = [dh |-> s.dh_self, pn |-> s.pn, n |-> s.n_send,
              mk |-> [root |-> s.root_key, n |-> s.n_send]]
      /\ t.dh_self = s.dh_self
      /\ t.root_key = s.root_key
      /\ t.n_send = s.n_send + 1
      /\ t.chain_key_send # None
  BY <1>1, EncryptSendInv
<1>3. /\ t.dh_remote = s.dh_remote
      /\ t.chain_key_recv = s.chain_key_recv
      /\ t.n_recv = s.n_recv
      /\ t.skipped_message_keys = s.skipped_message_keys
  BY <1>1 DEF Encrypt, RatchetState
<1>4. /\ rs'[p] = t /\ rs'[q] = rs[q]
      /\ net' = net \cup {e} /\ dups' = dups
  BY <1>1, <1>1 DEF Send, TypeOK
<1>5. e.dh = s.dh_self /\ e.n = s.n_send /\ e.mk = [root |-> s.root_key, n |-> s.n_send] /\ To(e) = q
  BY <1>1, <1>2 DEF To
<1>6. \A m : (Expects(s, m) <=> Expects(t, m))
  BY <1>3 DEF Expects, InChain
<1>7. RecvInv(rs'[p]) /\ RecvInv(rs'[q])
  BY <1>1, <1>3, <1>4 DEF SyncInv, RecvInv
<1>8. ASSUME Sync(p)
      PROVE  Sync(p)'
  <2>1. \A m \in net' : To(m) = p => Expects(t, m)
    BY <1>1, <1>4, <1>5, <1>6, <1>8 DEF Sync
  <2>2. \A m \in net' : To(m) = q => Expects(rs[q], m) \/ m.dh = t.dh_self
    BY <1>1, <1>2, <1>4, <1>5, <1>8 DEF Sync
  <2>. QED
    BY <1>1, <1>2, <1>3, <1>4, <1>8, <2>1, <2>2 DEF Sync
<1>9. ASSUME Sync(q)
      PROVE  Sync(q)'
  <2>. DEFINE x == rs[q]
  <2>1. /\ x.dh_remote = s.dh_self
        /\ x.chain_key_recv # None
        /\ x.chain_key_recv.root = s.root_key
        /\ x.n_recv <= s.n_send
        /\ x.n_recv \in Nat /\ s.n_send \in Nat
    BY <1>1, <1>9 DEF Sync, CanEncrypt, TypeOK, RatchetState
  <2>2. Expects(x, e)
    BY <1>5, <2>1 DEF Expects, InChain
  <2>3. \A m \in net' : To(m) = q => Expects(x, m)
    BY <1>1, <1>4, <1>9, <2>2 DEF Sync
  <2>4. \A m \in net' : To(m) = p => Expects(t, m) \/ m.dh = x.dh_self
    BY <1>1, <1>4, <1>5, <1>6, <1>9 DEF Sync
  <2>5. x.root_key = RecvRoot(t, x.dh_self)
    BY <1>1, <1>2, <1>9 DEF Sync, RecvRoot
  <2>. QED
    BY <1>1, <1>2, <1>3, <1>4, <1>9, <2>1, <2>3, <2>4, <2>5 DEF Sync
<1>10. Sync(p) \/ Sync(q)
  BY <1>1 DEF SyncInv, Party
<1>11. Party = {p, q}
  BY <1>1 DEF Party
<1>. QED
  BY <1>1, <1>4, <1>7, <1>8, <1>9, <1>10, <1>11 DEF SyncInv

\* What is known of a message in flight from its sender's side.
LEMMA InFlight ==
    ASSUME TypeOK, SentInv, NEW m \in net
    PROVE  LET s == rs[Peer(To(m))] IN
           /\ m \in Message
           /\ To(m) \in Party /\ Peer(To(m)) \in Party /\ Peer(To(m)) # To(m)
           /\ Peer(Peer(To(m))) = To(m)
           /\ m.dh = s.dh_self =>
                 /\ m.n + 1 <= s.n_send
                 /\ m.pn = s.pn
                 /\ m.mk = [root |-> s.root_key, n |-> m.n]
           /\ FreshKey(m.dh) = s.dh_self => m.n < s.pn
           /\ \A x \in net : To(x) = To(m) /\ x.dh = m.dh /\ x.n = m.n => x = m
<1>. DEFINE q == m.dh.owner
<1>1. m \in Message /\ q \in Party /\ To(m) = Peer(q)
  BY DEF TypeOK, SentInv, To
<1>2. To(m) \in Party /\ Peer(To(m)) = q /\ q # To(m)
  BY <1>1, PeerType
<1>3. m \in sent[q] /\ SendInv(q, rs[q], sent[q]) /\ rs[q] \in RatchetState
  BY <1>1 DEF SentInv, TypeOK
<1>4. m.n \in Nat /\ rs[q].n_send \in Nat
  BY <1>1, <1>3 DEF Message, RatchetState
<1>5. /\ m.dh = rs[q].dh_self =>
            /\ m.n < rs[q].n_send
            /\ m.pn = rs[q].pn
            /\ m.mk = [root |-> rs[q].root_key, n |-> m.n]
      /\ FreshKey(m.dh) = rs[q].dh_self => m.n < rs[q].pn
  BY <1>3 DEF SendInv
<1>6. ASSUME NEW x \in net, x.dh = m.dh, x.n = m.n
      PROVE  x = m
  <2>1. x \in sent[q]
    BY <1>6 DEF SentInv
  <2>. QED
    BY <1>3, <1>6, <2>1 DEF SendInv
<1>. QED
  BY <1>1, <1>2, <1>4, <1>5, <1>6

\* What a call of decrypt at r does to the two states and to the network.
LEMMA ReceiveEffect ==
    ASSUME TypeOK, NEW m \in net, Receive(m), To(m) \in Party
    PROVE  /\ rs'[To(m)] = Decrypt(rs[To(m)], m).state
           /\ \A p \in Party : p # To(m) => rs'[p] = rs[p]
           /\ net' = net \ {m}
           /\ dups' = dups
  BY DEF Receive, HandleMessage, TypeOK

\* The recipient expects the message: whichever party was ahead stays ahead.
LEMMA ReceiveExpectedSync ==
    ASSUME TypeOK, SentInv, SyncInv, NEW m \in net, Receive(m), Expects(rs[To(m)], m)
    PROVE  SyncInv'
<1>. DEFINE r == To(m)
            o == Peer(r)
            s == rs[r]
            t == Decrypt(s, m).state
<1>1. /\ m \in Message /\ r \in Party /\ o \in Party /\ o # r /\ Peer(o) = r
      /\ m.dh = rs[o].dh_self => m.n + 1 <= rs[o].n_send
      /\ \A x \in net : To(x) = r /\ x.dh = m.dh /\ x.n = m.n => x = m
  BY InFlight
<1>2. s \in RatchetState /\ RecvInv(s)
  BY <1>1 DEF TypeOK, SyncInv
<1>3. /\ RecvInv(t)
      /\ SameReceiving(s, t)
      /\ SameSending(s, t)
      /\ Kept(s, t, m)
      /\ t.n_recv = s.n_recv \/ (m.dh = s.dh_remote /\ t.n_recv = m.n + 1)
  BY <1>1, <1>2, DecryptExpected
<1>4. rs'[r] = t /\ rs'[o] = rs[o] /\ net' = net \ {m} /\ dups' = dups
  BY <1>1, ReceiveEffect
<1>5. \A x \in net' : To(x) = r /\ Expects(s, x) => Expects(t, x)
  BY <1>1, <1>3, <1>4 DEF Kept, TypeOK
<1>6. Party = {r, o}
  BY <1>1 DEF Party
<1>7. ASSUME Sync(r)
      PROVE  Sync(r)'
  <2>1. t.n_recv <= rs[o].n_send
    BY <1>1, <1>3, <1>7 DEF Sync
  <2>2. \A x \in net' : To(x) = r => Expects(t, x)
    BY <1>4, <1>5, <1>7 DEF Sync
  <2>3. \A x \in net' : To(x) = o => Expects(rs[o], x) \/ x.dh = t.dh_self
    BY <1>3, <1>4, <1>7 DEF Sync, SameSending
  <2>. QED
    BY <1>1, <1>3, <1>4, <1>7, <2>1, <2>2, <2>3 DEF Sync, SameSending, SameReceiving
<1>8. ASSUME Sync(o)
      PROVE  Sync(o)'
  <2>1. \A x \in net' : To(x) = o => Expects(rs[o], x)
    BY <1>4, <1>8 DEF Sync
  <2>2. \A x \in net' : To(x) = r => Expects(t, x) \/ x.dh = rs[o].dh_self
    BY <1>1, <1>4, <1>5, <1>8 DEF Sync
  <2>3. rs[o].root_key = RecvRoot(t, rs[o].dh_self)
    BY <1>1, <1>3, <1>8 DEF Sync, SameSending, RecvRoot
  <2>. QED
    BY <1>1, <1>3, <1>4, <1>8, <2>1, <2>2, <2>3 DEF Sync, SameSending, SameReceiving
<1>. QED
  BY <1>3, <1>4, <1>6, <1>7, <1>8 DEF SyncInv

\* The message is of the next chain of the party that is ahead: it is refused
\* or the recipient turns the ratchet and is ahead in its stead.
LEMMA NextChain ==
    ASSUME TypeOK, SentInv, SyncInv, NEW m \in net, ~ Expects(rs[To(m)], m)
    PROVE  LET r == To(m)
               o == Peer(r)
           IN  Sync(o) /\ m.dh = rs[o].dh_self /\ IsNext(rs[r], m)
<1>. DEFINE r == To(m)
            o == Peer(r)
<1>1. /\ r \in Party /\ o \in Party /\ o # r /\ Peer(o) = r
      /\ m.dh = rs[o].dh_self => m.mk = [root |-> rs[o].root_key, n |-> m.n]
  BY InFlight
<1>2. ~ Sync(r)
  BY DEF Sync
<1>3. Sync(o)
  BY <1>1, <1>2 DEF SyncInv, Party
<1>4. m.dh = rs[o].dh_self
  BY <1>1, <1>3 DEF Sync
<1>5. /\ rs[o].root_key = RecvRoot(rs[r], m.dh)
      /\ rs[r].dh_remote = None \/ FreshKey(rs[r].dh_remote) = m.dh
  BY <1>1, <1>3, <1>4 DEF Sync
<1>6. rs[r].dh_remote = None \/ Later(rs[r].dh_remote, m.dh)
  BY <1>1, <1>5, FreshKeyLater DEF TypeOK, RatchetState
<1>. QED
  BY <1>1, <1>3, <1>4, <1>5, <1>6 DEF IsNext

\* A message of the next chain, once received, leaves the two sides in step.
LEMMA ReceiveNextSync ==
    ASSUME TypeOK, SentInv, SyncInv, NEW m \in net, Receive(m), ~ Expects(rs[To(m)], m)
    PROVE  SyncInv'
<1>. DEFINE r == To(m)
            o == Peer(r)
            s == rs[r]
            x == rs[o]
            t == Decrypt(s, m).state
<1>1. /\ m \in Message /\ r \in Party /\ o \in Party /\ o # r /\ Peer(o) = r
      /\ m.dh = x.dh_self => /\ m.n + 1 <= x.n_send
                             /\ m.pn = x.pn
  BY InFlight
<1>2. s \in RatchetState /\ RecvInv(s) /\ x \in RatchetState /\ RecvInv(x)
  BY <1>1 DEF TypeOK, SyncInv
<1>3. Sync(o) /\ m.dh = x.dh_self /\ IsNext(s, m)
  BY NextChain
<1>4. rs'[r] = t /\ rs'[o] = x /\ net' = net \ {m} /\ dups' = dups
  BY <1>1, ReceiveEffect
<1>5. Party = {r, o}
  BY <1>1 DEF Party
<1>6. CASE t = s
  <2>1. Sync(o)'
    BY <1>1, <1>3, <1>4, <1>6 DEF Sync
  <2>. QED
    BY <1>2, <1>4, <1>5, <1>6, <2>1 DEF SyncInv
<1>7. CASE t # s
  <2>1. /\ Turned(s, t, m.dh)
        /\ RecvInv(t)
        /\ t.dh_remote = m.dh
        /\ t.chain_key_recv # None
        /\ t.chain_key_recv.root = RecvRoot(s, m.dh)
        /\ t.n_recv = 0 \/ t.n_recv = m.n + 1
        /\ \A z \in Message :
              Expects(s, z) /\ (z.dh = s.dh_remote => z.n < m.pn) => Expects(t, z)
        /\ \A z \in Message :
              /\ z.dh = m.dh
              /\ z.mk = [root |-> RecvRoot(s, m.dh), n |-> z.n]
              /\ z.n # m.n
              => Expects(t, z)
    BY <1>1, <1>2, <1>3, <1>7, DecryptNext
  <2>2. RecvRoot(s, m.dh) = x.root_key
    BY <1>1, <1>3 DEF Sync
  <2>3. t.root_key = RecvRoot(x, t.dh_self)
    <3>1. DH(t.dh_self, m.dh) = DH(x.dh_self, t.dh_self)
      BY <1>3 DEF DH
    <3>. QED
      BY <2>1, <2>2, <3>1 DEF Turned, RecvRoot
  <2>4. t.chain_key_send # None
    <3>1. m.dh \in Key /\ SendInv(r, s, sent[r]) /\ sent[r] \in SUBSET Message /\ t \in RatchetState
      BY <1>1, <1>2, DecryptType DEF Message, SentInv, TypeOK
    <3>. QED
      BY <1>2, <2>1, <3>1, TurnedSendInv
  <2>5. t.n_recv <= x.n_send
    BY <1>1, <1>2, <1>3, <2>1 DEF RatchetState
  <2>6. FreshKey(x.dh_remote) = t.dh_self
    BY <1>1, <1>3, <2>1 DEF Sync, Turned
  <2>7. ASSUME NEW z \in net', To(z) = r
        PROVE  Expects(t, z)
    <3>1. z \in net /\ z # m /\ z \in Message /\ z.n \in Nat
      BY <1>4 DEF TypeOK, Message
    <3>2. CASE z.dh = x.dh_self
      <4>1. z.mk = [root |-> x.root_key, n |-> z.n] /\ z.n # m.n
        BY <1>1, <1>3, <2>7, <3>1, <3>2, InFlight
      <4>. QED
        BY <1>3, <2>1, <2>2, <3>1, <3>2, <4>1
    <3>3. CASE z.dh # x.dh_self
      <4>1. Expects(s, z)
        BY <1>1, <1>3, <2>7, <3>1, <3>3 DEF Sync
      <4>2. ASSUME z.dh = s.dh_remote
            PROVE  z.n < m.pn
        <5>1. s.dh_remote # None
          BY <3>1, <4>2, NoneAssumption DEF Message
        <5>2. FreshKey(z.dh) = x.dh_self
          BY <1>1, <1>3, <4>2, <5>1 DEF Sync
        <5>. QED
          BY <1>1, <1>3, <2>7, <3>1, <5>2, InFlight
      <4>. QED
        BY <2>1, <3>1, <4>1, <4>2
    <3>. QED
      BY <3>2, <3>3
  <2>8. \A z \in net' : To(z) = o => Expects(x, z)
    BY <1>3, <1>4 DEF Sync
  <2>9. Sync(r)'
    BY <1>1, <1>3, <1>4, <2>1, <2>2, <2>3, <2>4, <2>5, <2>6, <2>7, <2>8 DEF Sync
  <2>. QED
    BY <1>2, <1>4, <1>5, <2>1, <2>9 DEF SyncInv
<1>. QED
  BY <1>6, <1>7

\* Without repetition every step keeps SyncInv.
LEMMA SyncStep == TypeOK /\ SentInv /\ SyncInv /\ MaxDup = 0 /\ [Next]_vars => SyncInv'
<1>. SUFFICES ASSUME TypeOK, SentInv, SyncInv, MaxDup = 0, [Next]_vars
              PROVE  SyncInv'
  OBVIOUS
<1>1. ASSUME NEW p \in Party, Send(p)
      PROVE  SyncInv'
  BY <1>1, SendSync
<1>2. ASSUME NEW m \in net, Receive(m)
      PROVE  SyncInv'
  BY <1>2, ReceiveExpectedSync, ReceiveNextSync
<1>3. ASSUME NEW p \in Party, NEW m \in sent[p], Repeat(m)
      PROVE  SyncInv'
  BY <1>3 DEF Repeat, SyncInv
<1>4. ASSUME NEW m \in net, Lose(m)
      PROVE  SyncInv'
  BY <1>4 DEF SyncInv, Sync, Lose
<1>5. CASE UNCHANGED vars
  BY <1>5 DEF SyncInv, Sync, vars
<1>. QED
  BY <1>1, <1>2, <1>3, <1>4, <1>5 DEF Next, SendSome, ReceiveSome

\* With a seed that both sides can copy and a network that repeats nothing,
\* every message in flight opens, in any order and after any losses, unless
\* more than MaxSkip keys are missing.
THEOREM EveryMessageOpens ==
    ASSUME SeedLen >= 32, MaxDup = 0
    PROVE  Spec => []InFlightOpens
<1>1. TypeOK /\ SentInv /\ SyncInv => InFlightOpens
  <2>. SUFFICES ASSUME TypeOK, SentInv, SyncInv, NEW m \in net
                PROVE  Decrypt(rs[To(m)], m).result \in {"ok", "too_many"}
    BY DEF InFlightOpens
  <2>1. m \in Message /\ rs[To(m)] \in RatchetState /\ RecvInv(rs[To(m)])
    BY InFlight DEF TypeOK, SyncInv
  <2>2. CASE Expects(rs[To(m)], m)
    BY <2>1, <2>2, DecryptExpected
  <2>3. CASE ~ Expects(rs[To(m)], m)
    BY <2>1, <2>3, NextChain, DecryptNext
  <2>. QED
    BY <2>2, <2>3
<1>2. Init => SyncInv
  BY SyncInit
<1>3. TypeOK /\ SentInv /\ SyncInv /\ [Next]_vars => SyncInv'
  BY SyncStep
<1>. QED
  BY <1>1, <1>2, <1>3, TypeInit, TypeStep, SentInit, SentStep, PTL DEF Spec

-----------------------------------------------------------------------------
\* A network that repeats nothing, continued: cached keys are awaited.

\* Party p has sent the message of position i of the chain of dh under root.
Wrote(p, dh, root, i) ==
    \E m \in sent[p] : m.dh = dh /\ m.n = i /\ m.mk = [root |-> root, n |-> i]

\* All the positions of the current sending chain are those of sent messages.
CurrentWritten(p) ==
    \A i \in Nat : i < rs[p].n_send => Wrote(p, rs[p].dh_self, rs[p].root_key, i)

\* Of the chain the peer is still receiving all positions below pn are.
PreviousWritten(p) ==
    LET y == rs[Peer(p)] IN
    y.chain_key_recv # None =>
        \A i \in Nat : i < rs[p].pn => Wrote(p, y.dh_remote, y.chain_key_recv.root, i)

\* So is what party p caches.
CacheWritten(p) ==
    \A k \in rs[p].skipped_message_keys : \E m \in sent[Peer(p)] : Entry(m) = k

AwaitInv ==
    \A p \in Party :
        /\ CurrentWritten(p)
        /\ Sync(p) => PreviousWritten(p)
        /\ CacheWritten(p)

\* The party that is ahead is the one with the deeper root key.
LEMMA DeeperRoot ==
    ASSUME NEW x \in RatchetState, NEW y \in RatchetState, x.root_key = RecvRoot(y, x.dh_self)
    PROVE  /\ Depth(x.root_key) = Depth(y.root_key) + 1
           /\ Depth(x.root_key) \in Nat /\ Depth(y.root_key) \in Nat
<1>1. y.root_key \in RootKey /\ DH(y.dh_self, x.dh_self) \in SUBSET Key /\ x.root_key \in RootKey
  BY DEF RatchetState, DH
<1>2. x.root_key = KdfRoot(y.root_key, DH(y.dh_self, x.dh_self))
  BY DEF RecvRoot
<1>. QED
  BY <1>1, <1>2, KdfRootType DEF Depth, RootKey

\* As long as the root keys stay, so does the party that is ahead.
LEMMA AheadStays ==
    ASSUME TypeOK, TypeOK', SyncInv, NEW p \in Party, Sync(p)',
           rs'[p].root_key = rs[p].root_key,
           rs'[Peer(p)].root_key = rs[Peer(p)].root_key
    PROVE  Sync(p)
<1>. DEFINE q == Peer(p)
<1>1. q \in Party /\ Peer(q) = p /\ Party = {p, q}
  BY PeerType DEF Party
<1>2. rs[p] \in RatchetState /\ rs[q] \in RatchetState /\ rs'[p] \in RatchetState /\ rs'[q] \in RatchetState
  BY <1>1 DEF TypeOK
<1>3. rs'[p].root_key = RecvRoot(rs'[q], rs'[p].dh_self)
  BY DEF Sync
<1>4. Depth(rs[p].root_key) = Depth(rs[q].root_key) + 1 /\ Depth(rs[q].root_key) \in Nat
  BY <1>2, <1>3, DeeperRoot
<1>5. ASSUME Sync(q)
      PROVE  FALSE
  <2>1. rs[q].root_key = RecvRoot(rs[p], rs[q].dh_self)
    BY <1>1, <1>5 DEF Sync
  <2>. QED
    BY <1>2, <1>4, <2>1, DeeperRoot
<1>. QED
  BY <1>1, <1>5 DEF SyncInv

\* AwaitInv holds in the initial state.
LEMMA AwaitInit == Init => AwaitInv
<1>. SUFFICES ASSUME Init, NEW p \in Party
              PROVE  CurrentWritten(p) /\ PreviousWritten(p) /\ CacheWritten(p)
  BY DEF AwaitInv
<1>1. rs[p] = First \/ rs[p] = Second
  BY DEF Init
<1>2. rs[p].n_send = 0 /\ rs[p].pn = 0 /\ rs[p].skipped_message_keys = {}
  BY <1>1 DEF First, InitAlice, Second, InitBob
<1>. QED
  BY <1>2 DEF CurrentWritten, PreviousWritten, CacheWritten

\* What was written stays written.
LEMMA WroteStays ==
    ASSUME NEW p \in Party, sent[p] \subseteq sent'[p], NEW dh, NEW root, NEW i, Wrote(p, dh, root, i)
    PROVE  Wrote(p, dh, root, i)'
  BY DEF Wrote

\* Sending keeps AwaitInv.
LEMMA SendAwait ==
    ASSUME TypeOK, TypeOK', SentInv, SyncInv, AwaitInv, NEW p \in Party, Send(p)
    PROVE  AwaitInv'
<1>. DEFINE q == Peer(p)
            s == rs[p]
            e == Encrypt(s).message
            t == Encrypt(s).state
<1>1. /\ q \in Party /\ q # p /\ Peer(q) = p /\ Party = {p, q}
      /\ s \in RatchetState /\ rs[q] \in RatchetState /\ sent[p] \in SUBSET Message
      /\ SendInv(p, s, sent[p]) /\ CanEncrypt(s)
  BY PeerType DEF TypeOK, SentInv, Send, Party
<1>2. /\ e = [dh |-> s.dh_self, pn |-> s.pn, n |-> s.n_send,
              mk |-> [root |-> s.root_key, n |-> s.n_send]]
      /\ t.dh_self = s.dh_self
      /\ t.root_key = s.root_key
      /\ t.n_send = s.n_send + 1
  BY <1>1, EncryptSendInv
<1>3. /\ t.dh_remote = s.dh_remote
      /\ t.chain_key_recv = s.chain_key_recv
      /\ t.pn = s.pn
      /\ t.skipped_message_keys = s.skipped_message_keys
  BY <1>1 DEF Encrypt, RatchetState
<1>4. /\ rs'[p] = t /\ rs'[q] = rs[q]
      /\ sent'[p] = sent[p] \cup {e} /\ sent'[q] = sent[q]
  BY <1>1 DEF Send, TypeOK
<1>. HIDE DEF s, e, t
<1>5. CurrentWritten(p)'
  <2>. SUFFICES ASSUME NEW i \in Nat, i < s.n_send + 1
                PROVE  \E m \in sent'[p] : m.dh = s.dh_self /\ m.n = i
                                          /\ m.mk = [root |-> s.root_key, n |-> i]
    BY <1>2, <1>4 DEF CurrentWritten, Wrote
  <2>1. CASE i = s.n_send
    BY <1>2, <1>4, <2>1
  <2>2. CASE i # s.n_send
    <3>1. i < s.n_send
      BY <1>1, <2>2 DEF RatchetState
    <3>2. Wrote(p, s.dh_self, s.root_key, i)
      BY <1>1, <3>1 DEF AwaitInv, CurrentWritten, s
    <3>. QED
      BY <1>4, <3>2 DEF Wrote
  <2>. QED
    BY <2>1, <2>2
<1>6. CurrentWritten(q)'
  BY <1>1, <1>4 DEF AwaitInv, CurrentWritten, Wrote
<1>7. ASSUME NEW r \in Party, Sync(r)'
      PROVE  PreviousWritten(r)'
  <2>0. /\ Peer(r) \in Party
        /\ \A x \in Party : rs'[x].root_key = rs[x].root_key
    BY <1>1, <1>2, <1>4, PeerType DEF s
  <2>1. Sync(r)
    BY <1>7, <2>0, AheadStays
  <2>2. PreviousWritten(r)
    BY <2>1 DEF AwaitInv
  <2>3. \A x \in Party : /\ rs'[x].chain_key_recv = rs[x].chain_key_recv
                         /\ rs'[x].dh_remote = rs[x].dh_remote
                         /\ rs'[x].pn = rs[x].pn
                         /\ sent[x] \subseteq sent'[x]
    BY <1>1, <1>3, <1>4 DEF s
  <2>4. Peer(r) \in Party
    BY PeerType
  <2>. QED
    BY <2>2, <2>3, <2>4 DEF PreviousWritten, Wrote
<1>8. CacheWritten(p)' /\ CacheWritten(q)'
  <2>1. \A x \in Party : /\ rs'[x].skipped_message_keys = rs[x].skipped_message_keys
                         /\ Peer(x) \in Party /\ sent[x] \subseteq sent'[x]
    BY <1>1, <1>3, <1>4 DEF s
  <2>2. \A x \in Party : CacheWritten(x)
    BY DEF AwaitInv
  <2>3. \A x \in Party : CacheWritten(x)'
    BY <2>1, <2>2 DEF CacheWritten
  <2>. QED
    BY <1>1, <2>3
<1>. QED
  BY <1>1, <1>5, <1>6, <1>7, <1>8 DEF AwaitInv

\* The recipient expects the message: what it newly caches is of the chain it is
\* receiving and comes before the message, which the peer has sent.
LEMMA ReceiveExpectedAwait ==
    ASSUME TypeOK, TypeOK', SentInv, SyncInv, AwaitInv, NEW m \in net, Receive(m),
           Expects(rs[To(m)], m)
    PROVE  AwaitInv'
<1>. DEFINE r == To(m)
            o == Peer(r)
            s == rs[r]
            t == Decrypt(s, m).state
<1>1. /\ m \in Message /\ r \in Party /\ o \in Party /\ o # r /\ Peer(o) = r /\ Party = {r, o}
      /\ m.dh = rs[o].dh_self => m.n + 1 <= rs[o].n_send
      /\ FreshKey(m.dh) = rs[o].dh_self => m.n < rs[o].pn
  BY InFlight DEF Party
<1>2. s \in RatchetState /\ RecvInv(s) /\ rs[o] \in RatchetState /\ m.n \in Nat
  BY <1>1 DEF TypeOK, SyncInv, Message
<1>3. SameReceiving(s, t) /\ SameSending(s, t)
  BY <1>1, <1>2, DecryptExpected
<1>4. rs'[r] = t /\ rs'[o] = rs[o] /\ sent' = sent
  BY <1>1, ReceiveEffect DEF Receive
<1>5. ASSUME NEW k \in t.skipped_message_keys
      PROVE  \E x \in sent[o] : Entry(x) = k
  <2>1. CASE k \in s.skipped_message_keys
    BY <1>1, <2>1 DEF AwaitInv, CacheWritten
  <2>2. CASE InChain(s, m) /\ Skipped(s, m.n, k)
    <3>1. PICK i \in Nat : i < m.n /\ k = KeyAt(s.dh_remote, s.chain_key_recv.root, i)
      BY <2>2 DEF Skipped
    <3>2. s.chain_key_recv # None /\ m.dh = s.dh_remote /\ s.dh_remote # None
      BY <1>2, <2>2 DEF InChain, RecvInv
    <3>3. CASE Sync(r)
      <4>1. s.dh_remote = rs[o].dh_self /\ s.chain_key_recv.root = rs[o].root_key
        BY <3>2, <3>3 DEF Sync
      <4>2. i < rs[o].n_send
        BY <1>1, <1>2, <3>1, <3>2, <4>1 DEF RatchetState
      <4>3. Wrote(o, s.dh_remote, s.chain_key_recv.root, i)
        BY <1>1, <4>1, <4>2 DEF AwaitInv, CurrentWritten
      <4>. QED
        BY <3>1, <4>3 DEF Wrote, KeyAt, Entry
    <3>4. CASE Sync(o)
      <4>1. FreshKey(m.dh) = rs[o].dh_self
        BY <1>1, <3>2, <3>4 DEF Sync
      <4>2. i < rs[o].pn
        BY <1>1, <1>2, <3>1, <4>1 DEF RatchetState
      <4>3. Wrote(o, s.dh_remote, s.chain_key_recv.root, i)
        BY <1>1, <3>2, <3>4, <4>2 DEF AwaitInv, PreviousWritten
      <4>. QED
        BY <3>1, <4>3 DEF Wrote, KeyAt, Entry
    <3>. QED
      BY <1>1, <3>3, <3>4 DEF SyncInv
  <2>. QED
    BY <1>1, <1>2, <2>1, <2>2, DecryptExpectedCaches
<1>6. \A p \in Party : CurrentWritten(p)'
  BY <1>1, <1>3, <1>4 DEF AwaitInv, CurrentWritten, Wrote, SameSending
<1>7. ASSUME NEW p \in Party, Sync(p)'
      PROVE  PreviousWritten(p)'
  <2>1. /\ Peer(p) \in Party
        /\ \A x \in Party : rs'[x].root_key = rs[x].root_key
    BY <1>1, <1>3, <1>4, PeerType DEF SameSending
  <2>2. PreviousWritten(p)
    BY <1>7, <2>1, AheadStays DEF AwaitInv
  <2>3. \A x \in Party :
           /\ rs'[x].chain_key_recv # None =>
                 /\ rs[x].chain_key_recv # None
                 /\ rs'[x].chain_key_recv.root = rs[x].chain_key_recv.root
           /\ rs'[x].dh_remote = rs[x].dh_remote
           /\ rs'[x].pn = rs[x].pn
    BY <1>1, <1>3, <1>4 DEF SameReceiving, SameSending
  <2>. QED
    BY <1>4, <2>1, <2>2, <2>3 DEF PreviousWritten, Wrote
<1>8. \A p \in Party : CacheWritten(p)'
  BY <1>1, <1>4, <1>5 DEF AwaitInv, CacheWritten
<1>. QED
  BY <1>6, <1>7, <1>8 DEF AwaitInv

\* The message is of the next chain: what the recipient newly caches is what is
\* left of the old chain below pn, and the new chain below the message.
LEMMA ReceiveNextAwait ==
    ASSUME TypeOK, TypeOK', SentInv, SyncInv, AwaitInv, NEW m \in net, Receive(m),
           ~ Expects(rs[To(m)], m)
    PROVE  AwaitInv'
<1>. DEFINE r == To(m)
            o == Peer(r)
            s == rs[r]
            x == rs[o]
            t == Decrypt(s, m).state
<1>1. /\ m \in Message /\ r \in Party /\ o \in Party /\ o # r /\ Peer(o) = r /\ Party = {r, o}
      /\ m.dh = x.dh_self => m.n + 1 <= x.n_send /\ m.pn = x.pn
  BY InFlight DEF Party
<1>2. /\ s \in RatchetState /\ RecvInv(s) /\ x \in RatchetState
      /\ m.n \in Nat /\ m.pn \in Nat /\ m.dh \in Key /\ t \in RatchetState
  BY <1>1, DecryptType DEF TypeOK, SyncInv, Message
<1>3. Sync(o) /\ m.dh = x.dh_self /\ IsNext(s, m)
  BY NextChain
<1>4. rs'[r] = t /\ rs'[o] = x /\ sent' = sent
  BY <1>1, ReceiveEffect DEF Receive
<1>5. /\ x.root_key = RecvRoot(s, m.dh)
      /\ x.dh_remote = s.dh_self
      /\ x.chain_key_recv # None => x.chain_key_recv.root = s.root_key
  BY <1>1, <1>3 DEF Sync
<1>6. ASSUME NEW k \in t.skipped_message_keys
      PROVE  \E y \in sent[o] : Entry(y) = k
  <2>1. CASE k \in s.skipped_message_keys
    BY <1>1, <2>1 DEF AwaitInv, CacheWritten
  <2>2. CASE Skipped(s, m.pn, k)
    <3>1. PICK i \in Nat : i < m.pn /\ k = KeyAt(s.dh_remote, s.chain_key_recv.root, i)
      BY <2>2 DEF Skipped
    <3>2. Wrote(o, s.dh_remote, s.chain_key_recv.root, i)
      BY <1>1, <1>3, <2>2, <3>1 DEF AwaitInv, PreviousWritten, Skipped
    <3>. QED
      BY <3>1, <3>2 DEF Wrote, KeyAt, Entry
  <2>3. ASSUME NEW i \in Nat, i < m.n, k = KeyAt(m.dh, RecvRoot(s, m.dh), i)
        PROVE  \E y \in sent[o] : Entry(y) = k
    <3>1. i < x.n_send
      BY <1>1, <1>2, <1>3, <2>3 DEF RatchetState
    <3>2. Wrote(o, m.dh, RecvRoot(s, m.dh), i)
      BY <1>1, <1>3, <1>5, <3>1 DEF AwaitInv, CurrentWritten
    <3>. QED
      BY <2>3, <3>2 DEF Wrote, KeyAt, Entry
  <2>. QED
    BY <1>1, <1>2, <1>3, <2>1, <2>2, <2>3, DecryptNextCaches
<1>7. t = s \/ Turned(s, t, m.dh)
  BY <1>1, <1>2, <1>3, DecryptNext
<1>8. \A p \in Party : CacheWritten(p)'
  BY <1>1, <1>4, <1>6 DEF AwaitInv, CacheWritten
<1>9. CurrentWritten(o)'
  BY <1>1, <1>4 DEF AwaitInv, CurrentWritten, Wrote
<1>10. CASE t = s
  <2>1. \A p \in Party : rs'[p] = rs[p] /\ Peer(p) \in Party
    BY <1>1, <1>4, <1>10
  <2>2. CurrentWritten(r)'
    BY <1>1, <1>4, <2>1 DEF AwaitInv, CurrentWritten, Wrote
  <2>3. ASSUME NEW p \in Party, Sync(p)'
        PROVE  PreviousWritten(p)'
    <3>1. PreviousWritten(p)
      BY <2>1, <2>3, AheadStays DEF AwaitInv
    <3>. QED
      BY <1>4, <2>1, <3>1 DEF PreviousWritten, Wrote
  <2>. QED
    BY <1>1, <1>8, <1>9, <2>2, <2>3 DEF AwaitInv
<1>11. CASE Turned(s, t, m.dh)
  <2>1. CurrentWritten(r)'
    BY <1>4, <1>11 DEF CurrentWritten, Turned
  <2>2. PreviousWritten(r)'
    <3>. SUFFICES ASSUME x.chain_key_recv # None, NEW i \in Nat, i < s.n_send
                  PROVE  Wrote(r, s.dh_self, s.root_key, i)
      BY <1>1, <1>4, <1>5, <1>11 DEF PreviousWritten, Turned, Wrote
    <3>. QED
      BY <1>1 DEF AwaitInv, CurrentWritten
  <2>3. ~ Sync(o)'
    <3>1. DH(s.dh_self, m.dh) \in SUBSET Key /\ DH(t.dh_self, m.dh) \in SUBSET Key /\ s.root_key \in RootKey
      BY <1>2 DEF DH, RatchetState
    <3>2. RecvRoot(s, m.dh) \in RootKey /\ Depth(RecvRoot(s, m.dh)) = Depth(s.root_key) + 1
      BY <3>1, KdfRootType DEF RecvRoot, Depth
    <3>3. Depth(t.root_key) = Depth(x.root_key) + 1
      BY <1>5, <1>11, <3>1, <3>2, KdfRootType DEF Turned, Depth
    <3>4. Depth(x.root_key) \in Nat
      BY <1>2 DEF RatchetState, RootKey, Depth
    <3>5. Sync(o)' => x.root_key = RecvRoot(t, x.dh_self)
      BY <1>1, <1>4 DEF Sync
    <3>6. Sync(o)' => Depth(x.root_key) = Depth(t.root_key) + 1
      BY <1>2, <3>5, DeeperRoot
    <3>. QED
      BY <3>3, <3>4, <3>6
  <2>. QED
    BY <1>1, <1>8, <1>9, <2>1, <2>2, <2>3 DEF AwaitInv
<1>. QED
  BY <1>7, <1>10, <1>11

\* Without repetition every step keeps AwaitInv.
LEMMA AwaitStep ==
    ASSUME MaxDup = 0
    PROVE  TypeOK /\ TypeOK' /\ SentInv /\ SyncInv /\ AwaitInv /\ [Next]_vars => AwaitInv'
<1>. SUFFICES ASSUME TypeOK, TypeOK', SentInv, SyncInv, AwaitInv, [Next]_vars
              PROVE  AwaitInv'
  OBVIOUS
<1>1. ASSUME NEW p \in Party, Send(p)
      PROVE  AwaitInv'
  BY <1>1, SendAwait
<1>2. ASSUME NEW m \in net, Receive(m)
      PROVE  AwaitInv'
  BY <1>2, ReceiveExpectedAwait, ReceiveNextAwait
<1>3. ASSUME NEW p \in Party, NEW m \in sent[p], Repeat(m)
      PROVE  AwaitInv'
  BY <1>3 DEF Repeat, SyncInv
<1>4. ASSUME UNCHANGED <<rs, sent>>
      PROVE  AwaitInv'
  <2>1. ASSUME NEW p \in Party, Sync(p)'
        PROVE  Sync(p)
    BY <1>4, <2>1, AheadStays
  <2>. QED
    BY <1>4, <2>1 DEF AwaitInv, CurrentWritten, PreviousWritten, CacheWritten, Wrote
<1>. QED
  BY <1>1, <1>2, <1>3, <1>4 DEF Next, SendSome, ReceiveSome, Lose, vars

\* With a seed that both sides can copy and a network that repeats nothing, a
\* skipped key is always the key of a message that the peer has sent and that has
\* not been opened.
THEOREM SkippedKeysAwaited ==
    ASSUME SeedLen >= 32, MaxDup = 0
    PROVE  Spec => []CachedKeysAwaited
<1>1. TypeOK /\ OnceInv /\ AwaitInv => CachedKeysAwaited
  <2>. SUFFICES ASSUME TypeOK, OnceInv, AwaitInv,
                       NEW p \in Party, NEW k \in rs[p].skipped_message_keys
                PROVE  \E m \in sent[Peer(p)] :
                          /\ m.dh = k.dh /\ m.n = k.n /\ m.mk = k.mk
                          /\ m \notin Range(inbox[p])
    BY DEF CachedKeysAwaited
  <2>1. PICK m \in sent[Peer(p)] : Entry(m) = k
    BY DEF AwaitInv, CacheWritten
  <2>2. \A i \in DOMAIN inbox[p] : inbox[p][i] # m
    BY <2>1 DEF OnceInv, Erased, InCache, Entry
  <2>3. m \notin Range(inbox[p])
    BY <2>2 DEF Range
  <2>. QED
    BY <2>1, <2>3 DEF Entry
<1>2. Init => SyncInv
  BY SyncInit
<1>3. TypeOK /\ SentInv /\ SyncInv /\ [Next]_vars => SyncInv'
  BY SyncStep
<1>4. TypeOK /\ TypeOK' /\ SentInv /\ SyncInv /\ AwaitInv /\ [Next]_vars => AwaitInv'
  BY AwaitStep
<1>. QED
  BY <1>1, <1>2, <1>3, <1>4, TypeInit, TypeStep, SentInit, SentStep, OnceInit, OnceStep,
     AwaitInit, PTL DEF Spec

\* What a call of decrypt at p adds to the cache of any party.
LEMMA HandleMessageCaches ==
    ASSUME TypeOK, NEW p \in Party, NEW m \in Message, HandleMessage(p, m), NEW q \in Party
    PROVE  \E A, B, a, b : /\ NewlyCached(q) = A \cup B
                           /\ Batch(A, a) /\ Batch(B, b) /\ (a = b => B = {})
<1>1. CASE q = p
  <2>1. rs[p] \in RatchetState /\ rs'[p] = Decrypt(rs[p], m).state
    BY DEF TypeOK, HandleMessage
  <2>2. NewlyCached(p) = NewKeys(rs[p], Decrypt(rs[p], m).state)
    BY <2>1 DEF NewlyCached, NewKeys
  <2>3. PICK A, B : /\ NewlyCached(p) = A \cup B
                    /\ Batch(A, rs[p].dh_remote) /\ Batch(B, m.dh)
                    /\ rs[p].dh_remote = m.dh => B = {}
    <3>. DEFINE s == rs[p]
    <3>. HIDE DEF s
    <3>1. s \in RatchetState
      BY <2>1 DEF s
    <3>2. \E A, B : /\ NewKeys(s, Decrypt(s, m).state) = A \cup B
                    /\ Batch(A, s.dh_remote) /\ Batch(B, m.dh)
                    /\ s.dh_remote = m.dh => B = {}
      BY <3>1, DecryptAdds
    <3>. QED
      BY <2>2, <3>2 DEF s
  <2>. QED
    BY <1>1, <2>3
<1>2. CASE q # p
  <2>1. NewlyCached(q) = {} \cup {}
    BY <1>2 DEF TypeOK, HandleMessage, NewlyCached
  <2>2. Batch({}, 0)
    BY FS_EmptySet, MaxSkipAssumption DEF Batch
  <2>. QED
    BY <2>1, <2>2
<1>. QED
  BY <1>1, <1>2

\* However much a header claims was sent, one call of decrypt adds keys of two
\* chains at most, and MaxSkip of each at most, over any network.
THEOREM SkippingBounded == Spec => CallCachesBounded
<1>. DEFINE Few(q) ==
       /\ Cardinality({k.dh : k \in NewlyCached(q)}) <= 2
       /\ \A chain \in {k.dh : k \in NewlyCached(q)} :
             Cardinality({k \in NewlyCached(q) : k.dh = chain}) <= MaxSkip
<1>1. ASSUME NEW q \in Party,
             \E A, B, a, b : /\ NewlyCached(q) = A \cup B
                             /\ Batch(A, a) /\ Batch(B, b) /\ (a = b => B = {})
      PROVE  Few(q)
  <2>1. PICK A, B, a, b : /\ NewlyCached(q) = A \cup B
                          /\ Batch(A, a) /\ Batch(B, b) /\ (a = b => B = {})
    BY <1>1
  <2>2. /\ Cardinality({k.dh : k \in A \cup B}) <= 2
        /\ \A chain \in {k.dh : k \in A \cup B} :
              Cardinality({k \in A \cup B : k.dh = chain}) <= MaxSkip
    BY <2>1, TwoBatches
  <2>. QED
    BY <2>1, <2>2
<1>2. ASSUME NEW q \in Party, NewlyCached(q) = {}
      PROVE  Few(q)
  <2>1. Batch({}, 0) /\ NewlyCached(q) = {} \cup {}
    BY <1>2, FS_EmptySet, MaxSkipAssumption DEF Batch
  <2>. HIDE DEF Few
  <2>. QED
    BY <1>1, <2>1
<1>. HIDE DEF Few
<1>3. TypeOK /\ [Next]_vars => \A q \in Party : Few(q)
  <2>. SUFFICES ASSUME TypeOK, [Next]_vars, NEW q \in Party
                PROVE  Few(q)
    OBVIOUS
  <2>1. ASSUME NEW p \in Party, Send(p) PROVE Few(q)
    <3>1. rs' = [rs EXCEPT ![p] = Encrypt(rs[p]).state] /\ rs[p] \in RatchetState
      BY <2>1 DEF Send, TypeOK
    <3>2. Encrypt(rs[p]).state.skipped_message_keys = rs[p].skipped_message_keys
      BY <3>1 DEF Encrypt, RatchetState
    <3>3. NewlyCached(q) = {}
      BY <3>1, <3>2 DEF NewlyCached, TypeOK
    <3>. QED
      BY <1>2, <3>3
  <2>2. ASSUME NEW m \in net, Receive(m) PROVE Few(q)
    <3>1. m \in Message /\ To(m) \in Party
      BY ToType DEF TypeOK
    <3>. QED
      BY <1>1, <2>2, <3>1, HandleMessageCaches DEF Receive
  <2>3. ASSUME NEW p \in Party, NEW m \in sent[p], Repeat(m) PROVE Few(q)
    <3>1. m \in Message /\ To(m) \in Party
      BY ToType DEF TypeOK
    <3>. QED
      BY <1>1, <2>3, <3>1, HandleMessageCaches DEF Repeat
  <2>4. CASE UNCHANGED rs
    <3>1. NewlyCached(q) = {}
      BY <2>4 DEF NewlyCached
    <3>. QED
      BY <1>2, <3>1
  <2>. QED
    BY <2>1, <2>2, <2>3, <2>4 DEF Next, SendSome, ReceiveSome, Lose, vars
<1>4. TypeOK /\ [Next]_vars =>
        [\A p \in Party :
            /\ Cardinality({k.dh : k \in NewlyCached(p)}) <= 2
            /\ \A chain \in {k.dh : k \in NewlyCached(p)} :
                  Cardinality({k \in NewlyCached(p) : k.dh = chain}) <= MaxSkip]_vars
  BY <1>3 DEF Few
<1>. QED
  BY <1>4, TypeInit, TypeStep, PTL DEF Spec, CallCachesBounded

-----------------------------------------------------------------------------
\* A network that loses and repeats nothing, and parties that send no more than
\* one call may skip.

\* A party has sent as many messages as its counters say, or more.
SentCount ==
    \A p \in Party :
        /\ IsFiniteSet(sent[p]) /\ Cardinality(sent[p]) <= MaxSent
        /\ rs[p].n_send <= Cardinality(sent[p])
        /\ rs[p].pn <= Cardinality(sent[p])
        /\ \A m \in sent[p] : m.n <= MaxSent /\ m.pn <= MaxSent

\* At the start nothing is sent or counted.
LEMMA SentCountInit == Init => SentCount
  BY FS_EmptySet, MaxSentAssumption, PartyAssumption
     DEF Init, SentCount, First, InitAlice, Second, InitBob, Party

\* decrypt counts no message sent: it moves the counter to pn at most.
LEMMA ReceiveCount ==
    ASSUME TypeOK, SentCount, NEW m \in net, Receive(m)
    PROVE  SentCount'
<1>1. m \in Message /\ To(m) \in Party /\ rs[To(m)] \in RatchetState
  BY ToType DEF TypeOK
<1>2. /\ rs'[To(m)] = Decrypt(rs[To(m)], m).state
      /\ \A p \in Party : p # To(m) => rs'[p] = rs[p]
      /\ sent' = sent
  BY <1>1, ReceiveEffect DEF Receive
<1>3. \/ SameSending(rs[To(m)], rs'[To(m)])
      \/ Turned(rs[To(m)], rs'[To(m)], m.dh)
  <2>. DEFINE s == rs[To(m)]
  <2>. HIDE DEF s
  <2>1. SameSending(s, Decrypt(s, m).state) \/ Turned(s, Decrypt(s, m).state, m.dh)
    BY <1>1, DecryptSending DEF s
  <2>. QED
    BY <1>2, <2>1 DEF s
<1>4. ASSUME NEW p \in Party
      PROVE  rs'[p].n_send <= Cardinality(sent[p]) /\ rs'[p].pn <= Cardinality(sent[p])
  <2>1. Cardinality(sent[p]) \in Nat
    BY FS_CardinalityType DEF SentCount
  <2>2. rs[p].n_send <= Cardinality(sent[p]) /\ rs[p].pn <= Cardinality(sent[p])
    BY DEF SentCount
  <2>. QED
    BY <1>2, <1>3, <2>1, <2>2 DEF SameSending, Turned
<1>. QED
  BY <1>2, <1>4 DEF SentCount

\* encrypt counts the one message it makes.
LEMMA SendCount ==
    ASSUME TypeOK, SentInv, SentCount, NEW p \in Party, Send(p)
    PROVE  SentCount'
<1>. DEFINE e == Encrypt(rs[p]).message
            t == Encrypt(rs[p]).state
            S == sent[p]
<1>1. /\ rs[p] \in RatchetState /\ S \in SUBSET Message /\ SendInv(p, rs[p], S)
      /\ CanEncrypt(rs[p]) /\ Cardinality(S) < MaxSent
  BY DEF TypeOK, SentInv, Send
<1>2. /\ e \notin S /\ e.n = rs[p].n_send /\ e.pn = rs[p].pn
      /\ t.n_send = rs[p].n_send + 1
  <2>. DEFINE s == rs[p]
  <2>1. s \in RatchetState /\ SendInv(p, s, S) /\ CanEncrypt(s)
    BY <1>1
  <2>. HIDE DEF s, S
  <2>2. /\ Encrypt(s).message \notin S
        /\ Encrypt(s).message = [dh |-> s.dh_self, pn |-> s.pn, n |-> s.n_send,
                                 mk |-> [root |-> s.root_key, n |-> s.n_send]]
        /\ Encrypt(s).state.n_send = s.n_send + 1
    BY <1>1, <2>1, EncryptSendInv
  <2>3. Encrypt(s).message.n = s.n_send /\ Encrypt(s).message.pn = s.pn
    BY <2>2
  <2>. QED
    BY <2>2, <2>3 DEF s
<1>3. t.pn = rs[p].pn
  BY <1>1 DEF Encrypt, RatchetState
<1>4. /\ IsFiniteSet(S) /\ Cardinality(S) \in Nat
      /\ rs[p].n_send <= Cardinality(S) /\ rs[p].pn <= Cardinality(S)
      /\ \A m \in S : m.n <= MaxSent /\ m.pn <= MaxSent
      /\ rs[p].n_send \in Nat /\ rs[p].pn \in Nat
  BY <1>1, FS_CardinalityType DEF SentCount, RatchetState
<1>5. /\ \A q \in Party : rs'[q] = IF q = p THEN t ELSE rs[q]
      /\ \A q \in Party : sent'[q] = IF q = p THEN S \cup {e} ELSE sent[q]
  BY DEF Send, TypeOK
<1>. HIDE DEF e, t, S
<1>6. IsFiniteSet(S \cup {e}) /\ Cardinality(S \cup {e}) = Cardinality(S) + 1
  BY <1>2, <1>4, FS_AddElement
<1>7. /\ Cardinality(S \cup {e}) <= MaxSent
      /\ t.n_send <= Cardinality(S \cup {e}) /\ t.pn <= Cardinality(S \cup {e})
      /\ e.n <= MaxSent /\ e.pn <= MaxSent
  BY <1>1, <1>2, <1>3, <1>4, <1>6, MaxSentAssumption
<1>8. \A m \in S \cup {e} : m.n <= MaxSent /\ m.pn <= MaxSent
  BY <1>4, <1>7
<1>. QED
  BY <1>5, <1>6, <1>7, <1>8 DEF SentCount

\* A message whose numbers are within the limit is not refused.
LEMMA DecryptNotRefused ==
    ASSUME NEW s \in RatchetState, NEW m \in Message, m.n <= MaxSkip, m.pn <= MaxSkip
    PROVE  Decrypt(s, m).result # "too_many"
<1>. DEFINE u == DhRatchet(SkipMessageKeys(s, m.pn), m.dh)
<1>1. \A mk : Authenticate(mk, m) # "too_many"
  BY DEF Authenticate
<1>2. ASSUME NEW x \in RatchetState PROVE ~TooFar(x, m.n) /\ ~TooFar(x, m.pn)
  <2>1. x.n_recv \in Nat /\ m.n \in Nat /\ m.pn \in Nat
    BY DEF RatchetState, Message
  <2>. QED
    BY <2>1, MaxSkipAssumption DEF TooFar
<1>3. ASSUME NEW x \in RatchetState PROVE DecryptInChain(x, m).result # "too_many"
  BY <1>1, <1>2 DEF DecryptInChain
<1>4. u \in RatchetState
  BY SkipMessageKeysType, DhRatchetType DEF Message
<1>5. DecryptNewKey(s, m).result # "too_many"
  BY <1>2, <1>3, <1>4 DEF DecryptNewKey
<1>. QED
  BY <1>1, <1>3, <1>5 DEF Decrypt, DecryptCached

\* A message that is received is opened; the others stay where they are.
LEMMA ReceiveOpens ==
    ASSUME TypeOK, SentInv, SyncInv, SentCount, NothingStranded, MaxSent <= MaxSkip,
           NEW m \in net, Receive(m)
    PROVE  NothingStranded'
<1>. DEFINE r == To(m)
<1>1. m \in Message /\ r \in Party /\ rs[r] \in RatchetState /\ RecvInv(rs[r])
  BY ToType DEF TypeOK, SyncInv
<1>2. m.n <= MaxSkip /\ m.pn <= MaxSkip
  <2>1. m.dh.owner \in Party /\ m \in sent[m.dh.owner] /\ m.n \in Nat /\ m.pn \in Nat
    BY <1>1 DEF SentInv, Message
  <2>2. m.n <= MaxSent /\ m.pn <= MaxSent
    BY <2>1 DEF SentCount
  <2>. QED
    BY <2>1, <2>2, MaxSentAssumption, MaxSkipAssumption
<1>3. Decrypt(rs[r], m).result \in {"ok", "too_many"}
  <2>1. CASE Expects(rs[r], m)
    BY <1>1, <2>1, DecryptExpected
  <2>2. CASE ~ Expects(rs[r], m)
    BY <1>1, <2>2, NextChain, DecryptNext
  <2>. QED
    BY <2>1, <2>2
<1>4. Decrypt(rs[r], m).result = "ok"
  <2>. DEFINE s == rs[r]
  <2>. HIDE DEF s
  <2>1. Decrypt(s, m).result # "too_many"
    BY <1>1, <1>2, DecryptNotRefused DEF s
  <2>. QED
    BY <1>3, <2>1 DEF s
<1>5. /\ inbox'[r] = Append(inbox[r], m) /\ inbox[r] \in Seq(Message)
      /\ \A p \in Party : p # r => inbox'[p] = inbox[p]
      /\ sent' = sent /\ net' = net \ {m}
  BY <1>1, <1>4 DEF Receive, HandleMessage, TypeOK
<1>6. m \in Range(inbox'[r]) /\ Range(inbox[r]) \subseteq Range(inbox'[r])
  <2>1. /\ DOMAIN inbox[r] = 1 .. Len(inbox[r]) /\ Len(inbox[r]) \in Nat
        /\ DOMAIN inbox'[r] = 1 .. Len(inbox[r]) + 1
        /\ inbox'[r][Len(inbox[r]) + 1] = m
        /\ \A i \in 1 .. Len(inbox[r]) : inbox'[r][i] = inbox[r][i]
    BY <1>1, <1>5
  <2>2. /\ Len(inbox[r]) + 1 \in DOMAIN inbox'[r]
        /\ \A i \in DOMAIN inbox[r] : i \in DOMAIN inbox'[r]
    BY <2>1
  <2>. QED
    BY <2>1, <2>2 DEF Range
<1>. SUFFICES ASSUME NEW p \in Party, NEW x \in sent[p]
              PROVE  x \in net' \/ x \in Range(inbox'[Peer(p)])
  BY <1>5 DEF NothingStranded
<1>7. x \in net \/ x \in Range(inbox[Peer(p)])
  BY DEF NothingStranded
<1>8. x = m => Peer(p) = r
  <2>1. SendInv(p, rs[p], sent[p])
    BY DEF SentInv
  <2>2. x.dh.owner = p
    BY <2>1 DEF SendInv
  <2>. QED
    BY <2>2 DEF To
<1>9. Peer(p) \in Party
  BY PeerType
<1>. QED
  BY <1>5, <1>6, <1>7, <1>8, <1>9

\* As long as each party sends at most MaxSkip messages and the network loses and
\* repeats none, every message sent is in flight or has been opened: no call of
\* decrypt gives one up.  (That each is received at last is AllOpened.)
THEOREM ReliableNetworkOpensAll ==
    ASSUME SeedLen >= 32, MaxDup = 0, MaxSent <= MaxSkip
    PROVE  ReliableSpec => []NothingStranded
<1>. DEFINE AllInv == TypeOK /\ SentInv /\ SyncInv /\ SentCount /\ NothingStranded
            Step == SendSome \/ ReceiveSome
<1>1. Init => AllInv
  <2>1. Init => NothingStranded
    BY DEF Init, NothingStranded
  <2>. QED
    BY <2>1, TypeInit, SentInit, SyncInit, SentCountInit
<1>2. AllInv /\ [Step]_vars => AllInv'
  <2>. SUFFICES ASSUME AllInv, [Step]_vars PROVE AllInv'
    OBVIOUS
  <2>1. [Next]_vars
    BY DEF Next
  <2>2. (TypeOK /\ SentInv /\ SyncInv)'
    BY <2>1, TypeStep, SentStep, SyncStep
  <2>3. ASSUME NEW p \in Party, Send(p) PROVE (SentCount /\ NothingStranded)'
    <3>1. /\ \A q \in Party : sent'[q] = IF q = p THEN sent[p] \cup {Encrypt(rs[p]).message}
                                         ELSE sent[q]
          /\ net' = net \cup {Encrypt(rs[p]).message} /\ inbox' = inbox
      BY <2>3 DEF Send, TypeOK
    <3>2. NothingStranded'
      BY <3>1 DEF NothingStranded
    <3>. QED
      BY <2>3, <3>2, SendCount
  <2>4. ASSUME NEW m \in net, Receive(m) PROVE (SentCount /\ NothingStranded)'
    BY <2>4, ReceiveCount, ReceiveOpens
  <2>5. ASSUME UNCHANGED vars PROVE (SentCount /\ NothingStranded)'
    BY <2>5 DEF SentCount, NothingStranded, vars
  <2>. QED
    BY <2>2, <2>3, <2>4, <2>5 DEF SendSome, ReceiveSome
<1>3. AllInv => NothingStranded
  OBVIOUS
<1>. HIDE DEF AllInv
<1>. QED
  BY <1>1, <1>2, <1>3, PTL DEF ReliableSpec

=============================================================================
