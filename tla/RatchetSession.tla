--------------------------- MODULE RatchetSession ---------------------------
(***************************************************************************)
(* Two parties that hold one Double Ratchet session each and talk over a   *)
(* network.  The initiator starts with init_alice, the responder with      *)
(* init_bob; RatchetState::encrypt and RatchetState::decrypt are the only  *)
(* calls.                                                                  *)
(*                                                                         *)
(* The network is that of crates/client/src/p2p.rs: one libp2p stream per  *)
(* request, so messages overtake each other and a failed request is not    *)
(* sent again.  MaxDup > 0 adds a transport that repeats messages, as a    *)
(* store-and-forward relay may; decrypt itself accepts any message, any    *)
(* number of times.                                                        *)
(***************************************************************************)
EXTENDS DoubleRatchet, Functions

CONSTANTS
    MaxSent,    \* bound: messages each party encrypts
    MaxDup      \* bound: repeated deliveries; 0 is the libp2p network

ASSUME MaxSentAssumption == MaxSent \in Nat
ASSUME MaxDupAssumption == MaxDup \in Nat

VARIABLES
    rs,      \* the RatchetState of each party
    sent,    \* what each party encrypted and sent
    net,     \* messages in flight
    inbox,   \* messages each party decrypted, in the order it did
    dups     \* repeated deliveries so far

vars == <<rs, sent, net, inbox, dups>>

To(m) == Peer(m.dh.owner)

TypeOK ==
    /\ rs \in [Party -> RatchetState]
    /\ sent \in [Party -> SUBSET Message]
    /\ net \in SUBSET Message
    /\ inbox \in [Party -> Seq(Message)]
    /\ dups \in 0 .. MaxDup

\* Alice starts the session and knows the key of Bob.
First == InitAlice(Alice, IdentityKey(Bob))

Second == InitBob(Bob)

Init ==
    /\ rs    = [p \in Party |-> IF p = Alice THEN First ELSE Second]
    /\ sent  = [p \in Party |-> {}]
    /\ net   = {}
    /\ inbox = [p \in Party |-> << >>]
    /\ dups  = 0

\* encrypt fails, and changes nothing, as long as there is no sending chain.
Send(p) ==
    /\ CanEncrypt(rs[p])
    /\ Cardinality(sent[p]) < MaxSent
    /\ LET e == Encrypt(rs[p])
       IN  /\ rs'   = [rs EXCEPT ![p] = e.state]
           /\ sent' = [sent EXCEPT ![p] = @ \cup {e.message}]
           /\ net'  = net \cup {e.message}
    /\ UNCHANGED <<inbox, dups>>

\* One call of decrypt: the state it leaves is kept even when it fails.
HandleMessage(p, m) ==
    LET d == Decrypt(rs[p], m)
    IN  /\ rs'    = [rs EXCEPT ![p] = d.state]
        /\ inbox' = [inbox EXCEPT ![p] = IF d.result = "ok" THEN Append(@, m) ELSE @]

Receive(m) ==
    /\ m \in net
    /\ HandleMessage(To(m), m)
    /\ net' = net \ {m}
    /\ UNCHANGED <<sent, dups>>

\* A message, already delivered or not, is delivered once more.
Repeat(m) ==
    /\ dups < MaxDup
    /\ dups' = dups + 1
    /\ HandleMessage(To(m), m)
    /\ UNCHANGED <<sent, net>>

Lose(m) ==
    /\ m \in net
    /\ net' = net \ {m}
    /\ UNCHANGED <<rs, sent, inbox, dups>>

SendSome == \E p \in Party : Send(p)

ReceiveSome == \E m \in net : Receive(m)

Next ==
    \/ SendSome
    \/ ReceiveSome
    \/ \E p \in Party : \E m \in sent[p] : Repeat(m)
    \/ \E m \in net : Lose(m)

Spec == Init /\ [][Next]_vars

\* A network that loses and repeats nothing, and a receiver that keeps
\* handling events.
ReliableSpec ==
    /\ Init
    /\ [][SendSome \/ ReceiveSome]_vars
    /\ WF_vars(ReceiveSome)

-----------------------------------------------------------------------------
\* Every message in flight still opens, whatever overtook it and whatever was
\* lost, unless more keys than decrypt is willing to skip are missing.
InFlightOpens ==
    \A m \in net : Decrypt(rs[To(m)], m).result \in {"ok", "too_many"}

\* decrypt hands a message to the user at most once, however often it arrives.
NoDoubleOpen == \A p \in Party : IsInjective(inbox[p])

\* The message keys that can be computed from a state: the cached ones and
\* those of the receiving chain from its current position on.
Derivable(s, mk) ==
    \/ \E k \in s.skipped_message_keys : k.mk = mk
    \/ /\ s.chain_key_recv # None
       /\ s.chain_key_recv.root = mk.root
       /\ s.chain_key_recv.n <= mk.n

\* Forward secrecy: the state a party keeps yields no key of a message it
\* has opened.
OpenedKeysErased ==
    \A p \in Party : \A m \in Range(inbox[p]) : ~ Derivable(rs[p], m.mk)

\* No two messages of the session, of either party, are encrypted under one
\* message key.
MessageKeysUnique ==
    \A m1, m2 \in UNION {sent[p] : p \in Party} : m1.mk = m2.mk => m1 = m2

\* The skipped keys are exactly keys of messages the peer did send and that
\* have not been opened: skip_message_keys neither invents a message nor
\* keeps the key of one that was decrypted.
CachedKeysAwaited ==
    \A p \in Party : \A k \in rs[p].skipped_message_keys :
        \E m \in sent[Peer(p)] :
            /\ m.dh = k.dh /\ m.n = k.n /\ m.mk = k.mk
            /\ m \notin Range(inbox[p])

\* The keys party p caches in a step.
NewlyCached(p) == rs'[p].skipped_message_keys \ rs[p].skipped_message_keys

\* One call caches keys of at most two chains, what is left of the old one and
\* the beginning of the new one, and no more than the limit of either.
CallCachesBounded ==
    [][\A p \in Party :
          /\ Cardinality({k.dh : k \in NewlyCached(p)}) <= 2
          /\ \A chain \in {k.dh : k \in NewlyCached(p)} :
                Cardinality({k \in NewlyCached(p) : k.dh = chain}) <= MaxSkip]_vars

\* The session is an at-most-once datagram channel.
Channel == INSTANCE SecureChannel
ChannelSpec == Channel!ChanSpec

\* Over a network that loses nothing no message is given up: until it is opened
\* it is on its way, and no call of decrypt fails on it.
NothingStranded ==
    \A p \in Party : \A m \in sent[p] : m \in net \/ m \in Range(inbox[Peer(p)])

\* Over a network that loses nothing every message is decrypted in the end.
AllOpened ==
    \A p \in Party : \A g \in 0 .. 2 * MaxSent, i \in 0 .. MaxSent :
        (\E m \in sent[p] : m.dh.gen = g /\ m.n = i)
            ~> (\E m \in Range(inbox[Peer(p)]) : m.dh.gen = g /\ m.n = i)

=============================================================================
