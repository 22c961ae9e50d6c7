---------------------------- MODULE Conversation ----------------------------
(***************************************************************************)
(* The conversations of two clients as crates/client/src/lib.rs runs them. *)
(* Each client keeps a map of ratchets in memory.  /send enters an         *)
(* initiator (init_alice) and an incoming message a responder (init_bob)   *)
(* where the conversation has no entry yet; an entry that is there is      *)
(* used, whatever it is.  A client that was restarted begins again with    *)
(* the same identity key while its peer goes on.                           *)
(*                                                                         *)
(* The id of a conversation is a hash of two texts in order: the Ed25519   *)
(* public key of the sender and what its user typed as the recipient.      *)
(* Only if both users type the Ed25519 keys is it the same both ways; the  *)
(* message carries it, and the recipient uses it as it is.                 *)
(*                                                                         *)
(* The network loses and reorders but does not repeat.  A restarted client *)
(* is a new libp2p node: what was under way to it is lost, what it sent    *)
(* may still arrive.  DoubleRatchet is the session of one state; here its  *)
(* random key pairs are numbered over all the lives of a client.           *)
(*                                                                         *)
(* Assumed, though not so at this commit (SendTransmits of ClientTasks):   *)
(* what /send encrypts for a connected peer is handed to the network.      *)
(***************************************************************************)
EXTENDS DoubleRatchet

CONSTANTS
    PublicKey,     \* the Ed25519 key of each party, read as an X25519 key
    Typed,         \* what the user of each party may type as the recipient
    MaxSent,       \* bound: messages each party encrypts
    MaxRestarts    \* bound: restarts of both clients together

\* A key as it is typed: hex::decode reads both cases alike, the hash does not.
Text == [key : Key, form : {"lower", "upper"}]

\* Nobody has the X25519 secret of an Ed25519 key read as an X25519 key.
ASSUME PublicKeyAssumption ==
    /\ PublicKey \in [Party -> [owner : Stranger, gen : Nat]]
    /\ PublicKey[Alice] # PublicKey[Bob]
ASSUME TypedAssumption == Typed \in [Party -> SUBSET Text]
ASSUME EntryAssumption == None \notin RatchetState
ASSUME ConversationBounds == MaxSent \in Nat /\ MaxRestarts \in Nat

\* The conversation id that /send of p derives for the recipient t.
ConvId(p, t) == {[key |-> PublicKey[p], form |-> "lower"], t}

Conv == UNION {{ConvId(p, t) : t \in Typed[p]} : p \in Party}

VARIABLES
    ratchet,   \* the map of each client: the entries of the conversations
    life,      \* how often each client was restarted
    drawn,     \* key pairs each client drew in dh_ratchet, in all its lives
    sent,      \* every packet each client encrypted
    net,       \* packets in flight
    saved,     \* the conversations each client keeps message files of
    heard      \* history: the lives whose packets each entry was given

vars == <<ratchet, life, drawn, sent, net, saved, heard>>

\* A message, its conversation_id, and the life of the client that sent it: this
\* tells messages apart that are encrypted alike.
Packet == [msg : Message, conv : Conv, life : Nat]

From(x) == x.msg.dh.owner

To(x) == Peer(From(x))

TypeOK ==
    /\ ratchet \in [Party -> [Conv -> RatchetState \cup {None}]]
    /\ life \in [Party -> Nat]
    /\ drawn \in [Party -> Nat]
    /\ sent \in [Party -> SUBSET Packet]
    /\ net \in SUBSET Packet
    /\ saved \in [Party -> SUBSET Conv]
    /\ heard \in [Party -> [Conv -> SUBSET Nat]]

Init ==
    /\ ratchet = [p \in Party |-> [c \in Conv |-> None]]
    /\ life    = [p \in Party |-> 0]
    /\ drawn   = [p \in Party |-> 0]
    /\ sent    = [p \in Party |-> {}]
    /\ net     = {}
    /\ saved   = [p \in Party |-> {}]
    /\ heard   = [p \in Party |-> [c \in Conv |-> {}]]

\* HashMap::entry(conv_id).or_insert_with(new)
OrInsert(p, c, new) == IF ratchet[p][c] = None THEN new ELSE ratchet[p][c]

\* variant: a generator that starts over with every life
WithKeyPairAgain(s, g) == s

\* s, which has just turned its ratchet, with its new key pair called number g.
WithKeyPair(s, g) ==
    LET self == [s.dh_self EXCEPT !.gen = g]
        root == [s.root_key EXCEPT !.dh[Len(s.root_key.dh)] = DH(self, s.dh_remote)]
    IN  [s EXCEPT !.dh_self = self, !.root_key = root, !.chain_key_send = Chain(root)]

-----------------------------------------------------------------------------
\* /send of p to what its user typed: the ratchet advances and the text is saved,
\* whether or not there is room in the channel to the swarm.
Send(p, t) ==
    LET c == ConvId(p, t)
        s == OrInsert(p, c, InitAlice(p, t.key))
        e == Encrypt(s)
        x == [msg |-> e.message, conv |-> c, life |-> life[p]]
    IN  /\ CanEncrypt(s)
        /\ Cardinality(sent[p]) < MaxSent
        /\ ratchet' = [ratchet EXCEPT ![p][c] = e.state]
        /\ sent' = [sent EXCEPT ![p] = @ \cup {x}]
        /\ net' \in {net, net \cup {x}}
        /\ saved' = [saved EXCEPT ![p] = @ \cup {c}]
        /\ UNCHANGED <<life, drawn, heard>>

\* What the recipient of x decrypts it with.
EntryOf(x) == OrInsert(To(x), x.conv, InitBob(To(x)))

\* What the decryption of x results in.
Outcome(x) == Decrypt(EntryOf(x), x.msg).result

\* The entry after that.
After(x) ==
    LET t == Decrypt(EntryOf(x), x.msg).state
    IN  IF t.dh_self = EntryOf(x).dh_self THEN t ELSE WithKeyPair(t, drawn[To(x)] + 1)

\* MessageReceived: the entry is made, and kept, even if decrypt fails.
Receive(x) ==
    LET p == To(x) IN
    /\ x \in net
    /\ net' = net \ {x}
    /\ ratchet' = [ratchet EXCEPT ![p][x.conv] = After(x)]
    /\ drawn' = [drawn EXCEPT ![p] = IF After(x).dh_self = EntryOf(x).dh_self THEN @ ELSE @ + 1]
    /\ heard' = [heard EXCEPT ![p][x.conv] = @ \cup {x.life}]
    /\ UNCHANGED <<life, sent, saved>>

Lose(x) ==
    /\ x \in net
    /\ net' = net \ {x}
    /\ UNCHANGED <<ratchet, life, drawn, sent, saved, heard>>

\* The client ends, by /exit or otherwise, and is started again.
Restart(p) ==
    /\ \E c \in Conv : ratchet[p][c] # None
    /\ life[Alice] + life[Bob] < MaxRestarts
    /\ ratchet' = [ratchet EXCEPT ![p] = [c \in Conv |-> None]]
    /\ life' = [life EXCEPT ![p] = @ + 1]
    /\ net' = {x \in net : To(x) # p}
    /\ heard' = [heard EXCEPT ![p] = [c \in Conv |-> {}]]
    /\ UNCHANGED <<drawn, sent, saved>>

\* /delete: the message files.
Delete(p, c) ==
    /\ c \in saved[p]
    /\ saved' = [saved EXCEPT ![p] = @ \ {c}]
    /\ UNCHANGED <<ratchet, life, drawn, sent, net, heard>>

Next ==
    \/ \E p \in Party : \E t \in Typed[p] : Send(p, t)
    \/ \E x \in net : Receive(x) \/ Lose(x)
    \/ \E p \in Party : Restart(p)
    \/ \E p \in Party, c \in Conv : Delete(p, c)

Spec == Init /\ [][Next]_vars

-----------------------------------------------------------------------------
\* Packet x opens, or is beyond the skip limit, unless the entry it meets was given
\* packets of another life of the sender.
Works(x) ==
    heard[To(x)][x.conv] \subseteq {x.life} => Outcome(x) \in {"ok", "too_many"}

\* Client p has sent in conversation c since it was started.
HasSent(p, c) == \E y \in sent[p] : y.conv = c /\ y.life = life[p]

\* TOR_COMMUNICATIONS_GUIDE.md:75, of /send: "Send end-to-end encrypted messages to
\* your remote peer using their 64-character public key".  What one side sends
\* opens at one that has sent nothing in the conversation itself, whatever is lost
\* or overtaken.
SessionWorks == \A x \in net : ~ HasSent(To(x), x.conv) => Works(x)

\* The same of what is sent to the X25519 key of the peer, with no condition on what
\* the peer sends: whatever it types, its messages are of other conversations.
\* Restarts of the recipient do no harm, and those of the sender none until messages
\* of two lives meet at one entry.
X25519SessionsWork ==
    \A x \in net :
        (\E t \in Typed[From(x)] :
            t.key = IdentityKey(To(x)) /\ x.conv = ConvId(From(x), t)) => Works(x)

\* Two packets are encrypted under one key only in the first chain of an
\* initiator, which depends on nothing but the two keys and the seed, not on the
\* conversation: when both sides initiate, when one initiates again in another life,
\* or to the same key typed in another way.  After a turn of the ratchet a key is
\* never used again, in whatever life or conversation.
KeysReusedInFirstChainOnly ==
    \A x, y \in sent[Alice] \cup sent[Bob] :
        x.msg.mk = y.msg.mk =>
            \/ x = y
            \/ /\ x.msg.dh = IdentityKey(From(x)) /\ y.msg.dh = IdentityKey(From(y))
               /\ From(x) # From(y) \/ x.life # y.life \/ x.conv # y.conv

=============================================================================
