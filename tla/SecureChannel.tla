---------------------------- MODULE SecureChannel ----------------------------
(***************************************************************************)
(* What an encrypted session promises to its two users: a datagram channel *)
(* in each direction that may lose and reorder messages, but hands over    *)
(* only messages the peer sent, and each of them at most once.             *)
(***************************************************************************)
EXTENDS Sequences, Functions

CONSTANTS
    Party,      \* the two ends
    Peer(_),    \* the other end
    Message     \* what can be sent

VARIABLES
    sent,       \* the messages each end sent
    inbox       \* the messages handed to each end, in order

chanVars == <<sent, inbox>>

ChanInit ==
    /\ sent  = [p \in Party |-> {}]
    /\ inbox = [p \in Party |-> << >>]

\* Any message may be sent, once; it is the one `sent' gains.
ChanSend(p) ==
    /\ \E m \in sent'[p] \ sent[p] :
          /\ m \in Message
          /\ sent' = [sent EXCEPT ![p] = @ \cup {m}]
    /\ UNCHANGED inbox

ChanDeliver(p) ==
    /\ \E m \in sent[Peer(p)] \ Range(inbox[p]) :
          inbox' = [inbox EXCEPT ![p] = Append(@, m)]
    /\ UNCHANGED sent

ChanNext == \E p \in Party : ChanSend(p) \/ ChanDeliver(p)

ChanSpec == ChanInit /\ [][ChanNext]_chanVars

=============================================================================
