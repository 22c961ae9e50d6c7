---------------------------- MODULE RelayMailbox ----------------------------
(***************************************************************************)
(* What the relay promises: a mailbox per recipient from which a message   *)
(* disappears the moment it expires, the moment it is handed over and the  *)
(* moment its conversation is destroyed, and never otherwise.              *)
(***************************************************************************)
EXTENDS Integers

CONSTANTS
    Key,        \* the recipients
    Blob,       \* the messages: records with fields conv and created_at
    Conv,       \* the conversations
    TTL         \* seconds a message is kept

VARIABLES
    pending,    \* the messages waiting in each mailbox
    handed,     \* the messages each recipient was given
    now         \* the time

mailVars == <<pending, handed, now>>

MailInit ==
    /\ pending = [k \in Key |-> {}]
    /\ handed  = [k \in Key |-> {}]
    /\ now     = 0

\* A message that never was in a mailbox arrives in one.
MailAccept(k) ==
    /\ \E b \in Blob :
          /\ \A r \in Key : b \notin pending[r] \cup handed[r]
          /\ pending' = [pending EXCEPT ![k] = @ \cup {b}]
    /\ UNCHANGED <<handed, now>>

\* The recipient is given all that waits for it.
MailHandOver(k) ==
    /\ handed'  = [handed EXCEPT ![k] = @ \cup pending[k]]
    /\ pending' = [pending EXCEPT ![k] = {}]
    /\ UNCHANGED now

MailDestroy(c) ==
    /\ pending' = [k \in Key |-> {b \in pending[k] : b.conv # c}]
    /\ UNCHANGED <<handed, now>>

MailTick ==
    /\ now'     = now + 1
    /\ pending' = [k \in Key |-> {b \in pending[k] : now' < b.created_at + TTL}]
    /\ UNCHANGED handed

MailNext ==
    \/ \E k \in Key : MailAccept(k) \/ MailHandOver(k)
    \/ \E c \in Conv : MailDestroy(c)
    \/ MailTick

MailSpec == MailInit /\ [][MailNext]_mailVars

=============================================================================
