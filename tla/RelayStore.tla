----------------------------- MODULE RelayStore -----------------------------
(***************************************************************************)
(* The fallback relay: the HTTP handlers of crates/relay/src/lib.rs over   *)
(* the MemoryStore of crates/relay/src/store.rs.  axum runs the handlers   *)
(* on several threads; the store is two maps behind a mutex each, and      *)
(* process_destruction_signal takes the second mutex while it holds the    *)
(* first.  A critical section is one step, entered by a step of its own:   *)
(* what happens inside is invisible to the other threads.                  *)
(*                                                                         *)
(* A Vec in a map is the set of its elements, which are all different:     *)
(* every request makes a new message or signal, named by the number of the *)
(* request, and of a signal the two copies that are pushed are told apart. *)
(* A missing entry is the empty set: no operation tells the two apart.     *)
(*                                                                         *)
(* Messages are kept for names of 64 characters only (the handler refuses  *)
(* others), so a poll by another name finds nothing and is left out.  A    *)
(* signal may come from any name that is not empty, the one of the         *)
(* wildcard entry included, and anyone may poll for one.  A request the    *)
(* handlers refuse with 400, and the health check, leave everything as it  *)
(* is and are left out.  The clock never steps back.                       *)
(***************************************************************************)
EXTENDS Integers, FiniteSets

CONSTANTS
    Thread,         \* the threads that run handlers
    Key,            \* well-formed public keys
    Broadcast,      \* "broadcast", the name of the wildcard entry of the signals map
    Conv,           \* the conversations
    Members,        \* who takes part in each conversation
    Free,           \* no thread: a mutex that is not held
    CreatedAt,      \* bound: the created_at a client may put in a message
    TTL,            \* TTL_SECONDS
    MaxTime,        \* bound: the clock
    MaxRequests     \* bound: requests

ASSUME BroadcastAssumption == Broadcast \notin Key
ASSUME FreeAssumption == Free \notin Thread
ASSUME MembersAssumption == Members \in [Conv -> SUBSET Key]
ASSUME CreatedAtAssumption == CreatedAt \subseteq Nat
ASSUME TTLAssumption == TTL \in Nat \ {0}
ASSUME MaxTimeAssumption == MaxTime \in Nat
ASSUME MaxRequestsAssumption == MaxRequests \in Nat

VARIABLES
    messages,   \* the messages map
    signals,    \* the signals map
    msgLock,    \* the thread that holds the mutex of each map
    sigLock,
    job,        \* the request each thread handles
    pc,         \* and how far it is
    now,        \* SystemTime::now
    requests,   \* requests so far
    acked,      \* messages the relay answered 200 to
    voided,     \* messages acknowledged before a purge of their conversation
    handed,     \* messages each recipient was given
    got         \* copies of signals each name was given

vars == <<messages, signals, msgLock, sigLock, job, pc, now, requests,
          acked, voided, handed, got>>

history == <<acked, voided, handed, got>>

\* EncryptedMessageBlob; the relay reads no other field.
Blob == [id : 1 .. MaxRequests, to : Key, conv : Conv, created_at : CreatedAt]

\* What a request may call its sender or its recipient, for the signals.
Name == Key \cup {Broadcast}

\* KeyDestructionSignal, by whatever name its sender gives, and which messages of
\* the conversation had been acknowledged when it was sent.
Signal == [id : 1 .. MaxRequests, conv : Conv, requester : Name, due : SUBSET Blob]

\* The copies of it the signals map holds: the requester's own and the wildcard.
Copy == [signal : Signal, own : BOOLEAN]
OwnCopy(s) == [signal |-> s, own |-> TRUE]
WildcardCopy(s) == [signal |-> s, own |-> FALSE]

\* The handlers with their argument.
Job ==
    [op : {"none"}]
    \cup [op : {"send"}, blob : Blob]
    \cup [op : {"poll"}, key : Key]
    \cup [op : {"destroy"}, signal : Signal]
    \cup [op : {"signals"}, key : Name]

NoJob == [op |-> "none"]

Pc == {"idle", "start", "in_messages", "purged", "in_signals"}

TypeOK ==
    /\ messages \in [Key -> SUBSET Blob]
    /\ signals \in [Name -> SUBSET Copy]
    /\ msgLock \in Thread \cup {Free}
    /\ sigLock \in Thread \cup {Free}
    /\ job \in [Thread -> Job]
    /\ pc \in [Thread -> Pc]
    /\ now \in 0 .. MaxTime
    /\ requests \in 0 .. MaxRequests
    /\ acked \in SUBSET Blob
    /\ voided \in SUBSET Blob
    /\ handed \in [Key -> SUBSET Blob]
    /\ got \in [Name -> SUBSET Copy]

Init ==
    /\ messages = [k \in Key |-> {}]
    /\ signals  = [k \in Name |-> {}]
    /\ msgLock  = Free
    /\ sigLock  = Free
    /\ job      = [t \in Thread |-> NoJob]
    /\ pc       = [t \in Thread |-> "idle"]
    /\ now      = 0
    /\ requests = 0
    /\ acked    = {}
    /\ voided   = {}
    /\ handed   = [k \in Key |-> {}]
    /\ got      = [k \in Name |-> {}]

-----------------------------------------------------------------------------
\* Requests arrive.

Start(t, j) ==
    /\ pc[t] = "idle"
    /\ requests < MaxRequests
    /\ requests' = requests + 1
    /\ job' = [job EXCEPT ![t] = j]
    /\ pc'  = [pc EXCEPT ![t] = "start"]
    /\ UNCHANGED <<messages, signals, msgLock, sigLock, now, history>>

SendMessage(t) ==
    \E k \in Key, c \in Conv, at \in CreatedAt :
        Start(t, [op |-> "send", blob |-> [id |-> requests + 1, to |-> k,
                                           conv |-> c, created_at |-> at]])

PollMessages(t) ==
    \E k \in Key : Start(t, [op |-> "poll", key |-> k])

DestroyKeys(t) ==
    \E c \in Conv, k \in Name :
        Start(t, [op |-> "destroy", signal |->
                     [id |-> requests + 1, conv |-> c, requester |-> k,
                      due |-> {b \in acked : b.conv = c}]])

PollSignals(t) ==
    \E k \in Name : Start(t, [op |-> "signals", key |-> k])

-----------------------------------------------------------------------------
\* The mutexes.

At(t, op, stage) == job[t].op = op /\ pc[t] = stage

Step(t, stage) == pc' = [pc EXCEPT ![t] = stage] /\ job' = job

Answer(t) ==
    /\ pc'  = [pc EXCEPT ![t] = "idle"]
    /\ job' = [job EXCEPT ![t] = NoJob]

NeedsMessages(t) == \E op \in {"send", "poll", "destroy"} : At(t, op, "start")

LockMessages(t) ==
    /\ NeedsMessages(t)
    /\ msgLock = Free
    /\ msgLock' = t
    /\ Step(t, "in_messages")
    /\ UNCHANGED <<messages, signals, sigLock, now, requests, history>>

NeedsSignals(t) == At(t, "destroy", "purged") \/ At(t, "signals", "start")

LockSignals(t) ==
    /\ NeedsSignals(t)
    /\ sigLock = Free
    /\ sigLock' = t
    /\ Step(t, "in_signals")
    /\ UNCHANGED <<messages, signals, msgLock, now, requests, history>>

-----------------------------------------------------------------------------
\* The operations of the store.

\* variant: a subtraction that wraps where the code saturates
AgeWrapping(b) == IF b.created_at > now THEN TTL ELSE now - b.created_at

\* now.saturating_sub(created_at)
Age(b) == IF b.created_at > now THEN 0 ELSE now - b.created_at

\* variant: a message expires one second late
FreshOffByOne(b) == Age(b) <= TTL

Fresh(b) == Age(b) < TTL

\* variant: a message is filed under the id of its conversation
AddMessageByConversation(t) ==
    /\ At(t, "send", "in_messages")
    /\ LET b == job[t].blob
       IN  /\ messages' = [k \in Key \cup {b.conv} |->
                 IF k = b.conv THEN {b} ELSE {m \in messages[k] : Fresh(m)}]
           /\ acked'    = acked \cup {b}
    /\ msgLock' = Free
    /\ Answer(t)
    /\ UNCHANGED <<signals, sigLock, now, requests, voided, handed, got>>

AddMessage(t) ==
    /\ At(t, "send", "in_messages")
    /\ LET b == job[t].blob
       IN  /\ messages' = [messages EXCEPT ![b.to] = {m \in @ : Fresh(m)} \cup {b}]
           /\ acked'    = acked \cup {b}
    /\ msgLock' = Free
    /\ Answer(t)
    /\ UNCHANGED <<signals, sigLock, now, requests, voided, handed, got>>

\* variant: HashMap::get where the code has HashMap::remove
FetchMessagesKept(t) ==
    /\ At(t, "poll", "in_messages")
    /\ LET k == job[t].key
       IN  handed' = [handed EXCEPT ![k] = @ \cup {m \in messages[k] : Fresh(m)}]
    /\ msgLock' = Free
    /\ Answer(t)
    /\ UNCHANGED <<messages, signals, sigLock, now, requests, acked, voided, got>>

FetchMessages(t) ==
    /\ At(t, "poll", "in_messages")
    /\ LET k == job[t].key
       IN  /\ handed'   = [handed EXCEPT ![k] = @ \cup {m \in messages[k] : Fresh(m)}]
           /\ messages' = [messages EXCEPT ![k] = {}]
    /\ msgLock' = Free
    /\ Answer(t)
    /\ UNCHANGED <<signals, sigLock, now, requests, acked, voided, got>>

\* variant: only the queue of the requester is purged
PurgeOwn(t) ==
    /\ At(t, "destroy", "in_messages")
    /\ LET s == job[t].signal
       IN  /\ messages' = [messages EXCEPT ![s.requester] = {m \in @ : m.conv # s.conv}]
           /\ voided'   = voided \cup {b \in acked : b.conv = s.conv}
    /\ Step(t, "purged")
    /\ UNCHANGED <<signals, msgLock, sigLock, now, requests, acked, handed, got>>

\* process_destruction_signal up to its second lock: the messages stay locked.
Purge(t) ==
    /\ At(t, "destroy", "in_messages")
    /\ LET s == job[t].signal
       IN  /\ messages' = [k \in Key |-> {m \in messages[k] : m.conv # s.conv}]
           /\ voided'   = voided \cup {b \in acked : b.conv = s.conv}
    /\ Step(t, "purged")
    /\ UNCHANGED <<signals, msgLock, sigLock, now, requests, acked, handed, got>>

\* variant: the messages stay locked
QueueSignalLocked(t) ==
    /\ At(t, "destroy", "in_signals")
    /\ LET s == job[t].signal
       IN  signals' = [signals EXCEPT ![s.requester] = @ \cup {OwnCopy(s)},
                                      ![Broadcast]   = @ \cup {WildcardCopy(s)}]
    /\ sigLock' = Free
    /\ Answer(t)
    /\ UNCHANGED <<messages, msgLock, now, requests, history>>

\* The rest of process_destruction_signal; both guards are dropped at its end.
QueueSignal(t) ==
    /\ At(t, "destroy", "in_signals")
    /\ LET s == job[t].signal
       IN  signals' = [signals EXCEPT ![s.requester] = @ \cup {OwnCopy(s)},
                                      ![Broadcast]   = @ \cup {WildcardCopy(s)}]
    /\ sigLock' = Free
    /\ msgLock' = Free
    /\ Answer(t)
    /\ UNCHANGED <<messages, now, requests, history>>

\* variant: the broadcast entry is not filtered
BroadcastForAll(k) == signals[Broadcast]

\* The broadcast signals k is given: those of the others.  For the name of the
\* entry itself there are none: it has just been removed.
BroadcastFor(k) ==
    {c \in signals[Broadcast] : k # Broadcast /\ c.signal.requester # k}

\* What a poll by k returns.
SignalsFor(k) == signals[k] \cup BroadcastFor(k)

\* The broadcast entry is drained, what the filter rejects included.
FetchSignals(t) ==
    /\ At(t, "signals", "in_signals")
    /\ LET k == job[t].key
       IN  /\ got'     = [got EXCEPT ![k] = @ \cup SignalsFor(k)]
           /\ signals' = [signals EXCEPT ![k] = {}, ![Broadcast] = {}]
    /\ sigLock' = Free
    /\ Answer(t)
    /\ UNCHANGED <<messages, msgLock, now, requests, acked, voided, handed>>

Tick ==
    /\ now < MaxTime
    /\ now' = now + 1
    /\ UNCHANGED <<messages, signals, msgLock, sigLock, job, pc, requests, history>>

-----------------------------------------------------------------------------
Request(t) ==
    SendMessage(t) \/ PollMessages(t) \/ DestroyKeys(t) \/ PollSignals(t)

\* A step of a handler that runs.
Handle(t) ==
    \/ LockMessages(t) \/ AddMessage(t) \/ FetchMessages(t)
    \/ Purge(t) \/ LockSignals(t) \/ QueueSignal(t) \/ FetchSignals(t)

Next == Tick \/ \E t \in Thread : Request(t) \/ Handle(t)

\* A thread that can take its next step takes it in the end.  Requests are
\* finitely many, so this does not ask the mutexes to be fair.
Spec == Init /\ [][Next]_vars /\ \A t \in Thread : WF_vars(Handle(t))

-----------------------------------------------------------------------------
Stored == UNION {messages[k] : k \in Key}

Handed == UNION {handed[k] : k \in Key}

\* Two polls never return the same message.
HandedOnce == Stored \cap Handed = {}

\* A message the relay acknowledged waits for its recipient until it is
\* handed over, expires, or its conversation is destroyed.
NothingLost ==
    \A b \in acked :
        \/ b \in messages[b.to] \cup handed[b.to] \cup voided
        \/ b.created_at + TTL <= now

\* Whoever can see a destruction signal, or has seen it, can rely on this: the
\* messages acknowledged before it was sent are not in the store any more.
SignalMeansPurged ==
    \A c \in UNION {signals[k] \cup got[k] : k \in Name} :
        c.signal.due \cap Stored = {}

\* No poll by a name returns what an earlier one returned, and of the two copies
\* of a signal none is given both, unless the signal calls its requester
\* "broadcast": then both are in the entry everyone polls.
SignalOnce ==
    \A k \in Name :
        /\ got[k] \cap SignalsFor(k) = {}
        /\ \A c, d \in got[k] \cup SignalsFor(k) :
              c # d /\ c.signal = d.signal => c.signal.requester = Broadcast

\* A thread inside a critical section, or in front of a mutex that is free.
CanGoOn(t) ==
    \/ pc[t] \in {"in_messages", "in_signals"}
    \/ NeedsMessages(t) /\ msgLock = Free
    \/ NeedsSignals(t) /\ sigLock = Free

\* The handlers never wait for each other in a circle, and none is gone with a
\* mutex: as long as there is a request, the handler of one can go on.
NoCircle == (\E t \in Thread : pc[t] # "idle") => \E t \in Thread : CanGoOn(t)

\* Every request is answered: the handlers never wait for each other in a
\* circle and leave no mutex locked.
EveryRequestAnswered == \A t \in Thread : pc[t] # "idle" ~> pc[t] = "idle"

\* Purging lazily, whenever a queue is touched, looks like forgetting every
\* message the moment it expires.
Mailbox == INSTANCE RelayMailbox
    WITH pending <- [k \in Key |-> {b \in messages[k] : now < b.created_at + TTL}]
MailboxSpec == Mailbox!MailSpec

\* store.rs:46, of process_destruction_signal: "Queues signal for sender and
\* recipient."  Each other member of the conversation has been given the
\* signal or finds it at its next poll.
CounterpartNotified ==
    \A c \in UNION {signals[k] \cup got[k] : k \in Name} :
        c.signal.requester \in Members[c.signal.conv] =>
            \A k \in Members[c.signal.conv] \ {c.signal.requester} :
                \E d \in got[k] \cup SignalsFor(k) : d.signal = c.signal

=============================================================================
