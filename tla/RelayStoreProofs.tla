-------------------------- MODULE RelayStoreProofs --------------------------
(***************************************************************************)
(* Theorems of RelayStore for every set of threads, keys and               *)
(* conversations, every client clock and every number of requests.         *)
(***************************************************************************)
EXTENDS RelayStore, TLAPS

-----------------------------------------------------------------------------
\* Types.

\* What the argument of a request is, by its operation.
LEMMA JobFields ==
    ASSUME NEW j \in Job
    PROVE  /\ j.op = "send" => j.blob \in Blob
           /\ j.op = "destroy" => j.signal \in Signal
           /\ j.op = "poll" => j.key \in Key
           /\ j.op = "signals" => j.key \in Name
  BY DEF Job

\* The next request number is a number, and within the bound.
LEMMA NextRequest ==
    ASSUME TypeOK, requests < MaxRequests
    PROVE  /\ requests \in Nat /\ requests + 1 \in 1 .. MaxRequests
           /\ requests + 1 \in 0 .. MaxRequests
  BY MaxRequestsAssumption DEF TypeOK

\* A request that starts is a job.
LEMMA StartType ==
    ASSUME TypeOK, NEW t \in Thread, NEW j \in Job, Start(t, j)
    PROVE  TypeOK'
  BY NextRequest DEF TypeOK, Start, history, Pc

\* A destroy request carries a new signal.
LEMMA DestroyJob ==
    ASSUME TypeOK, NEW t \in Thread, DestroyKeys(t)
    PROVE  \E c \in Conv, k \in Name :
              LET s == [id |-> requests + 1, conv |-> c, requester |-> k,
                        due |-> {b \in acked : b.conv = c}]
                  j == [op |-> "destroy", signal |-> s]
              IN  s \in Signal /\ j \in Job /\ j.op = "destroy" /\ Start(t, j)
<1>1. PICK c \in Conv, k \in Name :
         Start(t, [op |-> "destroy", signal |->
                      [id |-> requests + 1, conv |-> c, requester |-> k,
                       due |-> {b \in acked : b.conv = c}]])
  BY DEF DestroyKeys
<1>2. [id |-> requests + 1, conv |-> c, requester |-> k,
       due |-> {b \in acked : b.conv = c}] \in Signal
  BY <1>1, NextRequest DEF Start, Signal, TypeOK
<1>. QED
  BY <1>1, <1>2 DEF Job

\* A send request carries a message.
LEMMA SendJob ==
    ASSUME TypeOK, NEW t \in Thread, SendMessage(t)
    PROVE  \E j \in Job : Start(t, j) /\ j.op = "send"
<1>1. PICK k \in Key, c \in Conv, at \in CreatedAt :
         Start(t, [op |-> "send", blob |-> [id |-> requests + 1, to |-> k,
                                            conv |-> c, created_at |-> at]])
  BY DEF SendMessage
<1>2. [id |-> requests + 1, to |-> k, conv |-> c, created_at |-> at] \in Blob
  BY <1>1, NextRequest DEF Start, Blob
<1>. QED
  BY <1>1, <1>2 DEF Job

\* A thread that takes a request keeps the types.
LEMMA RequestType ==
    ASSUME TypeOK, NEW t \in Thread, Request(t)
    PROVE  TypeOK'
<1>1. CASE SendMessage(t)
  BY <1>1, SendJob, StartType
<1>2. CASE PollMessages(t)
  BY <1>2, StartType DEF PollMessages, Job
<1>3. CASE DestroyKeys(t)
  BY <1>3, DestroyJob, StartType
<1>4. CASE PollSignals(t)
  BY <1>4, StartType DEF PollSignals, Job
<1>. QED
  BY <1>1, <1>2, <1>3, <1>4 DEF Request

\* A step of a handler keeps the types.
LEMMA HandleType ==
    ASSUME TypeOK, NEW t \in Thread, Handle(t)
    PROVE  TypeOK'
<1>. USE DEF At
<1>0. job[t] \in Job
  BY DEF TypeOK
<1>1. CASE LockMessages(t)
  BY <1>1 DEF TypeOK, LockMessages, Step, history, Pc
<1>2. CASE AddMessage(t)
  <2>1. job[t].blob \in Blob /\ job[t].blob.to \in Key
    BY <1>0, <1>2, JobFields DEF AddMessage, Blob
  <2>2. messages' \in [Key -> SUBSET Blob] /\ acked' \in SUBSET Blob
    BY <1>2, <2>1 DEF TypeOK, AddMessage
  <2>. QED
    BY <1>2, <2>2 DEF TypeOK, AddMessage, Answer, NoJob, Job, Pc
<1>3. CASE FetchMessages(t)
  <2>1. job[t].key \in Key
    BY <1>0, <1>3, JobFields DEF FetchMessages
  <2>2. messages' \in [Key -> SUBSET Blob] /\ handed' \in [Key -> SUBSET Blob]
    BY <1>3, <2>1 DEF TypeOK, FetchMessages
  <2>. QED
    BY <1>3, <2>2 DEF TypeOK, FetchMessages, Answer, NoJob, Job, Pc
<1>4. CASE Purge(t)
  BY <1>4 DEF TypeOK, Purge, Step, Pc
<1>5. CASE LockSignals(t)
  BY <1>5 DEF TypeOK, LockSignals, Step, history, Pc
<1>6. CASE QueueSignal(t)
  <2>1. /\ OwnCopy(job[t].signal) \in Copy
        /\ WildcardCopy(job[t].signal) \in Copy
    BY <1>0, <1>6, JobFields DEF QueueSignal, Copy, OwnCopy, WildcardCopy
  <2>2. signals' \in [Name -> SUBSET Copy]
    BY <1>6, <2>1 DEF TypeOK, QueueSignal
  <2>. QED
    BY <1>6, <2>2 DEF TypeOK, QueueSignal, Answer, NoJob, Job, Pc, history
<1>7. CASE FetchSignals(t)
  <2>1. job[t].key \in Name /\ Broadcast \in Name
    BY <1>0, <1>7, JobFields DEF FetchSignals, Name
  <2>2. SignalsFor(job[t].key) \subseteq Copy
    BY <2>1 DEF TypeOK, SignalsFor, BroadcastFor
  <2>3. /\ signals' \in [Name -> SUBSET Copy]
        /\ got' \in [Name -> SUBSET Copy]
    BY <1>7, <2>1, <2>2 DEF TypeOK, FetchSignals
  <2>. QED
    BY <1>7, <2>3 DEF TypeOK, FetchSignals, Answer, NoJob, Job, Pc
<1>. QED
  BY <1>1, <1>2, <1>3, <1>4, <1>5, <1>6, <1>7 DEF Handle

\* The types hold in the initial state.
LEMMA TypeInit == Init => TypeOK
  BY MaxTimeAssumption, MaxRequestsAssumption DEF Init, TypeOK, NoJob, Job, Pc

\* Every step keeps the types.
LEMMA TypeStep == TypeOK /\ [Next]_vars => TypeOK'
<1>. SUFFICES ASSUME TypeOK, [Next]_vars
              PROVE  TypeOK'
  OBVIOUS
<1>1. CASE Tick
  BY <1>1, MaxTimeAssumption DEF Tick, TypeOK, history
<1>2. ASSUME NEW t \in Thread, Request(t) \/ Handle(t)
      PROVE  TypeOK'
  BY <1>2, RequestType, HandleType
<1>3. CASE UNCHANGED vars
  BY <1>3 DEF vars, TypeOK
<1>. QED
  BY <1>1, <1>2, <1>3 DEF Next

\* The maps of the relay hold messages and signals, and nothing else, whatever
\* the threads do to them.
THEOREM RelayTypes == Spec => []TypeOK
  BY TypeInit, TypeStep, PTL DEF Spec

-----------------------------------------------------------------------------
\* Messages: none is handed over twice and none is lost.

\* The inductive invariant.  Every message in a map was acknowledged, is filed
\* under its recipient, and has not been handed over; the message of a request
\* that waits for its turn is like no other; and NothingLost.
MessageInv ==
    /\ \A k \in Key : \A b \in messages[k] :
          b.to = k /\ b \in acked /\ b \notin handed[k]
    /\ \A k \in Key : \A b \in handed[k] : b.to = k /\ b \in acked
    /\ \A b \in acked : b.id <= requests
    /\ \A t \in Thread : job[t].op = "send" =>
          job[t].blob.id <= requests /\ job[t].blob \notin acked
    /\ \A t, u \in Thread :
          t # u /\ job[t].op = "send" /\ job[u].op = "send" => job[t].blob # job[u].blob
    /\ NothingLost

\* MessageInv holds in the initial state.
LEMMA MessageInit == Init => MessageInv
  BY DEF Init, MessageInv, NothingLost, NoJob

\* A request other than send disturbs no message.
LEMMA StartMessage ==
    ASSUME TypeOK, MessageInv, NEW t \in Thread, NEW j \in Job, j.op # "send",
           Start(t, j)
    PROVE  MessageInv'
<1>1. \A u \in Thread : job'[u].op = "send" => u # t /\ job'[u] = job[u]
  BY DEF Start, TypeOK
<1>2. requests \in Nat /\ requests' = requests + 1
  BY NextRequest DEF Start
<1>3. UNCHANGED <<messages, handed, acked, voided, now>>
  BY DEF Start, history
<1>4. \A b \in acked : b.id \in Nat
  BY DEF TypeOK, Blob
<1>5. \A u \in Thread : job[u].op = "send" => job[u].blob.id \in Nat
  BY JobFields DEF TypeOK, Blob
<1>6. (\A b \in acked : b.id <= requests)'
  BY <1>2, <1>3, <1>4 DEF MessageInv
<1>7. (\A u \in Thread : job[u].op = "send" =>
          job[u].blob.id <= requests /\ job[u].blob \notin acked)'
  BY <1>1, <1>2, <1>3, <1>5 DEF MessageInv
<1>8. (\A u, v \in Thread : u # v /\ job[u].op = "send" /\ job[v].op = "send"
                                => job[u].blob # job[v].blob)'
  BY <1>1 DEF MessageInv
<1>9. NothingLost'
  BY <1>3 DEF MessageInv, NothingLost
<1>. QED
  BY <1>3, <1>6, <1>7, <1>8, <1>9 DEF MessageInv

\* The message of a new send request has a number no message has yet.
LEMMA SendMessageInv ==
    ASSUME TypeOK, MessageInv, NEW t \in Thread, SendMessage(t)
    PROVE  MessageInv'
<1>1. PICK k \in Key, c \in Conv, at \in CreatedAt :
         Start(t, [op |-> "send", blob |-> [id |-> requests + 1, to |-> k,
                                            conv |-> c, created_at |-> at]])
  BY DEF SendMessage
<1>. DEFINE b == [id |-> requests + 1, to |-> k, conv |-> c, created_at |-> at]
<1>2. requests \in Nat /\ requests' = requests + 1
  BY <1>1, NextRequest DEF Start
<1>3. UNCHANGED <<messages, handed, acked, voided, now>>
  BY <1>1 DEF Start, history
<1>4. /\ job'[t].op = "send" /\ job'[t].blob = b
      /\ \A u \in Thread \ {t} : job'[u] = job[u]
  BY <1>1 DEF Start, TypeOK
<1>5. b.id = requests + 1
  OBVIOUS
<1>. HIDE DEF b
<1>6. \A x \in acked : x.id \in Nat /\ x.id <= requests
  BY DEF TypeOK, Blob, MessageInv
<1>7. \A u \in Thread : job[u].op = "send" =>
         job[u].blob.id \in Nat /\ job[u].blob.id <= requests
  BY JobFields DEF TypeOK, Blob, MessageInv
<1>8. (\A x \in acked : x.id <= requests)'
  BY <1>2, <1>3, <1>6
<1>9. (\A u \in Thread : job[u].op = "send" =>
          job[u].blob.id <= requests /\ job[u].blob \notin acked)'
  <2>1. b \notin acked
    BY <1>2, <1>5, <1>6
  <2>2. ASSUME NEW u \in Thread, job'[u].op = "send"
        PROVE  job'[u].blob.id <= requests' /\ job'[u].blob \notin acked'
    <3>1. CASE u = t
      BY <1>2, <1>3, <1>4, <1>5, <2>1, <3>1
    <3>2. CASE u # t
      BY <1>2, <1>3, <1>4, <1>7, <2>2, <3>2 DEF MessageInv
    <3>. QED
      BY <3>1, <3>2
  <2>. QED
    BY <2>2
<1>10. (\A u, v \in Thread : u # v /\ job[u].op = "send" /\ job[v].op = "send"
                                 => job[u].blob # job[v].blob)'
  <2>1. \A u \in Thread \ {t} : job[u].op = "send" => job[u].blob # b
    BY <1>2, <1>5, <1>7
  <2>. QED
    BY <1>4, <2>1 DEF MessageInv
<1>11. NothingLost'
  BY <1>3 DEF MessageInv, NothingLost
<1>. QED
  BY <1>3, <1>8, <1>9, <1>10, <1>11 DEF MessageInv

\* Steps that leave messages and pending messages alone.
LEMMA UntouchedMessage ==
    ASSUME TypeOK, MessageInv,
           UNCHANGED <<messages, requests, now, acked, voided, handed>>,
           \A t \in Thread : job'[t].op = "send" => job'[t] = job[t]
    PROVE  MessageInv'
  BY DEF MessageInv, NothingLost

\* The time of a message, and the last moment it may be handed over, are numbers.
LEMMA BlobTime ==
    ASSUME NEW b \in Blob
    PROVE  b.created_at \in Nat /\ TTL \in Nat \ {0} /\ b.created_at + TTL \in Nat
<1>1. b.created_at \in CreatedAt
  BY DEF Blob
<1>2. b.created_at \in Nat
  BY <1>1, CreatedAtAssumption
<1>3. TTL \in Nat \ {0}
  BY TTLAssumption
<1>. QED
  BY <1>2, <1>3

\* The clock shows a number.
LEMMA ClockType == TypeOK => now \in Nat
  BY MaxTimeAssumption DEF TypeOK

\* A message that is not fresh has expired for good.
LEMMA NotFresh ==
    ASSUME TypeOK, NEW b \in Blob, ~ Fresh(b)
    PROVE  b.created_at + TTL <= now
<1>1. now \in Nat /\ TTL \in Nat \ {0} /\ b.created_at \in Nat
  BY BlobTime, ClockType
<1>. QED
  BY <1>1 DEF Fresh, Age

\* add_message keeps MessageInv.
LEMMA AddMessageInv ==
    ASSUME TypeOK, MessageInv, NEW t \in Thread, AddMessage(t)
    PROVE  MessageInv'
<1>. DEFINE b == job[t].blob
<1>1. b \in Blob /\ b.to \in Key /\ job[t].op = "send"
  BY JobFields DEF AddMessage, At, TypeOK, Blob
<1>2. /\ messages' = [messages EXCEPT ![b.to] = {m \in messages[b.to] : Fresh(m)} \cup {b}]
      /\ acked' = acked \cup {b}
      /\ UNCHANGED <<requests, now, voided, handed>>
  BY DEF AddMessage
<1>3. \A u \in Thread : job'[u].op = "send" => u # t /\ job'[u] = job[u]
  BY DEF AddMessage, Answer, NoJob, TypeOK
<1>4. b \notin acked /\ b.id <= requests
  BY <1>1 DEF MessageInv
<1>. HIDE DEF b
<1>5. (\A k \in Key : \A m \in messages[k] : m.to = k /\ m \in acked /\ m \notin handed[k])'
  BY <1>1, <1>2, <1>4 DEF MessageInv, TypeOK
<1>6. (\A k \in Key : \A m \in handed[k] : m.to = k /\ m \in acked)'
  BY <1>2 DEF MessageInv
<1>7. (\A m \in acked : m.id <= requests)'
  BY <1>2, <1>4 DEF MessageInv
<1>8. (\A u \in Thread : job[u].op = "send" =>
          job[u].blob.id <= requests /\ job[u].blob \notin acked)'
  BY <1>1, <1>2, <1>3 DEF MessageInv, b
<1>9. (\A u, v \in Thread : u # v /\ job[u].op = "send" /\ job[v].op = "send"
                                => job[u].blob # job[v].blob)'
  BY <1>3 DEF MessageInv
<1>10. NothingLost'
  <2>. SUFFICES ASSUME NEW m \in acked'
                PROVE  \/ m \in messages'[m.to] \cup handed'[m.to] \cup voided'
                       \/ m.created_at + TTL <= now'
    BY DEF NothingLost
  <2>1. CASE m = b
    BY <1>1, <1>2, <2>1 DEF TypeOK
  <2>2. CASE m # b
    <3>1. m \in acked /\ m \in Blob
      BY <1>2, <2>2 DEF TypeOK
    <3>2. m.to \in Key
      BY <3>1 DEF Blob
    <3>3. \/ m \in messages[m.to] \cup handed[m.to] \cup voided
          \/ m.created_at + TTL <= now
      BY <3>1 DEF MessageInv, NothingLost
    <3>4. m \in messages[m.to] /\ Fresh(m) => m \in messages'[m.to]
      BY <1>1, <1>2, <3>2 DEF TypeOK
    <3>. QED
      BY <1>2, <3>1, <3>3, <3>4, NotFresh
  <2>. QED
    BY <2>1, <2>2
<1>. QED
  BY <1>5, <1>6, <1>7, <1>8, <1>9, <1>10 DEF MessageInv

\* fetch_messages keeps MessageInv.
LEMMA FetchMessagesInv ==
    ASSUME TypeOK, MessageInv, NEW t \in Thread, FetchMessages(t)
    PROVE  MessageInv'
<1>. DEFINE k == job[t].key
<1>1. k \in Key
  BY JobFields DEF FetchMessages, At, TypeOK
<1>2. /\ handed' = [handed EXCEPT ![k] = handed[k] \cup {m \in messages[k] : Fresh(m)}]
      /\ messages' = [messages EXCEPT ![k] = {}]
      /\ UNCHANGED <<requests, now, acked, voided>>
  BY DEF FetchMessages
<1>3. \A u \in Thread : job'[u].op = "send" => job'[u] = job[u]
  BY DEF FetchMessages, Answer, NoJob, TypeOK
<1>. HIDE DEF k
<1>4. /\ (\A r \in Key : \A m \in messages[r] : m.to = r /\ m \in acked /\ m \notin handed[r])'
      /\ (\A r \in Key : \A m \in handed[r] : m.to = r /\ m \in acked)'
  BY <1>1, <1>2 DEF MessageInv, TypeOK
<1>5. NothingLost'
  <2>. SUFFICES ASSUME NEW m \in acked
                PROVE  \/ m \in messages'[m.to] \cup handed'[m.to] \cup voided'
                       \/ m.created_at + TTL <= now'
    BY <1>2 DEF NothingLost
  <2>1. m \in Blob /\ m.to \in Key
    BY DEF TypeOK, Blob
  <2>2. \/ m \in messages[m.to] \cup handed[m.to] \cup voided
        \/ m.created_at + TTL <= now
    BY DEF MessageInv, NothingLost
  <2>3. CASE m.to = k
    BY <1>1, <1>2, <2>1, <2>2, <2>3, NotFresh DEF TypeOK
  <2>4. CASE m.to # k
    BY <1>1, <1>2, <2>1, <2>2, <2>4 DEF TypeOK
  <2>. QED
    BY <2>3, <2>4
<1>. QED
  BY <1>2, <1>3, <1>4, <1>5 DEF MessageInv

\* The purge of a destruction keeps MessageInv.
LEMMA PurgeInv ==
    ASSUME TypeOK, MessageInv, NEW t \in Thread, Purge(t)
    PROVE  MessageInv'
<1>. DEFINE s == job[t].signal
<1>1. /\ messages' = [k \in Key |-> {m \in messages[k] : m.conv # s.conv}]
      /\ voided' = voided \cup {m \in acked : m.conv = s.conv}
      /\ UNCHANGED <<requests, now, acked, handed, job>>
  BY DEF Purge, Step
<1>. HIDE DEF s
<1>2. NothingLost'
  <2>. SUFFICES ASSUME NEW m \in acked
                PROVE  \/ m \in messages'[m.to] \cup handed'[m.to] \cup voided'
                       \/ m.created_at + TTL <= now'
    BY <1>1 DEF NothingLost
  <2>1. m.to \in Key
    BY DEF TypeOK, Blob
  <2>. QED
    BY <1>1, <2>1 DEF MessageInv, NothingLost
<1>. QED
  BY <1>1, <1>2 DEF MessageInv

\* Time keeps MessageInv.
LEMMA TickInv ==
    ASSUME TypeOK, MessageInv, Tick
    PROVE  MessageInv'
<1>1. /\ now \in Nat /\ now' = now + 1
      /\ UNCHANGED <<messages, requests, acked, voided, handed, job>>
  BY MaxTimeAssumption DEF Tick, TypeOK, history
<1>2. \A b \in acked : b.created_at + TTL \in Nat
  BY BlobTime DEF TypeOK
<1>3. NothingLost'
  BY <1>1, <1>2 DEF MessageInv, NothingLost
<1>. QED
  BY <1>1, <1>3 DEF MessageInv

\* Every step keeps MessageInv.
LEMMA MessageStep == TypeOK /\ MessageInv /\ [Next]_vars => MessageInv'
<1>. SUFFICES ASSUME TypeOK, MessageInv, [Next]_vars
              PROVE  MessageInv'
  OBVIOUS
<1>1. CASE Tick
  BY <1>1, TickInv
<1>2. ASSUME NEW t \in Thread, Request(t)
      PROVE  MessageInv'
  <2>1. CASE SendMessage(t)
    BY <2>1, SendMessageInv
  <2>2. CASE PollMessages(t)
    BY <2>2, StartMessage DEF PollMessages, Job
  <2>3. CASE DestroyKeys(t)
    <3>1. PICK j : Start(t, j) /\ j \in Job /\ j.op # "send"
      BY <2>3, DestroyJob
    <3>. QED
      BY <3>1, StartMessage
  <2>4. CASE PollSignals(t)
    BY <2>4, StartMessage DEF PollSignals, Job
  <2>. QED
    BY <1>2, <2>1, <2>2, <2>3, <2>4 DEF Request
<1>3. ASSUME NEW t \in Thread, Handle(t)
      PROVE  MessageInv'
  <2>1. CASE LockMessages(t) \/ LockSignals(t)
    BY <2>1, UntouchedMessage DEF LockMessages, LockSignals, Step, history
  <2>2. CASE QueueSignal(t)
    BY <2>2, UntouchedMessage DEF QueueSignal, Answer, NoJob, history, TypeOK
  <2>3. CASE FetchSignals(t)
    BY <2>3, UntouchedMessage DEF FetchSignals, Answer, NoJob, TypeOK
  <2>. QED
    BY <1>3, <2>1, <2>2, <2>3, AddMessageInv, FetchMessagesInv, PurgeInv DEF Handle
<1>4. CASE UNCHANGED vars
  BY <1>4, UntouchedMessage DEF vars, history
<1>. QED
  BY <1>1, <1>2, <1>3, <1>4 DEF Next

\* An acknowledged message waits for its recipient until it is handed over,
\* expires or is destroyed: no operation of the store drops another one.
THEOREM RelayLosesNothing == Spec => []NothingLost
<1>1. TypeOK /\ MessageInv => NothingLost
  BY DEF MessageInv
<1>. QED
  BY <1>1, TypeInit, TypeStep, MessageInit, MessageStep, PTL DEF Spec

\* Two polls never return the same message.
THEOREM RelayHandsOverOnce == Spec => []HandedOnce
<1>1. TypeOK /\ MessageInv => HandedOnce
  BY DEF MessageInv, HandedOnce, Stored, Handed
<1>. QED
  BY <1>1, TypeInit, TypeStep, MessageInit, MessageStep, PTL DEF Spec

-----------------------------------------------------------------------------
\* Signals: a visible signal means that the purge is done, and nobody is given
\* a copy twice.

\* A copy of the signal is in a map or was given to somebody.
Visible(s) == \E x \in Name : \E c \in signals[x] \cup got[x] : c.signal = s

\* What s must not leave behind is gone from every queue.
Purged(s) == \A k \in Key : s.due \cap messages[k] = {}

\* The signal of a destroy request that is being handled.
Pending(t) ==
    /\ job[t].signal.id <= requests
    /\ job[t].signal.due \subseteq {b \in acked : b.conv = job[t].signal.conv}
    /\ ~ Visible(job[t].signal)
    /\ pc[t] \in {"purged", "in_signals"} => Purged(job[t].signal)

\* The copies of signals are where they may be: the requester's own under its
\* name, the wildcard under the name of the entry; and nobody was given a copy
\* it still finds, or a copy the filter keeps from it.
CopiesInv ==
    /\ \A k \in Name : \A c \in signals[k] :
          k = (IF c.own THEN c.signal.requester ELSE Broadcast)
    /\ \A k \in Name : \A c \in got[k] :
          /\ c.own /\ c.signal.requester # Broadcast => k = c.signal.requester
          /\ ~ c.own /\ k # Broadcast => k # c.signal.requester
    /\ \A k \in Name : got[k] \cap SignalsFor(k) = {}

\* The inductive invariant.  A signal demands the removal of acknowledged
\* messages only, which is done when the second mutex is asked for; and its
\* copies are where they may be.
SignalInv ==
    /\ \A s \in Signal : Visible(s) =>
          s.id <= requests /\ s.due \subseteq acked /\ Purged(s)
    /\ \A t \in Thread : job[t].op = "destroy" => Pending(t)
    /\ \A t, u \in Thread :
          t # u /\ job[t].op = "destroy" /\ job[u].op = "destroy"
             => job[t].signal # job[u].signal
    /\ CopiesInv

\* SignalInv holds in the initial state.
LEMMA SignalInit == Init => SignalInv
  BY DEF Init, SignalInv, CopiesInv, SignalsFor, BroadcastFor, Visible, NoJob, Name

\* Steps that change no signal, add no message to the store that was
\* acknowledged before, and start no purge.
LEMMA UntouchedSignal ==
    ASSUME TypeOK, SignalInv, UNCHANGED <<signals, got, requests>>,
           acked \subseteq acked',
           \A k \in Key : messages'[k] \cap acked \subseteq messages[k],
           \A t \in Thread : job'[t].op = "destroy" =>
              /\ job'[t] = job[t]
              /\ pc'[t] \in {"purged", "in_signals"} =>
                    pc[t] \in {"purged", "in_signals"} \/ Purged(job[t].signal)'
    PROVE  SignalInv'
<1>1. \A s : Visible(s)' <=> Visible(s)
  BY DEF Visible
<1>2. \A s \in Signal : s.due \subseteq acked /\ Purged(s) => Purged(s)'
  BY DEF Purged
<1>3. \A t \in Thread : job[t].op = "destroy" => job[t].signal \in Signal
  BY JobFields DEF TypeOK
<1>4. (\A s \in Signal : Visible(s) =>
          s.id <= requests /\ s.due \subseteq acked /\ Purged(s))'
  BY <1>1, <1>2 DEF SignalInv
<1>5. ASSUME NEW t \in Thread, job'[t].op = "destroy"
      PROVE  Pending(t)'
  BY <1>1, <1>2, <1>3, <1>5 DEF SignalInv, Pending
<1>6. (\A t, u \in Thread :
          t # u /\ job[t].op = "destroy" /\ job[u].op = "destroy"
             => job[t].signal # job[u].signal)'
  BY DEF SignalInv
<1>7. CopiesInv'
  BY DEF SignalInv, CopiesInv, SignalsFor, BroadcastFor
<1>. QED
  BY <1>4, <1>5, <1>6, <1>7 DEF SignalInv

\* A request other than destroy disturbs no signal.
LEMMA StartSignal ==
    ASSUME TypeOK, SignalInv, NEW t \in Thread, NEW j \in Job, j.op # "destroy",
           Start(t, j)
    PROVE  SignalInv'
<1>1. \A u \in Thread : job'[u].op = "destroy" => job'[u] = job[u] /\ pc'[u] = pc[u]
  BY DEF Start, TypeOK
<1>2. requests \in Nat /\ requests' = requests + 1
  BY NextRequest DEF Start
<1>3. UNCHANGED <<messages, signals, got, acked>>
  BY DEF Start, history
<1>4. \A s : (Visible(s)' <=> Visible(s)) /\ (Purged(s)' <=> Purged(s))
  BY <1>3 DEF Visible, Purged
<1>5. \A s \in Signal : s.id \in Nat
  BY DEF Signal
<1>6. \A u \in Thread : job[u].op = "destroy" => job[u].signal \in Signal
  BY JobFields DEF TypeOK
<1>7. (\A s \in Signal : Visible(s) =>
          s.id <= requests /\ s.due \subseteq acked /\ Purged(s))'
  BY <1>2, <1>3, <1>4, <1>5 DEF SignalInv
<1>8. ASSUME NEW u \in Thread, job'[u].op = "destroy"
      PROVE  Pending(u)'
  BY <1>1, <1>2, <1>3, <1>4, <1>5, <1>6, <1>8 DEF SignalInv, Pending
<1>9. (\A v, u \in Thread :
          v # u /\ job[v].op = "destroy" /\ job[u].op = "destroy"
             => job[v].signal # job[u].signal)'
  BY <1>1 DEF SignalInv
<1>10. CopiesInv'
  BY <1>3 DEF SignalInv, CopiesInv, SignalsFor, BroadcastFor
<1>. QED
  BY <1>7, <1>8, <1>9, <1>10 DEF SignalInv

\* The signal of a new destroy request has a number no signal has yet.
LEMMA DestroyKeysInv ==
    ASSUME TypeOK, SignalInv, NEW t \in Thread, DestroyKeys(t)
    PROVE  SignalInv'
<1>1. PICK c \in Conv, k \in Name :
         LET s == [id |-> requests + 1, conv |-> c, requester |-> k,
                   due |-> {b \in acked : b.conv = c}]
             j == [op |-> "destroy", signal |-> s]
         IN  s \in Signal /\ j \in Job /\ j.op = "destroy" /\ Start(t, j)
  BY DestroyJob
<1>. DEFINE n == [id |-> requests + 1, conv |-> c, requester |-> k,
                  due |-> {b \in acked : b.conv = c}]
<1>2. requests \in Nat /\ requests' = requests + 1
  BY <1>1, NextRequest DEF Start
<1>3. UNCHANGED <<messages, signals, got, acked>>
  BY <1>1 DEF Start, history
<1>4. /\ job'[t].op = "destroy" /\ job'[t].signal = n /\ pc'[t] = "start"
      /\ \A u \in Thread \ {t} : job'[u] = job[u] /\ pc'[u] = pc[u]
  BY <1>1 DEF Start, TypeOK
<1>5. /\ n \in Signal /\ n.id = requests + 1
      /\ n.due \subseteq {b \in acked : b.conv = n.conv}
  BY <1>1
<1>. HIDE DEF n
<1>6. \A s : (Visible(s)' <=> Visible(s)) /\ (Purged(s)' <=> Purged(s))
  BY <1>3 DEF Visible, Purged
<1>7. \A s \in Signal : s.id \in Nat
  BY DEF Signal
<1>8. \A u \in Thread : job[u].op = "destroy" => job[u].signal \in Signal
  BY JobFields DEF TypeOK
<1>9. (\A s \in Signal : Visible(s) =>
          s.id <= requests /\ s.due \subseteq acked /\ Purged(s))'
  BY <1>2, <1>3, <1>6, <1>7 DEF SignalInv
<1>10. ~ Visible(n)
  BY <1>2, <1>5 DEF SignalInv
<1>11. ASSUME NEW u \in Thread, job'[u].op = "destroy"
       PROVE  Pending(u)'
  <2>1. CASE u = t
    BY <1>2, <1>3, <1>4, <1>5, <1>6, <1>10, <2>1 DEF Pending
  <2>2. CASE u # t
    BY <1>2, <1>3, <1>4, <1>6, <1>7, <1>8, <1>11, <2>2 DEF SignalInv, Pending
  <2>. QED
    BY <2>1, <2>2
<1>12. (\A v, u \in Thread :
           v # u /\ job[v].op = "destroy" /\ job[u].op = "destroy"
              => job[v].signal # job[u].signal)'
  <2>1. \A u \in Thread \ {t} : job[u].op = "destroy" => job[u].signal # n
    BY <1>2, <1>5, <1>7, <1>8 DEF SignalInv, Pending
  <2>. QED
    BY <1>4, <2>1 DEF SignalInv
<1>13. CopiesInv'
  BY <1>3 DEF SignalInv, CopiesInv, SignalsFor, BroadcastFor
<1>. QED
  BY <1>9, <1>11, <1>12, <1>13 DEF SignalInv

\* A message that enters the store was not acknowledged before.
LEMMA AddMessageSignal ==
    ASSUME TypeOK, MessageInv, SignalInv, NEW t \in Thread, AddMessage(t)
    PROVE  SignalInv'
<1>. DEFINE b == job[t].blob
<1>1. b \in Blob /\ b.to \in Key /\ b \notin acked
  BY JobFields DEF AddMessage, At, TypeOK, Blob, MessageInv
<1>2. \A k \in Key : messages'[k] \cap acked \subseteq messages[k]
  BY <1>1 DEF AddMessage, TypeOK
<1>3. \A u \in Thread : job'[u].op = "destroy" => job'[u] = job[u] /\ pc'[u] = pc[u]
  BY DEF AddMessage, Answer, NoJob, TypeOK
<1>. QED
  BY <1>2, <1>3, UntouchedSignal DEF AddMessage

\* fetch_messages keeps SignalInv.
LEMMA FetchMessagesSignal ==
    ASSUME TypeOK, SignalInv, NEW t \in Thread, FetchMessages(t)
    PROVE  SignalInv'
<1>1. \A k \in Key : messages'[k] \cap acked \subseteq messages[k]
  BY DEF FetchMessages, TypeOK
<1>2. \A u \in Thread : job'[u].op = "destroy" => job'[u] = job[u] /\ pc'[u] = pc[u]
  BY DEF FetchMessages, Answer, NoJob, TypeOK
<1>. QED
  BY <1>1, <1>2, UntouchedSignal DEF FetchMessages

\* After the purge no message the signal is about is left.
LEMMA PurgeSignal ==
    ASSUME TypeOK, MessageInv, SignalInv, NEW t \in Thread, Purge(t)
    PROVE  SignalInv'
<1>. DEFINE s == job[t].signal
<1>1. job[t].op = "destroy" /\ s \in Signal
  BY JobFields DEF Purge, At, TypeOK
<1>2. messages' = [k \in Key |-> {m \in messages[k] : m.conv # s.conv}]
  BY DEF Purge
<1>3. \A k \in Key : messages'[k] \cap acked \subseteq messages[k]
  BY <1>2
<1>4. Purged(s)'
  <2>1. s' = s
    BY DEF Purge, Step
  <2>2. \A m \in s.due : m.conv = s.conv
    BY <1>1 DEF SignalInv, Pending
  <2>. QED
    BY <1>2, <2>1, <2>2 DEF Purged
<1>5. \A u \in Thread : u # t => pc'[u] = pc[u]
  BY DEF Purge, Step, TypeOK
<1>. QED
  BY <1>3, <1>4, <1>5, UntouchedSignal DEF Purge, Step

\* Queueing a signal keeps SignalInv.
LEMMA QueueSignalInv ==
    ASSUME TypeOK, SignalInv, NEW t \in Thread, QueueSignal(t)
    PROVE  SignalInv'
<1>. DEFINE n == job[t].signal
<1>1. job[t].op = "destroy" /\ pc[t] = "in_signals" /\ n \in Signal /\ n.requester \in Name
  BY JobFields DEF QueueSignal, At, TypeOK, Signal
<1>2. /\ signals' = [signals EXCEPT ![n.requester] = @ \cup {OwnCopy(n)},
                                    ![Broadcast]   = @ \cup {WildcardCopy(n)}]
      /\ UNCHANGED <<messages, got, acked, requests>>
  BY DEF QueueSignal, history
<1>3. /\ job'[t].op # "destroy"
      /\ \A u \in Thread \ {t} : job'[u] = job[u] /\ pc'[u] = pc[u]
  BY DEF QueueSignal, Answer, NoJob, TypeOK
<1>4. /\ ~ Visible(n) /\ n.id <= requests /\ n.due \subseteq acked /\ Purged(n)
      /\ \A u \in Thread \ {t} : job[u].op = "destroy" => job[u].signal # n
  BY <1>1 DEF SignalInv, Pending
<1>. HIDE DEF n
<1>5. \A x \in Name : \A c \in signals'[x] :
         \/ c \in signals[x]
         \/ c = OwnCopy(n) /\ x = n.requester
         \/ c = WildcardCopy(n) /\ x = Broadcast
  BY <1>1, <1>2 DEF TypeOK, Name
<1>6. \A s : Visible(s)' => Visible(s) \/ s = n
  BY <1>2, <1>5 DEF Visible, OwnCopy, WildcardCopy
<1>7. \A s : Purged(s)' <=> Purged(s)
  BY <1>2 DEF Purged
<1>8. (\A s \in Signal : Visible(s) =>
          s.id <= requests /\ s.due \subseteq acked /\ Purged(s))'
  BY <1>2, <1>4, <1>6, <1>7 DEF SignalInv
<1>9. ASSUME NEW u \in Thread, job'[u].op = "destroy"
      PROVE  Pending(u)'
  BY <1>2, <1>3, <1>4, <1>6, <1>7, <1>9 DEF SignalInv, Pending
<1>10. (\A v, u \in Thread :
           v # u /\ job[v].op = "destroy" /\ job[u].op = "destroy"
              => job[v].signal # job[u].signal)'
  BY <1>3 DEF SignalInv
<1>11. \A k \in Name : OwnCopy(n) \notin got[k] /\ WildcardCopy(n) \notin got[k]
  BY <1>4 DEF Visible, OwnCopy, WildcardCopy
<1>12. CopiesInv'
  <2>1. (\A k \in Name : \A c \in signals[k] :
            k = (IF c.own THEN c.signal.requester ELSE Broadcast))'
    BY <1>5 DEF SignalInv, CopiesInv, OwnCopy, WildcardCopy
  <2>2. (\A k \in Name : \A c \in got[k] :
            /\ c.own /\ c.signal.requester # Broadcast => k = c.signal.requester
            /\ ~ c.own /\ k # Broadcast => k # c.signal.requester)'
    BY <1>2 DEF SignalInv, CopiesInv
  <2>3. ASSUME NEW k \in Name, NEW c \in SignalsFor(k)'
        PROVE  c \notin got'[k]
    <3>1. \/ c \in SignalsFor(k)
          \/ c \in {OwnCopy(n), WildcardCopy(n)}
      BY <1>5, <2>3 DEF SignalsFor, BroadcastFor, Name
    <3>. QED
      BY <1>2, <1>11, <3>1 DEF SignalInv, CopiesInv
  <2>. QED
    BY <2>1, <2>2, <2>3 DEF CopiesInv
<1>. QED
  BY <1>8, <1>9, <1>10, <1>12 DEF SignalInv

\* fetch_signals keeps SignalInv.
LEMMA FetchSignalsInv ==
    ASSUME TypeOK, SignalInv, NEW t \in Thread, FetchSignals(t)
    PROVE  SignalInv'
<1>. DEFINE k == job[t].key
<1>1. k \in Name
  BY JobFields DEF FetchSignals, At, TypeOK
<1>2. /\ got' = [got EXCEPT ![k] = @ \cup SignalsFor(k)]
      /\ signals' = [signals EXCEPT ![k] = {}, ![Broadcast] = {}]
      /\ UNCHANGED <<messages, acked, requests>>
  BY DEF FetchSignals
<1>3. \A u \in Thread : job'[u].op = "destroy" => job'[u] = job[u] /\ pc'[u] = pc[u]
  BY DEF FetchSignals, Answer, NoJob, TypeOK
<1>. HIDE DEF k
<1>4. \A x \in Name :
         signals'[x] = IF x \in {k, Broadcast} THEN {} ELSE signals[x]
  BY <1>1, <1>2 DEF TypeOK
<1>5. \A r \in Name : got'[r] =
         IF r = k THEN got[k] \cup SignalsFor(k) ELSE got[r]
  BY <1>1, <1>2 DEF TypeOK
<1>6. \A s : Visible(s)' => Visible(s)
  <2>1. \A c \in SignalsFor(k) : \E x \in Name : c \in signals[x]
    BY <1>1 DEF SignalsFor, BroadcastFor, Name
  <2>. QED
    BY <1>1, <1>4, <1>5, <2>1 DEF Visible
<1>7. \A s : Purged(s)' <=> Purged(s)
  BY <1>2 DEF Purged
<1>8. (\A s \in Signal : Visible(s) =>
          s.id <= requests /\ s.due \subseteq acked /\ Purged(s))'
  BY <1>2, <1>6, <1>7 DEF SignalInv
<1>9. ASSUME NEW u \in Thread, job'[u].op = "destroy"
      PROVE  Pending(u)'
  BY <1>2, <1>3, <1>6, <1>7, <1>9 DEF SignalInv, Pending
<1>10. (\A v, u \in Thread :
           v # u /\ job[v].op = "destroy" /\ job[u].op = "destroy"
              => job[v].signal # job[u].signal)'
  BY <1>3 DEF SignalInv
<1>11. CopiesInv'
  <2>1. (\A r \in Name : \A c \in signals[r] :
            r = (IF c.own THEN c.signal.requester ELSE Broadcast))'
    BY <1>4 DEF SignalInv, CopiesInv
  <2>2. \A c \in SignalsFor(k) :
           /\ c.own /\ c.signal.requester # Broadcast => k = c.signal.requester
           /\ ~ c.own /\ k # Broadcast => k # c.signal.requester
    BY <1>1 DEF SignalInv, CopiesInv, SignalsFor, BroadcastFor, Name
  <2>3. (\A r \in Name : \A c \in got[r] :
            /\ c.own /\ c.signal.requester # Broadcast => r = c.signal.requester
            /\ ~ c.own /\ r # Broadcast => r # c.signal.requester)'
    BY <1>5, <2>2 DEF SignalInv, CopiesInv
  <2>4. ASSUME NEW r \in Name PROVE (got[r] \cap SignalsFor(r) = {})'
    <3>1. SignalsFor(r)' = IF r \in {k, Broadcast} THEN {} ELSE signals[r]
      BY <1>4 DEF SignalsFor, BroadcastFor, Name
    <3>. QED
      BY <1>5, <3>1 DEF SignalInv, CopiesInv, SignalsFor
  <2>. QED
    BY <2>1, <2>3, <2>4 DEF CopiesInv
<1>. QED
  BY <1>8, <1>9, <1>10, <1>11 DEF SignalInv

\* Every step keeps SignalInv.
LEMMA SignalStep == TypeOK /\ MessageInv /\ SignalInv /\ [Next]_vars => SignalInv'
<1>. SUFFICES ASSUME TypeOK, MessageInv, SignalInv, [Next]_vars
              PROVE  SignalInv'
  OBVIOUS
<1>1. CASE Tick
  BY <1>1, UntouchedSignal DEF Tick, history
<1>2. ASSUME NEW t \in Thread, Request(t)
      PROVE  SignalInv'
  <2>1. CASE SendMessage(t)
    <3>1. PICK j \in Job : Start(t, j) /\ j.op = "send"
      BY <2>1, SendJob
    <3>. QED
      BY <3>1, StartSignal
  <2>2. CASE PollMessages(t)
    BY <2>2, StartSignal DEF PollMessages, Job
  <2>3. CASE DestroyKeys(t)
    BY <2>3, DestroyKeysInv
  <2>4. CASE PollSignals(t)
    BY <2>4, StartSignal DEF PollSignals, Job
  <2>. QED
    BY <1>2, <2>1, <2>2, <2>3, <2>4 DEF Request
<1>3. ASSUME NEW t \in Thread, Handle(t)
      PROVE  SignalInv'
  <2>1. CASE LockMessages(t)
    <3>1. \A u \in Thread : pc'[u] \in {"purged", "in_signals"} => pc'[u] = pc[u]
      BY <2>1 DEF LockMessages, Step, TypeOK
    <3>. QED
      BY <2>1, <3>1, UntouchedSignal DEF LockMessages, Step, history
  <2>2. CASE LockSignals(t)
    <3>1. \A u \in Thread : job[u].op = "destroy" =>
             pc'[u] = pc[u] \/ pc[u] = "purged"
      BY <2>2 DEF LockSignals, NeedsSignals, At, Step, TypeOK
    <3>. QED
      BY <2>2, <3>1, UntouchedSignal DEF LockSignals, Step, history
  <2>. QED
    BY <1>3, <2>1, <2>2, AddMessageSignal, FetchMessagesSignal, PurgeSignal,
       QueueSignalInv, FetchSignalsInv DEF Handle
<1>4. CASE UNCHANGED vars
  BY <1>4, UntouchedSignal DEF vars, history
<1>. QED
  BY <1>1, <1>2, <1>3, <1>4 DEF Next

\* Whoever sees a destruction signal can rely on the purge being done.
THEOREM SignalFollowsPurge == Spec => []SignalMeansPurged
<1>1. TypeOK /\ SignalInv => SignalMeansPurged
  <2>. SUFFICES ASSUME TypeOK, SignalInv, NEW k \in Key, NEW x \in Name,
                       NEW c \in signals[x] \cup got[x]
                PROVE  c.signal.due \cap messages[k] = {}
    BY DEF SignalMeansPurged, Stored
  <2>1. c.signal \in Signal /\ Visible(c.signal)
    BY DEF TypeOK, Visible, Copy
  <2>. QED
    BY <2>1 DEF SignalInv, Purged
<1>. QED
  BY <1>1, TypeInit, TypeStep, MessageInit, MessageStep, SignalInit, SignalStep,
     PTL DEF Spec

\* Whatever names requesters and pollers give, no poll returns what an earlier
\* one by the same name returned, and only a signal whose requester calls itself
\* "broadcast" reaches a name in both copies.
THEOREM RelaySignalsOnce == Spec => []SignalOnce
<1>1. TypeOK /\ SignalInv => SignalOnce
  <2>. SUFFICES ASSUME TypeOK, SignalInv, NEW k \in Name,
                       NEW c \in got[k] \cup SignalsFor(k),
                       NEW d \in got[k] \cup SignalsFor(k),
                       c # d, c.signal = d.signal, c.signal.requester # Broadcast
                PROVE  FALSE
    BY DEF SignalOnce, SignalInv, CopiesInv
  <2>1. c \in Copy /\ d \in Copy
    BY DEF TypeOK, SignalsFor, BroadcastFor, Name
  <2>2. c.own # d.own
    BY <2>1 DEF Copy
  <2>3. \A x \in got[k] \cup SignalsFor(k) : x.signal.requester # Broadcast =>
           /\ x.own => k = x.signal.requester
           /\ ~ x.own => k # x.signal.requester
    BY DEF SignalInv, CopiesInv, SignalsFor, BroadcastFor, Name
  <2>. QED
    BY <2>1, <2>2, <2>3 DEF Copy
<1>. QED
  BY <1>1, TypeInit, TypeStep, MessageInit, MessageStep, SignalInit, SignalStep,
     PTL DEF Spec

-----------------------------------------------------------------------------
\* Refinement: a mailbox that forgets every message the moment it expires.

\* The waiting messages, as the abstract mailbox sees them.
Waiting == [k \in Key |-> {b \in messages[k] : now < b.created_at + TTL}]

\* A message waits in the mailbox exactly as long as it is fresh.
LEMMA FreshWaiting ==
    ASSUME TypeOK, NEW b \in Blob
    PROVE  Fresh(b) <=> now < b.created_at + TTL
<1>1. now \in Nat /\ TTL \in Nat \ {0} /\ b.created_at \in Nat
  BY BlobTime, ClockType
<1>. QED
  BY <1>1 DEF Fresh, Age

\* Steps that change no queue are stuttering steps of the mailbox.
LEMMA UntouchedMailbox ==
    ASSUME UNCHANGED <<messages, handed, now>>
    PROVE  UNCHANGED Mailbox!mailVars
  BY DEF Mailbox!mailVars

\* add_message is an arrival in the mailbox, or nothing if the message has expired.
LEMMA AddMessageMailbox ==
    ASSUME TypeOK, MessageInv, NEW t \in Thread, AddMessage(t)
    PROVE  [Mailbox!MailNext]_(Mailbox!mailVars)
<1>1. PICK b \in Blob : b = job[t].blob /\ b.to \in Key /\ b \notin acked
  BY JobFields DEF AddMessage, At, TypeOK, Blob, MessageInv
<1>2. /\ messages' = [messages EXCEPT ![b.to] = {m \in messages[b.to] : Fresh(m)} \cup {b}]
      /\ UNCHANGED <<now, handed>>
  BY <1>1 DEF AddMessage
<1>3. \A k \in Key : \A m \in messages[k] : Fresh(m) <=> now < m.created_at + TTL
  BY FreshWaiting DEF TypeOK
<1>4. \A k \in Key : messages'[k] =
         IF k = b.to THEN {m \in messages[k] : Fresh(m)} \cup {b} ELSE messages[k]
  BY <1>1, <1>2 DEF TypeOK
<1>5. CASE now < b.created_at + TTL
  <2>1. Waiting' = [Waiting EXCEPT ![b.to] = @ \cup {b}]
    <3>1. \A k \in Key : {m \in messages'[k] : now' < m.created_at + TTL} =
             IF k = b.to THEN {m \in messages[k] : now < m.created_at + TTL} \cup {b}
                         ELSE {m \in messages[k] : now < m.created_at + TTL}
      BY <1>2, <1>3, <1>4, <1>5
    <3>. QED
      BY <1>1, <3>1 DEF Waiting
  <2>2. \A r \in Key : b \notin Waiting[r] \cup handed[r]
    BY <1>1 DEF Waiting, MessageInv
  <2>3. PICK k \in Key : k = b.to
    BY <1>1
  <2>4. Mailbox!MailAccept(k)
    BY <1>1, <1>2, <2>1, <2>2, <2>3 DEF Mailbox!MailAccept, Waiting
  <2>. QED
    BY <2>4 DEF Mailbox!MailNext
<1>6. CASE ~ (now < b.created_at + TTL)
  <2>1. Waiting' = Waiting
    BY <1>1, <1>2, <1>3, <1>4, <1>6 DEF Waiting
  <2>. QED
    BY <1>2, <2>1 DEF Mailbox!mailVars, Waiting
<1>. QED
  BY <1>5, <1>6

\* fetch_messages hands over all that waits in the mailbox.
LEMMA FetchMessagesMailbox ==
    ASSUME TypeOK, NEW t \in Thread, FetchMessages(t)
    PROVE  [Mailbox!MailNext]_(Mailbox!mailVars)
<1>1. PICK k \in Key : k = job[t].key
  BY JobFields DEF FetchMessages, At, TypeOK
<1>2. /\ handed' = [handed EXCEPT ![k] = handed[k] \cup {m \in messages[k] : Fresh(m)}]
      /\ messages' = [messages EXCEPT ![k] = {}]
      /\ now' = now
  BY <1>1 DEF FetchMessages
<1>3. {m \in messages[k] : Fresh(m)} = Waiting[k]
  BY <1>1, FreshWaiting DEF TypeOK, Waiting
<1>4. Waiting' = [Waiting EXCEPT ![k] = {}]
  BY <1>1, <1>2 DEF Waiting, TypeOK
<1>5. Mailbox!MailHandOver(k)
  BY <1>1, <1>2, <1>3, <1>4 DEF Mailbox!MailHandOver, Waiting
<1>. QED
  BY <1>5 DEF Mailbox!MailNext

\* The purge of a destruction is one of the mailbox.
LEMMA PurgeMailbox ==
    ASSUME TypeOK, NEW t \in Thread, Purge(t)
    PROVE  [Mailbox!MailNext]_(Mailbox!mailVars)
<1>1. PICK c \in Conv : c = job[t].signal.conv
  BY JobFields DEF Purge, At, TypeOK, Signal
<1>2. /\ messages' = [k \in Key |-> {m \in messages[k] : m.conv # c}]
      /\ UNCHANGED <<now, handed>>
  BY <1>1 DEF Purge
<1>3. Waiting' = [k \in Key |-> {b \in Waiting[k] : b.conv # c}]
  BY <1>2 DEF Waiting
<1>4. Mailbox!MailDestroy(c)
  BY <1>2, <1>3 DEF Mailbox!MailDestroy, Waiting
<1>. QED
  BY <1>4 DEF Mailbox!MailNext

\* Time makes messages of the mailbox expire.
LEMMA TickMailbox ==
    ASSUME TypeOK, Tick
    PROVE  [Mailbox!MailNext]_(Mailbox!mailVars)
<1>1. now \in Nat /\ now' = now + 1 /\ UNCHANGED <<messages, handed>>
  BY ClockType DEF Tick, history
<1>2. \A k \in Key : \A b \in messages[k] : b.created_at + TTL \in Nat
  BY BlobTime DEF TypeOK
<1>3. Waiting' = [k \in Key |-> {b \in Waiting[k] : now' < b.created_at + TTL}]
  BY <1>1, <1>2 DEF Waiting
<1>4. Mailbox!MailTick
  BY <1>1, <1>3 DEF Mailbox!MailTick, Waiting
<1>. QED
  BY <1>4 DEF Mailbox!MailNext

\* Every step is one of the mailbox or changes nothing in it.
LEMMA MailboxStep == TypeOK /\ MessageInv /\ [Next]_vars => [Mailbox!MailNext]_(Mailbox!mailVars)
<1>. SUFFICES ASSUME TypeOK, MessageInv, [Next]_vars
              PROVE  [Mailbox!MailNext]_(Mailbox!mailVars)
  OBVIOUS
<1>1. CASE Tick
  BY <1>1, TickMailbox
<1>2. ASSUME NEW t \in Thread, Request(t)
      PROVE  UNCHANGED <<messages, handed, now>>
  BY <1>2 DEF Request, SendMessage, PollMessages, DestroyKeys, PollSignals, Start, history
<1>3. ASSUME NEW t \in Thread, Handle(t)
      PROVE  [Mailbox!MailNext]_(Mailbox!mailVars)
  <2>1. CASE LockMessages(t) \/ LockSignals(t) \/ QueueSignal(t) \/ FetchSignals(t)
    BY <2>1, UntouchedMailbox
       DEF LockMessages, LockSignals, QueueSignal, FetchSignals, history
  <2>. QED
    BY <1>3, <2>1, AddMessageMailbox, FetchMessagesMailbox, PurgeMailbox DEF Handle
<1>4. CASE UNCHANGED vars
  BY <1>4, UntouchedMailbox DEF vars, history
<1>. QED
  BY <1>1, <1>2, <1>3, <1>4, UntouchedMailbox DEF Next

\* The relay is a mailbox per recipient: purging lazily, and behind two
\* mutexes, cannot be told from forgetting each message when it expires.
THEOREM RelayImplementsMailbox == Spec => MailboxSpec
<1>1. Init => Mailbox!MailInit
  BY DEF Init, Mailbox!MailInit
<1>. QED
  BY <1>1, TypeInit, TypeStep, MessageInit, MessageStep, MailboxStep,
     PTL DEF Spec, MailboxSpec, Mailbox!MailSpec

-----------------------------------------------------------------------------
\* The mutexes.

\* The operation of a thread fits the place where it is.
Stage(t) ==
    /\ pc[t] = "start" => job[t].op \in {"send", "poll", "destroy", "signals"}
    /\ pc[t] = "in_messages" => job[t].op \in {"send", "poll", "destroy"}
    /\ pc[t] = "purged" => job[t].op = "destroy"
    /\ pc[t] = "in_signals" => job[t].op \in {"destroy", "signals"}

\* The places where a thread holds the mutex of the messages.
HoldsMessages(t) == pc[t] \in {"in_messages", "purged"} \/ At(t, "destroy", "in_signals")

\* A mutex is held by the thread that is where it holds it, and by no other.
MutexInv ==
    \A t \in Thread :
        /\ Stage(t)
        /\ msgLock = t <=> HoldsMessages(t)
        /\ sigLock = t <=> pc[t] = "in_signals"

\* At the start nobody holds a mutex.
LEMMA MutexInit == Init => MutexInv
  BY FreeAssumption DEF Init, MutexInv, Stage, HoldsMessages, At

\* What a step of t has to establish: the other threads stay where they are.
LEMMA MutexOfOthers ==
    ASSUME MutexInv, NEW t \in Thread,
           \A u \in Thread \ {t} : pc'[u] = pc[u] /\ job'[u] = job[u],
           \A u \in Thread \ {t} : msgLock' = u <=> msgLock = u,
           \A u \in Thread \ {t} : sigLock' = u <=> sigLock = u,
           Stage(t)', msgLock' = t <=> HoldsMessages(t)',
           sigLock' = t <=> pc'[t] = "in_signals"
    PROVE  MutexInv'
  BY DEF MutexInv, Stage, HoldsMessages, At

\* A thread that takes a request holds no mutex.
LEMMA StartMutex ==
    ASSUME TypeOK, MutexInv, NEW t \in Thread, NEW j \in Job, Start(t, j), j.op # "none"
    PROVE  MutexInv'
<1>1. j.op \in {"send", "poll", "destroy", "signals"}
  BY DEF Job
<1>2. /\ pc[t] = "idle" /\ pc' = [pc EXCEPT ![t] = "start"] /\ job' = [job EXCEPT ![t] = j]
      /\ msgLock' = msgLock /\ sigLock' = sigLock
  BY DEF Start
<1>3. pc'[t] = "start" /\ job'[t] = j
  BY <1>2 DEF TypeOK
<1>4. Stage(t)' /\ ~HoldsMessages(t)' /\ ~HoldsMessages(t)
  BY <1>1, <1>2, <1>3 DEF Stage, HoldsMessages, At
<1>5. msgLock # t /\ sigLock # t
  BY <1>2, <1>4 DEF MutexInv
<1>6. \A u \in Thread \ {t} : pc'[u] = pc[u] /\ job'[u] = job[u]
  BY <1>2 DEF TypeOK
<1>. QED
  BY <1>2, <1>3, <1>4, <1>5, <1>6, MutexOfOthers

\* A step of a handler takes and gives back what it should.
LEMMA HandleMutex ==
    ASSUME TypeOK, MutexInv, NEW t \in Thread, Handle(t)
    PROVE  MutexInv'
<1>. USE FreeAssumption DEF TypeOK
<1>1. \A u \in Thread \ {t} : pc'[u] = pc[u] /\ job'[u] = job[u]
  BY DEF Handle, LockMessages, AddMessage, FetchMessages, Purge, LockSignals, QueueSignal,
         FetchSignals, Step, Answer
<1>2. Stage(t) /\ (msgLock = t <=> HoldsMessages(t)) /\ (sigLock = t <=> pc[t] = "in_signals")
  BY DEF MutexInv
<1>3. CASE LockMessages(t)
  <2>1. /\ msgLock = Free /\ msgLock' = t /\ sigLock' = sigLock
        /\ pc[t] = "start" /\ pc'[t] = "in_messages" /\ job'[t] = job[t]
        /\ job[t].op \in {"send", "poll", "destroy"}
    BY <1>3 DEF LockMessages, NeedsMessages, Step, At
  <2>2. Stage(t)' /\ HoldsMessages(t)'
    BY <2>1 DEF Stage, HoldsMessages
  <2>. QED
    BY <1>1, <1>2, <2>1, <2>2, MutexOfOthers
<1>4. CASE LockSignals(t)
  <2>1. /\ sigLock = Free /\ sigLock' = t /\ msgLock' = msgLock
        /\ pc'[t] = "in_signals" /\ job'[t] = job[t]
        /\ At(t, "destroy", "purged") \/ At(t, "signals", "start")
    BY <1>4 DEF LockSignals, NeedsSignals, Step
  <2>2. Stage(t)' /\ (HoldsMessages(t)' <=> HoldsMessages(t))
    BY <2>1 DEF Stage, HoldsMessages, At
  <2>. QED
    BY <1>1, <1>2, <2>1, <2>2, MutexOfOthers
<1>5. CASE Purge(t)
  <2>1. /\ msgLock' = msgLock /\ sigLock' = sigLock
        /\ pc[t] = "in_messages" /\ pc'[t] = "purged" /\ job'[t] = job[t]
        /\ job[t].op = "destroy"
    BY <1>5 DEF Purge, Step, At
  <2>2. Stage(t)' /\ HoldsMessages(t)' /\ HoldsMessages(t)
    BY <2>1 DEF Stage, HoldsMessages
  <2>. QED
    BY <1>1, <1>2, <2>1, <2>2, MutexOfOthers
<1>6. CASE AddMessage(t) \/ FetchMessages(t)
  <2>1. /\ msgLock' = Free /\ sigLock' = sigLock
        /\ pc[t] = "in_messages" /\ pc'[t] = "idle"
    BY <1>6 DEF AddMessage, FetchMessages, Answer, At
  <2>2. Stage(t)' /\ ~HoldsMessages(t)' /\ msgLock = t
    BY <1>2, <2>1 DEF Stage, HoldsMessages, At
  <2>. QED
    BY <1>1, <1>2, <2>1, <2>2, MutexOfOthers
<1>7. CASE QueueSignal(t)
  <2>1. /\ msgLock' = Free /\ sigLock' = Free
        /\ At(t, "destroy", "in_signals") /\ pc'[t] = "idle"
    BY <1>7 DEF QueueSignal, Answer
  <2>2. Stage(t)' /\ ~HoldsMessages(t)' /\ msgLock = t /\ sigLock = t
    BY <1>2, <2>1 DEF Stage, HoldsMessages, At
  <2>. QED
    BY <1>1, <1>2, <2>1, <2>2, MutexOfOthers
<1>8. CASE FetchSignals(t)
  <2>1. /\ msgLock' = msgLock /\ sigLock' = Free
        /\ At(t, "signals", "in_signals") /\ pc'[t] = "idle"
    BY <1>8 DEF FetchSignals, Answer
  <2>2. Stage(t)' /\ ~HoldsMessages(t)' /\ ~HoldsMessages(t) /\ sigLock = t
    BY <1>2, <2>1 DEF Stage, HoldsMessages, At
  <2>. QED
    BY <1>1, <1>2, <2>1, <2>2, MutexOfOthers
<1>. QED
  BY <1>3, <1>4, <1>5, <1>6, <1>7, <1>8 DEF Handle

\* Every step keeps the mutexes with the threads that are to hold them.
LEMMA MutexStep == TypeOK /\ MutexInv /\ [Next]_vars => MutexInv'
<1>. SUFFICES ASSUME TypeOK, MutexInv, [Next]_vars PROVE MutexInv'
  OBVIOUS
<1>1. ASSUME NEW t \in Thread, Request(t) PROVE MutexInv'
  <2>1. \E j \in Job : Start(t, j) /\ j.op # "none"
    <3>1. CASE SendMessage(t)
      BY <3>1, SendJob
    <3>2. CASE DestroyKeys(t)
      BY <3>2, DestroyJob
    <3>3. CASE PollMessages(t)
      BY <3>3 DEF PollMessages, Job
    <3>4. CASE PollSignals(t)
      BY <3>4 DEF PollSignals, Job
    <3>. QED
      BY <1>1, <3>1, <3>2, <3>3, <3>4 DEF Request
  <2>. QED
    BY <2>1, StartMutex
<1>2. CASE Tick \/ UNCHANGED vars
  BY <1>2 DEF Tick, vars, MutexInv, Stage, HoldsMessages, At
<1>. QED
  BY <1>1, <1>2, HandleMutex DEF Next

\* process_destruction_signal takes the second mutex while it holds the first; no
\* other handler does so in the other order, and every one gives back what it
\* took.  So the handlers of any number of threads never wait for each other in a
\* circle.
THEOREM RelayNeverStuck == Spec => []NoCircle
<1>1. TypeOK /\ MutexInv => NoCircle
  <2>. SUFFICES ASSUME TypeOK, MutexInv, NEW t \in Thread, pc[t] # "idle"
                PROVE  \E u \in Thread : CanGoOn(u)
    BY DEF NoCircle
  <2>1. ASSUME NEW u \in Thread, NeedsSignals(u) PROVE \E w \in Thread : CanGoOn(w)
    <3>1. CASE sigLock = Free
      BY <2>1, <3>1 DEF CanGoOn
    <3>2. CASE sigLock # Free
      <4>1. sigLock \in Thread /\ pc[sigLock] = "in_signals"
        BY <3>2 DEF TypeOK, MutexInv
      <4>. QED
        BY <4>1 DEF CanGoOn
    <3>. QED
      BY <3>1, <3>2
  <2>2. ASSUME NEW u \in Thread, pc[u] \in {"in_messages", "purged", "in_signals"}
        PROVE  \E w \in Thread : CanGoOn(w)
    <3>1. CASE pc[u] = "purged"
      <4>1. NeedsSignals(u)
        BY <3>1 DEF MutexInv, Stage, NeedsSignals, At
      <4>. QED
        BY <2>1, <4>1
    <3>. QED
      BY <2>2, <3>1 DEF CanGoOn
  <2>3. CASE NeedsMessages(t)
    <3>1. CASE msgLock = Free
      BY <2>3, <3>1 DEF CanGoOn
    <3>2. CASE msgLock # Free
      <4>1. msgLock \in Thread /\ HoldsMessages(msgLock)
        BY <3>2 DEF TypeOK, MutexInv
      <4>. QED
        BY <2>2, <4>1 DEF HoldsMessages, At
    <3>. QED
      BY <3>1, <3>2
  <2>4. pc[t] = "start" => NeedsMessages(t) \/ NeedsSignals(t)
    BY DEF MutexInv, Stage, NeedsMessages, NeedsSignals, At
  <2>5. pc[t] \in {"start", "in_messages", "purged", "in_signals"}
    BY DEF TypeOK, Pc
  <2>. QED
    BY <2>1, <2>2, <2>3, <2>4, <2>5
<1>. QED
  BY <1>1, TypeInit, TypeStep, MutexInit, MutexStep, PTL DEF Spec

=============================================================================
