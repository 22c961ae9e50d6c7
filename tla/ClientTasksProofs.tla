------------------------- MODULE ClientTasksProofs -------------------------
(***************************************************************************)
(* What holds of ClientTasks for any peers and any bounds.                 *)
(*                                                                         *)
(* TypeOK and EventsKept are inductive together with the places of the     *)
(* event task (Handling).  ListedPeersConnected is not: where a peer has   *)
(* no connection, Inv says (Gone) that its closing is the last that is     *)
(* under way of it, or that nothing is under way and it is not listed.     *)
(* CountInStep needs the ledger of CountInv.                               *)
(***************************************************************************)
EXTENDS ClientTasks, FiniteSetTheorems, FunctionTheorems, SequenceTheorems, TLAPS

\* The event task has an event in hand exactly when it is not waiting for one,
\* and needs the ratchets for a message only.
Handling ==
    /\ handler = "receive" <=> hand = None
    /\ handler = "decrypt" => hand = Message

\* The task that boots Tor tells nothing of connections.
TorOnly ==
    \A p \in Peer : blocked["tor"] # Connected(p) /\ blocked["tor"] # Disconnected(p)

\* The closing of a connection to p is under way, in the hand of the event task,
\* in the channel or in that of the swarm, and no opening comes after it.
ClosingLast(p) ==
    \/ blocked["swarm"] = Disconnected(p)
    \/ /\ blocked["swarm"] # Connected(p)
       /\ \/ \E i \in 1 .. Len(events) :
                /\ events[i] = Disconnected(p)
                /\ \A j \in 1 .. Len(events) : j > i => events[j] # Connected(p)
          \/ /\ hand = Disconnected(p)
             /\ \A j \in 1 .. Len(events) : events[j] # Connected(p)

\* p is not listed, and nothing under way would list it.
NotListed(p) ==
    /\ entries[PeerId(p)] = 0
    /\ hand # Connected(p) /\ blocked["swarm"] # Connected(p)
    /\ \A j \in 1 .. Len(events) : events[j] # Connected(p)

Gone == \A p \in Peer : conns[p] = 0 => NotListed(p) \/ ClosingLast(p)

Inv == TypeOK /\ Handling /\ EventsKept /\ TorOnly /\ Gone

-----------------------------------------------------------------------------
\* Putting an element in front of a sequence.
LEMMA Prepended ==
  ASSUME NEW S, NEW s \in Seq(S), NEW x \in S
  PROVE  /\ <<x>> \o s \in Seq(S)
         /\ Len(<<x>> \o s) = Len(s) + 1
         /\ Tail(<<x>> \o s) = s
  OBVIOUS

\* try_send keeps the command channel in its bounds.
LEMMA TrySendType ==
  ASSUME commands \in Seq(P2pCommand), Len(commands) <= Capacity,
         NEW c \in P2pCommand, TrySend(c)
  PROVE  commands' \in Seq(P2pCommand) /\ Len(commands') <= Capacity
<1>1. CASE Len(commands) < Capacity
  <2>1. commands' = Append(commands, c)
    BY <1>1 DEF TrySend
  <2>2. Append(commands, c) \in Seq(P2pCommand) /\ Len(Append(commands, c)) = Len(commands) + 1
    BY AppendProperties
  <2>. QED
    BY <1>1, <2>1, <2>2, CapacityAssumption
<1>2. CASE ~(Len(commands) < Capacity)
  BY <1>2 DEF TrySend
<1>. QED
  BY <1>1, <1>2

\* What the event task has still to do after it is done with its event.
LEMMA AfterFinish ==
  ASSUME TypeOK, EventsKept, hand # None, Finish
  PROVE  due' = events /\ due' \in Seq(P2pEvent)
<1>1. due = <<hand>> \o events
  BY DEF EventsKept, OneIf
<1>2. hand \in P2pEvent /\ events \in Seq(P2pEvent)
  BY DEF TypeOK
<1>. QED
  BY <1>1, <1>2, Prepended DEF Finish

\* The peer table and the displayed count stay what they are.
LEMMA ConnectedType ==
  ASSUME entries \in [{PeerId(p) : p \in Peer} -> Nat], count \in Nat,
         NEW p \in Peer, PeerConnected(p)
  PROVE  entries' \in [{PeerId(q) : q \in Peer} -> Nat] /\ count' \in Nat
<1>1. PeerId(p) \in {PeerId(q) : q \in Peer} /\ entries[PeerId(p)] + 1 \in Nat
  OBVIOUS
<1>2. entries' = [entries EXCEPT ![PeerId(p)] = entries[PeerId(p)] + 1] /\ count' = count + 1
  BY DEF PeerConnected
<1>. QED
  BY <1>1, <1>2

\* The handling of a closing keeps the types of the peer table and the count.
LEMMA DisconnectedType ==
  ASSUME entries \in [{PeerId(p) : p \in Peer} -> Nat], count \in Nat,
         NEW p \in Peer, PeerDisconnected(p)
  PROVE  entries' \in [{PeerId(q) : q \in Peer} -> Nat] /\ count' \in Nat
<1>1. entries' = [entries EXCEPT ![PeerId(p)] = 0]
  BY DEF PeerDisconnected
<1>2. count' = IF count > 0 THEN count - 1 ELSE count
  BY DEF PeerDisconnected
<1>3. count' \in Nat
  BY <1>2
<1>. QED
  BY <1>1, <1>3

\* Every step keeps the types.
LEMMA TypeStep == Inv /\ [Next]_vars => TypeOK'
<1>. SUFFICES ASSUME Inv, [Next]_vars PROVE TypeOK'
  OBVIOUS
<1>. USE CapacityAssumption, BoundAssumption, NoneAssumption
     DEF Inv, TypeOK, Handling, Ui, uiVars, eventVars, netVars, Sender
<1>1. ASSUME NEW k \in Key, Press(k) PROVE TypeOK'
  BY <1>1 DEF Press
<1>2. CASE UiStep
  <2>1. CASE Draw
    BY <1>2, <2>1 DEF UiStep, Draw
  <2>2. CASE HandleKey
    BY <1>2, <2>2 DEF UiStep, HandleKey
  <2>3. CASE RunCommand
    <3>1. <<"dial">> \in P2pCommand
      BY DEF P2pCommand
    <3>2. commands' \in Seq(P2pCommand) /\ Len(commands') <= Capacity
      BY <2>3, <3>1, TrySendType DEF RunCommand
    <3>. QED
      BY <1>2, <2>3, <3>2 DEF UiStep, RunCommand
  <2>4. CASE WriteStatus
    BY <1>2, <2>4 DEF UiStep, WriteStatus, Return
  <2>5. CASE ReportFailure
    BY <1>2, <2>5 DEF UiStep, ReportFailure, Return
  <2>6. ASSUME NEW p \in Peer, Dispatch(p) PROVE TypeOK'
    <3>1. <<"send", p>> \in P2pCommand
      BY DEF P2pCommand
    <3>2. commands' \in Seq(P2pCommand) /\ Len(commands') <= Capacity
      BY <2>6, <3>1, TrySendType DEF Dispatch
    <3>. QED
      BY <1>2, <2>6, <3>2 DEF UiStep, Dispatch, Return
  <2>. QED
    BY <1>2, <2>1, <2>2, <2>3, <2>4, <2>5, <2>6 DEF UiStep
<1>3. CASE EventStep
  <2>1. CASE Receive
    BY <1>3, <2>1 DEF EventStep, Receive
  <2>2. CASE HandleEvent
    <3>1. due' \in Seq(P2pEvent)
      BY <2>2, AfterFinish DEF HandleEvent
    <3>2. entries' \in [{PeerId(p) : p \in Peer} -> Nat] /\ count' \in Nat
      BY <2>2, ConnectedType, DisconnectedType DEF HandleEvent
    <3>3. tor' \in [active : BOOLEAN, addr : {"proxy"} \cup Tor]
      <4>1. CASE tor' = tor
        BY <4>1
      <4>2. ASSUME NEW t \in Tor, hand = TorStatus(t),
                   tor' = [active |-> hand.connected, addr |-> hand.status]
            PROVE  tor' \in [active : BOOLEAN, addr : {"proxy"} \cup Tor]
        BY <4>2 DEF TorStatus
      <4>. QED
        BY <2>2, <4>1, <4>2 DEF HandleEvent
    <3>. QED
      BY <1>3, <2>2, <3>1, <3>2, <3>3 DEF EventStep, HandleEvent, Finish
  <2>3. CASE Decrypt
    <3>1. due' \in Seq(P2pEvent)
      BY <2>3, AfterFinish DEF Decrypt
    <3>. QED
      BY <1>3, <2>3, <3>1 DEF EventStep, Decrypt, Finish
  <2>. QED
    BY <1>3, <2>1, <2>2, <2>3 DEF EventStep
<1>4. CASE SwarmEvent
  <2>1. {Message, Info} \cup Opening \cup Closing \subseteq P2pEvent
    BY DEF P2pEvent, Opening, Closing
  <2>2. \E e \in {Message, Info} \cup Opening \cup Closing :
           blocked' = [blocked EXCEPT !["swarm"] = e]
    BY <1>4 DEF SwarmEvent, Emit, Opening, Closing
  <2>3. blocked' \in [Sender -> P2pEvent \cup {None}]
    BY <2>1, <2>2
  <2>4. \/ conns' = conns
        \/ \E p \in Peer : conns[p] < MaxConns /\ conns' = [conns EXCEPT ![p] = @ + 1]
        \/ \E p \in Peer : conns[p] > 0 /\ conns' = [conns EXCEPT ![p] = @ - 1]
    BY <1>4 DEF SwarmEvent
  <2>5. conns' \in [Peer -> 0 .. MaxConns]
    <3>1. ASSUME NEW p \in Peer, conns[p] < MaxConns,
                 conns' = [conns EXCEPT ![p] = conns[p] + 1]
          PROVE  conns' \in [Peer -> 0 .. MaxConns]
      <4>1. conns[p] + 1 \in 0 .. MaxConns
        BY <3>1
      <4>. QED
        BY <3>1, <4>1
    <3>2. ASSUME NEW p \in Peer, conns[p] > 0,
                 conns' = [conns EXCEPT ![p] = conns[p] - 1]
          PROVE  conns' \in [Peer -> 0 .. MaxConns]
      <4>1. conns[p] - 1 \in 0 .. MaxConns
        BY <3>2
      <4>. QED
        BY <3>2, <4>1
    <3>. QED
      BY <2>4, <3>1, <3>2
  <2>6. caused' \in 0 .. MaxEvents
    BY <1>4 DEF SwarmEvent
  <2>. QED
    BY <1>4, <2>3, <2>5, <2>6 DEF SwarmEvent
<1>5. CASE SwarmStep
  <2>1. CASE SwarmCommand
    BY <1>5, <2>1 DEF SwarmStep, SwarmCommand, Emit, P2pEvent, senderUnchanged
  <2>2. CASE Deliver("swarm")
    BY <1>5, <2>2 DEF SwarmStep, Deliver, senderUnchanged
  <2>. QED
    BY <1>5, <2>1, <2>2 DEF SwarmStep
<1>6. CASE TorStep
  <2>1. CASE BootTor
    BY <1>6, <2>1 DEF TorStep, BootTor, Emit, P2pEvent, Tor, senderUnchanged
  <2>2. CASE Deliver("tor")
    BY <1>6, <2>2 DEF TorStep, Deliver, senderUnchanged
  <2>. QED
    BY <1>6, <2>1, <2>2 DEF TorStep
<1>7. CASE UNCHANGED vars
  BY <1>7 DEF vars
<1>. QED
  BY <1>1, <1>2, <1>3, <1>4, <1>5, <1>6, <1>7 DEF Next

-----------------------------------------------------------------------------
\* Every step keeps the order of events and the place of the event task.
LEMMA OrderStep == Inv /\ [Next]_vars => (EventsKept /\ Handling)'
<1>. SUFFICES ASSUME Inv, [Next]_vars PROVE (EventsKept /\ Handling)'
  OBVIOUS
<1>. USE CapacityAssumption, BoundAssumption, NoneAssumption
     DEF Inv, TypeOK, EventsKept, Handling, OneIf, uiVars, eventVars, netVars, Sender
<1>1. ASSUME NEW k \in Key, Press(k) PROVE (EventsKept /\ Handling)'
  BY <1>1 DEF Press
<1>2. CASE UiStep
  BY <1>2 DEF UiStep
<1>3. CASE EventStep
  <2>1. CASE Receive
    <3>1. hand' = Head(events) /\ events' = Tail(events) /\ due' = due /\ handler' = "handle"
      BY <1>3, <2>1 DEF EventStep, Receive
    <3>2. hand = None /\ due = << >> \o events /\ events # << >>
      BY <2>1 DEF Receive
    <3>3. hand' \in P2pEvent /\ <<Head(events)>> \o Tail(events) = events
      BY <3>1, <3>2
    <3>4. due = events
      BY <3>2, ConcatEmptySeq
    <3>. QED
      BY <3>1, <3>3, <3>4
  <2>2. CASE Finish
    <3>1. CASE hand = None
      BY <1>3, <2>2, <3>1 DEF EventStep, Receive, HandleEvent, Decrypt, Finish
    <3>2. CASE hand # None
      <4>1. due' = events /\ hand' = None /\ events' = events /\ handler' = "receive"
        BY <2>2, <3>2, AfterFinish DEF Finish
      <4>. QED
        BY <4>1
    <3>. QED
      BY <3>1, <3>2
  <2>3. CASE /\ handler' = "decrypt" /\ handler = "handle" /\ hand = Message
             /\ UNCHANGED <<events, hand, due>>
    BY <2>3
  <2>. QED
    BY <1>3, <2>1, <2>2, <2>3 DEF EventStep, HandleEvent, Decrypt
<1>4. CASE SwarmEvent
  BY <1>4 DEF SwarmEvent
<1>5. ASSUME NEW w \in Sender, Deliver(w), senderUnchanged PROVE (EventsKept /\ Handling)'
  <2>1. blocked[w] \in P2pEvent
    BY <1>5 DEF Deliver
  <2>2. /\ due' = Append(due, blocked[w]) /\ events' = Append(events, blocked[w])
        /\ hand' = hand /\ handler' = handler
    BY <1>5 DEF Deliver, senderUnchanged
  <2>3. Append(OneIf(hand) \o events, blocked[w]) = OneIf(hand) \o Append(events, blocked[w])
    <3>1. OneIf(hand) \in Seq(P2pEvent) /\ events \in Seq(P2pEvent) /\ <<blocked[w]>> \in Seq(P2pEvent)
      BY <2>1
    <3>2. OneIf(hand) \o events \in Seq(P2pEvent)
      BY <3>1, ConcatProperties
    <3>. QED
      BY <2>1, <3>1, <3>2, AppendIsConcat, ConcatAssociative
  <2>. QED
    BY <2>2, <2>3
<1>6. CASE SwarmStep
  BY <1>5, <1>6 DEF SwarmStep, SwarmCommand, senderUnchanged
<1>7. CASE TorStep
  BY <1>5, <1>7 DEF TorStep, BootTor, senderUnchanged
<1>8. CASE UNCHANGED vars
  BY <1>8 DEF vars
<1>. QED
  BY <1>1, <1>2, <1>3, <1>4, <1>6, <1>7, <1>8 DEF Next

-----------------------------------------------------------------------------
\* Every step keeps the task that boots Tor away from connections.
LEMMA TorOnlyStep == Inv /\ [Next]_vars => TorOnly'
<1>. SUFFICES ASSUME Inv, [Next]_vars, NEW p \in Peer
              PROVE  blocked'["tor"] # Connected(p) /\ blocked'["tor"] # Disconnected(p)
  BY DEF TorOnly, Connected, Disconnected
<1>. USE NoneAssumption DEF Inv, TypeOK, Sender
<1>1. blocked["tor"] # Connected(p) /\ blocked["tor"] # Disconnected(p)
  BY DEF TorOnly
<1>2. CASE blocked'["tor"] = blocked["tor"]
  BY <1>1, <1>2
<1>3. CASE blocked'["tor"] \in {None, Info, TorStatus("arti")}
  <2>1. Connected(p) \in P2pEvent /\ Disconnected(p) \in P2pEvent
    BY DEF P2pEvent
  <2>2. /\ Connected(p) # Info /\ Connected(p) # TorStatus("arti")
        /\ Disconnected(p) # Info /\ Disconnected(p) # TorStatus("arti")
    BY DEF Connected, Disconnected, Info, TorStatus
  <2>. QED
    BY <1>3, <2>1, <2>2
<1>4. blocked' = blocked
      \/ (\E e : blocked' = [blocked EXCEPT !["swarm"] = e])
      \/ (\E e \in {None, Info, TorStatus("arti")} : blocked' = [blocked EXCEPT !["tor"] = e])
  BY DEF Next, Press, UiStep, EventStep, SwarmEvent, SwarmStep, SwarmCommand, TorStep,
         BootTor, Deliver, Emit, netVars, vars
<1>. QED
  BY <1>2, <1>3, <1>4

-----------------------------------------------------------------------------
\* The events of connections are told apart from each other and from the rest.
LEMMA EventKinds ==
  \A p, q \in Peer :
     /\ Connected(p) # Disconnected(q)
     /\ Connected(p) = Connected(q) => p = q
     /\ Disconnected(p) = Disconnected(q) => p = q
     /\ Connected(p) \notin {None, Info, Message} \cup {TorStatus(t) : t \in Tor}
     /\ Disconnected(p) \notin {None, Info, Message} \cup {TorStatus(t) : t \in Tor}
<1>. TAKE p, q \in Peer
<1>1. Connected(p) # None /\ Disconnected(p) # None
  BY NoneAssumption DEF P2pEvent
<1>. QED
  BY <1>1 DEF Connected, Disconnected, Info, Message, TorStatus

\* Every step keeps what is known of a peer without a connection.
LEMMA GoneStep == Inv /\ [Next]_vars => Gone'
<1>. SUFFICES ASSUME Inv, [Next]_vars, NEW p \in Peer, conns'[p] = 0
              PROVE  NotListed(p)' \/ ClosingLast(p)'
  BY DEF Gone, NotListed, ClosingLast
<1>. DEFINE Kept == NotListed(p)' \/ ClosingLast(p)'
<1>. USE CapacityAssumption, BoundAssumption, NoneAssumption, EventKinds
     DEF Inv, TypeOK, Sender
<1>0. conns[p] = 0 => NotListed(p) \/ ClosingLast(p)
  BY DEF Gone
<1>1. CASE UNCHANGED <<events, hand, blocked, entries, conns>>
  BY <1>0, <1>1 DEF NotListed, ClosingLast
<1>2. CASE EventStep
  <2>0. conns' = conns /\ blocked' = blocked
    BY <1>2 DEF EventStep, netVars
  <2>1. CASE Receive
    <3>1. /\ hand' = Head(events) /\ events' = Tail(events) /\ entries' = entries
          /\ Len(events) > 0
      BY <2>1 DEF Receive
    <3>2. /\ Len(events') = Len(events) - 1 /\ hand' = events[1]
          /\ \A i \in 1 .. Len(events') : events'[i] = events[i + 1]
      BY <3>1
    <3>3. hand = None
      BY <2>1 DEF Receive, Handling
    <3>4. CASE NotListed(p)
      <4>0. 1 \in 1 .. Len(events) /\ \A j \in 1 .. Len(events) : events[j] # Connected(p)
        BY <3>1, <3>4 DEF NotListed
      <4>1. hand' # Connected(p)
        BY <3>2, <4>0
      <4>2. \A j \in 1 .. Len(events') : j + 1 \in 1 .. Len(events)
        BY <3>1, <3>2
      <4>3. \A j \in 1 .. Len(events') : events'[j] # Connected(p)
        BY <3>2, <3>4, <4>2 DEF NotListed
      <4>. QED
        BY <2>0, <3>1, <3>4, <4>1, <4>3 DEF NotListed
    <3>5. CASE ClosingLast(p)
      <4>1. CASE blocked["swarm"] = Disconnected(p)
        BY <2>0, <4>1 DEF ClosingLast
      <4>2. CASE blocked["swarm"] # Disconnected(p)
        <5>1. PICK i \in 1 .. Len(events) :
                /\ events[i] = Disconnected(p)
                /\ \A j \in 1 .. Len(events) : j > i => events[j] # Connected(p)
          BY <3>3, <3>5, <4>2 DEF ClosingLast
        <5>2. blocked'["swarm"] # Connected(p)
          BY <2>0, <3>5, <4>2 DEF ClosingLast
        <5>3. CASE i = 1
          BY <3>1, <3>2, <5>1, <5>2, <5>3 DEF ClosingLast
        <5>4. CASE i # 1
          <6>1. i - 1 \in 1 .. Len(events') /\ events'[i - 1] = Disconnected(p)
            BY <3>1, <3>2, <5>1, <5>4
          <6>2. \A j \in 1 .. Len(events') : j > i - 1 => events'[j] # Connected(p)
            BY <3>1, <3>2, <5>1
          <6>. QED
            BY <5>2, <6>1, <6>2 DEF ClosingLast
        <5>. QED
          BY <5>3, <5>4
      <4>. QED
        BY <4>1, <4>2
    <3>. QED
      BY <1>0, <2>0, <3>4, <3>5
  <2>2. ASSUME NEW q \in Peer, hand = Connected(q), PeerConnected(q), Finish PROVE Kept
    <3>1. hand' = None /\ events' = events /\ entries' = [entries EXCEPT ![PeerId(q)] = @ + 1]
      BY <2>2 DEF PeerConnected, Finish
    <3>2. q # p => entries'[PeerId(p)] = entries[PeerId(p)]
      BY <3>1 DEF PeerId
    <3>. QED
      BY <1>0, <2>0, <2>2, <3>1, <3>2 DEF NotListed, ClosingLast
  <2>3. ASSUME NEW q \in Peer, hand = Disconnected(q), PeerDisconnected(q), Finish PROVE Kept
    <3>1. hand' = None /\ events' = events /\ entries' = [entries EXCEPT ![PeerId(q)] = 0]
      BY <2>3 DEF PeerDisconnected, Finish
    <3>2. q # p => entries'[PeerId(p)] = entries[PeerId(p)]
      BY <3>1 DEF PeerId
    <3>3. q = p => entries'[PeerId(p)] = 0
      BY <3>1
    <3>. QED
      BY <1>0, <2>0, <2>3, <3>1, <3>2, <3>3 DEF NotListed, ClosingLast
  <2>4. CASE Finish /\ hand \in {Info, Message} \cup {TorStatus(t) : t \in Tor} /\ UNCHANGED entries
    <3>1. hand' = None /\ events' = events /\ entries' = entries
      BY <2>4 DEF Finish
    <3>2. hand # Connected(p) /\ hand # Disconnected(p)
      BY <2>4
    <3>. QED
      BY <1>0, <2>0, <3>1, <3>2 DEF NotListed, ClosingLast
  <2>5. CASE HandleEvent
    BY <1>1, <2>0, <2>2, <2>3, <2>4, <2>5 DEF HandleEvent
  <2>6. CASE Decrypt
    BY <2>4, <2>6 DEF Decrypt, Handling
  <2>. QED
    BY <1>2, <2>1, <2>5, <2>6 DEF EventStep
<1>3. ASSUME NEW e \in P2pEvent, Emit("swarm", e), UNCHANGED <<events, hand, entries>>,
             \/ conns' = conns /\ e \in {Info, Message}
             \/ \E q \in Peer : /\ conns' = [conns EXCEPT ![q] = @ + 1]
                                /\ e = Connected(q)
             \/ \E q \in Peer : /\ conns[q] > 0 /\ conns' = [conns EXCEPT ![q] = @ - 1]
                                /\ e = Disconnected(q)
      PROVE  Kept
  <2>1. blocked["swarm"] = None /\ blocked'["swarm"] = e
    BY <1>3 DEF Emit
  <2>2. CASE e = Disconnected(p)
    BY <2>1, <2>2 DEF ClosingLast
  <2>3. CASE e # Disconnected(p)
    <3>1. conns[p] = 0 /\ e # Connected(p)
      BY <1>3, <2>3
    <3>. QED
      BY <1>0, <1>3, <2>1, <3>1 DEF NotListed, ClosingLast
  <2>. QED
    BY <2>2, <2>3
<1>4. CASE SwarmEvent
  <2>1. /\ Info \in P2pEvent /\ Message \in P2pEvent
        /\ \A q \in Peer : Connected(q) \in P2pEvent /\ Disconnected(q) \in P2pEvent
    BY DEF P2pEvent
  <2>2. UNCHANGED <<events, hand, entries>>
    BY <1>4 DEF SwarmEvent, eventVars
  <2>. QED
    BY <1>3, <1>4, <2>1, <2>2 DEF SwarmEvent
<1>5. CASE SwarmCommand /\ senderUnchanged
  <2>1. Info \in P2pEvent
    BY DEF P2pEvent
  <2>2. UNCHANGED <<events, hand, entries, conns>>
    BY <1>5 DEF SwarmCommand, senderUnchanged, eventVars
  <2>. QED
    BY <1>1, <1>3, <1>5, <2>1, <2>2 DEF SwarmCommand
<1>6. ASSUME NEW w \in Sender, Deliver(w), senderUnchanged PROVE Kept
  <2>1. /\ blocked[w] \in P2pEvent /\ events' = Append(events, blocked[w])
        /\ blocked' = [blocked EXCEPT ![w] = None] /\ UNCHANGED <<hand, entries, conns>>
    BY <1>6 DEF Deliver, senderUnchanged, eventVars
  <2>2. /\ Len(events') = Len(events) + 1 /\ events'[Len(events')] = blocked[w]
        /\ \A i \in 1 .. Len(events) : events'[i] = events[i]
    BY <2>1, AppendProperties
  <2>3. blocked'["swarm"] \in {blocked["swarm"], None}
    BY <2>1
  <2>4. blocked["swarm"] # Connected(p) => blocked[w] # Connected(p)
    BY DEF TorOnly
  <2>5. CASE NotListed(p)
    <3>0. /\ \A j \in 1 .. Len(events) : events[j] # Connected(p)
          /\ blocked[w] # Connected(p)
      BY <2>4, <2>5 DEF NotListed
    <3>1. \A j \in 1 .. Len(events') : events'[j] # Connected(p)
      <4>1. \A j \in 1 .. Len(events') : j \in 1 .. Len(events) \/ j = Len(events')
        BY <2>2
      <4>. QED
        BY <2>2, <3>0, <4>1
    <3>. QED
      BY <2>1, <2>3, <2>5, <3>1 DEF NotListed
  <2>6. CASE blocked["swarm"] = Disconnected(p)
    <3>1. CASE w = "swarm"
      <4>1. events'[Len(events')] = Disconnected(p) /\ blocked'["swarm"] = None
        BY <2>1, <2>2, <2>6, <3>1
      <4>2. Len(events') \in 1 .. Len(events')
        BY <2>2
      <4>. QED
        BY <4>1, <4>2 DEF ClosingLast
    <3>2. CASE w = "tor"
      BY <2>1, <2>6, <3>2 DEF ClosingLast
    <3>. QED
      BY <3>1, <3>2
  <2>7. CASE ClosingLast(p) /\ blocked["swarm"] # Disconnected(p)
    <3>1. blocked["swarm"] # Connected(p) /\ blocked[w] # Connected(p)
      BY <2>4, <2>7 DEF ClosingLast
    <3>2. /\ \A i \in 1 .. Len(events) : i \in 1 .. Len(events')
          /\ \A i \in 1 .. Len(events') : i \in 1 .. Len(events) \/ i = Len(events')
      BY <2>2
    <3>3. CASE /\ hand = Disconnected(p)
               /\ \A j \in 1 .. Len(events) : events[j] # Connected(p)
      <4>1. \A j \in 1 .. Len(events') : events'[j] # Connected(p)
        BY <2>2, <3>1, <3>2, <3>3
      <4>. QED
        BY <2>1, <2>3, <3>1, <3>3, <4>1 DEF ClosingLast
    <3>4. ASSUME NEW i \in 1 .. Len(events), events[i] = Disconnected(p),
                 \A j \in 1 .. Len(events) : j > i => events[j] # Connected(p)
          PROVE  Kept
      <4>1. \A j \in 1 .. Len(events') : j > i => events'[j] # Connected(p)
        BY <2>2, <3>1, <3>2, <3>4
      <4>2. i \in 1 .. Len(events') /\ events'[i] = Disconnected(p)
        BY <2>2, <3>2, <3>4
      <4>. QED
        BY <2>3, <3>1, <4>1, <4>2 DEF ClosingLast
    <3>. QED
      BY <2>7, <3>3, <3>4 DEF ClosingLast
  <2>. QED
    BY <1>0, <2>1, <2>5, <2>6, <2>7
<1>7. CASE BootTor /\ senderUnchanged
  BY <1>0, <1>7 DEF BootTor, Emit, senderUnchanged, eventVars, NotListed, ClosingLast
<1>8. CASE UiStep \/ (\E k \in Key : Press(k)) \/ UNCHANGED vars
  BY <1>1, <1>8 DEF UiStep, Press, vars, eventVars, netVars
<1>. QED
  BY <1>2, <1>4, <1>5, <1>6, <1>7, <1>8 DEF Next, SwarmStep, TorStep

-----------------------------------------------------------------------------
\* The two events of the start: what became of the proxy, and a note.
LEMMA StartEvents ==
  ASSUME Init
  PROVE  \E t \in Tor \ {"arti"} :
            /\ due = <<TorStatus(t), Info>> /\ events = due
            /\ due \in Seq(P2pEvent) /\ Len(due) = 2
            /\ due[1] = TorStatus(t) /\ due[2] = Info
<1>. DEFINE t == IF proxy THEN "socks5" ELSE "booting"
<1>1. t \in Tor \ {"arti"} /\ due = <<TorStatus(t), Info>> /\ events = due
  BY DEF Init, Tor
<1>2. TorStatus(t) \in P2pEvent /\ Info \in P2pEvent
  BY <1>1 DEF P2pEvent
<1>. HIDE DEF t
<1>. QED
  BY <1>1, <1>2

\* The invariant holds at the start, and hence always.
LEMMA InitInv == Init => Inv
<1>. SUFFICES ASSUME Init PROVE Inv
  OBVIOUS
<1>. USE CapacityAssumption, BoundAssumption, NoneAssumption
<1>1. PICK t \in Tor \ {"arti"} :
         /\ due = <<TorStatus(t), Info>> /\ events = due
         /\ due \in Seq(P2pEvent) /\ Len(due) = 2
         /\ due[1] = TorStatus(t) /\ due[2] = Info
  BY StartEvents
<1>2. TypeOK
  <2>1. Len(events) <= Capacity
    BY <1>1
  <2>2. tor \in [active : BOOLEAN, addr : {"proxy"} \cup Tor]
    BY AnswersAssumption DEF Init
  <2>. QED
    BY <1>1, <2>1, <2>2 DEF Init, TypeOK, Ui, Sender
<1>3. EventsKept /\ Handling
  BY <1>1, ConcatEmptySeq DEF Init, EventsKept, Handling, OneIf
<1>4. TorOnly
  BY EventKinds DEF Init, TorOnly, Sender
<1>5. Gone
  <2>. SUFFICES ASSUME NEW p \in Peer PROVE NotListed(p)
    BY DEF Gone
  <2>1. TorStatus(t) # Connected(p) /\ Info # Connected(p)
    BY EventKinds
  <2>2. \A i \in DOMAIN due : i = 1 \/ i = 2
    BY <1>1
  <2>. QED
    BY <1>1, <2>1, <2>2, EventKinds DEF Init, NotListed, Sender
<1>. QED
  BY <1>2, <1>3, <1>4, <1>5 DEF Inv

\* The inductive invariant holds in every reachable state.
LEMMA Invariance == Spec => []Inv
<1>1. Inv /\ [Next]_vars => Inv'
  BY TypeStep, OrderStep, TorOnlyStep, GoneStep DEF Inv
<1>. QED
  BY InitInv, <1>1, PTL DEF Spec

\* An event that is under way is pending.
LEMMA UnderWay ==
  ASSUME TypeOK, NEW e \in P2pEvent,
         \/ hand = e \/ blocked["swarm"] = e
         \/ \E i \in 1 .. Len(events) : events[i] = e
  PROVE  Pending({e}) > 0
<1>. DEFINE At == {i \in DOMAIN Outstanding : Outstanding[i] \in {e}}
<1>. USE NoneAssumption DEF TypeOK, Sender
<1>1. /\ OneIf(hand) \in Seq(P2pEvent) /\ OneIf(blocked["swarm"]) \in Seq(P2pEvent)
      /\ events \in Seq(P2pEvent)
  BY DEF OneIf
<1>2. OneIf(hand) \o events \in Seq(P2pEvent) /\ Outstanding \in Seq(P2pEvent)
  BY <1>1, ConcatProperties DEF Outstanding
<1>3. /\ Len(OneIf(hand) \o events) = Len(OneIf(hand)) + Len(events)
      /\ \A i \in 1 .. Len(OneIf(hand)) + Len(events) :
            (OneIf(hand) \o events)[i] = IF i <= Len(OneIf(hand)) THEN OneIf(hand)[i]
                                         ELSE events[i - Len(OneIf(hand))]
  BY <1>1, ConcatProperties
<1>4. LET h == OneIf(hand) \o events  b == OneIf(blocked["swarm"])
      IN  /\ Len(Outstanding) = Len(h) + Len(b)
          /\ \A i \in 1 .. Len(h) + Len(b) :
                Outstanding[i] = IF i <= Len(h) THEN h[i] ELSE b[i - Len(h)]
  BY <1>1, <1>2, ConcatProperties DEF Outstanding
<1>5. At # {}
  <2>1. CASE hand = e
    <3>1. OneIf(hand) = <<e>> /\ Len(OneIf(hand)) = 1
      BY <2>1 DEF OneIf
    <3>2. (OneIf(hand) \o events)[1] = e /\ Len(OneIf(hand) \o events) >= 1
      BY <1>1, <1>3, <3>1
    <3>3. 1 \in 1 .. Len(Outstanding) /\ Outstanding[1] = e
      BY <1>1, <1>2, <1>4, <3>2
    <3>. QED
      BY <1>2, <3>3
  <2>2. CASE blocked["swarm"] = e
    <3>. DEFINE n == Len(OneIf(hand) \o events)
    <3>1. OneIf(blocked["swarm"])[1] = e /\ Len(OneIf(blocked["swarm"])) = 1 /\ n \in Nat
      BY <1>2, <2>2 DEF OneIf
    <3>2. Len(Outstanding) = n + 1
      BY <1>4, <3>1
    <3>3. n + 1 \in 1 .. n + 1 /\ ~(n + 1 <= n) /\ (n + 1) - n = 1
      BY <3>1
    <3>4. Outstanding[n + 1] = OneIf(blocked["swarm"])[(n + 1) - n]
      BY <1>4, <3>1, <3>3
    <3>5. n + 1 \in DOMAIN Outstanding /\ Outstanding[n + 1] = e
      BY <1>2, <3>1, <3>2, <3>3, <3>4
    <3>. QED
      BY <3>5
  <2>3. ASSUME NEW i \in 1 .. Len(events), events[i] = e PROVE At # {}
    <3>. DEFINE k == Len(OneIf(hand)) + i
    <3>1. (OneIf(hand) \o events)[k] = e /\ k \in 1 .. Len(OneIf(hand) \o events)
      BY <1>1, <1>3, <2>3
    <3>2. k \in 1 .. Len(Outstanding) /\ Outstanding[k] = e
      BY <1>1, <1>2, <1>4, <3>1
    <3>. QED
      BY <1>2, <3>2
  <2>. QED
    BY <2>1, <2>2, <2>3
<1>6. IsFiniteSet(At) /\ Cardinality(At) \in Nat
  <2>1. IsFiniteSet(1 .. Len(Outstanding))
    BY <1>2, FS_Interval
  <2>2. At \subseteq 1 .. Len(Outstanding)
    BY <1>2
  <2>. QED
    BY <2>1, <2>2, FS_Subset, FS_CardinalityType
<1>. QED
  <2>1. Cardinality(At) # 0
    BY <1>5, <1>6, FS_EmptySet
  <2>2. Pending({e}) = Cardinality(At)
    BY DEF Pending
  <2>. HIDE DEF At
  <2>. QED
    BY <1>6, <2>1, <2>2

-----------------------------------------------------------------------------
\* The count of connected peers.  That it is the number of connections once all
\* that is under way is handled (Balance) is not inductive: the handling of a
\* closing does not count below zero.  It never would, because the count after
\* each event under way is the number of connections at the time of that event
\* (Ledger), and that is a natural number.

Effect(e) == IF e \in Opening THEN 1 ELSE IF e \in Closing THEN -1 ELSE 0

Ledger ==
    \E f \in [0 .. Len(due) -> Nat] :
        /\ f[0] = count
        /\ \A k \in 1 .. Len(due) : f[k] = f[k - 1] + Effect(due[k])
        /\ f[Len(due)] + Effect(blocked["swarm"]) = Cardinality(Connections)

\* How many elements of s are in E.
Occurrences(s, E) == Cardinality({i \in DOMAIN s : s[i] \in E})

One(e, E) == IF e \in E THEN 1 ELSE 0

Balance ==
    LET b == blocked["swarm"] IN
    count + Occurrences(due, Opening) + One(b, Opening)
        = Cardinality(Connections) + Occurrences(due, Closing) + One(b, Closing)

CountInv == IsFiniteSet(Connections) /\ Ledger /\ Balance

\* No event is an opening and a closing.
LEMMA OpeningOrClosing ==
  /\ \A e : ~ (e \in Opening /\ e \in Closing)
  /\ \A e : Effect(e) = One(e, Opening) - One(e, Closing)
  /\ \A e : One(e, Opening) \in {0, 1} /\ One(e, Closing) \in {0, 1} /\ Effect(e) \in {-1, 0, 1}
  /\ \A e \in {None, Info, Message} \cup {TorStatus(t) : t \in Tor} : e \notin Opening /\ e \notin Closing
<1>1. \A e : ~ (e \in Opening /\ e \in Closing)
  BY EventKinds DEF Opening, Closing
<1>. QED
  BY <1>1, EventKinds DEF Opening, Closing, Effect, One

\* The places of a sequence where a member of E is are finitely many.
LEMMA OccurrencesType ==
  ASSUME NEW S, NEW s \in Seq(S), NEW E
  PROVE  /\ IsFiniteSet({i \in DOMAIN s : s[i] \in E})
         /\ Occurrences(s, E) \in Nat
<1>1. DOMAIN s = 1 .. Len(s) /\ Len(s) \in Nat
  OBVIOUS
<1>2. IsFiniteSet(1 .. Len(s))
  BY <1>1, FS_Interval
<1>3. {i \in DOMAIN s : s[i] \in E} \in SUBSET (1 .. Len(s))
  BY <1>1
<1>. QED
  BY <1>2, <1>3, FS_Subset, FS_CardinalityType DEF Occurrences

\* One more element at the end.
LEMMA OccurrencesAppend ==
  ASSUME NEW S, NEW s \in Seq(S), NEW e \in S, NEW E
  PROVE  Occurrences(Append(s, e), E) = Occurrences(s, E) + One(e, E)
<1>. DEFINE A == {i \in DOMAIN s : s[i] \in E}
            n == Len(s) + 1
            t == Append(s, e)
            B == {i \in DOMAIN t : t[i] \in E}
<1>1. /\ DOMAIN s = 1 .. Len(s) /\ Len(s) \in Nat /\ DOMAIN t = 1 .. n
      /\ \A i \in 1 .. Len(s) : t[i] = s[i]
      /\ t[n] = e
  BY AppendProperties
<1>2. IsFiniteSet(A) /\ Cardinality(A) \in Nat /\ n \notin A
  <2>1. IsFiniteSet(A) /\ Occurrences(s, E) \in Nat
    BY OccurrencesType
  <2>. QED
    BY <1>1, <2>1 DEF Occurrences
<1>3. B = IF e \in E THEN A \cup {n} ELSE A
  <2>. HIDE DEF t
  <2>1. \A i : i \in 1 .. n <=> i \in 1 .. Len(s) \/ i = n
    BY <1>1
  <2>. QED
    BY <1>1, <2>1
<1>. HIDE DEF A, B
<1>4. Cardinality(B) = Cardinality(A) + One(e, E)
  <2>1. Cardinality(A \cup {n}) = Cardinality(A) + 1
    BY <1>2, FS_AddElement
  <2>. QED
    BY <1>2, <1>3, <2>1 DEF One
<1>. QED
  BY <1>4 DEF A, B, t, Occurrences

\* The first element taken away.
LEMMA OccurrencesTail ==
  ASSUME NEW S, NEW s \in Seq(S), s # << >>, NEW E
  PROVE  Occurrences(s, E) = Occurrences(Tail(s), E) + One(s[1], E)
<1>. DEFINE A == {i \in DOMAIN s : s[i] \in E}
            t == Tail(s)
            B == {i \in DOMAIN t : t[i] \in E}
            C == A \ {1}
            f == [i \in B |-> i + 1]
<1>1. /\ DOMAIN s = 1 .. Len(s) /\ Len(s) \in Nat /\ Len(s) >= 1
      /\ t \in Seq(S) /\ DOMAIN t = 1 .. Len(s) - 1
      /\ \A i \in 1 .. Len(s) - 1 : t[i] = s[i + 1]
  OBVIOUS
<1>2. IsFiniteSet(A) /\ IsFiniteSet(B) /\ Cardinality(A) \in Nat /\ Cardinality(B) \in Nat
  BY <1>1, OccurrencesType DEF Occurrences
<1>3. Cardinality(C) = Cardinality(B)
  <2>. HIDE DEF t
  <2>1. f \in [B -> C]
    <3>. SUFFICES ASSUME NEW i \in B PROVE i + 1 \in C
      OBVIOUS
    <3>1. i \in 1 .. Len(s) - 1 /\ s[i + 1] \in E
      BY <1>1
    <3>. QED
      BY <1>1, <3>1
  <2>2. \A i, j \in B : f[i] = f[j] => i = j
    BY <1>1
  <2>3. \A j \in C : \E i \in B : f[i] = j
    <3>. SUFFICES ASSUME NEW j \in C PROVE j - 1 \in B /\ f[j - 1] = j
      OBVIOUS
    <3>1. j \in 1 .. Len(s) /\ j # 1 /\ s[j] \in E
      BY <1>1
    <3>2. j - 1 \in 1 .. Len(s) - 1 /\ (j - 1) + 1 = j
      BY <1>1, <3>1
    <3>. QED
      BY <1>1, <3>1, <3>2
  <2>. HIDE DEF f, B, C
  <2>4. f \in Bijection(B, C)
    BY <2>1, <2>2, <2>3, Fun_IsBij
  <2>. QED
    BY <1>2, <2>4, FS_Bijection DEF ExistsBijection
<1>4. 1 \in A <=> s[1] \in E
  BY <1>1
<1>. HIDE DEF A, B, t
<1>5. Cardinality(C) = IF s[1] \in E THEN Cardinality(A) - 1 ELSE Cardinality(A)
  BY <1>2, <1>4, FS_RemoveElement
<1>. HIDE DEF C
<1>6. Cardinality(A) = Cardinality(B) + One(s[1], E)
  BY <1>2, <1>3, <1>5 DEF One
<1>. QED
  BY <1>6 DEF A, B, t, Occurrences

\* What the four kinds of steps do to the count, the connections and the events.
Finished ==
    /\ due # << >> /\ due' = Tail(due) /\ blocked'["swarm"] = blocked["swarm"] /\ conns' = conns
    /\ count' = IF due[1] \in Opening THEN count + 1
                ELSE IF due[1] \in Closing /\ count > 0 THEN count - 1 ELSE count

Delivered(e) ==
    /\ due' = Append(due, e) /\ count' = count /\ conns' = conns
    /\ \/ e = blocked["swarm"] /\ blocked'["swarm"] = None
       \/ Effect(e) = 0 /\ One(e, Opening) = 0 /\ One(e, Closing) = 0
          /\ blocked'["swarm"] = blocked["swarm"]

Emitted(e) ==
    /\ due' = due /\ count' = count
    /\ blocked["swarm"] = None /\ blocked'["swarm"] = e
    /\ \/ conns' = conns /\ Effect(e) = 0 /\ One(e, Opening) = 0 /\ One(e, Closing) = 0
       \/ \E p \in Peer : /\ conns[p] < MaxConns /\ conns' = [conns EXCEPT ![p] = @ + 1]
                          /\ e = Connected(p)
       \/ \E p \in Peer : /\ conns[p] > 0 /\ conns' = [conns EXCEPT ![p] = @ - 1]
                          /\ e = Disconnected(p)

Aside == UNCHANGED <<due, count, conns>> /\ blocked'["swarm"] = blocked["swarm"]

\* Every step is one of them.
LEMMA StepKinds ==
  ASSUME Inv, [Next]_vars
  PROVE  Aside \/ Finished \/ \E e \in P2pEvent : Delivered(e) \/ Emitted(e)
<1>. USE NoneAssumption DEF Inv, TypeOK, Sender
<1>1. CASE EventStep
  <2>0. conns' = conns /\ blocked' = blocked
    BY <1>1 DEF EventStep, netVars
  <2>1. CASE Receive
    BY <2>0, <2>1 DEF Receive, Aside
  <2>2. CASE hand # None
    <3>1. due = <<hand>> \o events /\ hand \in P2pEvent /\ events \in Seq(P2pEvent)
      BY <2>2 DEF EventsKept, OneIf
    <3>2. due # << >> /\ due[1] = hand
      BY <3>1
    <3>3. ASSUME NEW p \in Peer, hand = Connected(p), PeerConnected(p), Finish
          PROVE  Finished
      BY <2>0, <3>2, <3>3 DEF Finished, PeerConnected, Finish, Opening
    <3>4. ASSUME NEW p \in Peer, hand = Disconnected(p), PeerDisconnected(p), Finish
          PROVE  Finished
      <4>1. hand \in Closing /\ hand \notin Opening
        BY <3>4, EventKinds DEF Closing, Opening
      <4>. QED
        BY <2>0, <3>2, <3>4, <4>1 DEF Finished, PeerDisconnected, Finish
    <3>5. ASSUME hand \in {Info, Message} \cup {TorStatus(t) : t \in Tor}, Finish, count' = count
          PROVE  Finished
      <4>1. hand \notin Closing /\ hand \notin Opening
        BY <3>5, OpeningOrClosing
      <4>. QED
        BY <2>0, <3>2, <3>5, <4>1 DEF Finished, Finish
    <3>6. CASE HandleEvent
      BY <2>0, <3>3, <3>4, <3>5, <3>6 DEF HandleEvent, Aside
    <3>7. CASE Decrypt
      BY <3>5, <3>7 DEF Decrypt, Handling
    <3>. QED
      BY <1>1, <2>0, <2>1, <3>6, <3>7 DEF EventStep
  <2>. QED
    BY <1>1, <2>1, <2>2 DEF EventStep, HandleEvent, Decrypt, Handling
<1>2. Info \in P2pEvent /\ Message \in P2pEvent
      /\ \A q \in Peer : Connected(q) \in P2pEvent /\ Disconnected(q) \in P2pEvent
  BY DEF P2pEvent
<1>3. \A e \in {Info, Message} : Effect(e) = 0 /\ One(e, Opening) = 0 /\ One(e, Closing) = 0
  BY OpeningOrClosing DEF Effect, One
<1>4. CASE SwarmEvent
  <2>1. due' = due /\ count' = count
    BY <1>4 DEF SwarmEvent, eventVars
  <2>2. ASSUME NEW e \in P2pEvent, Emit("swarm", e)
        PROVE  blocked["swarm"] = None /\ blocked'["swarm"] = e
    BY <2>2 DEF Emit
  <2>. QED
    BY <1>2, <1>3, <1>4, <2>1, <2>2 DEF SwarmEvent, Emitted
<1>5. CASE SwarmCommand /\ senderUnchanged
  BY <1>2, <1>3, <1>5 DEF SwarmCommand, senderUnchanged, eventVars, Emit, Emitted, Aside
<1>6. CASE Deliver("swarm") /\ senderUnchanged
  <2>1. blocked["swarm"] \in P2pEvent /\ blocked'["swarm"] = None
    BY <1>6 DEF Deliver
  <2>. QED
    BY <1>6, <2>1 DEF Deliver, senderUnchanged, eventVars, Delivered
<1>7. CASE Deliver("tor") /\ senderUnchanged
  <2>1. blocked["tor"] \in P2pEvent /\ blocked'["swarm"] = blocked["swarm"]
    BY <1>7 DEF Deliver
  <2>2. blocked["tor"] \notin Opening /\ blocked["tor"] \notin Closing
    BY DEF TorOnly, Opening, Closing
  <2>. QED
    BY <1>7, <2>1, <2>2 DEF Deliver, senderUnchanged, eventVars, Delivered, Effect, One
<1>8. CASE BootTor /\ senderUnchanged
  BY <1>8 DEF BootTor, Emit, senderUnchanged, eventVars, Aside
<1>9. CASE UiStep \/ (\E k \in Key : Press(k)) \/ UNCHANGED vars
  BY <1>9 DEF UiStep, Press, vars, eventVars, netVars, Aside
<1>. QED
  BY <1>1, <1>4, <1>5, <1>6, <1>7, <1>8, <1>9 DEF Next, SwarmStep, TorStep

-----------------------------------------------------------------------------
\* The number of connections follows the openings and closings.
LEMMA ConnectionsStep ==
  ASSUME TypeOK, IsFiniteSet(Connections), NEW e \in P2pEvent, Emitted(e)
  PROVE  /\ IsFiniteSet(Connections')
         /\ Cardinality(Connections) \in Nat
         /\ Cardinality(Connections') = Cardinality(Connections) + Effect(e)
<1>. USE BoundAssumption DEF TypeOK
<1>0. Cardinality(Connections) \in Nat
  BY FS_CardinalityType
<1>1. CASE conns' = conns /\ Effect(e) = 0
  <2>1. Connections' = Connections
    BY <1>1 DEF Connections
  <2>. QED
    BY <1>0, <1>1, <2>1
<1>2. ASSUME NEW p \in Peer, conns[p] < MaxConns, conns' = [conns EXCEPT ![p] = @ + 1],
             e = Connected(p)
      PROVE  IsFiniteSet(Connections') /\ Cardinality(Connections') = Cardinality(Connections) + 1
  <2>. DEFINE c == <<p, conns[p] + 1>>
  <2>1. conns[p] \in Nat /\ conns[p] + 1 \in 1 .. MaxConns
    BY <1>2
  <2>2. c \notin Connections
    BY <2>1 DEF Connections
  <2>3. Connections' = Connections \cup {c}
    <3>1. \A q \in Peer, n \in 1 .. MaxConns :
            n <= conns'[q] <=> n <= conns[q] \/ (q = p /\ n = conns[p] + 1)
      BY <1>2, <2>1
    <3>2. c \in Peer \X (1 .. MaxConns)
      BY <2>1
    <3>. QED
      BY <3>1, <3>2 DEF Connections
  <2>. HIDE DEF c
  <2>. QED
    BY <2>2, <2>3, FS_AddElement
<1>3. ASSUME NEW p \in Peer, conns[p] > 0, conns' = [conns EXCEPT ![p] = @ - 1],
             e = Disconnected(p)
      PROVE  IsFiniteSet(Connections') /\ Cardinality(Connections') = Cardinality(Connections) - 1
  <2>. DEFINE c == <<p, conns[p]>>
  <2>1. conns[p] \in Nat /\ conns[p] \in 1 .. MaxConns
    BY <1>3
  <2>2. c \in Connections
    BY <2>1 DEF Connections
  <2>3. Connections' = Connections \ {c}
    <3>1. \A q \in Peer, n \in 1 .. MaxConns :
            n <= conns'[q] <=> n <= conns[q] /\ ~(q = p /\ n = conns[p])
      BY <1>3, <2>1
    <3>. QED
      BY <3>1 DEF Connections
  <2>. HIDE DEF c
  <2>. QED
    BY <2>2, <2>3, FS_RemoveElement
<1>4. \A p \in Peer : Effect(Connected(p)) = 1 /\ Effect(Disconnected(p)) = -1
  BY EventKinds DEF Effect, Opening, Closing
<1>5. ASSUME NEW p \in Peer, conns[p] < MaxConns, conns' = [conns EXCEPT ![p] = @ + 1],
             e = Connected(p)
      PROVE  IsFiniteSet(Connections') /\ Cardinality(Connections') = Cardinality(Connections) + Effect(e)
  BY <1>2, <1>4, <1>5
<1>6. ASSUME NEW p \in Peer, conns[p] > 0, conns' = [conns EXCEPT ![p] = @ - 1],
             e = Disconnected(p)
      PROVE  IsFiniteSet(Connections') /\ Cardinality(Connections') = Cardinality(Connections) + Effect(e)
  <2>1. Effect(e) = -1
    BY <1>4, <1>6
  <2>. QED
    BY <1>0, <1>3, <1>6, <2>1
<1>. QED
  BY <1>0, <1>1, <1>5, <1>6 DEF Emitted

\* An event is handled: the count is the next of the ledger.
LEMMA CountFinished ==
  ASSUME TypeOK, CountInv, Finished PROVE CountInv'
<1>. DEFINE n == Len(due)
            t == Tail(due)
            N == Cardinality(Connections)
            b == blocked["swarm"]
<1>1. /\ due \in Seq(P2pEvent) /\ count \in Nat /\ n \in Nat /\ n >= 1
      /\ t \in Seq(P2pEvent) /\ Len(t) = n - 1
      /\ \A k \in 1 .. n - 1 : t[k] = due[k + 1]
  BY DEF TypeOK, Finished
<1>2. due' = t /\ blocked'["swarm"] = b /\ Connections' = Connections
  BY DEF Finished, Connections
<1>3. PICK f \in [0 .. n -> Nat] :
        /\ f[0] = count
        /\ \A k \in 1 .. n : f[k] = f[k - 1] + Effect(due[k])
        /\ f[n] + Effect(b) = N
  BY DEF CountInv, Ledger
<1>4. 0 \in 0 .. n /\ 1 \in 0 .. n /\ 1 \in 1 .. n /\ 1 - 1 = 0
  BY <1>1
<1>5. f[1] \in Nat /\ f[1] = count + Effect(due[1])
  BY <1>3, <1>4
<1>6. count' = f[1]
  <2>1. CASE due[1] \in Opening
    BY <1>5, <2>1 DEF Finished, Effect
  <2>2. CASE due[1] \in Closing /\ due[1] \notin Opening
    <3>1. Effect(due[1]) = -1
      BY <2>2 DEF Effect
    <3>2. count > 0 /\ f[1] = count - 1
      BY <1>1, <1>5, <3>1
    <3>. QED
      BY <2>2, <3>2 DEF Finished
  <2>3. CASE due[1] \notin Closing /\ due[1] \notin Opening
    BY <1>1, <1>5, <2>3 DEF Finished, Effect
  <2>. QED
    BY <2>1, <2>2, <2>3
<1>7. Ledger'
  <2>. DEFINE g == [k \in 0 .. n - 1 |-> f[k + 1]]
  <2>1. g \in [0 .. n - 1 -> Nat] /\ g[0] = f[1] /\ g[n - 1] = f[n]
    BY <1>1, <1>3
  <2>2. ASSUME NEW k \in 1 .. n - 1 PROVE g[k] = g[k - 1] + Effect(t[k])
    <3>1. k \in 0 .. n - 1 /\ k - 1 \in 0 .. n - 1 /\ k + 1 \in 1 .. n /\ (k - 1) + 1 = k /\ (k + 1) - 1 = k
      BY <1>1
    <3>2. g[k] = f[k + 1] /\ g[k - 1] = f[k] /\ t[k] = due[k + 1]
      BY <1>1, <3>1
    <3>3. f[k + 1] = f[k] + Effect(due[k + 1])
      BY <1>3, <3>1
    <3>. QED
      BY <3>2, <3>3
  <2>. HIDE DEF g, n, t, N, b
  <2>3. /\ g \in [0 .. Len(t) -> Nat] /\ g[0] = count'
        /\ \A k \in 1 .. Len(t) : g[k] = g[k - 1] + Effect(t[k])
        /\ g[Len(t)] + Effect(b) = N
    BY <1>1, <1>3, <1>6, <2>1, <2>2
  <2>. QED
    BY <1>2, <2>3 DEF Ledger, N, Effect, Opening, Closing
<1>8. Balance'
  <2>1. Occurrences(due, Opening) = Occurrences(t, Opening) + One(due[1], Opening)
    BY <1>1, OccurrencesTail DEF Finished
  <2>2. Occurrences(due, Closing) = Occurrences(t, Closing) + One(due[1], Closing)
    BY <1>1, OccurrencesTail DEF Finished
  <2>3. /\ Occurrences(t, Opening) \in Nat /\ Occurrences(t, Closing) \in Nat
    BY <1>1, OccurrencesType
  <2>4. /\ One(due[1], Opening) \in {0, 1} /\ One(due[1], Closing) \in {0, 1}
        /\ One(b, Opening) \in {0, 1} /\ One(b, Closing) \in {0, 1}
        /\ Effect(due[1]) = One(due[1], Opening) - One(due[1], Closing)
    BY OpeningOrClosing
  <2>5. N \in Nat
    BY FS_CardinalityType DEF CountInv
  <2>6. count + Occurrences(due, Opening) + One(b, Opening)
          = N + Occurrences(due, Closing) + One(b, Closing)
    BY DEF CountInv, Balance
  <2>. HIDE DEF n, t, N, b
  <2>7. count' + Occurrences(t, Opening) + One(b, Opening)
          = N + Occurrences(t, Closing) + One(b, Closing)
    <3>. DEFINE x == Occurrences(t, Opening)   y == Occurrences(t, Closing)
                p == One(due[1], Opening)      q == One(due[1], Closing)
                v == One(b, Opening)           w == One(b, Closing)
    <3>1. count' = count + (p - q) /\ count \in Int
      BY <1>1, <1>5, <1>6, <2>4
    <3>2. p \in Int /\ q \in Int /\ v \in Int /\ w \in Int
      BY <2>4
    <3>3. x \in Int /\ y \in Int /\ N \in Int
      BY <2>3, <2>5
    <3>4. count + (x + p) + v = N + (y + q) + w
      BY <2>1, <2>2, <2>6
    <3>. HIDE DEF x, y, p, q, v, w
    <3>5. count' + x + v = N + y + w
      BY <3>1, <3>2, <3>3, <3>4
    <3>. QED
      BY <3>5 DEF x, y, v, w
  <2>. QED
    BY <1>2, <2>7 DEF Balance, N, Opening, Closing, Occurrences, One
<1>. QED
  BY <1>2, <1>7, <1>8 DEF CountInv

\* The ledger goes on to the event that a task has put in the channel.
LEMMA CountDelivered ==
  ASSUME TypeOK, CountInv, NEW e \in P2pEvent, Delivered(e) PROVE CountInv'
<1>. DEFINE n == Len(due)
            t == Append(due, e)
            N == Cardinality(Connections)
            b == blocked["swarm"]
            c == blocked'["swarm"]
<1>1. /\ due \in Seq(P2pEvent) /\ count \in Nat /\ n \in Nat
      /\ t \in Seq(P2pEvent) /\ Len(t) = n + 1
      /\ \A k \in 1 .. n : t[k] = due[k]
      /\ t[n + 1] = e
  BY AppendProperties DEF TypeOK
<1>2. due' = t /\ count' = count /\ Connections' = Connections
  BY DEF Delivered, Connections
<1>3. PICK f \in [0 .. n -> Nat] :
        /\ f[0] = count
        /\ \A k \in 1 .. n : f[k] = f[k - 1] + Effect(due[k])
        /\ f[n] + Effect(b) = N
  BY DEF CountInv, Ledger
<1>4. N \in Nat
  BY FS_CardinalityType DEF CountInv
<1>5. Effect(None) = 0 /\ One(None, Opening) = 0 /\ One(None, Closing) = 0
  BY OpeningOrClosing DEF Effect, One
<1>6. /\ Effect(b) = Effect(e) + Effect(c)
      /\ One(b, Opening) = One(e, Opening) + One(c, Opening)
      /\ One(b, Closing) = One(e, Closing) + One(c, Closing)
      /\ \/ c = None \/ Effect(e) = 0
  <2>1. CASE e = b /\ c = None
    BY <1>5, <2>1, OpeningOrClosing
  <2>2. CASE Effect(e) = 0 /\ One(e, Opening) = 0 /\ One(e, Closing) = 0 /\ c = b
    BY <2>2, OpeningOrClosing
  <2>. QED
    BY <2>1, <2>2 DEF Delivered
<1>7. Effect(e) \in Int /\ Effect(c) \in Int
  BY OpeningOrClosing
<1>8. f[n] \in Nat /\ f[n] + Effect(e) \in Nat
  <2>1. f[n] \in Nat
    BY <1>1, <1>3
  <2>2. CASE c = None
    BY <1>3, <1>4, <1>5, <1>6, <1>7, <2>1, <2>2
  <2>3. CASE Effect(e) = 0
    BY <2>1, <2>3
  <2>. QED
    BY <1>6, <2>1, <2>2, <2>3
<1>9. Ledger'
  <2>. DEFINE g == [k \in 0 .. n + 1 |-> IF k = n + 1 THEN f[n] + Effect(e) ELSE f[k]]
  <2>. HIDE DEF t, N, b, c
  <2>1. g \in [0 .. n + 1 -> Nat]
    BY <1>1, <1>3, <1>8
  <2>2. g[0] = count /\ g[n + 1] = f[n] + Effect(e)
    BY <1>1, <1>3
  <2>3. ASSUME NEW k \in 1 .. n + 1 PROVE g[k] = g[k - 1] + Effect(t[k])
    <3>1. CASE k = n + 1
      <4>1. k - 1 = n /\ n \in 0 .. n + 1 /\ n # n + 1
        BY <1>1, <3>1
      <4>2. g[k - 1] = f[n]
        BY <4>1
      <4>. QED
        BY <1>1, <2>2, <3>1, <4>2
    <3>2. CASE k # n + 1
      <4>1. k \in 1 .. n /\ k \in 0 .. n + 1 /\ k - 1 \in 0 .. n + 1 /\ k - 1 # n + 1
        BY <1>1, <3>2
      <4>2. g[k] = f[k] /\ g[k - 1] = f[k - 1] /\ t[k] = due[k]
        BY <1>1, <3>2, <4>1
      <4>. QED
        BY <1>3, <4>1, <4>2
    <3>. QED
      BY <3>1, <3>2
  <2>. HIDE DEF g, n
  <2>4. f[n] + Effect(e) + Effect(c) = N
    BY <1>3, <1>4, <1>6, <1>7, <1>8
  <2>5. /\ g \in [0 .. Len(t) -> Nat] /\ g[0] = count
        /\ \A k \in 1 .. Len(t) : g[k] = g[k - 1] + Effect(t[k])
        /\ g[Len(t)] + Effect(c) = N
    BY <1>1, <2>1, <2>2, <2>3, <2>4
  <2>. QED
    BY <1>2, <2>5 DEF Ledger, N, c, Effect, Opening, Closing
<1>10. Balance'
  <2>1. Occurrences(t, Opening) = Occurrences(due, Opening) + One(e, Opening)
    BY <1>1, OccurrencesAppend
  <2>2. Occurrences(t, Closing) = Occurrences(due, Closing) + One(e, Closing)
    BY <1>1, OccurrencesAppend
  <2>3. Occurrences(due, Opening) \in Nat /\ Occurrences(due, Closing) \in Nat
    BY <1>1, OccurrencesType
  <2>4. /\ One(e, Opening) \in {0, 1} /\ One(e, Closing) \in {0, 1}
        /\ One(c, Opening) \in {0, 1} /\ One(c, Closing) \in {0, 1}
    BY OpeningOrClosing
  <2>5. count + Occurrences(due, Opening) + One(b, Opening)
          = N + Occurrences(due, Closing) + One(b, Closing)
    BY DEF CountInv, Balance
  <2>. HIDE DEF n, t, N, b, c
  <2>6. count + Occurrences(t, Opening) + One(c, Opening)
          = N + Occurrences(t, Closing) + One(c, Closing)
    BY <1>1, <1>4, <1>6, <2>1, <2>2, <2>3, <2>4, <2>5
  <2>. QED
    BY <1>2, <2>6 DEF Balance, N, c, Opening, Closing, Occurrences, One
<1>. QED
  BY <1>2, <1>9, <1>10 DEF CountInv

\* A connection opens or closes, and the swarm task has the event for it.
LEMMA CountEmitted ==
  ASSUME TypeOK, CountInv, NEW e \in P2pEvent, Emitted(e) PROVE CountInv'
<1>. DEFINE N == Cardinality(Connections)
            M == Cardinality(Connections')
            b == blocked["swarm"]
            c == blocked'["swarm"]
<1>1. IsFiniteSet(Connections') /\ N \in Nat /\ M = N + Effect(e)
  BY ConnectionsStep DEF CountInv
<1>2. due' = due /\ count' = count /\ b = None /\ c = e
  BY DEF Emitted
<1>3. Effect(None) = 0 /\ One(None, Opening) = 0 /\ One(None, Closing) = 0
  BY OpeningOrClosing DEF Effect, One
<1>4. /\ Effect(e) = One(e, Opening) - One(e, Closing)
      /\ One(e, Opening) \in {0, 1} /\ One(e, Closing) \in {0, 1}
  BY OpeningOrClosing
<1>5. due \in Seq(P2pEvent) /\ count \in Nat
  BY DEF TypeOK
<1>6. Ledger'
  <2>1. PICK f \in [0 .. Len(due) -> Nat] :
          /\ f[0] = count
          /\ \A k \in 1 .. Len(due) : f[k] = f[k - 1] + Effect(due[k])
          /\ f[Len(due)] + Effect(b) = N
    BY DEF CountInv, Ledger
  <2>. HIDE DEF N, M, b, c
  <2>2. f[Len(due)] \in Nat
    BY <1>5, <2>1
  <2>3. f[Len(due)] + Effect(c) = M
    BY <1>1, <1>2, <1>3, <2>1, <2>2
  <2>. QED
    BY <1>2, <2>1, <2>3 DEF Ledger, M, c, Effect, Opening, Closing
<1>7. Balance'
  <2>1. Occurrences(due, Opening) \in Nat /\ Occurrences(due, Closing) \in Nat
    BY <1>5, OccurrencesType
  <2>2. count + Occurrences(due, Opening) + One(b, Opening)
          = N + Occurrences(due, Closing) + One(b, Closing)
    BY DEF CountInv, Balance
  <2>. HIDE DEF N, M, b, c
  <2>3. count + Occurrences(due, Opening) + One(c, Opening)
          = M + Occurrences(due, Closing) + One(c, Closing)
    BY <1>1, <1>2, <1>3, <1>4, <1>5, <2>1, <2>2
  <2>. QED
    BY <1>2, <2>3 DEF Balance, M, c, Opening, Closing, Occurrences, One
<1>. QED
  BY <1>1, <1>6, <1>7 DEF CountInv

\* At the start nothing is connected, and neither event is about a connection.
LEMMA CountInit == Init => CountInv
<1>. SUFFICES ASSUME Init PROVE CountInv
  OBVIOUS
<1>1. /\ count = 0 /\ blocked["swarm"] = None
      /\ \A p \in Peer : conns[p] = 0
  BY DEF Init, Sender
<1>2. Connections = {}
  BY <1>1, BoundAssumption DEF Connections
<1>3. IsFiniteSet(Connections) /\ Cardinality(Connections) = 0
  BY <1>2, FS_EmptySet
<1>4. PICK t \in Tor : Len(due) = 2 /\ due[1] = TorStatus(t) /\ due[2] = Info
                        /\ due \in Seq(P2pEvent)
  BY StartEvents
<1>5. \A e \in {None, Info, TorStatus(t)} : e \notin Opening /\ e \notin Closing
  BY OpeningOrClosing
<1>6. \A e \in {None, Info, TorStatus(t)} :
         Effect(e) = 0 /\ One(e, Opening) = 0 /\ One(e, Closing) = 0
  BY <1>5 DEF Effect, One
<1>7. \A i \in 1 .. 2 : due[i] \in {None, Info, TorStatus(t)}
  BY <1>4
<1>8. Ledger
  <2>. DEFINE f == [k \in 0 .. 2 |-> 0]
  <2>1. f \in [0 .. 2 -> Nat] /\ f[0] = 0 /\ f[2] = 0 /\ \A k \in 1 .. 2 : f[k] = 0 /\ f[k - 1] = 0
    OBVIOUS
  <2>. HIDE DEF f
  <2>2. \A k \in 1 .. 2 : f[k] = f[k - 1] + Effect(due[k])
    BY <1>6, <1>7, <2>1
  <2>. QED
    <3>1. Effect(blocked["swarm"]) = 0
      BY <1>1, <1>6
    <3>2. f \in [0 .. Len(due) -> Nat] /\ f[0] = count
          /\ (\A k \in 1 .. Len(due) : f[k] = f[k - 1] + Effect(due[k]))
          /\ f[Len(due)] + Effect(blocked["swarm"]) = Cardinality(Connections)
      BY <1>1, <1>3, <1>4, <2>1, <2>2, <3>1
    <3>. QED
      BY <3>2 DEF Ledger
<1>9. Balance
  <2>1. DOMAIN due = 1 .. 2
    BY <1>4
  <2>2. ASSUME NEW E, Info \notin E, TorStatus(t) \notin E, None \notin E
        PROVE  Occurrences(due, E) = 0
    <3>1. {i \in DOMAIN due : due[i] \in E} = {}
      BY <1>7, <2>1, <2>2
    <3>. QED
      BY <3>1, FS_EmptySet DEF Occurrences
  <2>3. Occurrences(due, Opening) = 0 /\ Occurrences(due, Closing) = 0
    BY <1>5, <2>2
  <2>. QED
    BY <1>1, <1>3, <1>6, <2>3 DEF Balance
<1>. QED
  BY <1>3, <1>8, <1>9 DEF CountInv

\* Every step keeps the books.
LEMMA CountStep == Inv /\ CountInv /\ [Next]_vars => CountInv'
<1>. SUFFICES ASSUME Inv, CountInv, [Next]_vars PROVE CountInv'
  OBVIOUS
<1>1. TypeOK
  BY DEF Inv
<1>2. CASE Aside
  <2>1. Connections' = Connections /\ due' = due /\ count' = count
        /\ blocked'["swarm"] = blocked["swarm"]
    BY <1>2 DEF Aside, Connections
  <2>. QED
    BY <2>1 DEF CountInv, Ledger, Balance, Effect, Opening, Closing, Occurrences, One
<1>. QED
  BY <1>1, <1>2, CountFinished, CountDelivered, CountEmitted, StepKinds

\* What is under way of the swarm is due or in its hand.
LEMMA PendingIsDue ==
  ASSUME Inv, NEW E, None \notin E
  PROVE  Pending(E) = Occurrences(due, E) + One(blocked["swarm"], E)
<1>. DEFINE b == blocked["swarm"]
<1>1. due \in Seq(P2pEvent) /\ due = OneIf(hand) \o events /\ b \in P2pEvent \cup {None}
  BY DEF Inv, TypeOK, EventsKept, Sender
<1>2. Pending(E) = Occurrences(Outstanding, E)
  BY DEF Pending, Occurrences
<1>3. Outstanding = due \o OneIf(b)
  BY <1>1 DEF Outstanding
<1>. HIDE DEF b
<1>4. CASE b = None
  <2>1. Outstanding = due
    BY <1>1, <1>3, <1>4, ConcatEmptySeq DEF OneIf
  <2>2. One(b, E) = 0 /\ Occurrences(due, E) \in Nat
    BY <1>1, <1>4, OccurrencesType DEF One
  <2>. QED
    BY <1>2, <2>1, <2>2 DEF b
<1>5. CASE b # None
  <2>1. b \in P2pEvent /\ Outstanding = Append(due, b)
    BY <1>1, <1>3, <1>5, AppendIsConcat DEF OneIf
  <2>2. Occurrences(Append(due, b), E) = Occurrences(due, E) + One(b, E)
    BY <1>1, <2>1, OccurrencesAppend
  <2>. QED
    BY <1>2, <2>1, <2>2 DEF b
<1>. QED
  BY <1>4, <1>5

-----------------------------------------------------------------------------
\* The status of Tor.  A status of the start-up is at most the first of the events
\* that are due, and then AppState does not hold that Arti is up.
ArtiLast ==
    \A t \in Tor \ {"arti"} :
        /\ blocked["swarm"] # TorStatus(t) /\ blocked["tor"] # TorStatus(t)
        /\ \A i \in 1 .. Len(due) : due[i] = TorStatus(t) => i = 1 /\ tor.addr # "arti"

\* At the start that is so: the status of the start-up is the first of the two
\* events, and AppState holds the address of the proxy.
LEMMA ArtiLastInit == Init => ArtiLast
<1>. SUFFICES ASSUME Init, NEW t \in Tor \ {"arti"}
              PROVE  /\ blocked["swarm"] # TorStatus(t) /\ blocked["tor"] # TorStatus(t)
                     /\ \A i \in 1 .. Len(due) : due[i] = TorStatus(t) => i = 1 /\ tor.addr # "arti"
  BY DEF ArtiLast
<1>1. TorStatus(t) # None /\ TorStatus(t) # Info
  BY NoneAssumption DEF P2pEvent, TorStatus, Info
<1>2. Len(due) = 2 /\ due[2] = Info
  BY StartEvents
<1>3. blocked["swarm"] = None /\ blocked["tor"] = None /\ tor.addr = "proxy"
  BY DEF Init, Sender
<1>4. \A i \in 1 .. Len(due) : i = 1 \/ i = 2
  BY <1>2
<1>. QED
  BY <1>1, <1>2, <1>3, <1>4

\* Every step keeps it, and none takes the status back from Arti.
LEMMA ArtiLastStep ==
  ASSUME Inv, ArtiLast, [Next]_vars
  PROVE  ArtiLast' /\ (tor.addr = "arti" => tor'.addr = "arti")
<1>. USE NoneAssumption DEF Inv, TypeOK, Sender
<1>0. \A t \in Tor : /\ TorStatus(t) \in P2pEvent
                     /\ TorStatus(t) # Info /\ TorStatus(t) # Message
                     /\ \A p \in Peer : TorStatus(t) # Connected(p) /\ TorStatus(t) # Disconnected(p)
                     /\ \A u \in Tor : TorStatus(t) = TorStatus(u) => t = u
  BY DEF P2pEvent, TorStatus, Info, Message, Connected, Disconnected
<1>1. ASSUME UNCHANGED <<due, tor>>,
             \A w \in Sender, t \in Tor \ {"arti"} :
                 blocked'[w] = TorStatus(t) => blocked[w] = TorStatus(t)
      PROVE  ArtiLast' /\ (tor.addr = "arti" => tor'.addr = "arti")
  <2>. SUFFICES ASSUME NEW t \in Tor \ {"arti"}
                PROVE  /\ blocked'["swarm"] # TorStatus(t) /\ blocked'["tor"] # TorStatus(t)
                       /\ \A i \in 1 .. Len(due') : due'[i] = TorStatus(t) => i = 1 /\ tor'.addr # "arti"
    BY <1>1 DEF ArtiLast, TorStatus
  <2>. QED
    BY <1>1 DEF ArtiLast
<1>2. ASSUME NEW w \in Sender, Deliver(w), senderUnchanged
      PROVE  ArtiLast' /\ (tor.addr = "arti" => tor'.addr = "arti")
  <2>1. /\ due' = Append(due, blocked[w]) /\ blocked' = [blocked EXCEPT ![w] = None] /\ tor' = tor
        /\ blocked[w] \in P2pEvent
    BY <1>2 DEF Deliver, senderUnchanged, eventVars
  <2>. SUFFICES ASSUME NEW t \in Tor \ {"arti"}
                PROVE  /\ blocked'["swarm"] # TorStatus(t) /\ blocked'["tor"] # TorStatus(t)
                       /\ \A i \in 1 .. Len(due') : due'[i] = TorStatus(t) => i = 1 /\ tor'.addr # "arti"
    BY <2>1 DEF ArtiLast, TorStatus
  <2>2. blocked[w] # TorStatus(t)
    BY DEF ArtiLast
  <2>3. /\ Len(due') = Len(due) + 1 /\ due'[Len(due) + 1] = blocked[w]
        /\ \A i \in 1 .. Len(due) : due'[i] = due[i]
    BY <2>1, AppendProperties
  <2>4. \A i \in 1 .. Len(due') : i \in 1 .. Len(due) \/ i = Len(due) + 1
    BY <2>3
  <2>5. blocked'["swarm"] # TorStatus(t) /\ blocked'["tor"] # TorStatus(t)
    BY <1>0, <2>1 DEF ArtiLast
  <2>. QED
    BY <2>1, <2>2, <2>3, <2>4, <2>5 DEF ArtiLast
<1>3. ASSUME hand # None, Finish, blocked' = blocked,
             tor' = tor \/ \E t \in Tor : hand = TorStatus(t) /\ tor'.addr = t
      PROVE  ArtiLast' /\ (tor.addr = "arti" => tor'.addr = "arti")
  <2>1. due = <<hand>> \o events /\ hand \in P2pEvent /\ events \in Seq(P2pEvent)
    BY <1>3 DEF EventsKept, OneIf
  <2>2. due' = events /\ Len(due) = Len(events) + 1 /\ due[1] = hand
        /\ \A i \in 1 .. Len(events) : events[i] = due[i + 1]
    BY <1>3, <2>1, AfterFinish
  <2>3. \A i \in 1 .. Len(events) : i + 1 \in 1 .. Len(due) /\ i + 1 # 1
    BY <2>1, <2>2
  <2>4. 1 \in 1 .. Len(due)
    BY <2>1, <2>2
  <2>5. tor.addr = "arti" => tor'.addr = "arti"
    BY <1>3, <2>2, <2>4 DEF ArtiLast
  <2>6. ASSUME NEW t \in Tor \ {"arti"}
        PROVE  /\ blocked'["swarm"] # TorStatus(t) /\ blocked'["tor"] # TorStatus(t)
               /\ \A i \in 1 .. Len(due') : due'[i] # TorStatus(t)
    BY <1>3, <2>2, <2>3 DEF ArtiLast
  <2>. QED
    BY <2>5, <2>6 DEF ArtiLast, TorStatus
<1>4. CASE EventStep
  <2>0. blocked' = blocked
    BY <1>4 DEF EventStep, netVars
  <2>1. CASE Receive
    BY <1>1, <2>0, <2>1 DEF Receive
  <2>2. CASE HandleEvent
    BY <1>0, <1>1, <1>3, <2>0, <2>2 DEF HandleEvent, Handling, TorStatus
  <2>3. CASE Decrypt
    BY <1>3, <2>0, <2>3 DEF Decrypt, Handling
  <2>. QED
    BY <1>4, <2>1, <2>2, <2>3 DEF EventStep
<1>5. CASE SwarmEvent
  <2>1. due' = due /\ tor' = tor
        /\ \E e \in {Info, Message} \cup Opening \cup Closing : blocked' = [blocked EXCEPT !["swarm"] = e]
    BY <1>5 DEF SwarmEvent, Emit, eventVars, Opening, Closing
  <2>2. \A e \in {Info, Message} \cup Opening \cup Closing, t \in Tor : e # TorStatus(t)
    BY <1>0 DEF Opening, Closing
  <2>. QED
    BY <1>1, <2>1, <2>2
<1>6. CASE SwarmCommand /\ senderUnchanged
  BY <1>0, <1>1, <1>6 DEF SwarmCommand, Emit, senderUnchanged, eventVars
<1>7. CASE BootTor /\ senderUnchanged
  <2>1. due' = due /\ tor' = tor
        /\ \E e \in {Info, TorStatus("arti")} : blocked' = [blocked EXCEPT !["tor"] = e]
    BY <1>7 DEF BootTor, Emit, senderUnchanged, eventVars
  <2>2. \A t \in Tor \ {"arti"} : Info # TorStatus(t) /\ TorStatus("arti") # TorStatus(t)
    BY <1>0 DEF Tor
  <2>. QED
    BY <1>1, <2>1, <2>2
<1>8. CASE UiStep \/ (\E k \in Key : Press(k)) \/ UNCHANGED vars
  BY <1>1, <1>8 DEF UiStep, Press, vars, eventVars, netVars
<1>. QED
  BY <1>2, <1>4, <1>5, <1>6, <1>7, <1>8 DEF Next, SwarmStep, TorStep

-----------------------------------------------------------------------------
\* The tasks keep their types: the channels stay within their capacity.
THEOREM TaskTypes == Spec => []TypeOK
  BY Invariance, PTL DEF Inv

\* No event is dropped, repeated or overtaken between the tasks that send them
\* and the one that handles them.
THEOREM NoEventLost == Spec => []EventsKept
  BY Invariance, PTL DEF Inv

\* A peer that is listed is connected, or its closing is still under way.
THEOREM ListFollowsConnections == Spec => []ListedPeersConnected
<1>1. Inv => ListedPeersConnected
  <2>. SUFFICES ASSUME Inv, NEW p \in Peer, entries[PeerId(p)] > 0
                PROVE  conns[p] > 0 \/ Pending({Disconnected(p)}) > 0
    BY DEF ListedPeersConnected
  <2>1. CASE conns[p] > 0
    BY <2>1
  <2>2. CASE ~(conns[p] > 0)
    <3>1. conns[p] = 0
      BY <2>2, BoundAssumption DEF Inv, TypeOK
    <3>2. ClosingLast(p)
      BY <3>1 DEF Inv, Gone, NotListed
    <3>3. Disconnected(p) \in P2pEvent
      BY DEF P2pEvent
    <3>. QED
      BY <3>2, <3>3, UnderWay DEF ClosingLast, Inv
  <2>. QED
    BY <2>1, <2>2
<1>. QED
  BY Invariance, <1>1, PTL
\* The number of connected peers on the dashboard agrees with the number of
\* connections, but for the openings and closings it has not been told of yet,
\* however many events and connections there are.
THEOREM CountFollowsConnections == Spec => []CountInStep
<1>1. Inv /\ CountInv => CountInStep
  <2>. SUFFICES ASSUME Inv, CountInv PROVE CountInStep
    OBVIOUS
  <2>. DEFINE b == blocked["swarm"]
  <2>1. None \notin Opening /\ None \notin Closing
    BY OpeningOrClosing
  <2>2. Pending(Opening) = Occurrences(due, Opening) + One(b, Opening)
    BY <2>1, PendingIsDue
  <2>3. Pending(Closing) = Occurrences(due, Closing) + One(b, Closing)
    BY <2>1, PendingIsDue
  <2>4. count + Occurrences(due, Opening) + One(b, Opening)
          = Cardinality(Connections) + Occurrences(due, Closing) + One(b, Closing)
    BY DEF CountInv, Balance
  <2>5. /\ count \in Nat /\ Cardinality(Connections) \in Nat
        /\ Occurrences(due, Opening) \in Nat /\ Occurrences(due, Closing) \in Nat
    BY OccurrencesType, FS_CardinalityType DEF CountInv, Inv, TypeOK
  <2>6. One(b, Opening) \in {0, 1} /\ One(b, Closing) \in {0, 1}
    BY OpeningOrClosing
  <2>. HIDE DEF b
  <2>. QED
    BY <2>2, <2>3, <2>4, <2>5, <2>6 DEF CountInStep
<1>. QED
  BY Invariance, CountInit, CountStep, <1>1, PTL DEF Spec

\* Once AppState holds what the task that boots Tor reported it goes on to: the
\* status of the start-up, which another task sent, is never handled after it.
\* (That it gets there at all is LastTorStatusKept.)
THEOREM ArtiStatusKept == Spec => [][tor.addr = "arti" => tor'.addr = "arti"]_vars
<1>1. Inv /\ ArtiLast /\ [Next]_vars => ArtiLast' /\ (tor.addr = "arti" => tor'.addr = "arti")
  BY ArtiLastStep
<1>2. Inv /\ ArtiLast /\ [Next]_vars => [tor.addr = "arti" => tor'.addr = "arti"]_vars
  BY <1>1
<1>. QED
  BY Invariance, ArtiLastInit, <1>1, <1>2, PTL DEF Spec
=============================================================================
