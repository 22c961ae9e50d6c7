---------------------------- MODULE ClientTasks ----------------------------
(***************************************************************************)
(* The four tasks of a running client: the dashboard (run_loop of          *)
(* crates/client/src/tui.rs with the command handler of run_client), the   *)
(* task of run_client that handles P2P events, and the swarm task and the  *)
(* task that boots Tor of crates/client/src/p2p.rs.  They share AppState   *)
(* and the ratchets, behind a tokio mutex each, and two bounded channels.  *)
(*                                                                         *)
(* A task gives way only at an await, so what it does from one await to    *)
(* the next is one step.  Two guards live across an await: the ratchets in *)
(* /send, while it waits for AppState, and AppState in MessageReceived,    *)
(* while it waits for the ratchets.  A mutex is held exactly when the task *)
(* is at that place.                                                       *)
(*                                                                         *)
(* Drawing, the line editor and what the ratchets compute are left out.    *)
(***************************************************************************)
EXTENDS Integers, Sequences, FiniteSets

CONSTANTS
    Peer,       \* the other nodes
    None,       \* nothing
    Capacity,   \* of either channel: 100 in the code
    MaxEvents,  \* bound: events the network causes
    MaxKeys,    \* bound: keys the user presses
    MaxConns,   \* bound: simultaneous connections to one peer
    Answers     \* bound: whether the SOCKS5 proxy answers when the client starts

\* P2pNetworkService::new sends two events before anything receives.
ASSUME CapacityAssumption == Capacity \in Nat \ {0, 1}
ASSUME BoundAssumption == MaxEvents \in Nat /\ MaxKeys \in Nat /\ MaxConns \in Nat
ASSUME AnswersAssumption == Answers \subseteq BOOLEAN

VARIABLES
    ui,         \* where the dashboard task is
    key,        \* the key that waits to be read
    command,    \* the command that is carried out
    keys,       \* keys pressed so far
    events,     \* the event channel
    hand,       \* the event the event task has received
    handler,    \* where the event task is
    blocked,    \* the event each sender waits to put in the channel
    boot,       \* how far the task that boots Tor is
    commands,   \* the command channel
    entries,    \* AppState::peers: how many entries have each key
    count,      \* AppState::connected_peers_count
    proxy,      \* P2pNetworkService::tor_connected: whether the SOCKS5 proxy
                \* answered when the client started
    tor,        \* AppState::tor_active and tor_proxy_addr
    conns,      \* open connections to each peer
    caused,     \* events the network and the commands caused so far
    due         \* the events whose send has returned, in that order, up to the
                \* time the event task is done with them

vars == <<ui, key, command, keys, events, hand, handler, blocked, boot, commands,
          entries, count, proxy, tor, conns, caused, due>>

\* What PeerItem::pubkey_hex holds, and what the user types: a libp2p PeerId
\* has 52 characters, a public key 64.
PeerId(p) == <<"peer id", p>>
PubKey(p) == <<"public key", p>>

Connected(p)    == [kind |-> "connected", peer |-> p]
Disconnected(p) == [kind |-> "disconnected", peer |-> p]
Message         == [kind |-> "message"]
Info            == [kind |-> "info"]

\* What the Tor events say: the SOCKS5 proxy answered, it did not and Arti is
\* booting, Arti is up.
Tor == {"socks5", "booting", "arti"}

TorStatus(t) == [kind |-> "tor", connected |-> t # "booting", status |-> t]

P2pEvent ==
    {Connected(p) : p \in Peer} \cup {Disconnected(p) : p \in Peer}
    \cup {TorStatus(t) : t \in Tor} \cup {Message, Info}

\* The tasks that send events.
Sender == {"swarm", "tor"}

ASSUME NoneAssumption == None \notin P2pEvent

\* "/exit" is also /wipe; "status" is any command that does no more here than
\* write AppState once.
Command == {<<"/connect">>, <<"/exit">>, <<"status">>} \cup {<<"/send", p>> : p \in Peer}

\* A key; a command is the Enter that submits it.
Key == {<<"ctrl_c">>, <<"other">>} \cup Command

P2pCommand == {<<"dial">>} \cup {<<"send", p>> : p \in Peer}

Ui == {"draw", "key", "command", "status", "dispatch", "exited"}

TypeOK ==
    /\ ui \in Ui
    /\ key \in Key \cup {None} /\ command \in Command \cup {None}
    /\ keys \in 0 .. MaxKeys
    /\ events \in Seq(P2pEvent) /\ Len(events) <= Capacity
    /\ hand \in P2pEvent \cup {None}
    /\ handler \in {"receive", "handle", "decrypt"}
    /\ blocked \in [Sender -> P2pEvent \cup {None}]
    /\ boot \in {"start", "booting", "booted", "ended"}
    /\ commands \in Seq(P2pCommand) /\ Len(commands) <= Capacity
    /\ entries \in [{PeerId(p) : p \in Peer} -> Nat]
    /\ count \in Nat
    /\ proxy \in BOOLEAN
    /\ tor \in [active : BOOLEAN, addr : {"proxy"} \cup Tor]
    /\ caused \in 0 .. MaxEvents
    /\ conns \in [Peer -> 0 .. MaxConns]
    /\ due \in Seq(P2pEvent)

\* P2pNetworkService::new tries the proxy and queues what it found and that it
\* listens; run_client writes the result to AppState with the bare address of the
\* proxy.  (The task that boots Tor runs from then on: its first event, a note
\* as well, cannot be told from the second one here.)
Init ==
    /\ ui = "draw" /\ key = None /\ command = None /\ keys = 0
    /\ proxy \in Answers /\ boot = "start"
    /\ tor = [active |-> proxy, addr |-> "proxy"]
    /\ events = <<TorStatus(IF proxy THEN "socks5" ELSE "booting"), Info>>
    /\ hand = None /\ handler = "receive"
    /\ blocked = [w \in Sender |-> None] /\ commands = << >>
    /\ entries = [x \in {PeerId(p) : p \in Peer} |-> 0] /\ count = 0
    /\ conns = [p \in Peer |-> 0] /\ caused = 0
    /\ due = events

Running == ui # "exited"

\* variant: the guard of the key handler lives until the command is done
AppStateFreeHeld == handler # "decrypt" /\ ui \notin {"command", "status", "dispatch"}

AppStateFree == handler # "decrypt"

RatchetsFree == ui # "dispatch"

uiVars == <<ui, key, command, commands>>
eventVars == <<hand, handler, entries, count, tor>>
netVars == <<blocked, boot, proxy, conns, caused>>

-----------------------------------------------------------------------------
\* The dashboard task.

Press(k) ==
    /\ Running /\ key = None /\ keys < MaxKeys
    /\ key' = k /\ keys' = keys + 1
    /\ UNCHANGED <<ui, command, commands, events, due, eventVars, netVars>>

\* Draws under the lock and polls; without a key the loop starts again.
Draw ==
    /\ ui = "draw" /\ AppStateFree
    /\ ui' = IF key = None THEN "draw" ELSE "key"
    /\ UNCHANGED <<key, command, commands>>

\* The key is handled under the lock of AppState, Ctrl+C too.
HandleKey ==
    /\ ui = "key" /\ AppStateFree
    /\ key' = None
    /\ \/ key = <<"ctrl_c">> /\ ui' = "exited" /\ UNCHANGED command
       \/ key = <<"other">> /\ ui' = "draw" /\ UNCHANGED command
       \/ key \in Command /\ ui' = "command" /\ command' = key
    /\ UNCHANGED commands

\* try_send: the command is dropped when the channel is full.
TrySend(cmd) ==
    commands' = IF Len(commands) < Capacity THEN Append(commands, cmd) ELSE commands

\* The command handler up to its first await.  /connect queues its command,
\* unless the address does not parse; /send takes the ratchets, unless the
\* key is malformed.
RunCommand ==
    /\ ui = "command"
    /\ \/ command = <<"/exit">> /\ ui' = "exited" /\ UNCHANGED commands
       \/ command # <<"/exit">> /\ ui' = "status" /\ UNCHANGED commands
       \/ command = <<"/connect">> /\ ui' = "status" /\ TrySend(<<"dial">>)
       \/ command[1] = "/send" /\ ui' = "dispatch" /\ UNCHANGED commands
    /\ UNCHANGED <<key, command>>

\* The command is done; its guards are dropped.
Return == ui' = "draw" /\ command' = None /\ UNCHANGED key

\* A command writes its status and returns to the loop.
WriteStatus ==
    /\ ui = "status" /\ AppStateFree
    /\ Return
    /\ UNCHANGED commands

\* The entries of the peer table that /send p finds.
Targets(p) == {x \in DOMAIN entries : entries[x] > 0 /\ x = PubKey(p)}

\* The rest of /send after encrypt, with the ratchets locked all the time.
Dispatch(p) ==
    /\ ui = "dispatch" /\ command = <<"/send", p>> /\ AppStateFree
    /\ Return
    /\ IF Targets(p) # {} THEN TrySend(<<"send", p>>) ELSE UNCHANGED commands

\* The same when encrypt failed: only a status is written.
ReportFailure ==
    /\ ui = "dispatch" /\ AppStateFree
    /\ Return
    /\ UNCHANGED commands

UiStep ==
    /\ \/ Draw \/ HandleKey \/ RunCommand \/ WriteStatus \/ ReportFailure
       \/ \E p \in Peer : Dispatch(p)
    /\ UNCHANGED <<keys, events, due, eventVars, netVars>>

-----------------------------------------------------------------------------
\* The event task.

Receive ==
    /\ handler = "receive" /\ events # << >>
    /\ hand' = Head(events) /\ events' = Tail(events)
    /\ handler' = "handle"
    /\ UNCHANGED <<entries, count, tor, due>>

\* The end of the loop body: the guards are dropped.
Finish ==
    /\ due' = Tail(due)
    /\ hand' = None
    /\ handler' = "receive"
    /\ UNCHANGED events

PeerConnected(p) ==
    /\ count' = count + 1
    /\ entries' = [entries EXCEPT ![PeerId(p)] = @ + 1]

\* variant: the entries stay
PeerDisconnectedKept(p) ==
    /\ count' = IF count > 0 THEN count - 1 ELSE count
    /\ UNCHANGED entries

\* variant: the count goes down by the entries that are removed
PeerDisconnectedPerEntry(p) ==
    /\ count' = count - entries[PeerId(p)]
    /\ entries' = [entries EXCEPT ![PeerId(p)] = 0]

PeerDisconnected(p) ==
    /\ count' = IF count > 0 THEN count - 1 ELSE count
    /\ entries' = [entries EXCEPT ![PeerId(p)] = 0]

\* The handling of an event under the lock of AppState; a message needs the
\* ratchets too, if it deserializes.
HandleEvent ==
    /\ handler = "handle" /\ AppStateFree
    /\ \/ /\ \E p \in Peer : \/ hand = Connected(p) /\ PeerConnected(p)
                             \/ hand = Disconnected(p) /\ PeerDisconnected(p)
          /\ Finish
          /\ UNCHANGED tor
       \/ /\ hand \in {TorStatus(t) : t \in Tor}
          /\ tor' = [active |-> hand.connected, addr |-> hand.status]
          /\ Finish
          /\ UNCHANGED <<entries, count>>
       \/ /\ hand \in {Message, Info}
          /\ Finish
          /\ UNCHANGED <<entries, count, tor>>
       \/ /\ hand = Message
          /\ handler' = "decrypt"
          /\ UNCHANGED <<events, hand, entries, count, tor, due>>

Decrypt ==
    /\ handler = "decrypt" /\ RatchetsFree
    /\ Finish
    /\ UNCHANGED <<entries, count, tor>>

EventStep ==
    /\ Running
    /\ Receive \/ HandleEvent \/ Decrypt
    /\ UNCHANGED <<uiVars, keys, netVars>>

-----------------------------------------------------------------------------
\* The two senders.  A task that waits for room in the event channel does
\* nothing else: the swarm task serves neither the network nor commands.

Emit(w, e) ==
    /\ blocked[w] = None
    /\ blocked' = [blocked EXCEPT ![w] = e]

\* ConnectionEstablished, ConnectionClosed, a request, a new listen address.
SwarmEvent ==
    /\ Running /\ caused < MaxEvents
    /\ \/ \E p \in Peer :
             \/ /\ conns[p] < MaxConns
                /\ conns' = [conns EXCEPT ![p] = @ + 1]
                /\ Emit("swarm", Connected(p))
             \/ /\ conns[p] > 0
                /\ conns' = [conns EXCEPT ![p] = @ - 1]
                /\ Emit("swarm", Disconnected(p))
       \/ /\ Emit("swarm", Message) \/ Emit("swarm", Info)
          /\ UNCHANGED conns
    /\ caused' = caused + 1
    /\ UNCHANGED <<uiVars, keys, events, due, eventVars, boot, proxy>>

\* A command: a dial that fails at once is logged, anything else goes out.
SwarmCommand ==
    /\ blocked["swarm"] = None /\ commands # << >>
    /\ commands' = Tail(commands)
    /\ \/ /\ Head(commands) = <<"dial">> /\ caused < MaxEvents
          /\ Emit("swarm", Info)
          /\ caused' = caused + 1
       \/ UNCHANGED <<blocked, caused>>
    /\ UNCHANGED <<events, due, boot>>

\* The task that boots Tor: a note, then the outcome, and a second note if Arti
\* is up.
BootTor ==
    /\ \/ boot = "start" /\ Emit("tor", Info) /\ boot' = "booting"
       \/ boot = "booting" /\ Emit("tor", TorStatus("arti")) /\ boot' = "booted"
       \/ boot = "booting" /\ Emit("tor", Info) /\ boot' = "ended"
       \/ boot = "booted" /\ Emit("tor", Info) /\ boot' = "ended"
    /\ UNCHANGED <<commands, events, due, caused>>

\* variant: an unbounded channel
DeliverUnbounded(w) ==
    /\ blocked[w] # None
    /\ events' = Append(events, blocked[w]) /\ due' = Append(due, blocked[w])
    /\ blocked' = [blocked EXCEPT ![w] = None]
    /\ UNCHANGED <<commands, boot, caused>>

\* variant: try_send where the code awaits send
DeliverOrDrop(w) ==
    /\ blocked[w] # None
    /\ events' = IF Len(events) < Capacity THEN Append(events, blocked[w]) ELSE events
    /\ due' = Append(due, blocked[w])
    /\ blocked' = [blocked EXCEPT ![w] = None]
    /\ UNCHANGED <<commands, boot, caused>>

\* event_tx.send returns when there is room.
Deliver(w) ==
    /\ blocked[w] # None /\ Len(events) < Capacity
    /\ events' = Append(events, blocked[w]) /\ due' = Append(due, blocked[w])
    /\ blocked' = [blocked EXCEPT ![w] = None]
    /\ UNCHANGED <<commands, boot, caused>>

senderUnchanged == UNCHANGED <<ui, key, command, keys, eventVars, proxy, conns>>

SwarmStep ==
    /\ Running
    /\ SwarmCommand \/ Deliver("swarm")
    /\ senderUnchanged

TorStep ==
    /\ Running
    /\ BootTor \/ Deliver("tor")
    /\ senderUnchanged

-----------------------------------------------------------------------------
Next ==
    (\E k \in Key : Press(k)) \/ UiStep \/ EventStep \/ SwarmEvent \/ SwarmStep \/ TorStep

\* tokio runs every task that can go on.  The network and the user are bounded,
\* so this does not ask the mutexes to be fair.
Spec ==
    /\ Init /\ [][Next]_vars
    /\ WF_vars(UiStep) /\ WF_vars(EventStep) /\ WF_vars(SwarmStep) /\ WF_vars(TorStep)

-----------------------------------------------------------------------------
\* The circle: /send holds the ratchets and waits for AppState, the event task
\* holds AppState and waits for the ratchets.
Circle == ui = "dispatch" /\ handler = "decrypt"

OneIf(x) == IF x = None THEN << >> ELSE <<x>>

\* Events are handled in the order in which they were sent, by either task; none
\* is dropped and none is handled twice, however full the channel is.
EventsKept == due = OneIf(hand) \o events

\* The events of the swarm that the event task has not finished.
Outstanding == OneIf(hand) \o events \o OneIf(blocked["swarm"])

\* How many of them are in E.
Pending(E) == Cardinality({i \in DOMAIN Outstanding : Outstanding[i] \in E})

Opening == {Connected(p) : p \in Peer}

Closing == {Disconnected(p) : p \in Peer}

\* The open connections, those to one peer numbered.
Connections == {c \in Peer \X (1 .. MaxConns) : c[2] <= conns[c[1]]}

\* The number of connected peers on the dashboard is the number of connections
\* as of the last event it was told of: once it is told of the openings and the
\* closings under way, the two are equal.
CountInStep == count + Pending(Opening) = Cardinality(Connections) + Pending(Closing)

\* The dashboard lists no peer that is gone, but for closings it has not been
\* told of yet.
ListedPeersConnected ==
    \A p \in Peer : entries[PeerId(p)] > 0 => conns[p] > 0 \/ Pending({Disconnected(p)}) > 0

\* Ctrl+C ends the program, unless the circle keeps the dashboard from seeing
\* it: no other pair of waits can.
ExitOrCircle == (key = <<"ctrl_c">>) ~> (ui = "exited" \/ Circle)

\* The swarm task gets its event into the channel, however full it is, and goes
\* on to serve the network, with the same exception.
NetworkServed ==
    (blocked["swarm"] # None) ~> (blocked["swarm"] = None \/ ui = "exited" \/ Circle)

\* The status the task that boots Tor reports last is the one AppState holds in
\* the end: none of the start-up, which another task sent, overwrites it.  (What
\* the header makes of it is BadgeMeansProxy.)
LastTorStatusKept ==
    (boot = "booted") ~>
        [](tor = [active |-> TRUE, addr |-> "arti"] \/ ui = "exited" \/ Circle)

\* The badge the header shows when tor_active is set (tui.rs:219).
SocksBadge == tor.active

\* TOR_COMMUNICATIONS_GUIDE.md:50: "[TOR: SOCKS5 ACTIVE]: Indicates Hexapriv is
\* routing all outbound/inbound P2P traffic through your local Tor SOCKS5
\* daemon".  At the least, that daemon answered.
BadgeMeansProxy == SocksBadge => proxy

\* README.md:153: "Ctrl + C | Emergency exit application".
CtrlCExits == (key = <<"ctrl_c">>) ~> (ui = "exited")

\* README.md:146, of /send: "Encrypts payload via Signal Double Ratchet and
\* transmits over libp2p swarm."  A message to a peer that is connected and
\* listed reaches the swarm when there is room.
SendTransmits ==
    [][\A p \in Peer :
          Dispatch(p) /\ entries[PeerId(p)] > 0 /\ Len(commands) < Capacity
             => commands' = Append(commands, <<"send", p>>)]_vars

=============================================================================
