# HexaPriv: models, checks and proofs

TLA+ specifications of HexaPriv, a peer-to-peer terminal messenger in Rust with
Double Ratchet sessions, a fallback relay, and a second passcode that destroys
the user's data. Each module is translated from the code under `src/crates/`;
`PROJECT.json` names, for each definition, the lines it stands for.

    tlc -workers 2 -config RatchetSession_lossy.cfg MCRatchetSession
    tlapm RatchetSessionProofs.tla

## 1. Inventory

| Part | Source | State | Operations | Modelled in |
| --- | --- | --- | --- | --- |
| Double Ratchet | `common/src/signal.rs` | `RatchetState`: root key, two chain keys, own and remote DH key, counters `n_send`, `n_recv`, `pn`, cached message keys | `init_alice`, `init_bob`, `encrypt`, `decrypt` (with `dh_ratchet`, `skip_message_keys`) | `DoubleRatchet` |
| Session of two peers | `client/src/lib.rs`, `p2p.rs` | one `RatchetState` per conversation and side, messages in flight | the ratchet calls of `/send` and of `MessageReceived` | `RatchetSession`, `SecureChannel`; `Conversation` for the maps of ratchets, restarts and `/delete` |
| Relay store | `relay/src/store.rs` | two maps, messages and signals, behind a mutex each | `add_message`, `fetch_messages`, `process_destruction_signal`, `fetch_signals` | `RelayStore`, `RelayMailbox` |
| Relay handlers | `relay/src/lib.rs` | none | `/send`, `/poll`, `/destroy`, `/signals`, `/health` | `RelayStore` |
| Wire types | `common/src/protocol.rs` | none | `sanitize_ascii`, `compute_fingerprint` | the fields the relay reads |
| Command handler, event task | `client/src/lib.rs` | `AppState`, ratchets (a tokio mutex each) | one command per line of input, one event at a time | `ClientTasks` |
| P2P service | `client/src/p2p.rs` | two channels of 100 entries, the swarm, the boot of Tor | commands in, events out | `ClientTasks` (swarm task, Tor task) |
| Dashboard | `client/src/tui.rs` | the input line and its history in `AppState` | `run_loop`, `render_ui` | `ClientTasks` (the loop) |
| Storage | `client/src/storage.rs` | the files `config`, `identity` and messages | write, `silent_wipe`, `delete_conversation_keys`, `save_message` | `DuressStorage`, `Vault` |
| Duress engine, setup and login | `client/src/duress.rs`, `lib.rs` | two passcode hashes in `config` | `setup_passcodes`, `authenticate`, `trigger_duress_wipe` | `DuressStorage`, `Vault` |
| Identity file | `common/src/identity.rs` | none | `encrypt`, `decrypt` | `Encrypt`, `Decrypts` of `DuressStorage`, an ideal seal |
| Command line | `hexapriv/src/main.rs` | none | dispatch; `wipe` | `wipe` in `DuressStorage` |
| Ephemeral box | `common/src/ephemeral.rs` | none | `encrypt_ephemeral`, `decrypt_ephemeral` | no: stateless, used by tests only |
| Terminal I/O, build files | `terminal.rs`, `Dockerfile`, `install.sh` | none | | no |

How they interact. The dashboard task calls the command handler and waits for
it. `/send` encrypts under the lock of the ratchets and hands a command to the
swarm task through one channel; the swarm task reports connections and messages
through the other to the event task, which decrypts under the locks of
`AppState` and the ratchets. `/send` also appends to the message files, and
`/delete`, `/wipe` and the duress code destroy files. The relay is a program of
its own; the client of this commit never calls it (`_override_relay_url`).

What is hard here, and what correctness means:

* **Ratchet**: messages overtake each other, get lost, arrive twice. Every
  message in flight must still open, none may open twice, no key may be used
  twice, and the state must not yield keys of messages already read.
* **Conversations**: a client makes its end of a session when it first sends or
  first receives, keeps it under an id that depends on what was typed, and loses
  it when it ends. What one side sends must open at one that only answers, and
  over all conversations and lives of both clients no key may be used again
  unless the two begin alike.
* **Relay**: handlers run in parallel; one takes two mutexes; expiry is lazy and
  compares two clocks. No acknowledged message may vanish, none may be handed
  over twice, a visible destruction signal must mean that the purge is done.
* **Client tasks**: four tasks, two locks taken in both orders, two bounded
  channels. No event may be lost or reordered, the displayed peers and the status
  of Tor must follow what happened, and no circle of waits should arise.
* **Files**: a process may end between any two file operations. Config and
  identity must fit together, a broken-off setup must not lock the user out,
  and an erasure must blank everything before it removes anything.

`PROJECT.json` lists the hazards one by one, each at its line and with the
properties that would show it going wrong.

## 2. Plan

| Step | Modules | State |
| --- | --- | --- |
| 1 | `DoubleRatchet`, `RatchetSession`, abstract `SecureChannel`, with proofs | done |
| 2 | `RelayStore`, abstract `RelayMailbox`, with proofs | done |
| 3 | `ClientTasks` with the task that boots Tor | done |
| 4 | `DuressStorage`, with proofs | done |
| 5 | `Conversation`, which composes `DoubleRatchet` with the map of ratchets of each client: both sides send first, a side restarts, `/delete`; with proofs | done |
| 6 | Proofs for `ClientTasks` | done |
| 7 | Abstract `Vault`, implemented by `DuressStorage`, with proof | done |
| 8 | Proof of `CachedKeysAwaited` in `RatchetSession` | done |
| 9 | Proof of `X25519SessionsWork` and of `CallCachesBounded`; the safety halves of the liveness properties, stated and proved | done |
| 10 | A second erasure during the first, a wipe during a setup | open |

The line editor and its history were planned as a module and dropped: they run
in one task, between two keys, and unit tests reach all they can do.

Modules that are proved about use no RECURSIVE operator. TLC checks a formula,
inductive invariants included, before it is proved.

## 3. The modules

### DoubleRatchet

The operators of `signal.rs` on records with the fields of `RatchetState`.
Cryptography is ideal: a DH output is the set of the two keys, a key derived
from others is a term that contains them, and a ciphertext carries the message
key it was sealed with (`Authenticate`). `Decrypt` returns the new state, the
outcome and leaves the state changed when authentication fails, as the code
does: the ratchet may have turned and the chain advanced (`DecryptNewKey`,
`StepReceivingChain`). A key is named by its owner and the number of ratchet
turns of its owner, a chain key by its root and its position.

### RatchetSession and SecureChannel

Two parties, one calling `InitAlice`, the other `InitBob`, and a network
(`net`). `Send` is `encrypt`, `Receive` takes a message out of `net` and calls
`decrypt`, `Lose` drops one, `Repeat` delivers one that was sent before once
more. libp2p requests run on a stream each, so they overtake each other and are
not sent again; `MaxDup = 0` is that network. `SecureChannel` says what the
session promises: `ChanDeliver` hands over a message of the peer that was not
handed over before.

### Conversation

The same operators where the client keeps them: `ratchet[p][c]` is the entry of
conversation `c` in the map of client `p`, or `None`. `Send(p, t)` is `/send` to
the text `t`: it enters an initiator (`or_insert_with(init_alice)`), `Receive` a
responder, where there is no entry; an entry that is there is used, whatever it
is.

The id of a conversation (`ConvId`) is a hash of two texts in order, the Ed25519
public key of the sender and what its user typed, and the message carries it. So
both clients have one id only if both type Ed25519 keys, in lower case. `Typed`
is what each user may type, a key in either case: `hex::decode` reads both
alike, the hash does not. `PublicKey` is the Ed25519 key read as an X25519 key,
whose secret nobody has (its owner is in `Stranger`). If a user types the X25519
key of the peer, as the tests pass it to `init_alice`, the two directions are two
conversations, each with an initiator that only sends and a responder that only
receives. `MCConversation` gives `Typed` and `SeedLen` the values of the tests
and those of the client; the client passes 31 bytes as the seed, the tests 37.

`Restart` is the end and a new start of a client: the map is empty, the identity
key the same, packets to the old node are lost, packets from it may still
arrive. `drawn` numbers the key pairs a client drew in all its lives, `life`
tells its packets apart, and `heard` is a history: the lives whose packets an
entry was given. `Delete` removes the message files of a conversation (`saved`).
The network loses and reorders. The model assumes that what `/send` encrypts for
a connected peer reaches the network at all; at this commit it does not (run
`client_send`).

### RelayStore and RelayMailbox

A thread takes a request (`Request`), takes the mutexes its handler takes
(`LockMessages`, `LockSignals`) and runs each critical section as one step
(`AddMessage`, `FetchMessages`, `Purge`, `QueueSignal`, `FetchSignals`); `job`
and `pc` say what it is at. `created_at` is the sender's number, `now` the
relay's clock, which never steps back; `Age` subtracts with saturation as the
code does. A message is for a name of 64 characters, but a signal may come from
any `Name` that is not empty and anyone may poll for one, the name `broadcast`
of the wildcard entry included. A signal is pushed twice, under its requester's
name and under `broadcast`; the model tells the two copies apart (`OwnCopy`,
`WildcardCopy`), so that it can say who gets both. The histories
`acked`, `voided`, `handed` and `got` record what was acknowledged, destroyed
and returned. `RelayMailbox` forgets messages at the moment they expire; the
refinement maps its `pending` to the stored messages that have not.

### ClientTasks

`ui` is where the dashboard task is (`draw`, `key`, then the stages of a
command), `handler` where the event task is, `boot` where the task that boots
Tor is, `blocked` the event that each of the two senders, the swarm task and the
Tor task, waits to deliver. Each await is a place; what a task does between two
awaits is one step. Two guards outlive an await, and both mutexes are derived
from the places: the ratchets are held exactly at `ui = "dispatch"`, `AppState`
exactly at `handler = "decrypt"`. `entries` is the peer table (how often each
key is listed, since `PeerConnected` pushes without looking), `count` the
displayed number, `tor` the pair `tor_active` and `tor_proxy_addr`, `proxy`
whether the SOCKS5 proxy answered at the start. The badge of the header shows
`tor_active` alone (`SocksBadge`). The note with which the Tor task begins is
its first step (`BootTor`). `due` is a history: the events
whose `send` has returned, in that order, until the event task is done with
them. Commands that only write a status are one command; `/wipe` ends the
program as `/exit` does. A message whose sender key is shorter than eight
characters, which would end the event task (`lib.rs:166`), is sent by no
HexaPriv client and is not modelled.

### DuressStorage and Vault

`disk` says of each file whether it is absent, empty, zeroed or has data;
`hashes` and `sealed` say what the data of config and identity is. `pc` is where
the client is, `phase` how far an erasure is. Writing is `Create` (truncating)
and `Write`; an erasure finds files, truncates and zeroes each (`Truncate`,
`Zero`), then unlinks each (`Unlink`), in any order. `EndClient` and `EndCli`
end a process anywhere. The erasing process is the client (duress code, `/wipe`,
`/delete`) or `hexapriv wipe` in another terminal beside an open dashboard.
`/delete` joins the id it is given to a path without a check, so `EraseCommand`
lets it reach the messages or everything, as `/delete ..` and an absolute path
do; it returns to the dashboard either way.
`AbortErase` is `remove_dir_all` meeting a file that has appeared since the
directory was listed. `doomed` and `interrupted` are histories. Left out: data
lost with the power (the code never calls `fsync`), I/O errors inside an erasure
(the code ignores them), a second erasure during the first, and a wipe during a
setup (which can leave an identity without its config for the next setup to
meet; it takes a second terminal while the first asks for codes). `Vault` is
what the files promise: a key and an alarm code that come together (`SetUp`), go
together (`Destroy`, only during a wipe) and change in no other way; the user
may still be inside after a wipe (`EndWipe`). A `/delete` of everything is a wipe
here. The refinement reads the codes off the files: both are there when config
and identity have data.

## 4. Runs

| Run | Bounds | Distinct states | What it shows |
| --- | --- | --- | --- |
| `lossy` | 4 messages each way, seed of 37 bytes, skip limit 1 | 72,337 | no message in flight becomes unreadable under loss and reordering but for the limit (`InFlightOpens`), the cache holds keys of missing messages only (`CachedKeysAwaited`), a call caches at most `MaxSkip` keys of each of at most two chains (`CallCachesBounded`) |
| `repeat` | 2 messages each way, 2 repetitions | 2,333 | at most once (`NoDoubleOpen`), forward secrecy (`OpenedKeysErased`), unique keys (`MessageKeysUnique`), refinement of `SecureChannel` |
| `reliable` | 3 messages each way, nothing lost | 1,035 | no message is given up on its way (`NothingStranded`), and every one is opened in the end (`AllOpened`) |
| `sessions` | 2 messages each way, 2 restarts, skip limit 1, the seed length of the tests; typed: the Ed25519 key or the X25519 key, that of Bob in upper case too | 663,489 | what is sent to the X25519 key of the peer opens, whatever the peer sends itself, until packets of two lives of the sender meet at one entry (`X25519SessionsWork`); keys are used again in an initiator's first chain only (`KeysReusedInFirstChainOnly`) |
| `client_values` | 1 message each way, key and seed of the client | violation | with these values the first message does not open (`SessionWorks`) |
| `relay_store` | 2 threads, 2 keys, 2 conversations, 3 requests, clock to 2, senders' clocks 0 and 1, signals from and to any name | 657,756 | `HandedOnce`, `NothingLost`, `SignalMeansPurged`, `SignalOnce`, refinement of `RelayMailbox`; no circle of waits (`NoCircle`), and every request is answered |
| `relay_counterpart` | 1 thread, 3 keys, 2 requests | violation | the counterpart of a destruction may never learn of it |
| `client_tasks` | 1 peer, 2 connections, channels of 2, 3 events, 2 keys, no proxy | 900,993 | `EventsKept`, `CountInStep`, `ListedPeersConnected`; only `Circle` keeps Ctrl+C (`ExitOrCircle`), the swarm (`NetworkServed`) or the last status of Tor (`LastTorStatusKept`) waiting |
| `client_ctrl_c` | 1 peer, 2 events, 2 keys | violation | `/send` and an incoming message lock each other out, and Ctrl+C with them |
| `client_send` | the same | violation | `/send` to a connected peer queues nothing |
| `client_badge` | 1 event, no connection, 1 key | violation | the header says SOCKS5 ACTIVE though no proxy answered (`BadgeMeansProxy`) |
| `duress_crash` | 3 codes, 2 messages | 539,314 | `CodesMatchIdentity`, `SetupOrLogin`, `BlankBeforeUnlink`, `ErasedWhenDone`, refinement of `Vault` |

Why the bounds are enough. Four messages each way reach three ratchet turns per
side with skipped messages in the current, the previous and an older chain. A
skip limit of 1 meets all refusals, before and after the turn, and all cases
below the limit with chains of up to four messages; the theorems hold for any
limit. In `sessions`, two messages each way and two restarts reach two lives of each
side or three of one with messages of an earlier life in flight, one message that
overtakes another, both sides as initiators, an initiator in two conversations,
and a turn of the ratchet; the skip limit is met in `lossy`. In the relay, two threads and three requests cover every
pair of overlapping handlers with one before or after them; a clock of 2 with a
TTL of 1 gives fresh, just expired and future messages. A channel of two entries
is full from the start, since `P2pNetworkService::new` sends two events before
anything receives (with room for one it would wait for ever), so the network and
the Tor task fill hand, channel and both senders; three events open two
connections and close one; `client_tasks` starts without a proxy (`Answers`),
which decides the first status only; two keys are a `/send` and
the Ctrl+C after it; two connections to one peer are what makes its entries and
the count differ, and peers do not touch each other's entries. Three codes let a
second setup choose another pair with one code in common; two messages let one
be destroyed while another is written. `DuressStorage` has no other bound.

Deadlock checking is off where a run may stop: the bounds are used up, the
client has ended, or the circle has closed. It is on for `duress_crash`.

Fairness. `ReliableSpec` has weak fairness of receiving: the event task takes
events from its channel as long as there are any. `RelayStore` and `ClientTasks`
have weak fairness per thread or task: a scheduler runs what can run. Neither
asks a mutex to be fair, since requests, events and keys are finitely many; with
tokio's and the standard mutexes nothing stronger is needed. The user and the
network have no fairness.

Each property of a passing run has a mutant: an operator marked `variant`, next
to the one it replaces, that changes the code the way a plausible bug would and
makes TLC find the property violated.

## 5. What the runs found

* **The client's seed** (`client_values`, `lib.rs:152` and `242`). The literal
  has 31 bytes. `init_alice` keeps a salt of zeros for a seed under 32 bytes,
  `init_bob` hashes it, and the roots differ. The tests use 37 bytes.
* **The typed key** (`client_values`, `lib.rs:243`). The user types the Ed25519
  key of the recipient and `init_alice` takes it for an X25519 key; the
  recipient derives another one from its secret. The tests pass that one.
* **The counterpart's signal** (`relay_counterpart`, `store.rs:76`). Every poll
  empties the broadcast entry, the requester's own included, before the filter.
* **Ctrl+C** (`client_ctrl_c`, `lib.rs:258`). Two locks are taken in both orders.
* **`/send`** (`client_send`, `lib.rs:259`). A public key is looked up among peer
  ids, is never found, and the user is told that the message was dispatched.
* **The badge** (`client_badge`, `p2p.rs:96`). `tor_active` is set when Arti is
  up as well as when the SOCKS5 proxy answered, so with Arti alone the header
  says SOCKS5 ACTIVE, which the Tor guide explains as routing through the local
  daemon. `EMBEDDED ARTI` is what it says as long as nothing is up, and the Arti
  client is dropped as soon as it has booted.

Observed while modelling and stated in the models, without a run of their own: a
message that arrives twice outside the cache moves the receiving chain on, and
later messages of that chain fail (`InFlightOpens` is therefore claimed for
`MaxDup = 0` only); once more than `MaxSkip` messages of a chain are lost the
rest of it stays unreadable; the cache is bounded per call but not over calls; a
poll answer that gets lost takes its messages along; a peer with two connections
vanishes from the list when the first closes, though it is still counted; a wipe
that is cut short, or that an open dashboard disturbs, can leave files that
block both login and setup until `hexapriv wipe` is run; `/delete` removes message files, while the ratchet, which the README of the
repository says it destroys, stays in memory and goes on; `/delete ..` or an
absolute path destroys config and identity and returns to the dashboard; a
requester that calls itself `broadcast` has its signal given twice to one poll;
the texts a user may type for one recipient (X25519 or Ed25519 key, upper or
lower case) name different conversations, whose ratchets begin with the same
keys where the key is the same; two clients that both send first under one id
never read each other; only messages sent are saved, never those received; the swarm
acknowledges a message before anybody tried to decrypt it.

## 6. Proofs

All theorems hold for every value of the constants within their assumptions, and
tlapm checks every leaf.

**Ratchet** (`DoubleRatchetProofs`, `RatchetSessionProofs`).
`DoubleRatchetProofs` states what one call does to one state; the session
invariants are built from these lemmas.

* `TypeCorrect`: `TypeOK` is inductive by itself.
* `OpensAtMostOnce` (`NoDoubleOpen`) and `ForwardSecrecy` (`OpenedKeysErased`):
  not inductive, since a state could hold one key twice, cached and in its
  chain. `OnceInv` adds that the cached keys and the chain of each state never
  overlap (`KeyInv`) and that every opened message is erased at its recipient.
* `KeysUsedOnce` (`MessageKeysUnique`): `SentInv` says where each sent message
  lies against its sender's current chain, and that root keys of the two sides'
  sending chains have different parity of depth, so they never coincide.
* `ImplementsChannel` (`ChannelSpec`): initial states map to initial states, and
  a step to a `SecureChannel` step or a stutter, under these two invariants.
* `SkippedKeysAwaited` (`CachedKeysAwaited`), for seeds of 32 bytes or more and
  `MaxDup = 0`: `AwaitInv` says that every position of a sending chain below
  `n_send` was sent (`CurrentWritten`), that so was every one below `pn` in the
  chain the peer still receives (`PreviousWritten`), and that each cached key is
  of a sent message (`CacheWritten`). That none is of an opened one follows from
  `OnceInv`; which chain a message belongs to, from `SyncInv`.
* `EveryMessageOpens` (`InFlightOpens`), for seeds of 32 bytes or more and
  `MaxDup = 0`: `SyncInv` says that exactly one side turned the ratchet last and
  is one shared secret ahead, and that each message in flight is either expected
  by its recipient (cached or ahead in its chain) or of the one next chain.
* `SkippingBounded` (`CallCachesBounded`), over any network and for any seed:
  what a call adds to the cache lies in two batches (`Batch`), one per chain,
  each of at most `MaxSkip` keys, and the second is empty when both are of one
  chain (`TwoBatches`). That holds of any header, so it needs no invariant but
  the types.
* `ReliableNetworkOpensAll` (`NothingStranded`), for seeds of 32 bytes or more,
  `MaxDup = 0`, no losses, and parties that send at most `MaxSkip` messages
  each: beyond that, a message that overtakes more than `MaxSkip` others of its
  chain is refused, and the code discards it. `SentCount` bounds every counter
  by the number of messages sent, so `TooFar` never refuses; with `SyncInv` each
  delivery opens.

**Conversations** (`ConversationProofs`), whatever the users type and whatever
the length of the seed. `ConversationTypes` (`TypeOK`). `KeysUsedOnce`
(`KeysReusedInFirstChainOnly`) rests on one invariant over all entries of all
conversations. `Rooted`: after a turn the
last two secrets in a root key are those of the old and of the new key pair with
one key of the peer, which tells the chains of all key pairs of both sides apart.
`EntryInv`: the sending chain of an entry is rooted so. `SentInv`: so is that of
each packet sent, behind the position its sender is at. `PositionInv`: a
position of a chain is used for one packet. `NetInv`: a packet in flight was
sent.

`X25519SessionsOpen` (`X25519SessionsWork`, in `SessionProofs`) assumes a seed of
32 bytes or more, as the tests use; the client's 31 bytes are not covered. It is
about packets sent to the X25519 key of the peer, whatever else is typed.
`OneWayIds`: what the peer types never gives the id of such a conversation.
`OneWayInv` says that one side of it only sends, on the first chain of an
initiator, and every packet lies on that chain (`SendSide`), and that the other
only receives (`RecvSide`): its entry either is that of a fresh responder or has
turned its ratchet to that chain (`ReadsWith`), and if it heard one life only,
what is in flight is cached or ahead (`Awaits`). `DecryptOneWay` is what one
decrypt does to such an entry.

**Relay** (`RelayStoreProofs`).

* `RelayTypes`, `RelayLosesNothing` (`NothingLost`), `RelayHandsOverOnce`
  (`HandedOnce`): `MessageInv` ties each stored or handed message to its
  recipient and to the requests that made it.
* `SignalFollowsPurge` (`SignalMeansPurged`), `RelaySignalsOnce` (`SignalOnce`,
  whatever names requesters and pollers give):
  `SignalInv` adds what a thread inside `process_destruction_signal` has already
  purged. Neither needs the mutexes.
* `RelayNeverStuck` (`NoCircle`): `MutexInv` says that each mutex is held by
  the thread that is where its handler holds it (`HoldsMessages`), and by no
  other. The holder of the signals waits for nothing, and the holder of the
  messages waits for the signals at most.
* `RelayImplementsMailbox` (`MailboxSpec`): each step maps to a mailbox step or
  a stutter; purging expired messages is a stutter.

**Files** (`DuressStorageProofs`). One inductive invariant, `Inv`, with four
parts besides the types. `Exclusion`: no setup beside an erasure. `HalfWritten`:
what a file holds between `Create` and `Write`. `Progress`: what is to be erased
is found, then blank, then gone. `Pairs`: an identity with data has a config.
The last is why `CodesMatchIdentity` holds: a second setup, which may choose
other codes, can start only when one file is absent, and then no readable
identity is left. From `Inv` follow `StorageTypes`, `CodesBelongTogether`,
`AlwaysUsable` (`SetupOrLogin`), `BlankFirst` (`BlankBeforeUnlink`),
`ErasureComplete` (`ErasedWhenDone`) and `FilesImplementVault` (`VaultSpec`):
each step on the files is a step of the vault or a stutter, where an erasure of
everything, a wipe or a `/delete` that names the base directory, is the vault's
wipe and a `/delete` of messages is nothing to it.

**Tasks** (`ClientTasksProofs`). `Inv` adds to the types what a task holds where
it is: `Handling` (an event in hand exactly while the event task is not
receiving, a message in hand while it decrypts), `TorOnly` (what the Tor task
waits to send is never about a peer) and `Gone` (a peer without connections is
not listed unless its closing is the last that was said of it). From it follow
`TaskTypes`, `NoEventLost` (`EventsKept`) and `ListFollowsConnections`
(`ListedPeersConnected`), for any peers, capacity and bounds.
`CountFollowsConnections` (`CountInStep`): that the count, corrected by what is
under way, is the number of connections (`Balance`) is not inductive, since the
handler does not count below zero. `Ledger` says that the count after each event
under way is that of the connections at the time, a natural number, so the guard
never bites. `ArtiStatusKept`: once `AppState` holds the status of Arti, no status
of the start-up is under way any more (`ArtiLast`).

Assumptions on constants: the two parties differ, model values that stand for
"nothing" are not members of the sets they complete, message files are not
called `config` or `identity`, and the numeric bounds are natural numbers. TLC
evaluates them in every run.

Model-checked only: liveness (`AllOpened`, `EveryRequestAnswered`,
`ExitOrCircle`, `NetworkServed`, `LastTorStatusKept`), which the provers cannot do. For
three of them the safety half is proved: a message on its way is never given up
(`NothingStranded`), some handler can always go on (`NoCircle`), and the status Arti,
once written, stays (`ArtiStatusKept`). `CanGoOn` in `NoCircle` spells out when a
handler's next step is enabled.

## 7. Not modelled

Cryptographic primitives and encodings are ideal here. libp2p itself, DHT and
gossip are configured but not used by the client. `ephemeral.rs` encrypts one
string for one key without keeping anything, and only its tests call it.
Rendering, the decoy screen, prompts, help and QR output (`tui.rs`,
`terminal.rs`, most of `main.rs`) are layout; the line editor and its history
are sequential. `list_messages` and `list_conversations` only read and are not
called. `install.sh` and the `Dockerfile` build and copy. The relay's rate of
growth is not bounded by its code and is not modelled.
