# ReplicateInator in TLA+

ReplicateInator (`src/inator`) is a networking plugin for the Bevy engine: an
application starts named connections, server or client; Bevy systems run once
per frame on the main thread, tasks of a tokio runtime bind, accept, connect,
read and write; the two meet in unbounded channels and on a mutex around each
half of a stream.  This directory models the TCP and the WebSocket transport, from
the frame down to the bytes of a TCP stream, and the registry and forms of
messages, checks them with TLC on small instances, and proves with TLAPS, for
every instance, all their safety properties and that the client implements an
abstract connection.

## The system

| Component | Source | State | Operations |
|---|---|---|---|
| connections | `plugins/connection.rs` | `NetworkConnections`: name to connection; per connection `connected`, the runtime, the main port, `clients_connected` | `start_connection`, `can_connect`, `disconnect`, `drop_connection`, `authenticate_client` |
| server systems | `plugins/server.rs` | none | seven systems chained in `First`: port dropped, start, port connected, accept, clients disconnected (twice), start readers |
| client systems | `plugins/client.rs` | none | four systems chained in `First` |
| messaging | `plugins/messaging.rs` | the registry of message ids | `register_message`, `read_messages_server`, `read_messages_client` |
| authentication | `plugins/authentication.rs` | none | `authentication_message_server`, `authentication_message_client` |
| TCP server | `ports/tcp/server.rs` | three flags, the listener, two tables of sessions, six channels | binder, accept loop, two readers per stream, a writer per message; `check_*`, `start_*`, `authenticate_client`, `send_message` |
| TCP client | `ports/tcp/client.rs` | three flags, two halves, three channels | connector, reader, a writer per message; `check_*`, `start_listening_to_server`, `send_message` |
| TCP framing | `ports/tcp/reader_writer.rs`, `read_writter_client.rs` | none | size to bytes and back, in twelve types and two orders |
| WebSocket server | `ports/websocket/server.rs` | as the TCP server, with two halves of a WebSocket per session | as the TCP server, with a second handshake in the accept loop and readers that do not end |
| WebSocket client | `ports/websocket/client.rs` | as the TCP client | as the TCP client, with one attempt to connect and a reader that does not end |
| WASM client | `ports/websocket_wasm/` | as the client, and a send queue | as the client, with a retry after two seconds |
| traits, macros, test programs, empty ports | `ports/mod.rs`, `pro_macros`, `testing`, `ports/quic`, ... | none | none |

How they interact: the main thread calls the ports through traits; a port
spawns tasks on the runtime of its connection and hands each an `Arc` of the
sending end of a channel; the systems of later frames poll the receiving ends
with `try_recv`.  Nothing is ever awaited by the main thread.  Dropping a
connection drops the receivers at once and tells the runtime to shut down in
the background, so that tasks outlive it up to their next await.

What is hard in it:

- *The exchange of readers.*  A stream is read by an unauthenticated reader
  until `authenticate_client` spawns a second one on the same mutex.  The first
  learns of it from a channel that all unauthenticated readers share, so that
  one may take the uuid meant for another.
- *Reports.*  Both readers of a session may report the same broken stream, with
  different flags, frames after the session has changed tables.
- *Batches.*  What is read from the channel in one frame is handled in that
  frame; an authentication message and the data behind it may share a batch.
- *Flags.*  Starting over after an error is a matter of four flags, a listener
  and a channel that are reset one by one; a flag left set is silence for ever.
- *Left-over tasks.*  `disconnect` and `start_connection` of the same name may
  follow each other in one frame, with the old binder, accept loop or reader
  still running.
- *Frames on the wire.*  A size saturates; nothing marks where a message starts.
- *Workers.*  A WebSocket reader whose stream has ended polls it for ever without
  waiting, and keeps a worker thread of its runtime, which accept loop, binder and
  connector need as well.
- *Panics.*  A TCP reader panics over a negative or huge size, a connector over a
  stream that is reset before it asks for its peer's address.  A panic ends the
  task without a report, and nothing else in the process notices.
- *Forms of a message.*  What `send_message` writes is not what the read loops
  decode; ids are given by counting, on each side for itself.

What makes each component correct:

| Component | Properties |
|---|---|
| sessions | one reader at a time, none without a session, no session without one unless its reader has panicked; messages in order across the exchange; no data before authentication; closed sessions go |
| listener | the flags tell the truth; never in its own way; serves again after an error; gives the address back |
| client | one task in charge; streams and messages in order across reconnections and restarts (`ClientLink`); every attempt is settled and a broken stream given up, unless a task has panicked or gone in silence |
| framing | whole messages, unmixed, in order, as long as they fit their sizes |
| WebSocket sessions | nothing lost or out of order; an admitted one is read, reported or closed by its peer; broken ones go while a worker is left |
| messaging | a message is dispatched as the type it was sent as; the answer to an authentication is understood |

## Modules

`ServerSessions` models everything between the accepted stream and the
application on the server.  The main thread is the variable `pc`: one action
per system in the order of the chain, `check_clients_disconnected` inside the
two systems that call it.  The tables are sets of clients, the channels are
sequences, and `reader[c][r]` is the place of the reader task of client `c` in
role `r` (unauthenticated or authenticated): waiting for the mutex, polling for
its uuid, in a read, between read and send, between failure and report, done or
panicked.  A reader panics when the size that comes next is negative or huge
(`ReadPanics`); the peer stays connected and the session listed, with nobody to
read it or to notice that it closes (`Panicked`).  The constant `Unfit` bounds which
peers may send such a size.
A message is the pair of its client and its number, and its kind (accepted or
refused authentication, data, junk) is looked up in what the peer has sent.
The history variables `seen` and `delivered` are for properties.
The constant `AppRegisters` says whether the application itself calls
`check_clients_connected`, which no system of the plugin does, and
`AppDisconnects` whether it may call `disconnect`.

`ServerListener` models, for both servers, how an address is bound, connections are accepted,
accept errors are handled and connections of one name follow one another.
Every start has a generation; binders and accept loops of all generations stay
in `binders` and `loops` with the place they are at, and a task whose
generation is not the current one fails its sends.  At most one listener is
open at a time (`SocketOpen`), which is what the operating system grants; the
settings `auto_reconnect`, `tls` and `ws` (the port is a `ServerWebSocket`, whose
accept loop awaits the WebSocket handshake, after that of TLS if there is one)
are chosen in the initial state, with the number of workers of a runtime.  A peer
(`conn`) is out, in the backlog, in a handshake or accepted, and then `session` is
the generation whose reader reads its stream; that reader is dropped with its
runtime (`StreamDropped`) or spins once its WebSocket has ended (`WebSocketEnds`,
counted in `spinning`; every accepted stream is taken to be read).  A loop that
has reported an accept error still holds its listener until its task ends
(`"ending"`, `LoopEnds`).  Every step of a task that was waiting, being dropped
included, needs a worker of its generation (`Free`).

`WsSessions` models the sessions of a WebSocket server, in the way of
`ServerSessions`.  Its unauthenticated reader is never spawned (`Found`), so
that only the application's own call of `authenticate_client` makes a session
readable; its authenticated reader goes on after an error and after the end of
the stream.  A task that is ready runs only while the runtime has a worker left
for it (`Polled`): between two awaits a task keeps one, and a reader at
`"spin"`, whose stream gives `None` at once for ever, keeps it for good.

A client is modelled by four modules.  `ClientConnection` has the state of the
connection and what TCP and WebSocket share: the application, the frame's
systems, dropping the port, channels, and streams by number; the settings
(transport, `try_reconnect`, TLS, whether the server name is valid, worker
threads) are chosen in the initial state.  `TcpClient` and `WsClient` have the
tasks of their port and its `start_listening_to_server`.  `Client` composes them
(`Tcp`, `Ws`), adds the workers and the fairness, and states the properties.

`ClientLink` is the abstract specification of a client's connection: it is
absent, down or up, each stream it is up on is a new one, and the messages given
to the application are those of its streams from the first one on, without a
gap or a repetition, stream after stream, and none of before its start.
`Client` implements it (`ImplementsLink`): `state` is read off the port and the
table of connections, `stream` is the stream of its halves, `log` what
`read_messages_client` gave out; connector, reader, channels and reports are
invisible.  Only `StartConnection`, `CheckConnectedToMainPort`,
`CheckMainPortDropped`, `Disconnect` and `ReadMessagesClient` are steps of the
link, the others stutter.

`Messaging` models what a message is: the registries of both sides as sequences
of types, an id being a place in them; the two forms on the wire, as it is (id
0) or in a `MessageInfos`; and the read loops with `deserialize_message`, the
gate for clients that are not connected and the two authentication systems.  The
bytes of one type decoded as another give a panic or a wrong message: both are
possible.

`FrameStream` models one direction of a stream byte by byte: writer tasks that
take the mutex in any order, sizes of `Width` bytes to base `Base`, signed or
unsigned and in either byte order, saturation, and the reader that reads a
size and then as many bytes.  The codec is written with recursive functions over
the digits (`Power`, `Shifted`, `Leading`), a frame is what one task writes
(`Frame`).

`Pipeline` says what the sessions of both servers and the client say of a channel
of messages: `InOrder`, that the messages of a stream in it are those from one
number to another, each once and in order, and `Sorted`, that those of later
streams are behind those of earlier ones.

`...Proofs` modules hold the theorems of the module they are named after, and
`ClientLinkProofs` the proof that `Client` implements `ClientLink`.  `QueueLemmas`
has what they share: queues as sets of entries, lists of tasks, `InOrder` when a
message is pushed or popped, and the induction and recursion over numbers that
the codec needs.  `MC...` modules give model values.

The models meet in the code at channels: `ServerListener` sends an accepted peer
to `client_connected`, where `ServerSessions` or `WsSessions` has it appear
(`PeerConnects`); a message that `ServerSessions` or `TcpClient` reads in one
step is what `FrameStream` reads byte by byte; and what the read loops take from
`message_received` there is what `Messaging` decodes.

In every module, operators that a comment calls a fault (`...Lossy`,
`...Twice`, ...) are not part of the specification.  Each is a mistake that
could be made in the operator after it, kept to show that the properties
notice it.

## Runs

| Run | Instance | Question |
|---|---|---|
| `SessionsAdmission` | two clients, three messages between them that admit or are data; and one client, four messages of all kinds | are tables, readers, reports and replies consistent, are messages in order across the exchange, is no data given to the application before authentication, and no gap left after the first that is given? |
| `SessionsProgress` | two clients, of which one may send an unfit size, `disconnect` in any frame, fairness | does the invariant of the proofs hold; are sessions dropped, messages read, readers ended? |
| `SessionsUnregistered` | one client, only the plugin's systems | violated: an accepted stream is never read |
| `Listener` | two peers, two starts, an accept error, two workers, TCP and WebSocket, all settings, fairness | do flags, listener, loop and report agree; does the server serve again; is the address given back? |
| `ListenerFull` | two peers, `max_connections` = 1 | violated: both are accepted |
| `WsSessions` | two clients, two messages each, one or two workers, `disconnect`, fairness | is nothing lost; are sessions tended, broken ones dropped and messages read while a worker is left? |
| `Client` | two starts, two messages a stream, one fault, TCP and WebSocket, all settings, one or two workers, fairness | is `ClientLink` implemented; is one task in charge; is nothing lost; is every attempt settled? |
| `ClientTlsRetry` | one start, one failed handshake | violated: it is never tried again |
| `ClientListens` | one start, no fault | violated: a stream that arrives after the first frame is never read (TCP; a WebSocket is, `WebSocketIsRead` of `Client`) |
| `Messaging` | two types, up to two registrations on each side, three messages, two sessions | is a message dispatched as what it was sent as, if the registrations agree? |
| `ReplyIsUnderstood` | one session, one message, fairness | violated: an admitted client never learns its uuid |
| `Frames` | two messages of 1, 7, 8, 15 or 16 bytes, all settings, fairness | are messages whole and in order until one does not fit, and do they arrive? |

Why the bounds are enough.  Two clients are the least for one reader to take
another's uuid, and the exchange involves no third.  Two messages are the least
for an authentication and data behind it; four give an authentication between
data, a second authentication and junk, in every batching.  `SessionsAdmission`
has both instances in one state space: its constraint (`AllKindsAlone`) goes on
from a state only if one of the two clients has not connected yet and the other
has sent at most one refused authentication and one piece of junk, or both have
sent at most three messages between them, accepted authentications or data.  Two starts are the
least for old tasks to meet a new connection; one accept error lets a binder, or
a restart, meet what the recovery has left behind.  In `Listener` two workers let
one reader that spins slow nobody down and two starve a runtime, the only one, the
old or the new.  In `Client` and `WsSessions` one or two workers, with two clients or two streams, are enough for readers of ended streams
to keep all of them or to leave one.  Two registrations on each side give equal
registries, one that begins with the other, different orders, and a type
registered twice.  The lengths of `Frames` lie on both
sides of the largest signed size (7) and of the largest unsigned one (15).
`CHECK_DEADLOCK FALSE` stands where the bound or the removal of the connection
really ends a behaviour.

Bounds that are not in the code: `MaxMsgs` (messages a peer sends or that
arrive on a stream), `MaxStarts`, `MaxFaults` (accept errors; broken streams
and failed handshakes), `MaxRegistered`, `MaxSent` and `MaxSessions` of
`Messaging`, and `Unfit` (peers that may send a size which makes a reader panic).
`Workers`, the numbers of workers a runtime may have, is any set of positive
numbers; the runs take `{1, 2}` or `{2}`, a machine has as many as cores.

### Fairness

Bevy runs frame after frame, so the systems are weakly fair.  tokio polls every
task that can run, so each task's own steps are weakly fair.  The backlog of a
listener is first come first served, so `Accept` is strongly fair for each
peer.  `CheckClientsConnected` is strongly fair: an application that calls it
does so every frame.  Not assumed: that applications disconnect or start, that
peers send, close or finish a handshake with the server, that another process
frees the address, that a stream breaks, that a size is unfit.  `PendingIsServed` therefore excepts
the time in which the accept loop waits for a handshake, which nothing limits,
and `PresentIsServing` the time in which another process has the address.
`Client` assumes of the server that an attempt to connect and a handshake end,
successfully or not, and, for a TCP client that repeats its attempts, that one
succeeds or panics.

tokio's promise holds only while a worker is free.  The guards of `Client`,
`WsSessions` (`Polled`) and `ServerListener` (`Free`) therefore ask for one, so that
the fairness of a task that never gets a worker is vacuous, and their liveness
properties except the states in which readers of ended streams keep every worker
(`Starved`, `LoopStarved`).  A task that has a worker ends its step without another:
`bind` has no await that waits, so that a binder whose address is taken keeps one.

## Findings

- `max_connections` has no effect: the permit is dropped when it is acquired
  (`ListenerFull`).
- No system calls `check_clients_connected`; the one that is named for it calls
  `check_clients_diconnected` (`SessionsUnregistered`).
- A failed TLS handshake with `try_reconnect` ends the connector in silence
  (`ClientTlsRetry`).
- The client sets `listening` before it has anything to listen to, and never
  looks again (`ClientListens`).  The runs of `Client` show the rest of the
  client in the executions in which the connector wins that race.
- The answer to an authentication message is sent bare, and a client decodes
  only a `MessageInfos` (`ReplyIsUnderstood`).

More is shown by what properties that hold have to except.  Readers of ended
WebSockets keep their worker threads (`Starved`); on a server they can stop the
accept loop and the binder, and keep the runtime of a connection that was removed
from dropping its loop, so that the address is never free again
(`RemovedFreesAddress`).  A WebSocket client with `try_reconnect`, or a client with
an invalid server name, stops in silence, and a connector that panics at
`peer_addr().unwrap()` leaves `connecting` set (`AttemptIsSettled`).  A server's
session whose reader has panicked over a size stays listed for ever
(`NoLeakedSession`, `ClosedSessionIsDropped`), and a client's stream is then kept when it
breaks (`BrokenLinkIsDropped`).

A remark on code that the model has as it is: `start_listening_not_authenticated_client`
of the WebSocket server looks the session up among the authenticated ones
(`websocket/server.rs:369`), where it is not, and returns, so that its reader is never spawned and a client is
read only after a call of `authenticate_client` by the application.

## Proofs

Every safety property that a passing run checks is a theorem of its
specification, and so is the refinement.  They hold for any set of clients,
peers or message types, any bounds and, for `FrameStream`, any base and width
of the sizes, and rest on the named assumptions on the constants alone
(`SessionsAssumption`, `FrameAssumption`, ...), which only give them their
types; `MaxMsgs` of `FrameStream` is less than `Base` because the bytes of a
message are its number.  Hardly one of the properties is inductive
(`AdmittedIsAnswered` is, on top of `TypeOK`).  Each module states what makes
them so next to them, in named conjuncts (`FramesInv` stands with its proof, as
it quantifies over all sequences of bytes); that invariant was model-checked on
the instance of the module's run before it was proved.  The proofs have one
lemma per group of actions and, under it, a step per action and per conjunct
that the action disturbs.

| Module | Inductive invariant | Theorems of properties |
|---|---|---|
| `ServerSessionsProofs` | `TypeOK`, `SessionsInv`; on top of it `OrderInv` and `DeliveryInv` | `TypeCorrect`, `HandoffIsStrict`, `ReadersAreListed`, `SessionsAreTended`, `ConnectedAreListed`, `AdmittedAreAnswered`, `MessagesInOrder`, `DataIsOfTheAdmitted`, `AdmissionLasts` |
| `WsSessionsProofs` | `TypeOK`, `SessionsInv`, `OrderInv` | `WsTypeCorrect`, `WsMessagesInOrder`, `WsSessionsAreTended` |
| `ServerListenerProofs` | `TypeOK`, `ListenerInv` | `ListenerTypeCorrect`, `LoopsAreReported`, `BindersAreAlone` |
| `ClientProofs` | `TypeOK`, `ClientInv` | `ClientTypeCorrect`, `OneIsInCharge`, `ReadersHavePortsStream`, `ClientMessagesInOrder` |
| `ClientLinkProofs` | those of `ClientProofs` | `ClientImplementsLink` |
| `MessagingProofs` | `TypeOK`, `MessagingInv` | `MessagesAreUnderstood` |
| `FrameStreamProofs` | `TypeOK`, `HoldersWrite`, `FramesInv` | `FramesTypeCorrect`, `FramesAreIntact`, `ReadersPanicOverUnfitOnly` |

*Sessions.*  That no session leaks, short of a panic of its reader, depends on what a report says:
`ReportsAreTrue` ties a report to a reader that has returned and to a stream that
is broken.  That a report removes no session whose reader is still alive depends
on the two readers following each other in step with the tables
(`ReadersFollowTables`).  That the second reader is spawned for a session which
exists depends on every message, in the channel, the batch or the events, having
come through a first reader (`MessagesAreOfStarted`), and a uuid in
`client_authenticated` on the second reader having been spawned
(`AnnouncedIsAuthenticated`).  That registering makes a new session depends on a
stream being in `client_connected` once and on nothing of it existing
(`WaitingIsFresh`).  `SessionsInv` is the conjunction.

The order of the messages needs more than `PipelineInOrder`, which speaks of the
moment when one reader of two may hold a message: only because readers take turns
(`StrictHandoff`) is the message that is held the last one taken (`Last`,
`OrderInv`).  Delivery needs to know that a client in `clients_connected` has had
an accepted authentication seen, that one to which something was delivered is
still there, and that events are of messages seen (`DeliveryInv`); from that
follow `AuthBeforeData` and `NoGapAfterAdmission` for every batching.

*WebSocket sessions.*  Here `known` takes the part of the tables: an accepted
stream waits once and is not known yet (`WaitingIsNew`), a session has a reader
of its own exactly from its admission on (`ReadersAreAdmitted`), and a reader
that has reported goes on (`ReportsAreTrue`).

*Listener.*  `LoopOrReport` counts; its proof does not.  `LoopIsOnce` says the
same by naming the one loop, `ListenerIsOnce` says in which one place the
listener of a connection is (binder, channel or port) with the flags that belong
to it, and `TasksAreStarted` that left-over tasks are of earlier generations, so
that a new start finds none of its own.  A loop that is only to end (`Over`) counts
as gone in both; that is why `BinderIsAlone` cannot say that no loop of the
connection holds a listener, but only that none that does has anything else to do.

*Client.*  `ChargeIsOnce` is `OneInCharge` without cardinalities and with the
flags of the port in each of its cases; `StreamsAreNew` follows a stream from its
connector to the port and one reader; `MessagesAreSorted` says of what was given
to the application, followed by the channel, that it is sorted by stream and
holds every stream of this connection without a gap.  From it the step
simulation of `ClientLink` follows: what `ReadMessagesClient` takes from the
front of the channel is, message by message, what the log of the link may go on
with (lemma `Following`: the predecessor of a message is the one before it, or
the last of an earlier stream).

*Messaging.*  `IdsAreTrue`: a message with an id is of the type its sender has
under that id.  Whichever registry begins with the other, an id known to both
means the same type, so that what the other side decodes it as is what it was.

*Frames.*  Sizes first: `ShiftedIs` and `LeadingIs` turn the two recursive
functions into equations, by induction the digits of a number below
`Base` to the power `Width` make that number again (`RoundTrip`), and so does
what the reader makes of what the writer writes, in either byte order, signed or
not, because a saturated size is never in the negative half (`WrittenIsRead`).
Then the stream: `FramesInv` says that there is a sequence of bytes `s`, made of
the frames of the tasks that have had the mutex, in which the bytes got, those on
the wire and those that the task with the mutex has not written yet are next to
each other.  Getting the mutex lengthens `s` by a frame, which only works because
the one before has written all of its own; every other step moves a boundary in
`s`.  When a whole size is read, it is the size of the frame that begins there,
so that the reader is at the next frame when the message is there, unless it did
not fit: then the reader is `Lost` and nothing is promised any more.  With a
stream that is broken the writers may leave a part of a frame out; nothing behind
it is ever read.

Induction.  The library's induction theorem takes an operator as a parameter,
which the provers cannot instantiate.  `QueueLemmas` gets it from the
well-foundedness of the numbers (`WFMin`) with sets: `LeastNumber`, then
`Induction` over a set of numbers and `Recursion`, the existence of functions
that are defined by recursion up to a bound.

Only model-checked: every liveness property, for which fairness and ENABLED are
out of the prover's reach.

## Not modelled

- The WASM client (`ports/websocket_wasm`).  Its code is compiled for wasm32 only,
  and the crate does not compile there: `ClientConnection` has no
  `ConnectionTrait` on that target, `messaging.rs` names `ServerConnection`,
  which is compiled out, and `AuthenticationPlugin`, which has no type parameter
  there, is used with one.  There is no program to be faithful to.
- Sending on a WebSocket: a task per message writes it whole under the mutex of
  the sink, without sizes; what can go wrong with such tasks is in `FrameStream`.
- The body of the WebSocket server's unauthenticated reader, which is never
  spawned.
- Panics that abort or poison more than their task: a panic ends its task, tokio
  catches it, and its locks are tokio's, which are not poisoned.
- Contents of messages in the session models: a message is of a kind; "junk" is
  one whose outer part cannot be decoded or whose id is unknown.  `Messaging` has
  types and ids, and leaves the tasks and tables to the other modules.
- Sizes of the float types: they differ in where they are exact.
- `hook_stream`, `no_delay`: pure settings of a stream.
- Secondary ports (`ports`): never created by the code.
- Traits, macros, test programs and empty modules: no behaviour.

## Plan

Done: `ServerSessions` first, as the heart of the system, then `ServerListener`,
`TcpClient`, `FrameStream`, and the proofs of the sessions; then `WsSessions`,
`WsClient`, `ClientLink` and its implementation by `Client`, and `Messaging`; then
the proofs of every safety property and of the refinement.

Next, in this order:

1. `MessagePipe`, an abstract lossless queue that `FrameStream` implements as long
   as messages fit; with `FramesInv` its step simulation is short.
2. An abstract session (listed, admitted, dropped) that `ServerSessions`
   implements, with `SessionsInv` and `DeliveryInv` as the invariants of the proof.
3. A composition of listener and sessions over `client_connected`.
