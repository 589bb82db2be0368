--------------------------- MODULE ServerSessions ---------------------------
(***************************************************************************)
(* The client sessions of a TCP server: the tables and channels of         *)
(* ServerTcp, the tokio tasks that read the accepted streams, and the Bevy *)
(* systems that register, authenticate and drop clients once per frame.    *)
(*                                                                         *)
(* The main thread runs its systems one after the other (variable pc); the *)
(* reader tasks run concurrently on the runtime and meet the main thread   *)
(* only in the channels and on the mutex around each stream's read half.   *)
(* Binding and accepting are module ServerListener; here a peer's          *)
(* connection enters as the entry the accept loop put in client_connected. *)
(* Message sizes and bytes are module FrameStream; a message here is the   *)
(* pair <<client, number>> and its kind is looked up in the peer's log,    *)
(* which holds the messages as the readers take the stream apart.  A size  *)
(* that no buffer can be made for is the step ReadPanics.                  *)
(***************************************************************************)
EXTENDS Naturals, Sequences, Functions, Pipeline

CONSTANTS
  Clients,        \* accepted streams; each gets a fresh v4 uuid of its own
  Kinds,          \* the kinds of message the peers send, see MessageKinds
  MaxMsgs,        \* bound: messages each peer sends on its stream
  Unfit,          \* bound: the peers whose stream may hold an unfit size
  AppRegisters,   \* the application calls check_clients_connected itself
  AppDisconnects  \* the application may call NetworkConnections::disconnect

(***************************************************************************)
(* What a peer may send.  All but "junk" are wrapped in a MessageInfos, as *)
(* the read loop requires and as send_message does not do (Messaging).     *)
(* "auth" is an authentication message that authenticate() accepts, "deny" *)
(* one that it refuses, "data" any other registered message, and "junk"    *)
(* one that has no MessageInfos or an unknown message_id.                  *)
(***************************************************************************)
MessageKinds == {"auth", "deny", "data", "junk"}

ASSUME SessionsAssumption ==
  /\ Kinds \subseteq MessageKinds
  /\ MaxMsgs \in [Clients -> Nat]
  /\ Unfit \subseteq Clients
  /\ AppRegisters \in BOOLEAN
  /\ AppDisconnects \in BOOLEAN

VARIABLES
  \* ServerTcp: tables
  not_authenticated_listening, listening_clients,
  listening,             \* the sessions whose ListeningInfos.listening is set
  \* ServerTcp: channels, in the order of their sends
  client_connected, client_disconnected, message_received,
  client_authenticated,
  \* reader tasks: reader[c]["unauth"] and reader[c]["auth"]
  reader,
  \* ServerConnection and the frame
  clients_connected, pc, batch, events, replies,
  \* the peers: their state, what they sent, how much has been read of it
  peer, sent, taken,
  \* history: messages the read loop has seen, data given to the application
  seen, delivered

tables   == <<not_authenticated_listening, listening_clients, listening>>
channels == <<client_connected, client_disconnected, message_received,
              client_authenticated>>
frame    == <<clients_connected, pc, batch, events, replies>>
peers    == <<peer, sent, taken>>
history  == <<seen, delivered>>
vars     == <<tables, channels, reader, frame, peers, history>>

Roles   == {"unauth", "auth"}
Holding == {"drain", "read", "hold", "fail"}  \* states that hold the read half
Live    == {"lock"} \cup Holding
Ended   == {"done", "panicked"}    \* it has returned or panicked over a size
States  == Live \cup {"none"} \cup Ended
Message == Clients \X Nat
Report  == Clients \X Roles    \* (uuid, is_authenticated): the reader's role

KindOf(m) == sent[m[1]][m[2]]

TypeOK ==
  /\ not_authenticated_listening \in SUBSET Clients
  /\ listening_clients \in SUBSET Clients
  /\ listening \in SUBSET Clients
  /\ client_connected \in Seq(Clients)
  /\ client_disconnected \in Seq(Report)
  /\ message_received \in Seq(Message)
  /\ client_authenticated \in Seq(Clients)
  /\ reader \in [Clients -> [Roles -> States]]
  /\ clients_connected \in SUBSET Clients
  /\ pc \in {"disc1", "disc2", "start", "drain", "dispatch", "auth", "app",
             "removed"}
  /\ batch \in Seq(Message)
  /\ events \in Seq(Message)
  /\ replies \in [Clients -> Nat]
  /\ peer \in [Clients -> {"idle", "open", "closed", "broken"}]
  /\ sent \in [Clients -> Seq(Kinds)]
  /\ taken \in [Clients -> Nat]
  /\ seen \in [Clients -> Nat]
  /\ delivered \in [Clients -> SUBSET Nat]
  /\ \A c \in Clients : taken[c] <= Len(sent[c])

Init ==
  /\ not_authenticated_listening = {}
  /\ listening_clients = {}
  /\ listening = {}
  /\ client_connected = <<>>
  /\ client_disconnected = <<>>
  /\ message_received = <<>>
  /\ client_authenticated = <<>>
  /\ reader = [c \in Clients |-> [r \in Roles |-> "none"]]
  /\ clients_connected = {}
  /\ pc = "disc1"
  /\ batch = <<>>
  /\ events = <<>>
  /\ replies = [c \in Clients |-> 0]
  /\ peer = [c \in Clients |-> "idle"]
  /\ sent = [c \in Clients |-> <<>>]
  /\ taken = [c \in Clients |-> 0]
  /\ seen = [c \in Clients |-> 0]
  /\ delivered = [c \in Clients |-> {}]

Alive == pc # "removed"   \* the connection is still in NetworkConnections

-----------------------------------------------------------------------------
(* The peers.  A stream outlives its sender until a read on it has failed: *)
(* data sent before a close may still be read, or be lost by a reset.      *)

\* The accept loop took the connection and sent it to client_connected.
PeerConnects(c) ==
  /\ Alive
  /\ peer[c] = "idle"
  /\ peer' = [peer EXCEPT ![c] = "open"]
  /\ client_connected' = Append(client_connected, c)
  /\ UNCHANGED <<tables, client_disconnected, message_received,
                 client_authenticated, reader, frame, sent, taken, history>>

PeerSends(c) ==
  /\ peer[c] = "open"
  /\ Len(sent[c]) < MaxMsgs[c]
  /\ \E k \in Kinds : sent' = [sent EXCEPT ![c] = Append(@, k)]
  /\ UNCHANGED <<tables, channels, reader, frame, peer, taken, history>>

PeerCloses(c) ==
  /\ peer[c] = "open"
  /\ peer' = [peer EXCEPT ![c] = "closed"]
  /\ UNCHANGED <<tables, channels, reader, frame, sent, taken, history>>

Peer(c) == PeerConnects(c) \/ PeerSends(c) \/ PeerCloses(c)

-----------------------------------------------------------------------------
(* The reader tasks that ReadType::read spawns: one per session without    *)
(* authentication and, after authentication, one with.  Both lock the same *)
(* read half, for as long as they run.                                     *)

ReadHalfFree(c) == \A r \in Roles : reader[c][r] \notin Holding

\* Fault: the second reader does not wait for the mutex.
LockReadHalfUnguarded(c, r) ==
  /\ reader[c][r] = "lock"
  /\ reader' = [reader EXCEPT ![c][r] = IF r = "unauth" THEN "drain" ELSE "read"]
  /\ UNCHANGED <<tables, channels, frame, peers, history>>

\* Only the unauthenticated reader was given client_authenticated_receiver
\* and polls it at the top of its loop.
LockReadHalf(c, r) ==
  /\ reader[c][r] = "lock"
  /\ ReadHalfFree(c)
  /\ reader' = [reader EXCEPT ![c][r] = IF r = "unauth" THEN "drain" ELSE "read"]
  /\ UNCHANGED <<tables, channels, frame, peers, history>>

Announced(c) == c \in Range(client_authenticated)

\* Fault: the uuid is not compared, any uuid ends the reader.
StopUnauthReaderAny(c) ==
  /\ reader[c]["unauth"] = "drain"
  /\ client_authenticated # <<>>
  /\ client_authenticated' = Tail(client_authenticated)
  /\ reader' = [reader EXCEPT ![c]["unauth"] = "done"]
  /\ UNCHANGED <<tables, client_connected, client_disconnected,
                 message_received, frame, peers, history>>

\* The drain loop meets the reader's own uuid, having taken off those before
\* it: it returns.
StopUnauthReader(c) ==
  /\ reader[c]["unauth"] = "drain"
  /\ \E i \in DOMAIN client_authenticated :
       /\ client_authenticated[i] = c
       /\ \A j \in 1 .. i - 1 : client_authenticated[j] # c
       /\ client_authenticated' =
            SubSeq(client_authenticated, i + 1, Len(client_authenticated))
  /\ reader' = [reader EXCEPT ![c]["unauth"] = "done"]
  /\ UNCHANGED <<tables, client_connected, client_disconnected,
                 message_received, frame, peers, history>>

\* It does not: every uuid in the channel, meant for whichever reader, is
\* taken off and forgotten, and the reader goes on to read the stream.
DrainAnnounced(c) ==
  /\ reader[c]["unauth"] = "drain"
  /\ ~Announced(c)
  /\ client_authenticated' = <<>>
  /\ reader' = [reader EXCEPT ![c]["unauth"] = "read"]
  /\ UNCHANGED <<tables, client_connected, client_disconnected,
                 message_received, frame, peers, history>>

\* Fault: read for read_exact, the end of the stream passes for a message.
ReadMessageAtEnd(c, r) ==
  /\ reader[c][r] = "read"
  /\ peer[c] # "broken"
  /\ taken[c] < Len(sent[c]) \/ peer[c] = "closed"
  /\ taken' = [taken EXCEPT ![c] = @ + 1]
  /\ reader' = [reader EXCEPT ![c][r] = "hold"]
  /\ UNCHANGED <<tables, channels, frame, peer, sent, history>>

\* read_from_settings and read_exact both succeed.
ReadMessage(c, r) ==
  /\ reader[c][r] = "read"
  /\ peer[c] # "broken"
  /\ taken[c] < Len(sent[c])
  /\ taken' = [taken EXCEPT ![c] = @ + 1]
  /\ reader' = [reader EXCEPT ![c][r] = "hold"]
  /\ UNCHANGED <<tables, channels, frame, peer, sent, history>>

\* One of them fails: end of stream or reset.  Later reads fail as well.
ReadFails(c, r) ==
  /\ reader[c][r] = "read"
  /\ peer[c] \in {"closed", "broken"}
  /\ peer' = [peer EXCEPT ![c] = "broken"]
  /\ reader' = [reader EXCEPT ![c][r] = "fail"]
  /\ UNCHANGED <<tables, channels, frame, sent, taken, history>>

\* The size that comes next is negative or huge: vec![0u8; size] panics.  The
\* task ends without a report and its guard is dropped, so that the other
\* reader of the session goes on behind the size.
ReadPanics(c, r) ==
  /\ c \in Unfit
  /\ reader[c][r] = "read"
  /\ peer[c] # "broken"
  /\ reader' = [reader EXCEPT ![c][r] = "panicked"]
  /\ UNCHANGED <<tables, channels, frame, peers, history>>

\* Fault: the unauthenticated reader polls for its uuid after the read and
\* drops the message it holds.
SendMessageReceivedLossy(c, r) ==
  /\ reader[c][r] = "hold"
  /\ Alive
  /\ message_received' = IF r = "unauth" /\ Announced(c) THEN message_received
                         ELSE Append(message_received, <<c, taken[c]>>)
  /\ reader' = [reader EXCEPT ![c][r] = IF r = "unauth" THEN "drain" ELSE "read"]
  /\ UNCHANGED <<tables, client_connected, client_disconnected,
                 client_authenticated, frame, peers, history>>

\* message_received_sender.send((buf,target)), then the top of the loop.
SendMessageReceived(c, r) ==
  /\ reader[c][r] = "hold"
  /\ Alive
  /\ message_received' = Append(message_received, <<c, taken[c]>>)
  /\ reader' = [reader EXCEPT ![c][r] = IF r = "unauth" THEN "drain" ELSE "read"]
  /\ UNCHANGED <<tables, client_connected, client_disconnected,
                 client_authenticated, frame, peers, history>>

\* Fault: the authenticated reader reports itself as unauthenticated.
SendClientDisconnectedUnauth(c, r) ==
  /\ reader[c][r] = "fail"
  /\ Alive
  /\ client_disconnected' = Append(client_disconnected, <<c, "unauth">>)
  /\ reader' = [reader EXCEPT ![c][r] = "done"]
  /\ UNCHANGED <<tables, client_connected, message_received,
                 client_authenticated, frame, peers, history>>

\* client_disconnected_sender.send((target, is_authenticated)); return.
SendClientDisconnected(c, r) ==
  /\ reader[c][r] = "fail"
  /\ Alive
  /\ client_disconnected' = Append(client_disconnected, <<c, r>>)
  /\ reader' = [reader EXCEPT ![c][r] = "done"]
  /\ UNCHANGED <<tables, client_connected, message_received,
                 client_authenticated, frame, peers, history>>

\* The same sends after the receiver is gone: expect() panics, the task ends.
SendFails(c, r) ==
  /\ reader[c][r] \in {"hold", "fail"}
  /\ ~Alive
  /\ reader' = [reader EXCEPT ![c][r] = "done"]
  /\ UNCHANGED <<tables, channels, frame, peers, history>>

Reader(c, r) ==
  \/ LockReadHalf(c, r)
  \/ r = "unauth" /\ (StopUnauthReader(c) \/ DrainAnnounced(c))
  \/ ReadMessage(c, r) \/ ReadFails(c, r)
  \/ SendMessageReceived(c, r) \/ SendClientDisconnected(c, r)
  \/ SendFails(c, r)

-----------------------------------------------------------------------------
(* The main thread: the systems of one frame.  First: the two calls of     *)
(* check_clients_diconnected (the second one made by the system that is    *)
(* named after connecting clients), then start_listening_not_authenticated.*)
(* PreUpdate: read_messages_server, authentication_message_server.  Then   *)
(* whatever the application does.                                          *)

\* Fault: the flag of the report is not looked at.
CheckClientsDisconnectedBoth ==
  IF client_disconnected = <<>>
  THEN UNCHANGED <<tables, client_disconnected>>
  ELSE LET c == Head(client_disconnected)[1]
       IN  /\ client_disconnected' = Tail(client_disconnected)
           /\ listening_clients' = listening_clients \ {c}
           /\ not_authenticated_listening' = not_authenticated_listening \ {c}
           /\ listening' = listening \ {c}

\* check_clients_diconnected: takes one report; the session is removed from
\* the table the report names, if it is there.
CheckClientsDisconnected ==
  IF client_disconnected = <<>>
  THEN UNCHANGED <<tables, client_disconnected>>
  ELSE LET c    == Head(client_disconnected)[1]
           auth == Head(client_disconnected)[2] = "auth"
       IN  /\ client_disconnected' = Tail(client_disconnected)
           /\ listening_clients' =
                IF auth THEN listening_clients \ {c} ELSE listening_clients
           /\ not_authenticated_listening' =
                IF auth THEN not_authenticated_listening
                ELSE not_authenticated_listening \ {c}
           /\ listening' = listening \cap (not_authenticated_listening'
                                             \cup listening_clients')

CheckClientDisconnectedFromPort ==
  /\ pc = "disc1"
  /\ pc' = "disc2"
  /\ CheckClientsDisconnected
  /\ UNCHANGED <<client_connected, message_received, client_authenticated,
                 reader, clients_connected, batch, events, replies, peers,
                 history>>

CheckClientConnectedToPort ==
  /\ pc = "disc2"
  /\ pc' = "start"
  /\ CheckClientsDisconnected
  /\ UNCHANGED <<client_connected, message_received, client_authenticated,
                 reader, clients_connected, batch, events, replies, peers,
                 history>>

\* check_not_authenticated_clients: a reader for every session without one.
StartListeningNotAuthenticated ==
  /\ pc = "start"
  /\ pc' = "drain"
  /\ listening' = listening \cup not_authenticated_listening
  /\ reader' = [c \in Clients |->
                  IF c \in not_authenticated_listening \ listening
                  THEN [reader[c] EXCEPT !["unauth"] = "lock"] ELSE reader[c]]
  /\ UNCHANGED <<not_authenticated_listening, listening_clients, channels,
                 clients_connected, batch, events, replies, peers, history>>

\* check_messages_received, at the top of read_messages_server.
CheckMessagesReceived ==
  /\ pc = "drain"
  /\ pc' = "dispatch"
  /\ batch' = message_received
  /\ message_received' = <<>>
  /\ UNCHANGED <<tables, client_connected, client_disconnected,
                 client_authenticated, reader, clients_connected, events,
                 replies, peers, history>>

\* Fault: the test for unauthenticated senders is missing.
ReadMessagesServerOpen ==
  /\ pc = "dispatch"
  /\ batch # <<>>
  /\ LET m == Head(batch)
     IN  /\ batch' = Tail(batch)
         /\ seen' = [seen EXCEPT ![m[1]] = @ + 1]
         /\ events' = IF KindOf(m) \in {"auth", "deny"}
                      THEN Append(events, m) ELSE events
         /\ delivered' = [delivered EXCEPT ![m[1]] =
                            IF KindOf(m) = "data" THEN @ \cup {m[2]} ELSE @]
  /\ UNCHANGED <<tables, channels, reader, clients_connected, pc, replies,
                 peers>>

\* Fault: the first junk ends the loop, the rest of the batch is lost.
ReadMessagesServerBreak ==
  /\ pc = "dispatch"
  /\ batch # <<>>
  /\ LET m    == Head(batch)
         lost == IF KindOf(m) = "junk" THEN batch ELSE <<m>>
     IN  /\ batch' = SubSeq(batch, Len(lost) + 1, Len(batch))
         /\ seen' = [seen EXCEPT ![m[1]] = @ + Len(lost)]
         /\ events' = IF KindOf(m) \in {"auth", "deny"}
                      THEN Append(events, m) ELSE events
         /\ delivered' = [delivered EXCEPT ![m[1]] =
                            IF KindOf(m) = "data" /\ m[1] \in clients_connected
                            THEN @ \cup {m[2]} ELSE @]
  /\ UNCHANGED <<tables, channels, reader, clients_connected, pc, replies,
                 peers>>

\* One turn of the loop of read_messages_server: junk is skipped, an
\* authentication message is dispatched, other data only for a sender that
\* an earlier frame authenticated.
ReadMessagesServer ==
  /\ pc = "dispatch"
  /\ batch # <<>>
  /\ LET m == Head(batch)
     IN  /\ batch' = Tail(batch)
         /\ seen' = [seen EXCEPT ![m[1]] = @ + 1]
         /\ events' = IF KindOf(m) \in {"auth", "deny"}
                      THEN Append(events, m) ELSE events
         /\ delivered' = [delivered EXCEPT ![m[1]] =
                            IF KindOf(m) = "data" /\ m[1] \in clients_connected
                            THEN @ \cup {m[2]} ELSE @]
  /\ UNCHANGED <<tables, channels, reader, clients_connected, pc, replies,
                 peers>>

ReadMessagesServerEnd ==
  /\ pc = "dispatch"
  /\ batch = <<>>
  /\ pc' = "auth"
  /\ UNCHANGED <<tables, channels, reader, clients_connected, batch, events,
                 replies, peers, history>>

\* Fault: the session is taken out of one table and not put into the other.
PortAuthenticateForgets(c) ==
  /\ not_authenticated_listening' = not_authenticated_listening \ {c}
  /\ client_authenticated' = Append(client_authenticated, c)
  /\ UNCHANGED <<listening_clients, listening, reader>>

\* ServerTcp::authenticate_client: the session changes tables, its second
\* reader is spawned and its uuid announced to the first one.
PortAuthenticate(c) ==
  IF c \in not_authenticated_listening
  THEN /\ not_authenticated_listening' = not_authenticated_listening \ {c}
       /\ listening_clients' = listening_clients \cup {c}
       /\ listening' = listening \cup {c}
       /\ reader' = [reader EXCEPT ![c]["auth"] = "lock"]
       /\ client_authenticated' = Append(client_authenticated, c)
  ELSE UNCHANGED <<tables, reader, client_authenticated>>

\* Fault: the reply is sent before the session is authenticated.
AuthenticationMessageServerEarlyReply ==
  /\ pc = "auth"
  /\ events # <<>>
  /\ LET c == Head(events)[1]
     IN  IF KindOf(Head(events)) = "auth"
         THEN /\ clients_connected' = clients_connected \cup {c}
              /\ IF c \in clients_connected
                 THEN UNCHANGED <<tables, reader, client_authenticated>>
                 ELSE PortAuthenticate(c)
              /\ replies' = [replies EXCEPT ![c] =
                               IF c \in listening_clients THEN @ + 1 ELSE @]
         ELSE UNCHANGED <<tables, reader, client_authenticated,
                          clients_connected, replies>>
  /\ events' = Tail(events)
  /\ UNCHANGED <<client_connected, client_disconnected, message_received, pc,
                 batch, peers, history>>

\* One turn of the loop of authentication_message_server, with
\* ServerConnection::authenticate_client and send_message(AuthenticatedUuid),
\* which finds its target in listening_clients or only warns.
AuthenticationMessageServer ==
  /\ pc = "auth"
  /\ events # <<>>
  /\ LET c == Head(events)[1]
     IN  IF KindOf(Head(events)) = "auth"
         THEN /\ clients_connected' = clients_connected \cup {c}
              /\ IF c \in clients_connected
                 THEN UNCHANGED <<tables, reader, client_authenticated>>
                 ELSE PortAuthenticate(c)
              /\ replies' = [replies EXCEPT ![c] =
                               IF c \in listening_clients' THEN @ + 1 ELSE @]
         ELSE UNCHANGED <<tables, reader, client_authenticated,
                          clients_connected, replies>>
  /\ events' = Tail(events)
  /\ UNCHANGED <<client_connected, client_disconnected, message_received, pc,
                 batch, peers, history>>

AuthenticationMessageServerEnd ==
  /\ pc = "auth"
  /\ events = <<>>
  /\ pc' = "app"
  /\ UNCHANGED <<tables, channels, reader, clients_connected, batch, events,
                 replies, peers, history>>

\* Fault: the new session is listed as if it already had its reader.
CheckClientsConnectedListening ==
  /\ pc = "app"
  /\ AppRegisters
  /\ client_connected # <<>>
  /\ client_connected' = Tail(client_connected)
  /\ not_authenticated_listening' =
       not_authenticated_listening \cup {Head(client_connected)}
  /\ listening' = listening \cup {Head(client_connected)}
  /\ UNCHANGED <<listening_clients, client_disconnected, message_received,
                 client_authenticated, reader, frame, peers, history>>

\* check_clients_connected, which no system of the plugin calls: takes one
\* accepted stream, gives it a uuid and lists it.
CheckClientsConnected ==
  /\ pc = "app"
  /\ AppRegisters
  /\ client_connected # <<>>
  /\ client_connected' = Tail(client_connected)
  /\ not_authenticated_listening' =
       not_authenticated_listening \cup {Head(client_connected)}
  /\ UNCHANGED <<listening_clients, listening, client_disconnected,
                 message_received, client_authenticated, reader, frame, peers,
                 history>>

EndFrame ==
  /\ pc = "app"
  /\ pc' = "disc1"
  /\ UNCHANGED <<tables, channels, reader, clients_connected, batch, events,
                 replies, peers, history>>

\* Fault: the runtime is not shut down.
DisconnectKeepsRuntime ==
  /\ pc = "app"
  /\ AppDisconnects
  /\ pc' = "removed"
  /\ not_authenticated_listening' = {}
  /\ listening_clients' = {}
  /\ listening' = {}
  /\ client_connected' = <<>>
  /\ client_disconnected' = <<>>
  /\ message_received' = <<>>
  /\ client_authenticated' = <<>>
  /\ clients_connected' = {}
  /\ UNCHANGED <<reader, batch, events, replies, peers, history>>

\* NetworkConnections::disconnect: shutdown_background drops every task at
\* its next await, the ServerConnection and its receivers are dropped.  A
\* reader past its last await still runs up to its send.
Disconnect ==
  /\ pc = "app"
  /\ AppDisconnects
  /\ pc' = "removed"
  /\ not_authenticated_listening' = {}
  /\ listening_clients' = {}
  /\ listening' = {}
  /\ client_connected' = <<>>
  /\ client_disconnected' = <<>>
  /\ message_received' = <<>>
  /\ client_authenticated' = <<>>
  /\ clients_connected' = {}
  /\ reader' = [c \in Clients |-> [r \in Roles |->
                  IF reader[c][r] \in {"lock", "drain", "read"}
                  THEN "done" ELSE reader[c][r]]]
  /\ UNCHANGED <<batch, events, replies, peers, history>>

Systems ==
  \/ CheckClientDisconnectedFromPort \/ CheckClientConnectedToPort
  \/ StartListeningNotAuthenticated
  \/ CheckMessagesReceived \/ ReadMessagesServer \/ ReadMessagesServerEnd
  \/ AuthenticationMessageServer \/ AuthenticationMessageServerEnd

Next ==
  \/ \E c \in Clients : Peer(c)
  \/ \E c \in Clients, r \in Roles : Reader(c, r) \/ ReadPanics(c, r)
  \/ Systems
  \/ CheckClientsConnected \/ EndFrame \/ Disconnect

\* Bevy runs frame after frame and tokio polls every task that can run; the
\* application calls check_clients_connected once per frame, as the systems
\* do.  Peers are under no obligation, neither to send nor to send a size that
\* makes a reader panic, and nor is Disconnect.
Fairness ==
  /\ WF_vars(Systems)
  /\ WF_vars(EndFrame)
  /\ SF_vars(CheckClientsConnected)
  /\ \A c \in Clients, r \in Roles : WF_vars(Reader(c, r))

Spec     == Init /\ [][Next]_vars
FairSpec == Spec /\ Fairness

-----------------------------------------------------------------------------
(* Safety.                                                                 *)

\* The message a reader of c has read and not yet sent to the channel.
Held(c) ==
  IF \E r \in Roles : reader[c][r] = "hold" THEN <<<<c, taken[c]>>>> ELSE <<>>

\* Every message taken from a stream reaches the read loop once and in the
\* order it was sent, also while the stream changes from the unauthenticated
\* to the authenticated reader (ReadType::read spawns the second one while
\* the first is still waiting in a read).
PipelineInOrder ==
  Alive => \A c \in Clients :
    InOrder(batch \o message_received \o Held(c), c, seen[c] + 1, taken[c])

\* The two readers of a stream never read it at the same time: the second
\* one holds the read half only once the first has ended, and whoever holds
\* it alone waits for bytes (read.lock() in ReadType::read).
StrictHandoff ==
  \A c \in Clients : reader[c]["auth"] \in Holding => reader[c]["unauth"] \in Ended

Listed(c) == c \in not_authenticated_listening \cup listening_clients

\* While the connection lives, every reader serves a listed session: no
\* report removes a session whose reader still waits for the lock or reads,
\* although both readers of a session report the same broken stream
\* (check_clients_diconnected looks at the flag of the report).
NoOrphanReader ==
  Alive => \A c \in Clients :
    (\E r \in Roles : reader[c][r] \in Live)
      => Listed(c)

Reported(c, r) == <<c, r>> \in Range(client_disconnected)

\* A session whose reading has begun either still has a reader of the role
\* its table stands for or the report that will remove it from that table.  A
\* panic over a size is the only way for a session to stay listed with nobody
\* reading it (vec![0u8; size] in ReadType::read).
Tended(c, r) ==
  reader[c][r] \in Live \cup {"panicked"} \/ Reported(c, r)

NoLeakedSession ==
  /\ \A c \in not_authenticated_listening \cap listening : Tended(c, "unauth")
  /\ \A c \in listening_clients : Tended(c, "auth")

\* clients_connected and listening_clients are updated by two calls and only
\* one of them is ever undone: a client that counts as connected but is not
\* listed has a stream that is known to be broken, so that no message of a
\* client that can still be answered is accepted without it being listed.
ConnectedIsListed ==
  \A c \in clients_connected : c \in listening_clients \/ peer[c] = "broken"

\* A client in listening_clients has been sent its AuthenticatedUuid: the
\* reply comes after the change of tables that send_message depends on.
AdmittedIsAnswered ==
  \A c \in listening_clients : replies[c] > 0

\* The application gets data only from a client that has sent an accepted
\* authentication message before it ("Client sending messages without being
\* authenticated yet").
AuthBeforeData ==
  \A c \in Clients : \A n \in delivered[c] :
    \E k \in 1 .. n - 1 : sent[c][k] = "auth"

\* Once one data message of a client has been given to the application, every
\* later one that the read loop has seen has been given to it as well: a
\* client's admission is not lost when the reader is exchanged, when it
\* authenticates again or when other clients come and go.
NoGapAfterAdmission ==
  \A c \in Clients : \A n \in delivered[c] : \A k \in n .. seen[c] :
    sent[c][k] = "data" => k \in delivered[c]

-----------------------------------------------------------------------------
(* What makes the safety of the tables inductive.                          *)

\* A reader of c without authentication has had the read half.
Started(c) == reader[c]["unauth"] \notin {"none", "lock"}

\* An accepted stream waits once, and nothing of its session exists yet.
Fresh(c) ==
  /\ \A r \in Roles : reader[c][r] = "none"
  /\ c \notin not_authenticated_listening \cup listening_clients
  /\ c \notin clients_connected

WaitingIsFresh ==
  /\ \A c \in Clients : peer[c] = "idle" => Fresh(c) /\ c \notin Range(client_connected)
  /\ \A c \in Range(client_connected) : Fresh(c)
  /\ IsInjective(client_connected)

\* Whatever came from c came through its first reader.
MessagesAreOfStarted ==
  \A m \in Range(message_received) \cup Range(batch) \cup Range(events) :
    Started(m[1])

\* The readers of a session follow each other, in step with its table.
ReadersFollowTables ==
  \A c \in Clients :
    /\ c \in not_authenticated_listening =>
         /\ c \notin listening_clients
         /\ reader[c]["auth"] = "none"
         /\ c \notin listening => reader[c]["unauth"] = "none"
    /\ c \in listening => Listed(c)
    /\ reader[c]["auth"] # "none" => Started(c)
    /\ reader[c]["auth"] \in Holding \cup {"panicked"} => reader[c]["unauth"] \in Ended
    /\ Alive => /\ reader[c]["unauth"] \in Live => Listed(c)
                /\ reader[c]["auth"] \in Live => c \in listening_clients
                /\ reader[c]["auth"] = "done" => reader[c]["unauth"] \in Ended

AnnouncedIsAuthenticated ==
  \A c \in Range(client_authenticated) : reader[c]["auth"] # "none"

\* A report was made by a reader that has returned, of a broken stream, and a
\* session leaves the tables only when its stream is broken.
ReportsAreTrue ==
  /\ \A c \in Clients, r \in Roles :
       Reported(c, r) => reader[c][r] = "done" /\ peer[c] = "broken"
  /\ \A c \in Clients, r \in Roles :
       reader[c][r] = "fail" => peer[c] = "broken"
  /\ Alive => \A c \in Clients :
       /\ reader[c]["auth"] = "done" => peer[c] = "broken"
       /\ Started(c) /\ ~Listed(c) => peer[c] = "broken"

RemovedIsEmpty ==
  ~Alive => /\ not_authenticated_listening = {}
            /\ listening_clients = {}
            /\ clients_connected = {}

\* The inductive invariant: a session's tables, its two readers, the uuid and
\* the reports under way agree in every state.
SessionsInv ==
  /\ WaitingIsFresh
  /\ MessagesAreOfStarted
  /\ ReadersFollowTables
  /\ AnnouncedIsAuthenticated
  /\ ReportsAreTrue
  /\ NoLeakedSession
  /\ ConnectedIsListed
  /\ RemovedIsEmpty

-----------------------------------------------------------------------------
(* What makes the safety of the messages inductive.                        *)

\* The number of the last message of c that was sent to the channel.
Last(c) ==
  IF \E r \in Roles : reader[c][r] = "hold" THEN taken[c] - 1 ELSE taken[c]

\* The channel and the batch of this frame carry what was sent and not seen.
OrderInv ==
  /\ pc # "dispatch" => batch = <<>>
  /\ Alive => \A c \in Clients :
       /\ seen[c] <= Last(c)
       /\ InOrder(batch \o message_received, c, seen[c] + 1, Last(c))

\* Only a client whose authentication message has been seen is connected, and
\* it stays so: from the first message that was delivered, all data is.
DeliveryInv ==
  /\ \A c \in Clients : seen[c] <= taken[c] /\ taken[c] <= Len(sent[c])
  /\ \A m \in Range(events) : m[2] \in 1 .. seen[m[1]]
  /\ \A c \in clients_connected : \E k \in 1 .. seen[c] : sent[c][k] = "auth"
  /\ \A c \in Clients :
       /\ delivered[c] \subseteq 1 .. seen[c]
       /\ Alive /\ delivered[c] # {} => c \in clients_connected
  /\ AuthBeforeData
  /\ NoGapAfterAdmission

-----------------------------------------------------------------------------
(* Liveness.                                                               *)

\* A session whose peer has closed its stream is dropped from the tables in
\* the end, whatever state the exchange of readers is in and whichever reader
\* took its uuid from client_authenticated; unless one of its readers has
\* panicked over a size, which leaves the close to nobody.
Panicked(c) == \E r \in Roles : reader[c][r] = "panicked"

ClosedSessionIsDropped ==
  \A c \in Clients :
    (Listed(c) /\ peer[c] = "closed") ~> ~Listed(c) \/ Panicked(c)

\* Every message of a client that stays connected, to a server connection that
\* is not removed, reaches the read loop: the exchange of readers never leaves
\* the stream without one.  A reader that has panicked over a size is excepted.
MessagesReachTheApp ==
  \A c \in Clients : \A n \in 1 .. MaxMsgs[c] :
    Len(sent[c]) >= n
      ~> (seen[c] >= n \/ peer[c] # "open" \/ ~Alive \/ Panicked(c))

\* Every accepted stream is read: it gets a session and the session a reader
\* (the accept loop's send to client_connected is received by somebody).
AcceptedIsRead ==
  \A c \in Clients : peer[c] = "open" ~> reader[c]["unauth"] # "none" \/ ~Alive

\* After NetworkConnections::disconnect no reader task goes on for ever: none
\* keeps the stream of a removed connection open.
DisconnectEndsReaders ==
  pc = "removed" ~> \A c \in Clients, r \in Roles : reader[c][r] \notin Live
=============================================================================
