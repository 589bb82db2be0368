---------------------------- MODULE WsSessions ----------------------------
(***************************************************************************)
(* The client sessions of a WebSocket server: the tables and channels of   *)
(* ServerWebSocket, the tasks that read the accepted streams, the systems  *)
(* of the server and the calls the application makes itself.  Binding,     *)
(* accepting and the handshakes are ServerListener with ws; here a peer    *)
(* enters as the entry the accept loop put in client_connected.            *)
(*                                                                         *)
(* The port looks for a session without authentication in the table of the *)
(* authenticated ones, so that its reader is never spawned and no          *)
(* AuthenticationMessage can be read: a session is read only when the      *)
(* application itself calls ServerConnection::authenticate_client.  Then   *)
(* the sender of every message counts as connected, so that the read loop  *)
(* drops none of them; client_authenticated is written and never read.     *)
(*                                                                         *)
(* The stream of tokio-tungstenite ends once: it gives one error, or none  *)
(* after a close of the peer, and from then on None, at once.              *)
(***************************************************************************)
EXTENDS Naturals, Sequences, FiniteSets, Functions, Pipeline

CONSTANTS
  Clients,   \* accepted streams; each gets a fresh v4 uuid of its own
  Workers,   \* the numbers of worker threads a runtime may have: one per core
  MaxMsgs    \* bound: binary messages each peer sends

ASSUME WsSessionsAssumption == MaxMsgs \in Nat /\ Workers \subseteq Nat \ {0}

VARIABLES
  workers,   \* worker threads of the connection's runtime
  \* ServerWebSocket: tables; sessions whose ListeningInfos.listening is set
  not_authenticated_listening, listening_clients, listening,
  \* ServerWebSocket: channels; a report is always about an authenticated one
  client_connected, client_disconnected, message_received,
  \* the authenticated reader of each client, the other readers spawned
  reader, unauth_readers,
  \* ServerConnection, the frame, the uuids the application has been told
  clients_connected, pc, known,
  \* the peers: their state, messages sent and read, messages dispatched
  peer, sent, taken, seen

tables   == <<not_authenticated_listening, listening_clients, listening>>
channels == <<client_connected, client_disconnected, message_received>>
readers  == <<reader, unauth_readers>>
frame    == <<clients_connected, pc, known>>
peers    == <<peer, sent, taken>>
vars     == <<workers, tables, channels, readers, frame, peers, seen>>

Live == {"read", "hold", "fail"}

TypeOK ==
  /\ workers \in Workers
  /\ not_authenticated_listening \in SUBSET Clients
  /\ listening_clients \in SUBSET Clients
  /\ listening \in SUBSET (not_authenticated_listening \cup listening_clients)
  /\ client_connected \in Seq(Clients)
  /\ client_disconnected \in Seq(Clients)
  /\ message_received \in Seq(Clients \X (1 .. MaxMsgs))
  /\ reader \in [Clients -> Live \cup {"none", "spin", "done"}]
  /\ unauth_readers \in SUBSET Clients
  /\ clients_connected \in SUBSET known /\ known \in SUBSET Clients
  /\ pc \in {"disc1", "disc2", "start", "read", "app", "removed"}
  /\ peer \in [Clients -> {"idle", "open", "closed", "broken"}]
  /\ sent \in [Clients -> 0 .. MaxMsgs]
  /\ taken \in [Clients -> Nat] /\ seen \in [Clients -> Nat]
  /\ \A c \in Clients : seen[c] <= taken[c] /\ taken[c] <= sent[c]

Init ==
  /\ workers \in Workers
  /\ not_authenticated_listening = {} /\ listening_clients = {} /\ listening = {}
  /\ client_connected = <<>> /\ client_disconnected = <<>> /\ message_received = <<>>
  /\ reader = [c \in Clients |-> "none"] /\ unauth_readers = {}
  /\ clients_connected = {} /\ pc = "disc1" /\ known = {}
  /\ peer = [c \in Clients |-> "idle"]
  /\ sent = [c \in Clients |-> 0]
  /\ taken = [c \in Clients |-> 0]
  /\ seen = [c \in Clients |-> 0]

Alive == pc # "removed"   \* the connection is still in NetworkConnections

\* Between two awaits a reader keeps a worker; one whose stream has ended never
\* comes to an await that waits.
Running == {"hold", "fail", "spin"}

\* A worker is left for a task that is ready.
Polled == Cardinality({c \in Clients : reader[c] \in Running}) < workers

\* Readers of streams that have ended keep every worker.
Starved == Cardinality({c \in Clients : reader[c] = "spin"}) = workers

-----------------------------------------------------------------------------
(* The peers.                                                              *)

\* The accept loop, a task of the same runtime, has made the WebSocket.
PeerConnects(c) ==
  /\ Alive
  /\ Polled
  /\ peer[c] = "idle"
  /\ peer' = [peer EXCEPT ![c] = "open"]
  /\ client_connected' = Append(client_connected, c)
  /\ UNCHANGED <<workers, tables, client_disconnected, message_received,
                 readers, frame, sent, taken, seen>>

PeerSends(c) ==
  /\ peer[c] = "open"
  /\ sent[c] < MaxMsgs
  /\ sent' = [sent EXCEPT ![c] = @ + 1]
  /\ UNCHANGED <<workers, tables, channels, readers, frame, peer, taken, seen>>

\* With a close frame, or without one.
PeerEnds(c) ==
  /\ peer[c] = "open"
  /\ \E how \in {"closed", "broken"} : peer' = [peer EXCEPT ![c] = how]
  /\ UNCHANGED <<workers, tables, channels, readers, frame, sent, taken, seen>>

-----------------------------------------------------------------------------
(* The reader of an authenticated client.                                  *)

ReadMessage(c) ==
  /\ reader[c] = "read"
  /\ taken[c] < sent[c]
  /\ taken' = [taken EXCEPT ![c] = @ + 1]
  /\ reader' = [reader EXCEPT ![c] = "hold"]
  /\ UNCHANGED <<workers, tables, channels, unauth_readers, frame, peer, sent,
                 seen>>

\* The one error of the stream; what was not read yet may be lost.
ReadFails(c) ==
  /\ reader[c] = "read"
  /\ peer[c] = "broken"
  /\ reader' = [reader EXCEPT ![c] = "fail"]
  /\ UNCHANGED <<workers, tables, channels, unauth_readers, frame, peers, seen>>

\* None for ever, without a report: the peer has closed the WebSocket.
ReadEnds(c) ==
  /\ reader[c] = "read"
  /\ peer[c] = "closed"
  /\ taken[c] = sent[c]
  /\ reader' = [reader EXCEPT ![c] = "spin"]
  /\ UNCHANGED <<workers, tables, channels, unauth_readers, frame, peers, seen>>

\* Fault: the buffer is put in front of those that wait.
SendMessageReceivedFirst(c) ==
  /\ reader[c] = "hold"
  /\ Alive
  /\ message_received' = <<<<c, taken[c]>>>> \o message_received
  /\ reader' = [reader EXCEPT ![c] = "read"]
  /\ UNCHANGED <<workers, tables, client_connected, client_disconnected,
                 unauth_readers, frame, peers, seen>>

SendMessageReceived(c) ==
  /\ reader[c] = "hold"
  /\ Alive
  /\ message_received' = Append(message_received, <<c, taken[c]>>)
  /\ reader' = [reader EXCEPT ![c] = "read"]
  /\ UNCHANGED <<workers, tables, client_connected, client_disconnected,
                 unauth_readers, frame, peers, seen>>

\* Fault: the error is skipped like a message that is not binary.
SendClientDisconnectedSkips(c) ==
  /\ reader[c] = "fail"
  /\ reader' = [reader EXCEPT ![c] = "spin"]
  /\ UNCHANGED <<workers, tables, channels, unauth_readers, frame, peers, seen>>

\* After its report the reader goes on, and the stream gives None.
SendClientDisconnected(c) ==
  /\ reader[c] = "fail"
  /\ Alive
  /\ client_disconnected' = Append(client_disconnected, c)
  /\ reader' = [reader EXCEPT ![c] = "spin"]
  /\ UNCHANGED <<workers, tables, client_connected, message_received,
                 unauth_readers, frame, peers, seen>>

\* The same sends after the receiver is gone: expect() panics, the task ends.
SendFails(c) ==
  /\ reader[c] \in {"hold", "fail"}
  /\ ~Alive
  /\ reader' = [reader EXCEPT ![c] = "done"]
  /\ UNCHANGED <<workers, tables, channels, unauth_readers, frame, peers, seen>>

\* shutdown_background: a task of a removed connection is dropped at an await.
ReaderDropped(c) ==
  /\ reader[c] = "read"
  /\ ~Alive
  /\ reader' = [reader EXCEPT ![c] = "done"]
  /\ UNCHANGED <<workers, tables, channels, unauth_readers, frame, peers, seen>>

Reader(c) ==
  \/ Polled /\ (ReadMessage(c) \/ ReadFails(c) \/ ReadEnds(c) \/ ReaderDropped(c))
  \/ SendMessageReceived(c) \/ SendClientDisconnected(c) \/ SendFails(c)

-----------------------------------------------------------------------------
(* The systems of a frame, in the order of ServerSessions.                 *)

\* Fault: a report takes the oldest session, not the one it names.
CheckClientsDisconnectedAny ==
  IF client_disconnected = <<>>
  THEN UNCHANGED <<tables, client_disconnected>>
  ELSE /\ client_disconnected' = Tail(client_disconnected)
       /\ \E c \in listening_clients :
            /\ listening_clients' = listening_clients \ {c}
            /\ listening' = listening \ {c}
       /\ UNCHANGED not_authenticated_listening

\* check_clients_diconnected: takes one report.
CheckClientsDisconnected ==
  IF client_disconnected = <<>>
  THEN UNCHANGED <<tables, client_disconnected>>
  ELSE /\ client_disconnected' = Tail(client_disconnected)
       /\ listening_clients' = listening_clients \ {Head(client_disconnected)}
       /\ listening' = listening \ {Head(client_disconnected)}
       /\ UNCHANGED not_authenticated_listening

CheckClientDisconnectedFromPort ==
  /\ pc = "disc1"
  /\ pc' = "disc2"
  /\ CheckClientsDisconnected
  /\ UNCHANGED <<workers, client_connected, message_received, readers,
                 clients_connected, known, peers, seen>>

CheckClientConnectedToPort ==
  /\ pc = "disc2"
  /\ pc' = "start"
  /\ CheckClientsDisconnected
  /\ UNCHANGED <<workers, client_connected, message_received, readers,
                 clients_connected, known, peers, seen>>

\* start_listening_not_authenticated_client finds its session: it looks in the
\* table of the authenticated ones.
Found(c) == c \in listening_clients

\* check_not_authenticated_clients: every session is marked once, and gets a
\* reader if it is found.
StartListeningNotAuthenticated ==
  /\ pc = "start"
  /\ pc' = "read"
  /\ listening' = listening \cup not_authenticated_listening
  /\ unauth_readers' = unauth_readers \cup
       {c \in not_authenticated_listening \ listening : Found(c)}
  /\ UNCHANGED <<workers, not_authenticated_listening, listening_clients,
                 channels, reader, clients_connected, known, peers, seen>>

\* Fault: the messages that are read stay in the channel.
ReadMessagesServerPeeks ==
  /\ pc = "read"
  /\ pc' = "app"
  /\ seen' = [c \in Clients |->
                seen[c] + Cardinality(Places(message_received, c))]
  /\ UNCHANGED <<workers, tables, channels, readers, clients_connected, known,
                 peers>>

\* read_messages_server with check_messages_received.
ReadMessagesServer ==
  /\ pc = "read"
  /\ pc' = "app"
  /\ message_received' = <<>>
  /\ seen' = [c \in Clients |->
                seen[c] + Cardinality(Places(message_received, c))]
  /\ UNCHANGED <<workers, tables, client_connected, client_disconnected,
                 readers, clients_connected, known, peers>>

EndFrame ==
  /\ pc = "app"
  /\ pc' = "disc1"
  /\ UNCHANGED <<workers, tables, channels, readers, clients_connected, known,
                 peers, seen>>

Systems ==
  \/ CheckClientDisconnectedFromPort \/ CheckClientConnectedToPort
  \/ StartListeningNotAuthenticated \/ ReadMessagesServer \/ EndFrame

-----------------------------------------------------------------------------
(* The application.                                                        *)

\* check_clients_connected, which no system calls, gives it a new uuid.
CheckClientsConnected ==
  /\ pc = "app"
  /\ client_connected # <<>>
  /\ LET c == Head(client_connected)
     IN  /\ not_authenticated_listening' = not_authenticated_listening \cup {c}
         /\ known' = known \cup {c}
  /\ client_connected' = Tail(client_connected)
  /\ UNCHANGED <<workers, listening_clients, listening, client_disconnected,
                 message_received, readers, clients_connected, pc, peers, seen>>

\* Fault: the session changes tables and no reader is started.
PortAuthenticateLater(c) ==
  /\ not_authenticated_listening' = not_authenticated_listening \ {c}
  /\ listening_clients' = listening_clients \cup {c}
  /\ listening' = listening \cup {c}
  /\ UNCHANGED reader

\* ServerWebSocket::authenticate_client.
PortAuthenticate(c) ==
  /\ not_authenticated_listening' = not_authenticated_listening \ {c}
  /\ listening_clients' = listening_clients \cup {c}
  /\ listening' = listening \cup {c}
  /\ reader' = [reader EXCEPT ![c] = "read"]

\* ServerConnection::authenticate_client(uuid, 0); a second call only prints.
AuthenticateClient(c) ==
  /\ pc = "app"
  /\ c \in known \ clients_connected
  /\ clients_connected' = clients_connected \cup {c}
  /\ IF c \in not_authenticated_listening THEN PortAuthenticate(c)
     ELSE UNCHANGED <<tables, reader>>
  /\ UNCHANGED <<workers, channels, unauth_readers, pc, known, peers, seen>>

\* NetworkConnections::disconnect.
Disconnect ==
  /\ pc = "app"
  /\ pc' = "removed"
  /\ not_authenticated_listening' = {} /\ listening_clients' = {} /\ listening' = {}
  /\ client_connected' = <<>> /\ client_disconnected' = <<>> /\ message_received' = <<>>
  /\ clients_connected' = {}
  /\ UNCHANGED <<workers, readers, known, peers, seen>>

Next ==
  \/ \E c \in Clients : PeerConnects(c) \/ PeerSends(c) \/ PeerEnds(c)
  \/ \E c \in Clients : Reader(c)
  \/ Systems \/ CheckClientsConnected
  \/ \E c \in Clients : AuthenticateClient(c)
  \/ Disconnect

\* Bevy runs frame after frame and tokio polls every task that is ready, as
\* long as it has a worker for it.  Nothing is assumed of the peers or of the
\* application.
Fairness == WF_vars(Systems) /\ \A c \in Clients : WF_vars(Reader(c))

Spec     == Init /\ [][Next]_vars
FairSpec == Spec /\ Fairness

-----------------------------------------------------------------------------
(* Safety.                                                                 *)

\* The message the reader of c has read and not yet sent to the channel.
Held(c) == IF reader[c] = "hold" THEN <<<<c, taken[c]>>>> ELSE <<>>

\* Every message taken from a WebSocket reaches the read loop once and in
\* order, also after its session has been dropped from the table.
PipelineInOrder ==
  Alive => \A c \in Clients :
             InOrder(message_received \o Held(c), c, seen[c] + 1, taken[c])

\* An admitted session is in the table exactly while it can be sent to: it is
\* read, its report is under way, or its peer has closed the WebSocket, which
\* the reader does not report; a session that was dropped was broken
\* (check_clients_diconnected and the loop of the authenticated reader).
SessionIsTended ==
  Alive => \A c \in clients_connected :
    IF c \in listening_clients
    THEN \/ reader[c] \in Live
         \/ reader[c] = "spin" /\ \E k \in DOMAIN client_disconnected :
                                     client_disconnected[k] = c
         \/ reader[c] = "spin" /\ peer[c] = "closed"
    ELSE reader[c] = "spin" /\ peer[c] = "broken"

-----------------------------------------------------------------------------
(* What makes the safety of the sessions inductive.                        *)

\* An accepted stream waits once, and the application has not been told of it.
WaitingIsNew ==
  /\ \A c \in Clients : peer[c] = "idle" => c \notin known \cup Range(client_connected)
  /\ Range(client_connected) \cap known = {}
  /\ IsInjective(client_connected)

\* A session has a reader of its own from its admission on; before that it is
\* in the table of those without authentication, where nobody looks for it.
ReadersAreAdmitted ==
  /\ unauth_readers = {}
  /\ listening_clients \subseteq clients_connected
  /\ \A c \in Clients : taken[c] > 0 => reader[c] # "none"
  /\ Alive => /\ not_authenticated_listening = known \ clients_connected
              /\ \A c \in Clients : reader[c] # "none" <=> c \in clients_connected
              /\ \A c \in Clients : reader[c] # "done"

\* A report was made by a reader that goes on, of a broken stream.
ReportsAreTrue ==
  /\ \A c \in Range(client_disconnected) : reader[c] = "spin" /\ peer[c] = "broken"
  /\ \A c \in Clients : reader[c] = "fail" => peer[c] = "broken"

SessionsInv ==
  /\ WaitingIsNew
  /\ ReadersAreAdmitted
  /\ ReportsAreTrue
  /\ SessionIsTended

-----------------------------------------------------------------------------
(* Liveness.                                                               *)

\* A session that breaks is dropped, unless readers of streams that ended
\* before keep every worker.
BrokenSessionIsDropped ==
  \A c \in Clients :
    c \in listening_clients /\ peer[c] = "broken" ~> c \notin listening_clients \/ Starved

\* A message of an admitted client that stays connected reaches the read loop,
\* under the same condition.
MessagesReachTheApp ==
  \A c \in Clients : \A n \in 1 .. MaxMsgs :
    c \in listening_clients /\ sent[c] >= n
      ~> seen[c] >= n \/ peer[c] # "open" \/ ~Alive \/ Starved
=============================================================================
