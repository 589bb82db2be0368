------------------------------- MODULE Client -------------------------------
(***************************************************************************)
(* A client's connection with its port, ClientTcp or ClientWebSocket, and  *)
(* what it promises: ClientConnection with the tasks of TcpClient or       *)
(* WsClient, as an implementation of ClientLink.                           *)
(***************************************************************************)
EXTENDS ClientConnection, Pipeline

Tcp == INSTANCE TcpClient
Ws  == INSTANCE WsClient

\* The four systems of ClientConnectionPlugin, and read_messages_client.
Systems ==
  \/ FrameSystems
  \/ transport = "tcp" /\ Tcp!CheckListeningToMainPort
  \/ transport = "ws" /\ Ws!CheckListeningToMainPort

ConnectorStep(i) ==
  /\ Polled(connectors, i)
  /\ \/ transport = "tcp" /\ Tcp!ConnectorStep(i)
     \/ transport = "ws" /\ Ws!ConnectorStep(i)
     \/ ConnectorDropped(i)

ReadMessage(j) ==
  /\ Polled(readers, j)
  /\ \/ transport = "tcp" /\ Tcp!ReadMessage(j)
     \/ transport = "ws" /\ Ws!ReadMessage(j)

ReadPanics(j) == Polled(readers, j) /\ transport = "tcp" /\ Tcp!ReadPanics(j)

ReaderStep(j) ==
  /\ Polled(readers, j)
  /\ \/ transport = "tcp" /\ Tcp!ReaderStep(j)
     \/ transport = "ws" /\ Ws!ReaderStep(j)
     \/ ReaderDropped(j)

Next ==
  \/ StartConnection \/ Disconnect \/ Systems
  \/ \E i \in DOMAIN connectors : ConnectorStep(i)
  \/ \E j \in DOMAIN readers : ReadMessage(j) \/ ReadPanics(j) \/ ReaderStep(j)
  \/ \E s \in DOMAIN link :
       LinkBreaks(s) \/ (transport = "ws" /\ Ws!ServerCloses(s))

Spec == Init /\ [][Next]_vars

\* The schedule runs every frame and the runtime of the connection that is there
\* polls every task that is ready, as long as it has a worker for it; a task of
\* each kind at a time can be ready, see OneInCharge.  Of the server it is
\* assumed that an attempt to connect and a handshake come to an end, and, for a
\* TCP client that repeats its attempts, that one of them succeeds or panics.
Fairness ==
  /\ WF_vars(Systems)
  /\ WF_vars(\E i \in Live(connectors) : ConnectorStep(i))
  /\ WF_vars(\E j \in Live(readers) : ReaderStep(j))

FairSpec == Spec /\ Fairness

-----------------------------------------------------------------------------
(* Safety.                                                                 *)

\* One task at a time answers for the connection: the connector until its
\* stream or its report is taken, then the reader until its report is taken.
\* So a late report never brings down the stream that has replaced the broken
\* one, and check_port_dropped never leaves a stream behind in the channel.
OneInCharge ==
  Cardinality(Live(connectors)) + Len(connected_to_server)
    + connection_down + Cardinality(Live(readers)) <= 1

\* A reader of this connection reads the stream the port holds and writes to.
ReaderHasPortsStream == \A j \in Live(readers) : readers[j].on = half

\* The message reader j has read and not yet sent to the channel.
Held(j) ==
  IF readers[j].at = "hold" THEN <<<<readers[j].on, taken[readers[j].on]>>>> ELSE <<>>

\* No message that was read is lost or repeated while the connection is there,
\* also when the port has been dropped and connected again in between.
PipelineInOrder ==
  present =>
    \A j \in DOMAIN readers : readers[j].gen = gen =>
      InOrder(delivered \o message_received \o Held(j), readers[j].on, 1,
              taken[readers[j].on])

-----------------------------------------------------------------------------
(* What makes the safety inductive.                                        *)

\* No task is of a later connection than the one that was started last.
TasksAreStarted ==
  /\ \A i \in DOMAIN connectors : connectors[i].gen <= gen
  /\ \A j \in DOMAIN readers : readers[j].gen <= gen

\* The frame begins with a connection, and a removed one leaves nothing behind.
RemovedIsEmpty ==
  /\ pc # "app" => present
  /\ ~present => /\ ~connecting /\ ~connected /\ ~listening /\ half = 0
                 /\ connected_to_server = <<>> /\ connection_down = 0
                 /\ message_received = <<>>

\* OneInCharge without counting, and which of the port's flags are set while
\* connector, channel or reader is in charge.
ChargeIsOnce ==
  /\ connected <=> half # 0
  /\ connected => connecting
  /\ \A i \in Live(connectors) :
       /\ \A k \in Live(connectors) : k = i
       /\ connecting /\ ~connected
       /\ connected_to_server = <<>> /\ connection_down = 0
  /\ connected_to_server # <<>> =>
       /\ Tail(connected_to_server) = <<>>
       /\ connecting /\ ~connected /\ connection_down = 0
  /\ \A j \in Live(readers) :
       /\ \A k \in Live(readers) : k = j
       /\ readers[j].on = half /\ connected /\ listening /\ connection_down = 0
  /\ connection_down # 0 => connecting /\ connection_down = 1
  /\ connected /\ ~listening => connection_down = 0

\* A stream has a number of its own and goes from its connector to the port
\* and to one reader; those up to base are of earlier connections.
StreamsAreNew ==
  /\ \A i \in DOMAIN connectors :
       connectors[i].at \in {"tls", "send"} =>
         /\ connectors[i].on \in 1 .. Len(link)
         /\ Current(connectors[i]) => connectors[i].on > last
  /\ \A k \in DOMAIN connected_to_server : connected_to_server[k] > last
  /\ half # 0 => half = last /\ half > base
  /\ \A j \in DOMAIN readers :
       /\ readers[j].on \in 1 .. last
       /\ readers[j].on > base <=> readers[j].gen = gen
       /\ readers[j].on = half => listening
       /\ \A k \in DOMAIN readers \ {j} : readers[k].on # readers[j].on

\* The number of the last message of stream s that was sent to the channel.
Put(s) ==
  IF \E j \in DOMAIN readers : readers[j].on = s /\ readers[j].at = "hold"
  THEN taken[s] - 1 ELSE taken[s]

\* What was given to the application and what is still in the channel are the
\* messages of the streams of this connection, after those of earlier ones.
MessagesAreSorted ==
  LET q == delivered \o message_received
  IN  /\ Sorted(q, last)
      /\ \A k \in DOMAIN message_received : message_received[k][1] > base
      /\ \A s \in last + 1 .. Len(link) : taken[s] = 0
      /\ \A j \in DOMAIN readers :
           readers[j].at = "hold" => taken[readers[j].on] > 0
      /\ present => \A s \in base + 1 .. Len(link) : InOrder(q, s, 1, Put(s))

ClientInv ==
  /\ TasksAreStarted
  /\ RemovedIsEmpty
  /\ ChargeIsOnce
  /\ StreamsAreNew
  /\ MessagesAreSorted

-----------------------------------------------------------------------------
(* Refinement.                                                             *)

Link == INSTANCE ClientLink WITH
  state  <- IF ~present THEN "absent" ELSE IF connected THEN "up" ELSE "down",
  stream <- half,
  log    <- delivered

\* Port, tasks and channels together keep the promise of a connection: the
\* application sees streams and messages in order, neither across a
\* reconnection nor after disconnect and a new start anything of an earlier
\* stream (check_port_dropped, disconnect, read_messages_client).
ImplementsLink == Link!LinkSpec

-----------------------------------------------------------------------------
(* Liveness.                                                               *)

\* The connector is gone, nobody was told, and connecting stays set: it has
\* reached the end of one of the branches of connect that say "Failed to connect
\* to server, trying again", or has panicked at peer_addr().unwrap().
Left(how) ==
  \E i \in DOMAIN connectors : Current(connectors[i]) /\ connectors[i].at = how

GaveUp == Left("gaveup") \/ Left("panicked")

\* Readers of streams that have ended keep every worker of the runtime.
Starved ==
  Cardinality({j \in DOMAIN readers : readers[j].gen = gen
                                       /\ readers[j].at = "spin"}) >= workers

\* A client that is not connected becomes connected or is removed, also after
\* its stream has broken, in the first attempt or by a report that makes the
\* frame try again: if its server name is valid, no connector has given up in
\* silence and the readers before have left it a worker.
AttemptIsSettled ==
  present /\ ~connected /\ named ~> connected \/ ~present \/ GaveUp \/ Starved

\* The same without that exception, for a TCP client with try_reconnect, whose
\* handshake may fail ("Failed to connect to server, trying again"); a panic of
\* the connector is still excepted.
HandshakeIsRetried ==
  transport = "tcp" /\ present /\ ~connected /\ try_reconnect /\ tls /\ named
    ~> connected \/ ~present \/ Left("panicked")

\* A stream that breaks while it is being read is given up: the port gets
\* another one, or the connection is removed; unless the reader of a TCP stream
\* panics over a size before it meets the break.  A WebSocket closed by its
\* server is not given up: its reader never says so.
ReaderPanicked(s) ==
  \E j \in DOMAIN readers :
    Current(readers[j]) /\ readers[j].on = s /\ readers[j].at = "panicked"

BrokenLinkIsDropped ==
  \A s \in 1 .. MaxStarts + MaxFaults :
    (\E j \in Live(readers) : readers[j].on = s /\ link[s] = "broken")
      ~> half # s \/ ReaderPanicked(s)

\* The port's stream has been given a reader.
HasReader ==
  \E j \in DOMAIN readers : Current(readers[j]) /\ readers[j].on = half

\* A TCP client that is connected listens to its server
\* (start_listening_to_server and its flag, listening).
ConnectedIsRead ==
  transport = "tcp" /\ present /\ connected ~> HasReader \/ ~connected

\* A WebSocket that is connected is read, in whichever frame it arrives, until
\* its reader has met its end.
WebSocketIsRead ==
  transport = "ws" /\ present /\ connected ~> HasReader \/ ~connected
=============================================================================
