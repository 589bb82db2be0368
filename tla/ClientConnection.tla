-------------------------- MODULE ClientConnection --------------------------
(***************************************************************************)
(* A client's connection as the main thread sees it: the application that  *)
(* starts and removes it, the systems of ClientConnectionPlugin and        *)
(* read_messages_client, which run once per frame (variable pc), and the   *)
(* state of the port they work on.  The ports have the same fields and,    *)
(* for these systems, the same code; what differs, the tasks that connect  *)
(* and read, is in TcpClient and WsClient.                                 *)
(*                                                                         *)
(* Every start of the connection has a generation of its own, with its own *)
(* runtime, and every stream a number.  Sending is not part of this module.*)
(***************************************************************************)
EXTENDS Naturals, Sequences, FiniteSets

CONSTANTS
  MaxMsgs,        \* bound: messages that arrive on a stream
  MaxStarts,      \* bound: calls of NetworkConnections::start_connection
  MaxFaults,      \* bound: streams that end, TLS handshakes that fail
  Workers         \* the numbers of worker threads a runtime may have: one per core

ASSUME ClientAssumption ==
  /\ MaxMsgs \in Nat
  /\ MaxStarts \in Nat
  /\ MaxFaults \in Nat
  /\ Workers \subseteq Nat \ {0}

VARIABLES
  \* the port is a ClientTcp or a ClientWebSocket, its settings: try_reconnect;
  \* tls_client_config is set; tls_domain_name is a valid server name;
  \* worker threads of the connection's runtime
  transport, try_reconnect, tls, named, workers,
  \* NetworkConnections and ClientConnection
  present, cc_connected,
  \* the port; half is the stream of its two halves, 0 for None
  connecting, connected, listening, half,
  \* channels: streams, the number of reports, messages <<stream, number>>
  connected_to_server, connection_down, message_received,
  \* tasks of every generation, in the order they were spawned
  connectors, readers,
  \* the frame, the generations started, what the application was given
  pc, gen, delivered,
  \* history: the last stream the port had, and the last one before the start
  last, base,
  \* streams opened so far: how they are, messages read; faults
  link, taken, faults

settings == <<transport, try_reconnect, tls, named, workers>>
port   == <<connecting, connected, listening, half>>
queues == <<connected_to_server, connection_down, message_received>>
tasks  == <<connectors, readers>>
hist   == <<delivered, last, base>>
env    == <<link, taken, faults>>
vars   == <<settings, present, cc_connected, port, queues, tasks, pc, gen,
            hist, env>>

\* What the tasks of a port leave alone.
mainThread == <<settings, present, cc_connected, port, pc, gen, hist>>

Connector == [gen : Nat, on : Nat,
              at : {"connect", "tls", "send", "down", "done", "gaveup",
                    "panicked"}]
Reader    == [gen : Nat, on : Nat,
              at : {"read", "hold", "down", "spin", "done", "panicked"}]
Ended     == {"done", "gaveup", "panicked", "spin"}

TypeOK ==
  /\ transport \in {"tcp", "ws"} /\ workers \in Workers
  /\ try_reconnect \in BOOLEAN /\ tls \in BOOLEAN /\ named \in BOOLEAN
  /\ present \in BOOLEAN /\ cc_connected \in BOOLEAN
  /\ connecting \in BOOLEAN /\ connected \in BOOLEAN /\ listening \in BOOLEAN
  /\ connected <=> half # 0
  /\ half \in 0 .. Len(link) /\ last \in half .. Len(link) /\ base \in 0 .. last
  /\ connected_to_server \in Seq(1 .. Len(link)) /\ connection_down \in Nat
  /\ message_received \in Seq((1 .. Len(link)) \X (1 .. MaxMsgs))
  /\ connectors \in Seq(Connector) /\ readers \in Seq(Reader)
  /\ pc \in {"dropped", "start", "connected", "listening", "read", "app"}
  /\ gen \in Nat /\ faults \in Nat
  /\ delivered \in Seq((1 .. Len(link)) \X (1 .. MaxMsgs))
  /\ link \in Seq({"open", "broken", "closed"})
  /\ taken \in [DOMAIN link -> 0 .. MaxMsgs]

\* WebSocketSettingsClient has no server name, and TLS is part of its one
\* connection attempt.
Init ==
  /\ transport \in {"tcp", "ws"} /\ try_reconnect \in BOOLEAN
  /\ IF transport = "tcp"
     THEN tls \in BOOLEAN /\ named \in BOOLEAN
     ELSE tls = FALSE /\ named = TRUE
  /\ workers \in Workers
  /\ present = FALSE /\ cc_connected = FALSE
  /\ connecting = FALSE /\ connected = FALSE /\ listening = FALSE /\ half = 0
  /\ connected_to_server = <<>> /\ connection_down = 0 /\ message_received = <<>>
  /\ connectors = <<>> /\ readers = <<>>
  /\ pc = "app" /\ gen = 0 /\ delivered = <<>> /\ last = 0 /\ base = 0
  /\ link = <<>> /\ taken = <<>> /\ faults = 0

\* A task of the connection that is there now, with its receivers.
Current(task) == present /\ task.gen = gen

Live(list) == {i \in DOMAIN list : Current(list[i]) /\ list[i].at \notin Ended}

\* Between two awaits a task keeps a worker of its runtime; a reader that spins
\* never comes to an await that waits.
Running(list, g) ==
  {i \in DOMAIN list : list[i].gen = g /\ list[i].at \in {"send", "hold", "down", "spin"}}

\* A worker is left for a task that is ready, or the task has one.
Polled(list, i) ==
  \/ i \in Running(list, list[i].gen)
  \/ Cardinality(Running(connectors, list[i].gen))
       + Cardinality(Running(readers, list[i].gen)) < workers

-----------------------------------------------------------------------------
(* The application.                                                        *)

\* NetworkConnections::start_connection, with can_connect.
StartConnection ==
  /\ pc = "app"
  /\ ~present
  /\ gen < MaxStarts
  /\ present' = TRUE
  /\ gen' = gen + 1
  /\ base' = last
  /\ UNCHANGED <<settings, cc_connected, port, queues, tasks, pc, delivered,
                 last, env>>

\* NetworkConnections::disconnect: the ClientConnection is dropped with its
\* port and receivers.
Remove ==
  /\ present' = FALSE
  /\ cc_connected' = FALSE
  /\ connecting' = FALSE
  /\ connected' = FALSE
  /\ listening' = FALSE
  /\ half' = 0
  /\ connected_to_server' = <<>>
  /\ connection_down' = 0
  /\ message_received' = <<>>

Disconnect ==
  /\ pc = "app"
  /\ present
  /\ Remove
  /\ UNCHANGED <<settings, tasks, pc, gen, hist, env>>

EndFrame ==
  /\ pc = "app"
  /\ present
  /\ pc' = "dropped"
  /\ UNCHANGED <<settings, present, cc_connected, port, queues, tasks, gen,
                 hist, env>>

-----------------------------------------------------------------------------
(* The systems of a frame.                                                 *)

\* Fault: the two halves of the stream are kept.
PortDroppedKeepsHalves ==
  /\ connection_down' = connection_down - 1
  /\ connected' = FALSE
  /\ connecting' = FALSE
  /\ listening' = FALSE
  /\ UNCHANGED half

\* Fault: the report is seen and left in the channel.
PortDroppedPeeks ==
  /\ connected' = FALSE
  /\ connecting' = FALSE
  /\ listening' = FALSE
  /\ half' = 0
  /\ UNCHANGED connection_down

\* check_port_dropped with a report: the port starts over.
PortDropped ==
  /\ connection_down' = connection_down - 1
  /\ connected' = FALSE
  /\ connecting' = FALSE
  /\ listening' = FALSE
  /\ half' = 0

CheckMainPortDropped ==
  /\ pc = "dropped"
  /\ IF connection_down = 0
     THEN /\ pc' = "start"
          /\ UNCHANGED <<present, cc_connected, port, queues>>
     ELSE IF try_reconnect
     THEN /\ PortDropped
          /\ cc_connected' = FALSE
          /\ pc' = "start"
          /\ UNCHANGED <<present, connected_to_server, message_received>>
     ELSE Remove /\ pc' = "app"
  /\ UNCHANGED <<settings, tasks, gen, hist, env>>

\* start_connections, ClientConnection::start_connection and connect: with a
\* server name that is not valid connect gives up, after the connection has
\* been marked as connected, so that it is not called again.
StartConnections ==
  /\ pc = "start"
  /\ pc' = "connected"
  /\ cc_connected' = TRUE
  /\ LET spawn == ~cc_connected /\ ~connecting /\ named
     IN  /\ connecting' = (connecting \/ spawn)
         /\ connectors' = IF spawn
                          THEN Append(connectors, [gen |-> gen, on |-> 0,
                                                   at |-> "connect"])
                          ELSE connectors
  /\ UNCHANGED <<settings, present, connected, listening, half, queues,
                 readers, gen, hist, env>>

\* check_connected_to_server: the stream is split into its halves.
CheckConnectedToMainPort ==
  /\ pc = "connected"
  /\ pc' = "listening"
  /\ IF connected \/ connected_to_server = <<>>
     THEN UNCHANGED <<connected, half, last, connected_to_server>>
     ELSE /\ connected' = TRUE
          /\ half' = Head(connected_to_server)
          /\ last' = Head(connected_to_server)
          /\ connected_to_server' = Tail(connected_to_server)
  /\ UNCHANGED <<settings, present, cc_connected, connecting, listening,
                 connection_down, message_received, tasks, gen, delivered, base,
                 env>>

\* Fault: the newest message is put in front of the others.
ReadMessagesClientLatest ==
  /\ pc = "read"
  /\ pc' = "app"
  /\ delivered' = IF message_received = <<>> THEN delivered
                  ELSE delivered \o <<message_received[Len(message_received)]>>
                         \o Tail(message_received)
  /\ message_received' = <<>>
  /\ UNCHANGED <<settings, present, cc_connected, port, connected_to_server,
                 connection_down, tasks, gen, last, base, env>>

\* Fault: one message per frame, the rest of the channel is dropped.
ReadMessagesClientFirst ==
  /\ pc = "read"
  /\ pc' = "app"
  /\ delivered' = IF message_received = <<>> THEN delivered
                  ELSE Append(delivered, Head(message_received))
  /\ message_received' = <<>>
  /\ UNCHANGED <<settings, present, cc_connected, port, connected_to_server,
                 connection_down, tasks, gen, last, base, env>>

\* read_messages_client drains the channel; every message is dispatched.
ReadMessagesClient ==
  /\ pc = "read"
  /\ pc' = "app"
  /\ delivered' = delivered \o message_received
  /\ message_received' = <<>>
  /\ UNCHANGED <<settings, present, cc_connected, port, connected_to_server,
                 connection_down, tasks, gen, last, base, env>>

\* The systems that do not depend on the port.
FrameSystems ==
  \/ CheckMainPortDropped \/ StartConnections \/ CheckConnectedToMainPort
  \/ ReadMessagesClient \/ EndFrame

-----------------------------------------------------------------------------
(* The runtime and the network.                                            *)

\* shutdown_background: a task of a removed connection is dropped at an await.
ConnectorDropped(i) ==
  /\ connectors[i].at \in {"connect", "tls"}
  /\ ~Current(connectors[i])
  /\ connectors' = [connectors EXCEPT ![i].at = "done"]
  /\ UNCHANGED <<mainThread, queues, readers, env>>

ReaderDropped(j) ==
  /\ readers[j].at = "read"
  /\ ~Current(readers[j])
  /\ readers' = [readers EXCEPT ![j].at = "done"]
  /\ UNCHANGED <<mainThread, queues, connectors, env>>

LinkBreaks(s) ==
  /\ link[s] = "open"
  /\ faults < MaxFaults
  /\ faults' = faults + 1
  /\ link' = [link EXCEPT ![s] = "broken"]
  /\ UNCHANGED <<mainThread, queues, tasks, taken>>
=============================================================================
