----------------------------- MODULE TcpClient -----------------------------
(***************************************************************************)
(* The part of a client's connection that is ClientTcp's own: the task     *)
(* that connects, with the TLS handshake, the flag that starts the reader, *)
(* and the reader.                                                         *)
(***************************************************************************)
EXTENDS ClientConnection

\* Fault: a reader is started in every frame.
CheckListeningToMainPortAgain ==
  /\ pc = "listening"
  /\ pc' = "read"
  /\ listening' = TRUE
  /\ readers' = IF half = 0 THEN readers
                ELSE Append(readers, [gen |-> gen, on |-> half, at |-> "read"])
  /\ UNCHANGED <<settings, present, cc_connected, connecting, connected, half,
                 queues, connectors, gen, hist, env>>

\* start_listening_to_server: the flag is set without a read half, too, so
\* that a stream which arrives in a later frame gets no reader.
CheckListeningToMainPort ==
  /\ pc = "listening"
  /\ pc' = "read"
  /\ listening' = TRUE
  /\ readers' = IF listening \/ half = 0 THEN readers
                ELSE Append(readers, [gen |-> gen, on |-> half, at |-> "read"])
  /\ UNCHANGED <<settings, present, cc_connected, connecting, connected, half,
                 queues, connectors, gen, hist, env>>

-----------------------------------------------------------------------------
(* The connector.  An attempt that fails is repeated at once and changes   *)
(* nothing, or is reported.                                                *)

ConnectSucceeds(i) ==
  /\ connectors[i].at = "connect"
  /\ link' = Append(link, "open")
  /\ taken' = Append(taken, 0)
  /\ connectors' = [connectors EXCEPT ![i].on = Len(link) + 1,
                                      ![i].at = IF tls THEN "tls" ELSE "send"]
  /\ UNCHANGED <<mainThread, queues, readers, faults>>

\* The server has reset the stream by then: peer_addr().unwrap() panics, the
\* stream is dropped unseen, nobody is told and connecting stays set.
ConnectPanics(i) ==
  /\ connectors[i].at = "connect"
  /\ connectors' = [connectors EXCEPT ![i].at = "panicked"]
  /\ UNCHANGED <<mainThread, queues, readers, env>>

ConnectFails(i) ==
  /\ connectors[i].at = "connect"
  /\ ~try_reconnect
  /\ connectors' = [connectors EXCEPT ![i].at = "down"]
  /\ UNCHANGED <<mainThread, queues, readers, env>>

TlsConnected(i) ==
  /\ connectors[i].at = "tls"
  /\ connectors' = [connectors EXCEPT ![i].at = "send"]
  /\ UNCHANGED <<mainThread, queues, readers, env>>

\* Fault: the connector returns without a report.
TlsFailsSilently(i) ==
  /\ connectors[i].at = "tls"
  /\ faults < MaxFaults
  /\ faults' = faults + 1
  /\ connectors' = [connectors EXCEPT ![i].at = "done"]
  /\ UNCHANGED <<mainThread, queues, readers, link, taken>>

\* With try_reconnect the connector returns all the same, without a report.
TlsFails(i) ==
  /\ connectors[i].at = "tls"
  /\ faults < MaxFaults
  /\ faults' = faults + 1
  /\ connectors' = [connectors EXCEPT ![i].at = IF try_reconnect THEN "gaveup" ELSE "down"]
  /\ UNCHANGED <<mainThread, queues, readers, link, taken>>

\* Both sends expect a receiver.
SendConnected(i) ==
  /\ connectors[i].at = "send"
  /\ IF Current(connectors[i])
     THEN /\ connected_to_server' = Append(connected_to_server, connectors[i].on)
          /\ connectors' = [connectors EXCEPT ![i].at = "done"]
     ELSE /\ connectors' = [connectors EXCEPT ![i].at = "panicked"]
          /\ UNCHANGED connected_to_server
  /\ UNCHANGED <<mainThread, connection_down, message_received, readers, env>>

SendConnectFailed(i) ==
  /\ connectors[i].at = "down"
  /\ IF Current(connectors[i])
     THEN /\ connection_down' = connection_down + 1
          /\ connectors' = [connectors EXCEPT ![i].at = "done"]
     ELSE /\ connectors' = [connectors EXCEPT ![i].at = "panicked"]
          /\ UNCHANGED connection_down
  /\ UNCHANGED <<mainThread, connected_to_server, message_received, readers,
                 env>>

-----------------------------------------------------------------------------
(* The reader.                                                             *)

\* read_from_settings and read_exact both succeed: a message has arrived.
ReadMessage(j) ==
  /\ readers[j].at = "read"
  /\ LET s == readers[j].on
     IN  /\ taken[s] < MaxMsgs
         /\ taken' = [taken EXCEPT ![s] = @ + 1]
  /\ readers' = [readers EXCEPT ![j].at = "hold"]
  /\ UNCHANGED <<mainThread, queues, connectors, link, faults>>

\* The size that comes next is negative or huge: vec![0u8; size] panics, without
\* a report.
ReadPanics(j) ==
  /\ readers[j].at = "read"
  /\ readers' = [readers EXCEPT ![j].at = "panicked"]
  /\ UNCHANGED <<mainThread, queues, connectors, env>>

\* A broken stream may lose what was not read yet.
ReadFails(j) ==
  /\ readers[j].at = "read"
  /\ link[readers[j].on] = "broken"
  /\ readers' = [readers EXCEPT ![j].at = "down"]
  /\ UNCHANGED <<mainThread, queues, connectors, env>>

SendMessageReceived(j) ==
  /\ readers[j].at = "hold"
  /\ IF Current(readers[j])
     THEN /\ message_received' =
               Append(message_received, <<readers[j].on, taken[readers[j].on]>>)
          /\ readers' = [readers EXCEPT ![j].at = "read"]
     ELSE /\ readers' = [readers EXCEPT ![j].at = "panicked"]
          /\ UNCHANGED message_received
  /\ UNCHANGED <<mainThread, connected_to_server, connection_down, connectors,
                 env>>

\* Fault: the reader ends without a report.
SendConnectionDownLost(j) ==
  /\ readers[j].at = "down"
  /\ readers' = [readers EXCEPT ![j].at = "done"]
  /\ UNCHANGED <<mainThread, queues, connectors, env>>

SendConnectionDown(j) ==
  /\ readers[j].at = "down"
  /\ IF Current(readers[j])
     THEN /\ connection_down' = connection_down + 1
          /\ readers' = [readers EXCEPT ![j].at = "done"]
     ELSE /\ readers' = [readers EXCEPT ![j].at = "panicked"]
          /\ UNCHANGED connection_down
  /\ UNCHANGED <<mainThread, connected_to_server, message_received, connectors,
                 env>>

ConnectorStep(i) ==
  \/ ConnectSucceeds(i) \/ ConnectPanics(i) \/ ConnectFails(i)
  \/ TlsConnected(i) \/ TlsFails(i)
  \/ SendConnected(i) \/ SendConnectFailed(i)

\* What a reader does without a message from the server.
ReaderStep(j) == ReadFails(j) \/ SendMessageReceived(j) \/ SendConnectionDown(j)
=============================================================================
