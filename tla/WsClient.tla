------------------------------ MODULE WsClient ------------------------------
(***************************************************************************)
(* The part of a client's connection that is ClientWebSocket's own: one    *)
(* connection attempt, the flag that starts the reader, and a reader that  *)
(* does not end with its stream.                                           *)
(*                                                                         *)
(* The stream of tokio-tungstenite ends once: it gives one error, or none  *)
(* after a close of the server, and from then on None, at once.            *)
(***************************************************************************)
EXTENDS ClientConnection

\* Fault: the flag is set before the stream is looked for, as in ClientTcp.
CheckListeningToMainPortEarly ==
  /\ pc = "listening"
  /\ pc' = "read"
  /\ listening' = TRUE
  /\ readers' = IF listening \/ half = 0 THEN readers
                ELSE Append(readers, [gen |-> gen, on |-> half, at |-> "read"])
  /\ UNCHANGED <<settings, present, cc_connected, connecting, connected, half,
                 queues, connectors, gen, hist, env>>

\* start_listening_to_server: nothing without a stream.
CheckListeningToMainPort ==
  /\ pc = "listening"
  /\ pc' = "read"
  /\ IF listening \/ half = 0
     THEN UNCHANGED <<listening, readers>>
     ELSE /\ listening' = TRUE
          /\ readers' = Append(readers, [gen |-> gen, on |-> half, at |-> "read"])
  /\ UNCHANGED <<settings, present, cc_connected, connecting, connected, half,
                 queues, connectors, gen, hist, env>>

-----------------------------------------------------------------------------
(* The connector: one call of connect_async_tls_with_config.               *)

ConnectSucceeds(i) ==
  /\ connectors[i].at = "connect"
  /\ link' = Append(link, "open")
  /\ taken' = Append(taken, 0)
  /\ connectors' = [connectors EXCEPT ![i].on = Len(link) + 1, ![i].at = "send"]
  /\ UNCHANGED <<mainThread, queues, readers, faults>>

\* With try_reconnect the task ends without a report, and connecting stays set.
ConnectFails(i) ==
  /\ connectors[i].at = "connect"
  /\ connectors' = [connectors EXCEPT ![i].at = IF try_reconnect THEN "gaveup" ELSE "down"]
  /\ UNCHANGED <<mainThread, queues, readers, env>>

\* Both sends expect a receiver.
SendConnected(i) ==
  /\ connectors[i].at = "send"
  /\ IF Current(connectors[i])
     THEN /\ connected_to_server' = Append(connected_to_server, connectors[i].on)
          /\ connectors' = [connectors EXCEPT ![i].at = "done"]
     ELSE /\ connectors' = [connectors EXCEPT ![i].at = "panicked"]
          /\ UNCHANGED connected_to_server
  /\ UNCHANGED <<mainThread, connection_down, message_received, readers, env>>

SendConnectFailed(i) ==
  /\ connectors[i].at = "down"
  /\ IF Current(connectors[i])
     THEN /\ connection_down' = connection_down + 1
          /\ connectors' = [connectors EXCEPT ![i].at = "done"]
     ELSE /\ connectors' = [connectors EXCEPT ![i].at = "panicked"]
          /\ UNCHANGED connection_down
  /\ UNCHANGED <<mainThread, connected_to_server, message_received, readers,
                 env>>

-----------------------------------------------------------------------------
(* The reader.                                                             *)

\* A binary message; other ones are skipped.
ReadMessage(j) ==
  /\ readers[j].at = "read"
  /\ LET s == readers[j].on
     IN  /\ taken[s] < MaxMsgs
         /\ taken' = [taken EXCEPT ![s] = @ + 1]
  /\ readers' = [readers EXCEPT ![j].at = "hold"]
  /\ UNCHANGED <<mainThread, queues, connectors, link, faults>>

\* The one error of the stream.
ReadFails(j) ==
  /\ readers[j].at = "read"
  /\ link[readers[j].on] = "broken"
  /\ readers' = [readers EXCEPT ![j].at = "down"]
  /\ UNCHANGED <<mainThread, queues, connectors, env>>

\* None for ever, without a report: the server has closed the WebSocket.
ReadEnds(j) ==
  /\ readers[j].at = "read"
  /\ link[readers[j].on] = "closed"
  /\ readers' = [readers EXCEPT ![j].at = "spin"]
  /\ UNCHANGED <<mainThread, queues, connectors, env>>

SendMessageReceived(j) ==
  /\ readers[j].at = "hold"
  /\ IF Current(readers[j])
     THEN /\ message_received' =
               Append(message_received, <<readers[j].on, taken[readers[j].on]>>)
          /\ readers' = [readers EXCEPT ![j].at = "read"]
     ELSE /\ readers' = [readers EXCEPT ![j].at = "panicked"]
          /\ UNCHANGED message_received
  /\ UNCHANGED <<mainThread, connected_to_server, connection_down, connectors,
                 env>>

\* Fault: the reader goes on as after a frame it skips.
SendConnectionDownLost(j) ==
  /\ readers[j].at = "down"
  /\ readers' = [readers EXCEPT ![j].at = "spin"]
  /\ UNCHANGED <<mainThread, queues, connectors, env>>

\* After its report the reader goes on, and the stream gives None.
SendConnectionDown(j) ==
  /\ readers[j].at = "down"
  /\ IF Current(readers[j])
     THEN /\ connection_down' = connection_down + 1
          /\ readers' = [readers EXCEPT ![j].at = "spin"]
     ELSE /\ readers' = [readers EXCEPT ![j].at = "panicked"]
          /\ UNCHANGED connection_down
  /\ UNCHANGED <<mainThread, connected_to_server, message_received, connectors,
                 env>>

ConnectorStep(i) ==
  \/ ConnectSucceeds(i) \/ ConnectFails(i)
  \/ SendConnected(i) \/ SendConnectFailed(i)

\* What a reader does without a message from the server.
ReaderStep(j) ==
  \/ ReadFails(j) \/ ReadEnds(j)
  \/ SendMessageReceived(j) \/ SendConnectionDown(j)

\* A server that closes the WebSocket with a close frame.
ServerCloses(s) ==
  /\ link[s] = "open"
  /\ faults < MaxFaults
  /\ faults' = faults + 1
  /\ link' = [link EXCEPT ![s] = "closed"]
  /\ UNCHANGED <<mainThread, queues, tasks, taken>>
=============================================================================
