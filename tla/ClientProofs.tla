---------------------------- MODULE ClientProofs ----------------------------
(* Theorems of Client, for any bounds, and that it implements ClientLink.  *)
EXTENDS Client, QueueLemmas

-----------------------------------------------------------------------------
(* The steps of the tasks, of either port, by what they do to the state.   *)

LEMMA TasksAre ==
  ASSUME TypeOK
  PROVE  /\ connectors \in Seq(Connector)
         /\ \A i \in DOMAIN connectors : connectors[i] \in Connector
         /\ readers \in Seq(Reader)
         /\ \A j \in DOMAIN readers : readers[j] \in Reader
<1>1. connectors \in Seq(Connector) /\ readers \in Seq(Reader)
  BY DEF TypeOK
<1> QED BY <1>1

LEMMA StreamsAre ==
  ASSUME TypeOK
  PROVE  /\ link \in Seq({"open", "broken", "closed"})
         /\ Len(link) \in Nat /\ DOMAIN link = 1 .. Len(link)
         /\ taken \in [1 .. Len(link) -> 0 .. MaxMsgs]
         /\ \A s \in 1 .. Len(link) : taken[s] \in Nat
         /\ half \in 0 .. Len(link) /\ last \in half .. Len(link) /\ base \in 0 .. last
         /\ half \in Nat /\ last \in Nat /\ base \in Nat
         /\ connected_to_server \in Seq(1 .. Len(link)) /\ connection_down \in Nat
         /\ gen \in Nat
<1>1. /\ link \in Seq({"open", "broken", "closed"})
      /\ taken \in [DOMAIN link -> 0 .. MaxMsgs]
      /\ half \in 0 .. Len(link) /\ last \in half .. Len(link) /\ base \in 0 .. last
      /\ connected_to_server \in Seq(1 .. Len(link)) /\ connection_down \in Nat
      /\ gen \in Nat
  BY DEF TypeOK
<1>2. Len(link) \in Nat /\ DOMAIN link = 1 .. Len(link)
  BY <1>1
<1> QED BY <1>1, <1>2, ClientAssumption DEF ClientAssumption

ConnectorStates == {"connect", "tls", "send", "down", "done", "gaveup", "panicked"}
ReaderStates    == {"read", "hold", "down", "spin", "done", "panicked"}

\* Connector i goes from state x to state y, and on with stream s.
ConnectorGoes(i, x, y, s) ==
  /\ connectors[i].at = x /\ connectors'[i].at = y
  /\ connectors'[i].gen = connectors[i].gen /\ connectors'[i].on = s
  /\ DOMAIN connectors' = DOMAIN connectors
  /\ \A k \in DOMAIN connectors \ {i} : connectors'[k] = connectors[k]

LEMMA ConnectorMoves ==
  ASSUME TypeOK, NEW i \in DOMAIN connectors, NEW y \in ConnectorStates, NEW s \in Nat,
         \/ connectors' = [connectors EXCEPT ![i].at = y] /\ s = connectors[i].on
         \/ connectors' = [connectors EXCEPT ![i].on = s, ![i].at = y]
  PROVE  connectors' \in Seq(Connector) /\ ConnectorGoes(i, connectors[i].at, y, s)
<1>1. connectors \in Seq(Connector) /\ connectors[i] \in Connector
  BY TasksAre, Zenon
<1>2. PICK e \in Connector : /\ connectors' = [connectors EXCEPT ![i] = e]
                             /\ e.at = y /\ e.gen = connectors[i].gen /\ e.on = s
  <2>1. CASE connectors' = [connectors EXCEPT ![i].at = y] /\ s = connectors[i].on
    <3> DEFINE e == [connectors[i] EXCEPT !.at = y]
    <3>1. e \in Connector /\ e.at = y /\ e.gen = connectors[i].gen /\ e.on = s
      BY <1>1, <2>1 DEF Connector, ConnectorStates
    <3>2. connectors' = [connectors EXCEPT ![i] = e]
      BY <1>1, <2>1
    <3> QED BY <3>1, <3>2
  <2>2. CASE connectors' = [connectors EXCEPT ![i].on = s, ![i].at = y]
    <3> DEFINE e == [connectors[i] EXCEPT !.on = s, !.at = y]
    <3>1. e \in Connector /\ e.at = y /\ e.gen = connectors[i].gen /\ e.on = s
      BY <1>1 DEF Connector, ConnectorStates
    <3>2. connectors' = [connectors EXCEPT ![i] = e]
      BY <1>1, <2>2
    <3> QED BY <3>1, <3>2
  <2> QED BY <2>1, <2>2
<1> QED BY <1>1, <1>2, Moved DEF ConnectorGoes

\* Reader j goes from state x to state y.
ReaderGoes(j, x, y) ==
  /\ readers[j].at = x /\ readers'[j].at = y
  /\ readers'[j].gen = readers[j].gen /\ readers'[j].on = readers[j].on
  /\ DOMAIN readers' = DOMAIN readers
  /\ \A k \in DOMAIN readers \ {j} : readers'[k] = readers[k]

LEMMA ReaderMoves ==
  ASSUME TypeOK, NEW j \in DOMAIN readers, NEW y \in ReaderStates,
         readers' = [readers EXCEPT ![j].at = y]
  PROVE  readers' \in Seq(Reader) /\ ReaderGoes(j, readers[j].at, y)
<1>1. readers \in Seq(Reader) /\ readers[j] \in Reader
  BY TasksAre, Zenon
<1> DEFINE e == [readers[j] EXCEPT !.at = y]
<1>2. e \in Reader /\ e.at = y /\ e.gen = readers[j].gen /\ e.on = readers[j].on
  BY <1>1 DEF Reader, ReaderStates
<1>3. readers' = [readers EXCEPT ![j] = e]
  BY <1>1
<1> HIDE DEF e
<1> QED BY <1>1, <1>2, <1>3, Moved DEF ReaderGoes

\* A connector opens a stream.
Opens(i) ==
  /\ \E y \in {"tls", "send"} : ConnectorGoes(i, "connect", y, Len(link) + 1)
  /\ link' = Append(link, "open") /\ taken' = Append(taken, 0)
  /\ UNCHANGED <<mainThread, queues, readers>>

\* It has a stream to send, or has failed, or panicked.
Settles(i) ==
  /\ \/ ConnectorGoes(i, "tls", "send", connectors[i].on)
     \/ \E x \in {"connect", "tls"}, y \in {"down", "gaveup", "panicked"} :
          ConnectorGoes(i, x, y, connectors[i].on)
  /\ UNCHANGED <<mainThread, queues, readers, link, taken>>

\* It sends the stream.
Delivers(i) ==
  /\ Current(connectors[i])
  /\ ConnectorGoes(i, "send", "done", connectors[i].on)
  /\ connected_to_server' = Append(connected_to_server, connectors[i].on)
  /\ UNCHANGED <<mainThread, connection_down, message_received, readers, link, taken>>

\* It reports that it has failed.
ConnectorReports(i) ==
  /\ Current(connectors[i])
  /\ ConnectorGoes(i, "down", "done", connectors[i].on)
  /\ connection_down' = connection_down + 1
  /\ UNCHANGED <<mainThread, connected_to_server, message_received, readers, link,
                 taken>>

\* It is a task of a connection that is gone.
ConnectorEnds(i) ==
  /\ ~Current(connectors[i])
  /\ \E x \in ConnectorStates, y \in {"done", "panicked"} :
       ConnectorGoes(i, x, y, connectors[i].on)
  /\ UNCHANGED <<mainThread, queues, readers, link, taken>>

LEMMA ConnectorSteps ==
  ASSUME TypeOK, NEW i \in DOMAIN connectors, ConnectorStep(i)
  PROVE  /\ connectors' \in Seq(Connector) /\ faults' \in Nat
         /\ \/ Opens(i) \/ Settles(i) \/ Delivers(i)
            \/ ConnectorReports(i) \/ ConnectorEnds(i)
<1> DEFINE c == connectors[i]
<1>1. Len(link) + 1 \in Nat /\ c.on \in Nat /\ faults \in Nat /\ c.at \in ConnectorStates
  BY TasksAre DEF Connector, ConnectorStates, TypeOK
<1>2. /\ \A y \in {"tls", "send", "down", "gaveup", "done", "panicked"} : y \in ConnectorStates
      /\ faults + 1 \in Nat
  BY <1>1 DEF ConnectorStates
<1>3. CASE Tcp!ConnectSucceeds(i) \/ Ws!ConnectSucceeds(i)
  <2>1. /\ c.at = "connect"
        /\ \E y \in {"tls", "send"} :
             connectors' = [connectors EXCEPT ![i].on = Len(link) + 1, ![i].at = y]
        /\ link' = Append(link, "open") /\ taken' = Append(taken, 0)
        /\ UNCHANGED <<mainThread, queues, readers, faults>>
    BY <1>3 DEF Tcp!ConnectSucceeds, Ws!ConnectSucceeds, Tcp!Current, Ws!Current, Current,
       Tcp!mainThread, Ws!mainThread, mainThread, Tcp!settings, Ws!settings, settings,
       Tcp!port, Ws!port, port, Tcp!hist, Ws!hist, hist, Tcp!queues, Ws!queues, queues,
       Tcp!env, Ws!env, env
  <2>2. PICK y \in {"tls", "send"} :
          connectors' = [connectors EXCEPT ![i].on = Len(link) + 1, ![i].at = y]
    BY <2>1
  <2>3. y \in ConnectorStates
    BY <1>2
  <2>4. connectors' \in Seq(Connector) /\ ConnectorGoes(i, c.at, y, Len(link) + 1)
    BY <1>1, <2>2, <2>3, ConnectorMoves
  <2> QED BY <1>1, <2>1, <2>4 DEF Opens
<1>4. CASE \/ Tcp!ConnectFails(i) \/ Tcp!TlsConnected(i) \/ Tcp!TlsFails(i)
           \/ Tcp!ConnectPanics(i) \/ Ws!ConnectFails(i)
  <2>1. /\ \/ /\ c.at = "tls"
              /\ connectors' = [connectors EXCEPT ![i].at = "send"]
           \/ /\ c.at \in {"connect", "tls"}
              /\ \E y \in {"down", "gaveup", "panicked"} :
                   connectors' = [connectors EXCEPT ![i].at = y]
        /\ UNCHANGED <<mainThread, queues, readers, link, taken>>
        /\ faults' = faults \/ faults' = faults + 1
    BY <1>4 DEF Tcp!ConnectFails, Tcp!ConnectPanics, Tcp!TlsConnected, Tcp!TlsFails, Ws!ConnectFails,
       Tcp!Current, Ws!Current, Current,
       Tcp!mainThread, Ws!mainThread, mainThread, Tcp!settings, Ws!settings, settings,
       Tcp!port, Ws!port, port, Tcp!hist, Ws!hist, hist, Tcp!queues, Ws!queues, queues,
       Tcp!env, Ws!env, env
  <2>2. CASE c.at = "tls" /\ connectors' = [connectors EXCEPT ![i].at = "send"]
    <3>1. connectors' \in Seq(Connector) /\ ConnectorGoes(i, "tls", "send", c.on)
      BY <1>1, <1>2, <2>2, ConnectorMoves
    <3> QED BY <1>1, <1>2, <2>1, <3>1 DEF Settles
  <2>3. CASE /\ c.at \in {"connect", "tls"}
             /\ \E y \in {"down", "gaveup", "panicked"} :
                   connectors' = [connectors EXCEPT ![i].at = y]
    <3>1. PICK y \in {"down", "gaveup", "panicked"} :
            connectors' = [connectors EXCEPT ![i].at = y]
      BY <2>3
    <3>2. y \in ConnectorStates
      BY <1>2
    <3>3. connectors' \in Seq(Connector) /\ ConnectorGoes(i, c.at, y, c.on)
      BY <1>1, <3>1, <3>2, ConnectorMoves
    <3> QED BY <1>1, <1>2, <2>1, <2>3, <3>3 DEF Settles
  <2> QED BY <2>1, <2>2, <2>3
<1>5. CASE Tcp!SendConnected(i) \/ Ws!SendConnected(i)
  <2>1. /\ c.at = "send"
        /\ UNCHANGED <<mainThread, connection_down, message_received, readers, link,
                       taken, faults>>
        /\ IF Current(c)
           THEN /\ connected_to_server' = Append(connected_to_server, c.on)
                /\ connectors' = [connectors EXCEPT ![i].at = "done"]
           ELSE /\ connectors' = [connectors EXCEPT ![i].at = "panicked"]
                /\ UNCHANGED connected_to_server
    BY <1>5 DEF Tcp!SendConnected, Ws!SendConnected, Tcp!Current, Ws!Current, Current,
       Tcp!mainThread, Ws!mainThread, mainThread, Tcp!settings, Ws!settings, settings,
       Tcp!port, Ws!port, port, Tcp!hist, Ws!hist, hist, Tcp!queues, Ws!queues, queues,
       Tcp!env, Ws!env, env
  <2>2. CASE Current(c)
    BY <1>1, <1>2, <2>1, <2>2, ConnectorMoves DEF Delivers
  <2>3. CASE ~Current(c)
    BY <1>1, <1>2, <2>1, <2>3, ConnectorMoves DEF ConnectorEnds, queues
  <2> QED BY <2>2, <2>3
<1>6. CASE Tcp!SendConnectFailed(i) \/ Ws!SendConnectFailed(i)
  <2>1. /\ c.at = "down"
        /\ UNCHANGED <<mainThread, connected_to_server, message_received, readers,
                       link, taken, faults>>
        /\ IF Current(c)
           THEN /\ connection_down' = connection_down + 1
                /\ connectors' = [connectors EXCEPT ![i].at = "done"]
           ELSE /\ connectors' = [connectors EXCEPT ![i].at = "panicked"]
                /\ UNCHANGED connection_down
    BY <1>6 DEF Tcp!SendConnectFailed, Ws!SendConnectFailed, Tcp!Current, Ws!Current, Current,
       Tcp!mainThread, Ws!mainThread, mainThread, Tcp!settings, Ws!settings, settings,
       Tcp!port, Ws!port, port, Tcp!hist, Ws!hist, hist, Tcp!queues, Ws!queues, queues,
       Tcp!env, Ws!env, env
  <2>2. CASE Current(c)
    BY <1>1, <1>2, <2>1, <2>2, ConnectorMoves DEF ConnectorReports
  <2>3. CASE ~Current(c)
    BY <1>1, <1>2, <2>1, <2>3, ConnectorMoves DEF ConnectorEnds, queues
  <2> QED BY <2>2, <2>3
<1>7. CASE ConnectorDropped(i)
  <2>1. /\ ~Current(c) /\ connectors' = [connectors EXCEPT ![i].at = "done"]
        /\ UNCHANGED <<mainThread, queues, readers, link, taken, faults>>
    BY <1>7 DEF ConnectorDropped, env
  <2> QED BY <1>1, <1>2, <2>1, ConnectorMoves DEF ConnectorEnds
<1> QED BY <1>3, <1>4, <1>5, <1>6, <1>7
        DEF ConnectorStep, Tcp!ConnectorStep, Ws!ConnectorStep

\* A reader reads a message.
Reads(j) ==
  /\ ReaderGoes(j, "read", "hold")
  /\ taken[readers[j].on] < MaxMsgs
  /\ taken' = [taken EXCEPT ![readers[j].on] = @ + 1]
  /\ UNCHANGED <<mainThread, queues, connectors, link>>

\* It meets the end of the stream, or a size it panics over.
Stops(j) ==
  /\ \E y \in {"down", "spin", "panicked"} : ReaderGoes(j, "read", y)
  /\ UNCHANGED <<mainThread, queues, connectors, link, taken>>

\* It sends the message.
Puts(j) ==
  /\ Current(readers[j])
  /\ ReaderGoes(j, "hold", "read")
  /\ message_received' =
       Append(message_received, <<readers[j].on, taken[readers[j].on]>>)
  /\ UNCHANGED <<mainThread, connected_to_server, connection_down, connectors, link,
                 taken>>

\* It reports the end.
ReaderReports(j) ==
  /\ Current(readers[j])
  /\ \E y \in {"done", "spin"} : ReaderGoes(j, "down", y)
  /\ connection_down' = connection_down + 1
  /\ UNCHANGED <<mainThread, connected_to_server, message_received, connectors, link,
                 taken>>

\* It is a task of a connection that is gone.
ReaderEnds(j) ==
  /\ ~Current(readers[j])
  /\ \E x \in ReaderStates, y \in {"done", "panicked"} : ReaderGoes(j, x, y)
  /\ UNCHANGED <<mainThread, queues, connectors, link, taken>>

LEMMA ReaderSteps ==
  ASSUME TypeOK, NEW j \in DOMAIN readers,
         ReadMessage(j) \/ ReadPanics(j) \/ ReaderStep(j)
  PROVE  /\ readers' \in Seq(Reader) /\ faults' \in Nat
         /\ \/ Reads(j) \/ Stops(j) \/ Puts(j) \/ ReaderReports(j) \/ ReaderEnds(j)
<1> DEFINE r == readers[j]
<1>1. faults \in Nat /\ r.at \in ReaderStates
  BY TasksAre DEF Reader, ReaderStates, TypeOK
<1>2. \A y \in {"hold", "read", "down", "spin", "done", "panicked"} : y \in ReaderStates
  BY DEF ReaderStates
<1>3. CASE Tcp!ReadMessage(j) \/ Ws!ReadMessage(j)
  <2>1. /\ r.at = "read" /\ readers' = [readers EXCEPT ![j].at = "hold"]
        /\ taken[r.on] < MaxMsgs /\ taken' = [taken EXCEPT ![r.on] = @ + 1]
        /\ UNCHANGED <<mainThread, queues, connectors, link, faults>>
    BY <1>3 DEF Tcp!ReadMessage, Ws!ReadMessage, Tcp!Current, Ws!Current, Current,
       Tcp!mainThread, Ws!mainThread, mainThread, Tcp!settings, Ws!settings, settings,
       Tcp!port, Ws!port, port, Tcp!hist, Ws!hist, hist, Tcp!queues, Ws!queues, queues,
       Tcp!env, Ws!env, env
  <2> QED BY <1>1, <1>2, <2>1, ReaderMoves DEF Reads
<1>4. CASE Tcp!ReadFails(j) \/ Tcp!ReadPanics(j) \/ Ws!ReadFails(j) \/ Ws!ReadEnds(j)
  <2>1. /\ r.at = "read"
        /\ \E y \in {"down", "spin", "panicked"} : readers' = [readers EXCEPT ![j].at = y]
        /\ UNCHANGED <<mainThread, queues, connectors, link, taken, faults>>
    BY <1>4 DEF Tcp!ReadFails, Tcp!ReadPanics, Ws!ReadFails, Ws!ReadEnds, Tcp!Current, Ws!Current, Current,
       Tcp!mainThread, Ws!mainThread, mainThread, Tcp!settings, Ws!settings, settings,
       Tcp!port, Ws!port, port, Tcp!hist, Ws!hist, hist, Tcp!queues, Ws!queues, queues,
       Tcp!env, Ws!env, env
  <2> QED BY <1>1, <1>2, <2>1, ReaderMoves DEF Stops
<1>5. CASE Tcp!SendMessageReceived(j) \/ Ws!SendMessageReceived(j)
  <2>1. /\ r.at = "hold"
        /\ UNCHANGED <<mainThread, connected_to_server, connection_down, connectors,
                       link, taken, faults>>
        /\ IF Current(r)
           THEN /\ message_received' = Append(message_received, <<r.on, taken[r.on]>>)
                /\ readers' = [readers EXCEPT ![j].at = "read"]
           ELSE /\ readers' = [readers EXCEPT ![j].at = "panicked"]
                /\ UNCHANGED message_received
    BY <1>5 DEF Tcp!SendMessageReceived, Ws!SendMessageReceived, Tcp!Current, Ws!Current, Current,
       Tcp!mainThread, Ws!mainThread, mainThread, Tcp!settings, Ws!settings, settings,
       Tcp!port, Ws!port, port, Tcp!hist, Ws!hist, hist, Tcp!queues, Ws!queues, queues,
       Tcp!env, Ws!env, env
  <2>2. CASE Current(r)
    BY <1>1, <1>2, <2>1, <2>2, ReaderMoves DEF Puts
  <2>3. CASE ~Current(r)
    BY <1>1, <1>2, <2>1, <2>3, ReaderMoves DEF ReaderEnds, queues
  <2> QED BY <2>2, <2>3
<1>6. CASE Tcp!SendConnectionDown(j) \/ Ws!SendConnectionDown(j)
  <2>1. /\ r.at = "down"
        /\ UNCHANGED <<mainThread, connected_to_server, message_received, connectors,
                       link, taken, faults>>
        /\ IF Current(r)
           THEN /\ connection_down' = connection_down + 1
                /\ \E y \in {"done", "spin"} : readers' = [readers EXCEPT ![j].at = y]
           ELSE /\ readers' = [readers EXCEPT ![j].at = "panicked"]
                /\ UNCHANGED connection_down
    BY <1>6 DEF Tcp!SendConnectionDown, Ws!SendConnectionDown, Tcp!Current, Ws!Current, Current,
       Tcp!mainThread, Ws!mainThread, mainThread, Tcp!settings, Ws!settings, settings,
       Tcp!port, Ws!port, port, Tcp!hist, Ws!hist, hist, Tcp!queues, Ws!queues, queues,
       Tcp!env, Ws!env, env
  <2>2. CASE Current(r)
    BY <1>1, <1>2, <2>1, <2>2, ReaderMoves DEF ReaderReports
  <2>3. CASE ~Current(r)
    BY <1>1, <1>2, <2>1, <2>3, ReaderMoves DEF ReaderEnds, queues
  <2> QED BY <2>2, <2>3
<1>7. CASE ReaderDropped(j)
  <2>1. /\ ~Current(r) /\ readers' = [readers EXCEPT ![j].at = "done"]
        /\ UNCHANGED <<mainThread, queues, connectors, link, taken, faults>>
    BY <1>7 DEF ReaderDropped, env
  <2> QED BY <1>1, <1>2, <2>1, ReaderMoves DEF ReaderEnds
<1> QED BY <1>3, <1>4, <1>5, <1>6, <1>7
        DEF ReadMessage, ReadPanics, ReaderStep, Tcp!ReaderStep, Ws!ReaderStep
-----------------------------------------------------------------------------
(* Type correctness, in two parts.                                         *)

FlagsOK ==
  /\ transport \in {"tcp", "ws"} /\ workers \in Workers
  /\ try_reconnect \in BOOLEAN /\ tls \in BOOLEAN /\ named \in BOOLEAN
  /\ present \in BOOLEAN /\ cc_connected \in BOOLEAN
  /\ connecting \in BOOLEAN /\ connected \in BOOLEAN /\ listening \in BOOLEAN

Message == (1 .. Len(link)) \X (1 .. MaxMsgs)

DataOK ==
  /\ half \in 0 .. Len(link) /\ last \in half .. Len(link) /\ base \in 0 .. last
  /\ connected_to_server \in Seq(1 .. Len(link)) /\ connection_down \in Nat
  /\ message_received \in Seq(Message)
  /\ connectors \in Seq(Connector) /\ readers \in Seq(Reader)
  /\ pc \in {"dropped", "start", "connected", "listening", "read", "app"}
  /\ gen \in Nat /\ faults \in Nat
  /\ delivered \in Seq(Message)
  /\ link \in Seq({"open", "broken", "closed"})
  /\ taken \in [DOMAIN link -> 0 .. MaxMsgs]

LEMMA TypeParts == TypeOK <=> FlagsOK /\ DataOK /\ (connected <=> half # 0)
  BY Zenon DEF TypeOK, FlagsOK, DataOK, Message

LEMMA TypePartsNext ==
  ASSUME FlagsOK', DataOK', ClientInv'
  PROVE  TypeOK'
<1>1. connected' <=> half' # 0
  BY Zenon DEF ClientInv, ChargeIsOnce
<1> QED BY <1>1, Zenon DEF TypeOK, FlagsOK, DataOK, Message

LEMMA FlagsStay ==
  ASSUME FlagsOK, [Next]_vars
  PROVE  FlagsOK'
<1> USE DEF FlagsOK, settings, port
<1>1. CASE StartConnection
  BY <1>1, Zenon DEF StartConnection
<1>2. CASE Disconnect
  BY <1>2, Zenon DEF Disconnect, Remove
<1>3. CASE CheckMainPortDropped
  BY <1>3, Zenon DEF CheckMainPortDropped, Remove, PortDropped
<1>4. CASE StartConnections
  <2>1. connecting' \in BOOLEAN
    BY <1>4, Zenon DEF StartConnections
  <2> QED BY <1>4, <2>1, Zenon DEF StartConnections
<1>5. CASE CheckConnectedToMainPort
  BY <1>5, Zenon DEF CheckConnectedToMainPort
<1>6. CASE Tcp!CheckListeningToMainPort \/ Ws!CheckListeningToMainPort
  <2>1. listening' = TRUE \/ listening' = listening
    BY <1>6, Zenon DEF Tcp!CheckListeningToMainPort, Ws!CheckListeningToMainPort
  <2> QED BY <1>6, <2>1, Zenon DEF Tcp!CheckListeningToMainPort, Ws!CheckListeningToMainPort,
             Tcp!settings, Ws!settings
<1>7. CASE ReadMessagesClient
  BY <1>7, Zenon DEF ReadMessagesClient
<1>8. CASE EndFrame
  BY <1>8, Zenon DEF EndFrame
<1>9. ASSUME UNCHANGED mainThread
      PROVE  FlagsOK'
  BY <1>9, Zenon DEF mainThread
<1>10. ASSUME NEW i \in DOMAIN connectors, ConnectorStep(i)
       PROVE  UNCHANGED mainThread
  BY <1>10, Zenon DEF ConnectorStep, ConnectorDropped,
     Tcp!ConnectorStep, Tcp!ConnectPanics, Tcp!ConnectSucceeds, Tcp!ConnectFails, Tcp!TlsConnected,
     Tcp!TlsFails, Tcp!SendConnected, Tcp!SendConnectFailed,
     Ws!ConnectorStep, Ws!ConnectSucceeds, Ws!ConnectFails, Ws!SendConnected,
     Ws!SendConnectFailed,
     Tcp!mainThread, Ws!mainThread, mainThread, Tcp!settings, Ws!settings,
     Tcp!port, Ws!port, Tcp!hist, Ws!hist, hist
<1>11. ASSUME NEW j \in DOMAIN readers,
         ReadMessage(j) \/ ReadPanics(j) \/ ReaderStep(j)
       PROVE  UNCHANGED mainThread
  BY <1>11, Zenon DEF ReadMessage, ReadPanics, Tcp!ReadPanics, ReaderStep, ReaderDropped,
     Tcp!ReadMessage, Tcp!ReaderStep, Tcp!ReadFails, Tcp!SendMessageReceived,
     Tcp!SendConnectionDown,
     Ws!ReadMessage, Ws!ReaderStep, Ws!ReadFails, Ws!ReadEnds, Ws!SendMessageReceived,
     Ws!SendConnectionDown,
     Tcp!mainThread, Ws!mainThread, mainThread, Tcp!settings, Ws!settings,
     Tcp!port, Ws!port, Tcp!hist, Ws!hist, hist
<1>12. ASSUME NEW s \in DOMAIN link, LinkBreaks(s) \/ Ws!ServerCloses(s)
       PROVE  UNCHANGED mainThread
  BY <1>12, Zenon DEF LinkBreaks, Ws!ServerCloses, Ws!mainThread, mainThread,
     Ws!settings, Ws!port, Ws!hist, hist
<1>13. CASE UNCHANGED vars
  BY <1>13, Zenon DEF vars
<1> QED BY <1>1, <1>2, <1>3, <1>4, <1>5, <1>6, <1>7, <1>8, <1>9, <1>10, <1>11, <1>12,
           <1>13, Zenon DEF Next, Systems, FrameSystems

\* The channels and what is known of the streams, when another one is opened.
LEMMA Wider ==
  ASSUME DataOK, Len(link) \in Nat, link' = Append(link, "open"), taken' = Append(taken, 0)
  PROVE  /\ Len(link') = Len(link) + 1
         /\ link' \in Seq({"open", "broken", "closed"})
         /\ taken' \in [DOMAIN link' -> 0 .. MaxMsgs]
         /\ taken'[Len(link) + 1] = 0
         /\ \A s \in 1 .. Len(link) : taken'[s] = taken[s]
         /\ Seq(Message) \subseteq Seq(Message')
         /\ Seq(1 .. Len(link)) \subseteq Seq(1 .. Len(link'))
<1>1. /\ link \in Seq({"open", "broken", "closed"})
      /\ taken \in [DOMAIN link -> 0 .. MaxMsgs]
      /\ DOMAIN link = 1 .. Len(link)
  BY DEF DataOK
<1>2. /\ Len(link') = Len(link) + 1 /\ DOMAIN link' = 1 .. Len(link) + 1
      /\ link' \in Seq({"open", "broken", "closed"})
  BY <1>1
<1>3. /\ taken' \in [DOMAIN link' -> 0 .. MaxMsgs] /\ taken'[Len(link) + 1] = 0
      /\ \A s \in 1 .. Len(link) : taken'[s] = taken[s]
  <2>1. taken \in Seq(0 .. MaxMsgs) /\ Len(taken) = Len(link) /\ DOMAIN taken = 1 .. Len(link)
    BY <1>1, AsSequence, Zenon
  <2>2. 0 \in 0 .. MaxMsgs
    BY ClientAssumption DEF ClientAssumption
  <2>3. /\ taken' \in Seq(0 .. MaxMsgs)
        /\ DOMAIN taken' = DOMAIN taken \cup {Len(link) + 1}
        /\ taken'[Len(link) + 1] = 0
        /\ \A s \in DOMAIN taken : taken'[s] = taken[s]
    BY <2>1, <2>2, Spawned
  <2>4. DOMAIN taken' = DOMAIN link'
    BY <1>2, <2>1, <2>3
  <2>5. taken' \in [DOMAIN taken' -> 0 .. MaxMsgs]
    BY <2>3, AsFunction, Zenon
  <2> QED BY <2>1, <2>3, <2>4, <2>5
<1>4. Message \subseteq Message' /\ 1 .. Len(link) \subseteq 1 .. Len(link')
  BY <1>2 DEF Message
<1>5. \A S, T : S \subseteq T => Seq(S) \subseteq Seq(T)
  OBVIOUS
<1> QED BY <1>2, <1>3, <1>4, <1>5
-----------------------------------------------------------------------------
(* The inductive invariant.  First the steps of the tasks: which of them    *)
(* are live afterwards.                                                     *)

\* A task that goes on is none that had ended; one that ends is live no more.
LEMMA LiveConnectors ==
  ASSUME NEW i \in DOMAIN connectors, NEW x, NEW y, NEW s, ConnectorGoes(i, x, y, s),
         UNCHANGED <<present, gen>>, x \notin Ended \/ ~Current(connectors[i])
  PROVE  /\ Live(connectors)' \subseteq Live(connectors)
         /\ y \in Ended => i \notin Live(connectors)'
<1>1. ASSUME NEW k \in DOMAIN connectors
      PROVE  /\ k \in Live(connectors)' => k \in Live(connectors)
             /\ y \in Ended /\ k = i => k \notin Live(connectors)'
  BY DEF ConnectorGoes, Live, Current
<1> QED BY <1>1 DEF ConnectorGoes, Live

LEMMA LiveReaders ==
  ASSUME NEW j \in DOMAIN readers, NEW x, NEW y, ReaderGoes(j, x, y),
         UNCHANGED <<present, gen>>, x \notin Ended \/ ~Current(readers[j])
  PROVE  /\ Live(readers)' \subseteq Live(readers)
         /\ y \in Ended => j \notin Live(readers)'
<1>1. ASSUME NEW k \in DOMAIN readers
      PROVE  /\ k \in Live(readers)' => k \in Live(readers)
             /\ y \in Ended /\ k = j => k \notin Live(readers)'
  BY DEF ReaderGoes, Live, Current
<1> QED BY <1>1 DEF ReaderGoes, Live

LEMMA TasksStay ==
  ASSUME UNCHANGED <<present, gen>>
  PROVE  /\ UNCHANGED connectors => Live(connectors)' = Live(connectors)
         /\ UNCHANGED readers => Live(readers)' = Live(readers)
  BY DEF Live, Current

\* What a connector does, in either port.
ConnectorDoes(i) ==
  \/ Opens(i) \/ Settles(i) \/ Delivers(i) \/ ConnectorReports(i) \/ ConnectorEnds(i)

LEMMA ConnectorFrame ==
  ASSUME TypeOK, NEW i \in DOMAIN connectors, ConnectorDoes(i)
  PROVE  /\ UNCHANGED <<present, gen, pc, connecting, connected, listening, half,
                        delivered, last, base, readers, message_received>>
         /\ \E x, y, s : /\ ConnectorGoes(i, x, y, s)
                         /\ x \notin Ended \/ ~Current(connectors[i])
         /\ Opens(i) \/ UNCHANGED <<link, taken>>
<1>1. UNCHANGED <<present, gen, pc, connecting, connected, listening, half,
                  delivered, last, base, readers, message_received>>
  BY Zenon DEF ConnectorDoes, Opens, Settles, Delivers, ConnectorReports, ConnectorEnds,
     mainThread, port, hist, queues
<1>2. \E x, y, s : /\ ConnectorGoes(i, x, y, s)
                   /\ x \notin Ended \/ ~Current(connectors[i])
  <2>1. \A x \in {"connect", "tls", "send", "down"} : x \notin Ended
    BY DEF Ended
  <2> QED BY <2>1 DEF ConnectorDoes, Opens, Settles, Delivers, ConnectorReports, ConnectorEnds
<1>3. Opens(i) \/ UNCHANGED <<link, taken>>
  BY DEF ConnectorDoes, Settles, Delivers, ConnectorReports, ConnectorEnds
<1> QED BY <1>1, <1>2, <1>3

\* What comes of the tasks and of the channels when a connector does a step.
LEMMA ConnectorCharge ==
  ASSUME TypeOK, ClientInv, NEW i \in DOMAIN connectors, ConnectorDoes(i)
  PROVE  ChargeIsOnce' /\ RemovedIsEmpty' /\ TasksAreStarted'
<1>1. /\ UNCHANGED <<present, gen, pc, connecting, connected, listening, half,
                     readers, message_received>>
      /\ Live(readers)' = Live(readers)
  BY ConnectorFrame, TasksStay
<1>2. TasksAreStarted'
  <2>1. PICK x, y, s : ConnectorGoes(i, x, y, s)
    BY ConnectorFrame
  <2> QED BY <1>1, <2>1 DEF ClientInv, TasksAreStarted, ConnectorGoes
<1>3. Live(connectors)' \subseteq Live(connectors)
  BY <1>1, ConnectorFrame, LiveConnectors
<1>4. CASE UNCHANGED <<connected_to_server, connection_down>>
  <2>1. ChargeIsOnce'
    BY <1>1, <1>3, <1>4 DEF ClientInv, ChargeIsOnce
  <2> QED BY <1>1, <1>2, <1>4, <2>1 DEF ClientInv, RemovedIsEmpty
<1>5. CASE Delivers(i) \/ ConnectorReports(i)
  <2>1. present /\ i \in Live(connectors)
    BY <1>5 DEF Delivers, ConnectorReports, ConnectorGoes, Live, Current, Ended
  <2>2. Live(connectors)' = {}
    <3>1. Live(connectors) = {i}
      BY <2>1 DEF ClientInv, ChargeIsOnce
    <3>2. i \notin Live(connectors)'
      <4>1. PICK x, s : x \notin Ended /\ ConnectorGoes(i, x, "done", s)
        BY <1>5 DEF Delivers, ConnectorReports, Ended
      <4>2. "done" \in Ended
        BY DEF Ended
      <4> QED BY <1>1, <4>1, <4>2, LiveConnectors
    <3> QED BY <1>3, <3>1, <3>2
  <2>3. /\ connecting /\ ~connected /\ connected_to_server = <<>> /\ connection_down = 0
        /\ Live(readers) = {}
    BY <2>1 DEF ClientInv, ChargeIsOnce
  <2>4. \/ connected_to_server' = <<connectors[i].on>> /\ connection_down' = 0
        \/ connected_to_server' = <<>> /\ connection_down' = 1
    BY <1>5, <2>3 DEF Delivers, ConnectorReports
  <2>5. \A e : Tail(<<e>>) = <<>>
    OBVIOUS
  <2>6. ChargeIsOnce'
    <3>1. connected <=> half # 0
      BY DEF ClientInv, ChargeIsOnce
    <3> QED BY <1>1, <2>2, <2>3, <2>4, <2>5, <3>1 DEF ChargeIsOnce
  <2> QED BY <1>1, <1>2, <2>1, <2>6 DEF ClientInv, RemovedIsEmpty
<1> QED BY <1>4, <1>5 DEF ConnectorDoes, Opens, Settles, ConnectorEnds, queues

LEMMA ConnectorStreams ==
  ASSUME TypeOK, ClientInv, NEW i \in DOMAIN connectors, ConnectorDoes(i)
  PROVE  /\ StreamsAreNew'
         /\ Len(link') \in Nat /\ Len(link) <= Len(link')
<1>1. UNCHANGED <<present, gen, half, last, base, listening, readers>>
  BY ConnectorFrame
<1>2. PICK x, y, s : ConnectorGoes(i, x, y, s)
  BY ConnectorFrame
<1>3. /\ Len(link') \in Nat /\ Len(link) <= Len(link')
      /\ Opens(i) => Len(link') = Len(link) + 1
  <2>1. DataOK
    BY TypeParts
  <2> QED BY <2>1, ConnectorFrame, StreamsAre, Wider DEF Opens
<1>4. connectors'[i].at \in {"tls", "send"} =>
        /\ connectors'[i].on \in 1 .. Len(link')
        /\ Current(connectors[i]) => connectors'[i].on > last
  <2>1. CASE Opens(i)
    <3>1. connectors'[i].on = Len(link) + 1
      BY <2>1 DEF Opens, ConnectorGoes
    <3> QED BY <1>3, <2>1, <3>1, StreamsAre
  <2>2. CASE Settles(i)
    <3>1. /\ connectors'[i].at \in {"tls", "send"} => connectors[i].at = "tls"
          /\ connectors'[i].on = connectors[i].on
      BY <2>2 DEF Settles, ConnectorGoes
    <3> QED BY <1>3, <3>1, StreamsAre DEF ClientInv, StreamsAreNew
  <2>3. CASE Delivers(i) \/ ConnectorReports(i) \/ ConnectorEnds(i)
    BY <2>3 DEF Delivers, ConnectorReports, ConnectorEnds, ConnectorGoes
  <2> QED BY <2>1, <2>2, <2>3 DEF ConnectorDoes
<1>5. \A k \in DOMAIN connectors' :
        connectors'[k].at \in {"tls", "send"} =>
          /\ connectors'[k].on \in 1 .. Len(link')
          /\ Current(connectors[k])' => connectors'[k].on > last'
  <2> SUFFICES ASSUME NEW k \in DOMAIN connectors, connectors'[k].at \in {"tls", "send"}
               PROVE  /\ connectors'[k].on \in 1 .. Len(link')
                      /\ Current(connectors[k])' => connectors'[k].on > last
    BY <1>1, <1>2 DEF ConnectorGoes
  <2>1. Current(connectors[k])' <=> Current(connectors[k])
    BY <1>1, <1>2 DEF ConnectorGoes, Current
  <2>2. CASE k = i
    BY <1>4, <2>1, <2>2
  <2>3. CASE k # i
    <3>1. connectors'[k] = connectors[k]
      BY <1>2, <2>3 DEF ConnectorGoes
    <3> QED BY <1>3, <2>1, <3>1, StreamsAre DEF ClientInv, StreamsAreNew
  <2> QED BY <2>2, <2>3
<1>6. \A k \in DOMAIN connected_to_server' : connected_to_server'[k] > last
  <2>1. CASE Delivers(i)
    <3>1. connectors[i].on > last
      BY <2>1 DEF Delivers, ConnectorGoes, ClientInv, StreamsAreNew
    <3>2. connected_to_server' = <<connectors[i].on>>
      <4>1. i \in Live(connectors)
        BY <2>1 DEF Delivers, ConnectorGoes, Live, Ended
      <4>2. connected_to_server = <<>>
        BY <4>1 DEF ClientInv, ChargeIsOnce
      <4> QED BY <2>1, <4>2 DEF Delivers
    <3> QED BY <3>1, <3>2
  <2>2. CASE UNCHANGED connected_to_server
    BY <2>2 DEF ClientInv, StreamsAreNew
  <2> QED BY <2>1, <2>2 DEF ConnectorDoes, Opens, Settles, ConnectorReports, ConnectorEnds,
             queues
<1> QED BY <1>1, <1>3, <1>5, <1>6 DEF ClientInv, StreamsAreNew
\* What was given to the application and what is still in the channel.
Given == delivered \o message_received

Pair == Nat \X Nat

LEMMA GivenIs ==
  ASSUME TypeOK
  PROVE  /\ Given \in Seq(Nat \X Nat) /\ delivered \in Seq(Nat \X Nat)
         /\ message_received \in Seq(Nat \X Nat)
<1>1. (1 .. Len(link)) \X (1 .. MaxMsgs) \subseteq Nat \X Nat
  OBVIOUS
<1>2. /\ delivered \in Seq((1 .. Len(link)) \X (1 .. MaxMsgs))
      /\ message_received \in Seq((1 .. Len(link)) \X (1 .. MaxMsgs))
  BY DEF TypeOK
<1>3. delivered \in Seq(Nat \X Nat) /\ message_received \in Seq(Nat \X Nat)
  BY <1>1, <1>2, OfWiderType, Zenon
<1> QED BY <1>3, Behind, Zenon DEF Given

\* No task and no message knows of a stream that the port has not had yet.
LEMMA NothingOfLater ==
  ASSUME TypeOK, ClientInv, NEW s \in Nat, s > last
  PROVE  InOrder(Given, s, 1, 0) /\ \A j \in DOMAIN readers : readers[j].on # s
<1>1. last \in Nat /\ Given \in Seq(Nat \X Nat)
  BY StreamsAre, GivenIs
<1>2. \A k \in DOMAIN Given : Given[k][1] <= last
  BY Zenon DEF ClientInv, MessagesAreSorted, Sorted, Given
<1>3. \A k \in DOMAIN Given : Given[k][1] # s
  <2> SUFFICES ASSUME NEW k \in DOMAIN Given PROVE Given[k][1] # s
    OBVIOUS
  <2>1. Given[k][1] \in Nat
    BY <1>1
  <2> QED BY <1>1, <1>2, <2>1
<1>4. InOrder(Given, s, 1, 0)
  BY <1>3, InOrderNone, Zenon
<1>5. \A j \in DOMAIN readers : readers[j].on # s
  BY <1>1 DEF ClientInv, StreamsAreNew
<1> QED BY <1>4, <1>5

LEMMA ConnectorMessages ==
  ASSUME TypeOK, ClientInv, NEW i \in DOMAIN connectors, ConnectorDoes(i)
  PROVE  MessagesAreSorted'
<1>1. /\ UNCHANGED <<present, delivered, message_received, last, base, readers>>
      /\ UNCHANGED Given
  BY ConnectorFrame DEF Given
<1>2. CASE UNCHANGED <<link, taken>>
  <2>1. \A s : Put(s)' = Put(s)
    BY <1>1, <1>2 DEF Put
  <2> QED BY <1>1, <1>2, <2>1 DEF ClientInv, MessagesAreSorted
<1>3. CASE Opens(i)
  <2>0. PICK n \in Nat : n = Len(link) + 1
    BY StreamsAre
  <2>1. /\ Len(link') = n /\ taken'[n] = 0
        /\ \A s \in 1 .. Len(link) : taken'[s] = taken[s]
    BY <1>3, <2>0, Wider, TypeParts, StreamsAre DEF Opens
  <2>2. /\ n \in Nat /\ n > last /\ n = Len(link) + 1
        /\ Len(link) \in Nat /\ base \in Nat /\ last \in Nat
    BY <2>0, StreamsAre
  <2>3. \A s \in base + 1 .. Len(link) : Put(s)' = Put(s) /\ s \in 1 .. Len(link)
    <3> SUFFICES ASSUME NEW s \in base + 1 .. Len(link)
                 PROVE  Put(s)' = Put(s) /\ s \in 1 .. Len(link)
      OBVIOUS
    <3>1. s \in 1 .. Len(link)
      BY <2>2
    <3> QED BY <1>1, <2>1, <3>1 DEF Put
  <2>4. Put(n)' = 0 /\ InOrder(Given, n, 1, 0)
    <3>1. InOrder(Given, n, 1, 0) /\ \A j \in DOMAIN readers : readers[j].on # n
      BY <2>2, NothingOfLater
    <3> QED BY <1>1, <2>1, <3>1 DEF Put
  <2>5. present => \A s \in base + 1 .. Len(link') : InOrder(Given, s, 1, Put(s)')
    <3> SUFFICES ASSUME present, NEW s \in base + 1 .. Len(link')
                 PROVE  InOrder(Given, s, 1, Put(s)')
      OBVIOUS
    <3>1. s = n \/ s \in base + 1 .. Len(link)
      BY <2>1, <2>2
    <3>2. CASE s \in base + 1 .. Len(link)
      <4>1. InOrder(Given, s, 1, Put(s))
        BY <3>2, Zenon DEF ClientInv, MessagesAreSorted, Given
      <4> QED BY <2>3, <3>2, <4>1
    <3> QED BY <2>4, <3>1, <3>2
  <2>6. \A s \in last + 1 .. Len(link') : taken'[s] = 0
    <3> SUFFICES ASSUME NEW s \in last + 1 .. Len(link') PROVE taken'[s] = 0
      OBVIOUS
    <3>1. s = n \/ s \in last + 1 .. Len(link)
      BY <2>1, <2>2
    <3>2. CASE s \in last + 1 .. Len(link)
      <4>1. s \in 1 .. Len(link)
        BY <2>2, <3>2
      <4>2. taken[s] = 0
        BY <3>2, Zenon DEF ClientInv, MessagesAreSorted
      <4> QED BY <2>1, <4>1, <4>2
    <3> QED BY <2>1, <3>1, <3>2
  <2>7. \A j \in DOMAIN readers : readers[j].at = "hold" => taken'[readers[j].on] > 0
    <3>1. \A j \in DOMAIN readers : readers[j].on \in 1 .. Len(link)
      BY <2>2, StreamsAre DEF ClientInv, StreamsAreNew
    <3> QED BY <2>1, <3>1 DEF ClientInv, MessagesAreSorted
  <2> QED BY <1>1, <2>5, <2>6, <2>7 DEF ClientInv, MessagesAreSorted, Given
<1> QED BY <1>2, <1>3, ConnectorFrame

LEMMA ConnectorType ==
  ASSUME TypeOK, ClientInv, NEW i \in DOMAIN connectors, ConnectorDoes(i),
         connectors' \in Seq(Connector), faults' \in Nat
  PROVE  DataOK'
<1>1. DataOK /\ UNCHANGED <<gen, pc, half, delivered, last, base, readers, message_received>>
  BY TypeParts, ConnectorFrame
<1>2. CASE Opens(i)
  <2>1. /\ Len(link') = Len(link) + 1
        /\ link' \in Seq({"open", "broken", "closed"})
        /\ taken' \in [DOMAIN link' -> 0 .. MaxMsgs]
        /\ Seq(Message) \subseteq Seq(Message')
        /\ Seq(1 .. Len(link)) \subseteq Seq(1 .. Len(link'))
    BY <1>1, <1>2, Wider, StreamsAre DEF Opens
  <2>2. half \in 0 .. Len(link') /\ last \in half .. Len(link') /\ base \in 0 .. last
    BY <2>1, StreamsAre
  <2>3. UNCHANGED <<connected_to_server, connection_down>>
    BY <1>2 DEF Opens, queues
  <2> QED BY <1>1, <2>1, <2>2, <2>3, Zenon DEF DataOK
<1>3. CASE UNCHANGED <<link, taken>>
  <2>1. connected_to_server' \in Seq(1 .. Len(link)) /\ connection_down' \in Nat
    <3>1. connected_to_server \in Seq(1 .. Len(link)) /\ connection_down \in Nat
      BY StreamsAre
    <3>2. CASE Delivers(i)
      <4>1. connectors[i].on \in 1 .. Len(link)
        BY <3>2 DEF Delivers, ConnectorGoes, ClientInv, StreamsAreNew
      <4>2. \A S : \A q \in Seq(S), e \in S : Append(q, e) \in Seq(S)
        OBVIOUS
      <4> QED BY <3>1, <3>2, <4>1, <4>2, Zenon DEF Delivers
    <3>3. CASE ConnectorReports(i)
      BY <3>1, <3>3 DEF ConnectorReports
    <3>4. CASE UNCHANGED queues
      BY <3>1, <3>4 DEF queues
    <3> QED BY <3>2, <3>3, <3>4 DEF ConnectorDoes, Opens, Settles, ConnectorEnds
  <2> QED BY <1>1, <1>3, <2>1, Zenon DEF DataOK, Message
<1> QED BY <1>2, <1>3, ConnectorFrame

LEMMA ConnectorInv ==
  ASSUME TypeOK, ClientInv, NEW i \in DOMAIN connectors, ConnectorStep(i)
  PROVE  DataOK' /\ ClientInv'
<1>1. ConnectorDoes(i) /\ connectors' \in Seq(Connector) /\ faults' \in Nat
  BY ConnectorSteps DEF ConnectorDoes
<1> QED BY <1>1, ConnectorType, ConnectorCharge, ConnectorStreams, ConnectorMessages
        DEF ClientInv
\* What a reader does, in either port.
ReaderDoes(j) == Reads(j) \/ Stops(j) \/ Puts(j) \/ ReaderReports(j) \/ ReaderEnds(j)

LEMMA ReaderFrame ==
  ASSUME TypeOK, NEW j \in DOMAIN readers, ReaderDoes(j)
  PROVE  /\ UNCHANGED <<present, gen, pc, connecting, connected, listening, half,
                        delivered, last, base, connectors, link, connected_to_server>>
         /\ \E x, y : /\ ReaderGoes(j, x, y)
                      /\ x \notin Ended \/ ~Current(readers[j])
         /\ Reads(j) \/ UNCHANGED taken
         /\ ReaderReports(j) \/ UNCHANGED connection_down
         /\ Puts(j) \/ UNCHANGED message_received
<1>1. UNCHANGED <<present, gen, pc, connecting, connected, listening, half,
                  delivered, last, base, connectors, link, connected_to_server>>
  BY Zenon DEF ReaderDoes, Reads, Stops, Puts, ReaderReports, ReaderEnds,
     mainThread, port, hist, queues
<1>2. \E x, y : /\ ReaderGoes(j, x, y)
                /\ x \notin Ended \/ ~Current(readers[j])
  <2>1. \A x \in {"read", "hold", "down"} : x \notin Ended
    BY DEF Ended
  <2> QED BY <2>1 DEF ReaderDoes, Reads, Stops, Puts, ReaderReports, ReaderEnds
<1>3. /\ Reads(j) \/ UNCHANGED taken
      /\ ReaderReports(j) \/ UNCHANGED connection_down
      /\ Puts(j) \/ UNCHANGED message_received
  BY Zenon DEF ReaderDoes, Reads, Stops, Puts, ReaderReports, ReaderEnds, queues
<1> QED BY <1>1, <1>2, <1>3

LEMMA ReaderCharge ==
  ASSUME TypeOK, ClientInv, NEW j \in DOMAIN readers, ReaderDoes(j)
  PROVE  ChargeIsOnce' /\ RemovedIsEmpty' /\ TasksAreStarted'
<1>1. /\ UNCHANGED <<present, gen, pc, connecting, connected, listening, half,
                     connectors, connected_to_server>>
      /\ Live(connectors)' = Live(connectors)
  BY ReaderFrame, TasksStay
<1>2. PICK x, y : ReaderGoes(j, x, y) /\ (x \notin Ended \/ ~Current(readers[j]))
  BY ReaderFrame
<1>3. TasksAreStarted'
  BY <1>1, <1>2 DEF ClientInv, TasksAreStarted, ReaderGoes
<1>4. /\ Live(readers)' \subseteq Live(readers)
      /\ \A k \in Live(readers)' : readers'[k].on = readers[k].on
  <2>1. Live(readers)' \subseteq Live(readers)
    BY <1>1, <1>2, LiveReaders
  <2>2. \A k \in DOMAIN readers : readers'[k].on = readers[k].on
    BY <1>2 DEF ReaderGoes
  <2> QED BY <2>1, <2>2 DEF Live
<1>5. CASE UNCHANGED connection_down
  <2>1. ChargeIsOnce'
    BY <1>1, <1>4, <1>5 DEF ClientInv, ChargeIsOnce
  <2>2. present \/ UNCHANGED message_received
    BY ReaderFrame DEF Puts, Current
  <2> QED BY <1>1, <1>3, <1>5, <2>1, <2>2 DEF ClientInv, RemovedIsEmpty
<1>6. CASE ReaderReports(j)
  <2>1. present /\ j \in Live(readers)
    BY <1>6 DEF ReaderReports, ReaderGoes, Live, Current, Ended
  <2>2. Live(readers)' = {}
    <3>1. Live(readers) = {j}
      BY <2>1 DEF ClientInv, ChargeIsOnce
    <3>2. j \notin Live(readers)'
      <4>1. PICK z \in Ended : ReaderGoes(j, "down", z)
        BY <1>6 DEF ReaderReports, Ended
      <4>2. "down" \notin Ended
        BY DEF Ended
      <4> QED BY <1>1, <4>1, <4>2, LiveReaders
    <3> QED BY <1>4, <3>1, <3>2
  <2>3. /\ connecting /\ connected /\ listening
        /\ connected_to_server = <<>> /\ connection_down = 0
        /\ Live(connectors) = {}
    BY <2>1 DEF ClientInv, ChargeIsOnce
  <2>4. connection_down' = 1
    BY <1>6, <2>3 DEF ReaderReports
  <2>5. ChargeIsOnce'
    <3>1. connected <=> half # 0
      BY DEF ClientInv, ChargeIsOnce
    <3> QED BY <1>1, <2>2, <2>3, <2>4, <3>1 DEF ChargeIsOnce
  <2> QED BY <1>1, <1>3, <2>1, <2>5 DEF ClientInv, RemovedIsEmpty
<1> QED BY <1>5, <1>6, ReaderFrame

LEMMA ReaderStreams ==
  ASSUME TypeOK, ClientInv, NEW j \in DOMAIN readers, ReaderDoes(j)
  PROVE  StreamsAreNew'
<1>1. /\ UNCHANGED <<present, gen, listening, half, last, base, connectors,
                     connected_to_server, link>>
  BY ReaderFrame
<1>2. PICK x, y : ReaderGoes(j, x, y)
  BY ReaderFrame
<1>3. /\ DOMAIN readers' = DOMAIN readers
      /\ \A k \in DOMAIN readers : /\ readers'[k].on = readers[k].on
                                   /\ readers'[k].gen = readers[k].gen
  BY <1>2 DEF ReaderGoes
<1>4. \A i \in DOMAIN connectors : Current(connectors[i])' <=> Current(connectors[i])
  BY <1>1 DEF Current
<1> QED BY <1>1, <1>3, <1>4 DEF ClientInv, StreamsAreNew

\* A reader that is of this connection reads the port's stream.
LEMMA ReadersStream ==
  ASSUME TypeOK, ClientInv, NEW j \in DOMAIN readers
  PROVE  /\ readers[j].on \in 1 .. Len(link) /\ readers[j].on <= last
         /\ present => (Current(readers[j]) <=> readers[j].on > base)
         /\ \A k \in DOMAIN readers : readers[k].on = readers[j].on => k = j
         /\ Current(readers[j]) /\ readers[j].at \notin Ended =>
              /\ present /\ readers[j].on = half /\ half = last /\ half > base
<1>1. /\ readers[j].on \in 1 .. last
      /\ readers[j].on > base <=> readers[j].gen = gen
      /\ \A k \in DOMAIN readers \ {j} : readers[k].on # readers[j].on
      /\ half # 0 => half = last /\ half > base
  BY DEF ClientInv, StreamsAreNew
<1>2. ASSUME Current(readers[j]), readers[j].at \notin Ended
      PROVE  /\ present /\ readers[j].on = half /\ half # 0
  <2>1. j \in Live(readers)
    BY <1>2 DEF Live
  <2> QED BY <1>1, <1>2, <2>1 DEF ClientInv, ChargeIsOnce, Current
<1> QED BY <1>1, <1>2, StreamsAre DEF Current

LEMMA ReaderMessages ==
  ASSUME TypeOK, ClientInv, NEW j \in DOMAIN readers, ReaderDoes(j)
  PROVE  MessagesAreSorted'
<1>1. /\ UNCHANGED <<present, delivered, last, base, link, gen>>
      /\ Len(link) \in Nat /\ base \in Nat /\ last \in Nat
  BY ReaderFrame, StreamsAre
<1>2. PICK s \in 1 .. Len(link) : s = readers[j].on /\ s <= last
  BY ReadersStream
<1>3. \A k \in DOMAIN readers : readers[k].on = s => k = j
  BY <1>2, ReadersStream
<1>4. PICK x, y : ReaderGoes(j, x, y)
  BY ReaderFrame
<1>5. /\ DOMAIN readers' = DOMAIN readers
      /\ \A k \in DOMAIN readers : readers'[k].on = readers[k].on
      /\ \A k \in DOMAIN readers \ {j} : readers'[k] = readers[k]
  BY <1>4 DEF ReaderGoes
<1>6. /\ taken' \in [1 .. Len(link) -> Nat] /\ taken \in [1 .. Len(link) -> Nat]
      /\ \A r \in 1 .. Len(link) : r # s => taken'[r] = taken[r]
      /\ IF Reads(j) THEN taken'[s] = taken[s] + 1 ELSE taken'[s] = taken[s]
  <2>1. taken \in [1 .. Len(link) -> Nat]
    BY StreamsAre, ClientAssumption DEF ClientAssumption
  <2>2. CASE Reads(j)
    BY <1>2, <2>1, <2>2 DEF Reads
  <2>3. CASE ~Reads(j)
    BY <2>1, <2>3, ReaderFrame
  <2> QED BY <2>2, <2>3
<1>7. \A r \in 1 .. Len(link) : r # s => Put(r)' = Put(r)
  <2> SUFFICES ASSUME NEW r \in 1 .. Len(link), r # s PROVE Put(r)' = Put(r)
    OBVIOUS
  <2>1. \A k \in DOMAIN readers : readers[k].on = r =>
          readers'[k].at = readers[k].at
    BY <1>2, <1>5
  <2>2. (\E k \in DOMAIN readers' : readers'[k].on = r /\ readers'[k].at = "hold")
        <=> \E k \in DOMAIN readers : readers[k].on = r /\ readers[k].at = "hold"
    BY <1>5, <2>1
  <2> QED BY <1>6, <2>2 DEF Put
<1>8. /\ Put(s) = IF readers[j].at = "hold" THEN taken[s] - 1 ELSE taken[s]
      /\ Put(s)' = IF readers'[j].at = "hold" THEN taken'[s] - 1 ELSE taken'[s]
  BY <1>2, <1>3, <1>5 DEF Put
<1>9. \A r \in last + 1 .. Len(link) : taken'[r] = 0
  <2> SUFFICES ASSUME NEW r \in last + 1 .. Len(link) PROVE taken'[r] = 0
    OBVIOUS
  <2>1. r \in 1 .. Len(link) /\ r # s
    BY <1>1, <1>2
  <2>2. taken[r] = 0
    BY Zenon DEF ClientInv, MessagesAreSorted
  <2> QED BY <1>6, <2>1, <2>2
<1>10. \A k \in DOMAIN readers : readers'[k].at = "hold" => taken'[readers[k].on] > 0
  <2> SUFFICES ASSUME NEW k \in DOMAIN readers, readers'[k].at = "hold"
               PROVE  taken'[readers[k].on] > 0
    OBVIOUS
  <2>1. readers[k].at = "hold" => taken[readers[k].on] > 0
    BY Zenon DEF ClientInv, MessagesAreSorted
  <2>2. readers[k].on \in 1 .. Len(link)
    BY ReadersStream
  <2>3. CASE k = j
    <3>1. Reads(j)
      BY <2>3 DEF ReaderDoes, Stops, Puts, ReaderReports, ReaderEnds, ReaderGoes
    <3>2. taken[s] \in Nat /\ taken'[s] = taken[s] + 1
      BY <1>6, <3>1
    <3>3. taken'[s] > 0
      BY <3>2
    <3> QED BY <1>2, <2>3, <3>3
  <2>4. CASE k # j
    BY <1>2, <1>3, <1>5, <1>6, <2>1, <2>2, <2>4
  <2> QED BY <2>3, <2>4
<1>11. Put(s) \in Nat
  <2>1. readers[j].at = "hold" => taken[s] > 0
    BY <1>2, Zenon DEF ClientInv, MessagesAreSorted
  <2> QED BY <1>2, <1>6, <1>8, <2>1
<1>12. CASE ~Puts(j)
  <2>1. UNCHANGED <<message_received, Given>>
    BY <1>1, <1>12, ReaderFrame DEF Given
  <2>2. present => \A r \in base + 1 .. Len(link) : InOrder(Given, r, 1, Put(r)')
    <3> SUFFICES ASSUME present, NEW r \in base + 1 .. Len(link)
                 PROVE  InOrder(Given, r, 1, Put(r)')
      OBVIOUS
    <3>1. r \in 1 .. Len(link) /\ r > base
      BY <1>1
    <3>2. InOrder(Given, r, 1, Put(r))
      BY Zenon DEF ClientInv, MessagesAreSorted, Given
    <3>3. r = s => Put(s)' = Put(s)
      <4>1. CASE ReaderEnds(j)
        <5>1. ~(s > base)
          BY <1>2, <4>1, ReadersStream DEF ReaderEnds
        <5> QED BY <3>1, <5>1
      <4>2. CASE Reads(j)
        BY <1>2, <1>6, <1>8, <4>2 DEF Reads, ReaderGoes
      <4>3. CASE ~Reads(j) /\ (Stops(j) \/ ReaderReports(j))
        BY <1>6, <1>8, <4>3 DEF Stops, ReaderReports, ReaderGoes
      <4> QED BY <1>12, <4>1, <4>2, <4>3 DEF ReaderDoes
    <3> QED BY <1>7, <3>1, <3>2, <3>3
  <2>3. Sorted(Given, last) /\ \A k \in DOMAIN message_received : message_received[k][1] > base
    BY Zenon DEF ClientInv, MessagesAreSorted, Given
  <2> QED BY <1>1, <1>5, <1>9, <1>10, <2>1, <2>2, <2>3, Zenon DEF MessagesAreSorted, Given
<1>13. CASE Puts(j)
  <2> DEFINE m == <<s, taken[s]>>
  <2>1. /\ message_received' = Append(message_received, m)
        /\ readers[j].at = "hold" /\ readers'[j].at = "read" /\ Current(readers[j])
        /\ UNCHANGED taken
    BY <1>2, <1>13 DEF Puts, ReaderGoes
  <2>2. /\ present /\ s = last /\ s > base
        /\ taken[s] \in Nat /\ Put(s) = taken[s] - 1 /\ Put(s)' = taken[s]
    <3>1. "hold" \notin Ended
      BY DEF Ended
    <3> QED BY <1>2, <1>6, <1>8, <2>1, <3>1, ReadersStream
  <2>3. /\ m \in Nat \X Nat /\ Given' = Append(Given, m)
        /\ Given \in Seq(Nat \X Nat) /\ message_received \in Seq(Nat \X Nat)
    <3>1. m \in Pair
      BY <1>1, <2>2 DEF Pair
    <3>2. Given \in Seq(Pair) /\ delivered \in Seq(Pair) /\ message_received \in Seq(Pair)
      BY GivenIs DEF Pair
    <3>3. Given' = delivered \o Append(message_received, m)
      BY <1>1, <2>1 DEF Given
    <3>4. Given' = Append(Given, m)
      <4> HIDE DEF m
      <4>1. delivered \o Append(message_received, m) = Append(delivered \o message_received, m)
        BY <3>1, <3>2, BehindPushed
      <4> QED BY <3>1, <3>2, <3>3, <4>1 DEF Given
    <3> QED BY <3>1, <3>2, <3>4 DEF Pair
  <2>4. \A r \in base + 1 .. Len(link) : InOrder(Append(Given, m), r, 1, Put(r)')
    <3> SUFFICES ASSUME NEW r \in base + 1 .. Len(link)
                 PROVE  InOrder(Append(Given, m), r, 1, Put(r)')
      OBVIOUS
    <3>1. r \in 1 .. Len(link) /\ r > base /\ r \in Nat /\ s \in Nat /\ 1 \in Nat /\ 1 \in Int
      BY <1>1
    <3>2. InOrder(Given, r, 1, Put(r))
      BY <2>2, Zenon DEF ClientInv, MessagesAreSorted, Given
    <3>3. CASE r = s
      <4>1. 1 <= taken[s]
        BY <1>11, <2>2
      <4> QED BY <2>2, <2>3, <3>1, <3>2, <3>3, <4>1, InOrderPushed
    <3>4. CASE r # s
      <4>1. Put(r)' = Put(r) /\ Put(r) \in Int
        BY <1>6, <1>7, <3>1, <3>4 DEF Put
      <4>2. InOrder(Append(Given, m), r, 1, Put(r)) <=> InOrder(Given, r, 1, Put(r))
        BY <2>2, <2>3, <3>1, <3>4, <4>1, InOrderPushedOther
      <4> QED BY <3>2, <4>1, <4>2
    <3> QED BY <3>3, <3>4
  <2>5. Sorted(Append(Given, m), last)
    <3>1. Sorted(Given, last)
      BY Zenon DEF ClientInv, MessagesAreSorted, Given
    <3> QED BY <1>1, <2>2, <2>3, <3>1, SortedPushed
  <2>6. \A k \in DOMAIN message_received' : message_received'[k][1] > base
    <3>1. \A k \in DOMAIN message_received : message_received[k][1] > base
      BY Zenon DEF ClientInv, MessagesAreSorted
    <3>2. m[1] > base
      BY <2>2
    <3> DEFINE q == message_received
               t == Append(message_received, m)
    <3>3. q \in Seq(Pair) /\ m \in Pair /\ message_received' = t
      BY <2>1, <2>3 DEF Pair
    <3> HIDE DEF m
    <3>4. /\ DOMAIN t = DOMAIN q \cup {Len(q) + 1} /\ t[Len(q) + 1] = m
          /\ \A k \in DOMAIN q : t[k] = q[k]
      BY <3>3, Spawned
    <3> HIDE DEF t
    <3>5. \A k \in DOMAIN t : t[k][1] > base
      BY <3>1, <3>2, <3>4
    <3> QED BY <1>1, <3>3, <3>5
  <2> HIDE DEF m
  <2> QED BY <1>1, <1>5, <1>9, <1>10, <2>3, <2>4, <2>5, <2>6, Zenon
          DEF MessagesAreSorted, Given
<1> QED BY <1>12, <1>13

LEMMA ReaderType ==
  ASSUME TypeOK, ClientInv, NEW j \in DOMAIN readers, ReaderDoes(j),
         readers' \in Seq(Reader), faults' \in Nat
  PROVE  DataOK'
<1>1. /\ DataOK
      /\ UNCHANGED <<gen, pc, half, delivered, last, base, connectors, link,
                     connected_to_server>>
  BY TypeParts, ReaderFrame
<1>2. connection_down' \in Nat
  BY StreamsAre, ReaderFrame DEF ReaderReports
<1>3. PICK s \in 1 .. Len(link) : s = readers[j].on
  BY ReadersStream
<1>4. taken' \in [DOMAIN link -> 0 .. MaxMsgs]
  <2>1. taken \in [1 .. Len(link) -> 0 .. MaxMsgs] /\ DOMAIN link = 1 .. Len(link)
    BY StreamsAre
  <2>2. CASE Reads(j)
    <3>1. taken[s] + 1 \in 0 .. MaxMsgs /\ taken' = [taken EXCEPT ![s] = taken[s] + 1]
      BY <1>3, <2>1, <2>2, ClientAssumption DEF Reads, ClientAssumption
    <3> QED BY <2>1, <3>1
  <2> QED BY <2>1, <2>2, ReaderFrame
<1>5. message_received' \in Seq(Message)
  <2>1. CASE Puts(j)
    <3> DEFINE m == <<s, taken[s]>>
    <3>1. readers[j].at = "hold" /\ message_received' = Append(message_received, m)
      BY <1>3, <2>1 DEF Puts, ReaderGoes
    <3>2. taken[s] > 0 /\ taken[s] \in 0 .. MaxMsgs
      BY <1>3, <3>1, StreamsAre, Zenon DEF ClientInv, MessagesAreSorted
    <3>3. m \in Message
      BY <3>2, ClientAssumption DEF Message, ClientAssumption
    <3>4. message_received \in Seq(Message)
      BY <1>1 DEF DataOK
    <3> HIDE DEF m
    <3> QED BY <3>1, <3>3, <3>4, Spawned, Zenon
  <2>2. CASE UNCHANGED message_received
    BY <1>1, <2>2 DEF DataOK
  <2> QED BY <2>1, <2>2, ReaderFrame
<1> QED BY <1>1, <1>2, <1>4, <1>5, Zenon DEF DataOK, Message

LEMMA ReaderInv ==
  ASSUME TypeOK, ClientInv, NEW j \in DOMAIN readers,
         ReadMessage(j) \/ ReadPanics(j) \/ ReaderStep(j)
  PROVE  DataOK' /\ ClientInv'
<1>1. ReaderDoes(j) /\ readers' \in Seq(Reader) /\ faults' \in Nat
  BY ReaderSteps DEF ReaderDoes
<1> QED BY <1>1, ReaderType, ReaderCharge, ReaderStreams, ReaderMessages DEF ClientInv
-----------------------------------------------------------------------------
(* The steps of the main thread and of the network.                        *)

\* What the invariant says of the messages follows from the streams alone, if
\* neither the messages nor the readers change.
LEMMA MessagesStay ==
  ASSUME ClientInv, UNCHANGED <<delivered, message_received, last, base, present, taken,
                                readers>>,
         Len(link') = Len(link)
  PROVE  MessagesAreSorted'
<1>1. \A s : Put(s)' = Put(s)
  BY DEF Put
<1> QED BY <1>1, Zenon DEF ClientInv, MessagesAreSorted

\* The steps that change none of what the invariant speaks of.
LEMMA OtherInv ==
  ASSUME TypeOK, ClientInv,
         \/ \E s \in DOMAIN link : LinkBreaks(s) \/ Ws!ServerCloses(s)
         \/ EndFrame \/ UNCHANGED vars
  PROVE  DataOK' /\ ClientInv'
<1>1. /\ UNCHANGED <<present, port, queues, tasks, gen, hist, taken>>
      /\ pc' = pc \/ (present /\ pc' = "dropped")
      /\ faults' = faults \/ faults' = faults + 1
      /\ \/ link' = link
         \/ \E s \in DOMAIN link, e \in {"broken", "closed"} : link' = [link EXCEPT ![s] = e]
  BY DEF LinkBreaks, Ws!ServerCloses, EndFrame, vars, env, mainThread, Ws!mainThread,
     Ws!port, port, Ws!hist, hist, Ws!queues, queues, Ws!tasks, tasks
<1>2. /\ link' \in Seq({"open", "broken", "closed"})
      /\ Len(link') = Len(link) /\ DOMAIN link' = DOMAIN link
  <2>1. link \in Seq({"open", "broken", "closed"})
    BY StreamsAre
  <2>2. ASSUME NEW s \in DOMAIN link, NEW e \in {"broken", "closed"},
               link' = [link EXCEPT ![s] = e]
        PROVE  /\ link' \in Seq({"open", "broken", "closed"})
               /\ Len(link') = Len(link) /\ DOMAIN link' = DOMAIN link
    BY <2>1, <2>2
  <2> QED BY <1>1, <2>1, <2>2
<1>3. DataOK'
  <2>1. DataOK
    BY TypeParts
  <2>2. faults' \in Nat
    BY <1>1, <2>1 DEF DataOK
  <2>3. Message' = Message
    BY <1>2 DEF Message
  <2>4. pc' \in {"dropped", "start", "connected", "listening", "read", "app"}
    BY <1>1, <2>1 DEF DataOK
  <2> QED BY <1>1, <1>2, <2>1, <2>2, <2>3, <2>4, Zenon DEF DataOK, port, queues, tasks, hist
<1>4. /\ Live(connectors)' = Live(connectors) /\ Live(readers)' = Live(readers)
      /\ \A i \in DOMAIN connectors : Current(connectors[i])' <=> Current(connectors[i])
  BY <1>1 DEF Live, Current, tasks
<1>5. TasksAreStarted' /\ RemovedIsEmpty' /\ ChargeIsOnce'
  BY <1>1, <1>4 DEF ClientInv, TasksAreStarted, RemovedIsEmpty, ChargeIsOnce,
     port, queues, tasks
<1>6. StreamsAreNew'
  BY <1>1, <1>2, <1>4 DEF ClientInv, StreamsAreNew, port, queues, tasks, hist
<1>7. MessagesAreSorted'
  BY <1>1, <1>2, MessagesStay DEF queues, tasks, hist
<1> QED BY <1>3, <1>5, <1>6, <1>7 DEF ClientInv

\* Nothing was sent of a stream of a connection that has not begun.
LEMMA StartConnectionInv ==
  ASSUME TypeOK, ClientInv, StartConnection
  PROVE  DataOK' /\ ClientInv'
<1>1. /\ ~present /\ present' /\ gen' = gen + 1 /\ base' = last
      /\ UNCHANGED <<port, queues, tasks, pc, delivered, last, env>>
  BY DEF StartConnection
<1>2. /\ ~connecting /\ ~connected /\ ~listening /\ half = 0
      /\ connected_to_server = <<>> /\ connection_down = 0 /\ message_received = <<>>
  BY <1>1 DEF ClientInv, RemovedIsEmpty
<1>3. DataOK'
  <2>1. DataOK
    BY TypeParts
  <2>2. base' \in 0 .. last /\ gen' \in Nat
    BY <1>1, StreamsAre
  <2>3. Message' = Message
    BY <1>1 DEF Message, env
  <2> QED BY <1>1, <2>1, <2>2, <2>3, Zenon DEF DataOK, port, queues, tasks, env
<1>4. /\ \A i \in DOMAIN connectors : connectors[i].gen <= gen' /\ connectors[i].gen # gen'
      /\ \A j \in DOMAIN readers : readers[j].gen <= gen' /\ readers[j].gen # gen'
  <2>1. /\ \A i \in DOMAIN connectors : connectors[i].gen \in Nat
        /\ \A j \in DOMAIN readers : readers[j].gen \in Nat
    BY TasksAre DEF Connector, Reader
  <2>2. gen \in Nat
    BY StreamsAre
  <2> QED BY <1>1, <2>1, <2>2 DEF ClientInv, TasksAreStarted
<1>5. /\ Live(connectors)' = {} /\ Live(readers)' = {}
      /\ \A i \in DOMAIN connectors : ~Current(connectors[i])'
  BY <1>1, <1>4 DEF Live, Current, tasks
<1>6. TasksAreStarted' /\ RemovedIsEmpty' /\ ChargeIsOnce'
  <2>1. TasksAreStarted'
    BY <1>1, <1>4, Zenon DEF TasksAreStarted, tasks
  <2>2. RemovedIsEmpty'
    BY <1>1 DEF RemovedIsEmpty
  <2> QED BY <1>1, <1>2, <1>5, <2>1, <2>2 DEF ChargeIsOnce, port, queues
<1>7. StreamsAreNew'
  <2>1. \A j \in DOMAIN readers : ~(readers[j].on > last)
    BY ReadersStream, StreamsAre
  <2> QED BY <1>1, <1>2, <1>4, <1>5, <2>1 DEF ClientInv, StreamsAreNew, port, queues,
             tasks, env
<1>8. MessagesAreSorted'
  <2>1. UNCHANGED Given /\ Len(link) \in Nat /\ last \in Nat
    BY <1>1, StreamsAre DEF Given, queues
  <2>2. \A s \in last + 1 .. Len(link) : InOrder(Given, s, 1, Put(s)')
    <3> SUFFICES ASSUME NEW s \in last + 1 .. Len(link) PROVE InOrder(Given, s, 1, Put(s)')
      OBVIOUS
    <3>1. s \in Nat /\ s > last
      BY <2>1
    <3>2. InOrder(Given, s, 1, 0) /\ \A j \in DOMAIN readers : readers[j].on # s
      BY <3>1, NothingOfLater
    <3>3. taken[s] = 0
      BY Zenon DEF ClientInv, MessagesAreSorted
    <3>4. Put(s)' = 0
      BY <1>1, <3>2, <3>3 DEF Put, tasks, env
    <3> QED BY <3>2, <3>4
  <2>3. /\ Sorted(Given, last)
        /\ \A s \in last + 1 .. Len(link) : taken[s] = 0
        /\ \A j \in DOMAIN readers :
             readers[j].at = "hold" => taken[readers[j].on] > 0
    BY Zenon DEF ClientInv, MessagesAreSorted, Given
  <2>4. \A k \in DOMAIN message_received : message_received[k][1] > last
    BY <1>2
  <2> QED BY <1>1, <2>1, <2>2, <2>3, <2>4, Zenon DEF MessagesAreSorted, Given, queues,
             tasks, env
<1> QED BY <1>3, <1>6, <1>7, <1>8 DEF ClientInv

\* A connection that is removed.
LEMMA RemoveInv ==
  ASSUME TypeOK, ClientInv, Remove, pc' = "app", UNCHANGED <<tasks, gen, hist, env>>
  PROVE  DataOK' /\ ClientInv'
<1>1. /\ ~present' /\ ~connecting' /\ ~connected' /\ ~listening'
      /\ half' = 0 /\ connected_to_server' = <<>> /\ connection_down' = 0
      /\ message_received' = <<>>
  BY Zenon DEF Remove
<1>2. DataOK'
  <2>1. DataOK /\ Len(link) \in Nat
    BY TypeParts, StreamsAre
  <2>2. half' \in 0 .. Len(link) /\ last \in half' .. Len(link)
    BY <1>1, StreamsAre
  <2>3. Message' = Message
    BY DEF Message, env
  <2>4. \A S : <<>> \in Seq(S)
    OBVIOUS
  <2>5. connection_down' \in Nat
    BY <1>1
  <2>6. base \in 0 .. last
    BY <2>1 DEF DataOK
  <2> QED BY <1>1, <2>1, <2>2, <2>3, <2>4, <2>5, <2>6, Zenon DEF DataOK, tasks, hist, env
<1>3. /\ Live(connectors)' = {} /\ Live(readers)' = {}
      /\ \A i : ~Current(connectors[i])'
  BY <1>1 DEF Live, Current
<1>4. TasksAreStarted' /\ RemovedIsEmpty' /\ ChargeIsOnce'
  <2>1. TasksAreStarted'
    BY DEF ClientInv, TasksAreStarted, tasks
  <2>2. RemovedIsEmpty'
    BY <1>1, Zenon DEF RemovedIsEmpty
  <2> QED BY <1>1, <1>3, <2>1, <2>2 DEF ChargeIsOnce
<1>5. StreamsAreNew'
  <2>1. \A j \in DOMAIN readers : readers[j].on # half'
    <3>1. \A j \in DOMAIN readers : readers[j].on \in 1 .. Len(link)
      BY ReadersStream
    <3> QED BY <1>1, <3>1, StreamsAre
  <2> QED BY <1>1, <1>3, <2>1 DEF ClientInv, StreamsAreNew, tasks, hist, env
<1>6. MessagesAreSorted'
  <2>1. Sorted(Given, last)
    BY Zenon DEF ClientInv, MessagesAreSorted, Given
  <2>2. /\ \A k \in DOMAIN delivered : k \in DOMAIN Given /\ Given[k] = delivered[k]
        /\ Given' = delivered
    <3>1. delivered \in Seq(Nat \X Nat) /\ message_received \in Seq(Nat \X Nat)
      BY GivenIs
    <3>2. delivered \o <<>> = delivered
      BY <3>1
    <3> QED BY <1>1, <3>1, <3>2, Behind DEF Given, hist
  <2>3. Sorted(Given', last)
    BY <2>1, <2>2 DEF Sorted
  <2>4. /\ \A s \in last + 1 .. Len(link) : taken[s] = 0
        /\ \A j \in DOMAIN readers :
             readers[j].at = "hold" => taken[readers[j].on] > 0
    BY Zenon DEF ClientInv, MessagesAreSorted
  <2>5. \A k \in DOMAIN message_received' : message_received'[k][1] > base
    BY <1>1
  <2> QED BY <1>1, <2>3, <2>4, <2>5, Zenon DEF MessagesAreSorted, Given, tasks, hist, env
<1> QED BY <1>2, <1>4, <1>5, <1>6 DEF ClientInv

LEMMA CheckMainPortDroppedInv ==
  ASSUME TypeOK, ClientInv, CheckMainPortDropped
  PROVE  DataOK' /\ ClientInv'
<1>1. present /\ UNCHANGED <<tasks, gen, hist, env>>
  BY DEF CheckMainPortDropped, ClientInv, RemovedIsEmpty
<1>2. CASE connection_down = 0
  <2>1. UNCHANGED <<present, port, queues>> /\ pc' = "start"
    BY <1>2 DEF CheckMainPortDropped
  <2>2. DataOK'
    <3>1. DataOK
      BY TypeParts
    <3>2. Message' = Message
      BY <1>1 DEF Message, env
    <3>3. pc' \in {"dropped", "start", "connected", "listening", "read", "app"}
      BY <2>1
    <3> QED BY <1>1, <2>1, <3>1, <3>2, <3>3, Zenon DEF DataOK, port, queues, tasks, hist, env
  <2>3. /\ Live(connectors)' = Live(connectors) /\ Live(readers)' = Live(readers)
        /\ \A i \in DOMAIN connectors : Current(connectors[i])' <=> Current(connectors[i])
    BY <1>1, <2>1 DEF Live, Current, tasks
  <2>4. TasksAreStarted' /\ RemovedIsEmpty' /\ ChargeIsOnce'
    BY <1>1, <2>1, <2>3 DEF ClientInv, TasksAreStarted, RemovedIsEmpty, ChargeIsOnce,
       port, queues, tasks
  <2>5. StreamsAreNew'
    BY <1>1, <2>1, <2>3 DEF ClientInv, StreamsAreNew, port, queues, tasks, hist, env
  <2>6. MessagesAreSorted'
    BY <1>1, <2>1, MessagesStay DEF queues, tasks, hist, env
  <2> QED BY <2>2, <2>4, <2>5, <2>6 DEF ClientInv
<1>3. CASE connection_down # 0 /\ try_reconnect
  <2>1. /\ connection_down' = connection_down - 1
        /\ ~connected' /\ ~connecting' /\ ~listening' /\ half' = 0 /\ pc' = "start"
        /\ UNCHANGED <<present, connected_to_server, message_received>>
    BY <1>3, Zenon DEF CheckMainPortDropped, PortDropped
  <2>2. /\ connection_down = 1 /\ connected_to_server = <<>>
        /\ Live(connectors) = {} /\ Live(readers) = {}
    BY <1>3 DEF ClientInv, ChargeIsOnce
  <2>3. connection_down' = 0
    BY <2>1, <2>2
  <2>4. DataOK'
    <3>1. DataOK
      BY TypeParts
    <3>2. Message' = Message
      BY <1>1 DEF Message, env
    <3>3. pc' \in {"dropped", "start", "connected", "listening", "read", "app"}
      BY <2>1
    <3>4. half' \in 0 .. Len(link) /\ last \in half' .. Len(link) /\ base \in 0 .. last
      BY <2>1, StreamsAre
    <3>5. connection_down' \in Nat
      BY <2>3
    <3> QED BY <1>1, <2>1, <3>1, <3>2, <3>3, <3>4, <3>5, Zenon DEF DataOK, tasks, hist, env
  <2>5. /\ Live(connectors)' = {} /\ Live(readers)' = {}
        /\ \A i \in DOMAIN connectors : Current(connectors[i])' <=> Current(connectors[i])
    BY <1>1, <2>1, <2>2 DEF Live, Current, tasks
  <2>6. TasksAreStarted' /\ RemovedIsEmpty' /\ ChargeIsOnce'
    <3>1. TasksAreStarted' /\ RemovedIsEmpty'
      BY <1>1, <2>1 DEF ClientInv, TasksAreStarted, RemovedIsEmpty, tasks
    <3> QED BY <2>1, <2>2, <2>3, <2>5, <3>1 DEF ChargeIsOnce
  <2>7. StreamsAreNew'
    <3>1. \A j \in DOMAIN readers : readers[j].on # half'
      <4>1. \A j \in DOMAIN readers : readers[j].on \in 1 .. Len(link)
        BY ReadersStream
      <4> QED BY <2>1, <4>1, StreamsAre
    <3> QED BY <1>1, <2>1, <2>5, <3>1 DEF ClientInv, StreamsAreNew, tasks, hist, env
  <2>8. MessagesAreSorted'
    BY <1>1, <2>1, MessagesStay DEF tasks, hist, env
  <2> QED BY <2>4, <2>6, <2>7, <2>8 DEF ClientInv
<1>4. CASE connection_down # 0 /\ ~try_reconnect
  BY <1>1, <1>4, RemoveInv DEF CheckMainPortDropped
<1> QED BY <1>2, <1>3, <1>4
LEMMA StartConnectionsInv ==
  ASSUME TypeOK, ClientInv, StartConnections
  PROVE  DataOK' /\ ClientInv'
<1>1. /\ present /\ pc' = "connected"
      /\ UNCHANGED <<present, connected, listening, half, queues, readers, gen, hist, env>>
      /\ Live(readers)' = Live(readers)
  <2>1. /\ present /\ pc' = "connected"
        /\ UNCHANGED <<present, connected, listening, half, queues, readers, gen, hist, env>>
    BY DEF StartConnections, ClientInv, RemovedIsEmpty
  <2> QED BY <2>1, TasksStay
<1>2. DataOK /\ Message' = Message
  BY <1>1, TypeParts DEF Message, env
<1>3. MessagesAreSorted' /\ RemovedIsEmpty'
  BY <1>1, MessagesStay DEF queues, hist, env, ClientInv, RemovedIsEmpty
<1>4. CASE connectors' = connectors
  <2>1. connecting => connecting'
    BY Zenon DEF StartConnections
  <2>2. /\ Live(connectors)' = Live(connectors)
        /\ \A i \in DOMAIN connectors : Current(connectors[i])' <=> Current(connectors[i])
    BY <1>1, <1>4 DEF Live, Current
  <2>3. TasksAreStarted' /\ ChargeIsOnce'
    BY <1>1, <1>4, <2>1, <2>2 DEF ClientInv, TasksAreStarted, ChargeIsOnce, queues
  <2>4. StreamsAreNew'
    BY <1>1, <1>4, <2>2 DEF ClientInv, StreamsAreNew, queues, hist, env
  <2>5. DataOK'
    <3>1. pc' \in {"dropped", "start", "connected", "listening", "read", "app"}
      BY <1>1
    <3> QED BY <1>1, <1>2, <1>4, <3>1, Zenon DEF DataOK, queues, hist, env
  <2> QED BY <1>3, <2>3, <2>4, <2>5 DEF ClientInv
<1>5. CASE connectors' # connectors
  <2> DEFINE new == [gen |-> gen, on |-> 0, at |-> "connect"]
             n   == Len(connectors) + 1
  <2>1. connectors' = Append(connectors, new) /\ ~connecting
    BY <1>5 DEF StartConnections
  <2>2. connecting'
    BY <1>5, Zenon DEF StartConnections
  <2>3. new.gen = gen /\ new.at = "connect" /\ new \in Connector
    BY StreamsAre DEF Connector
  <2> HIDE DEF new
  <2>4. /\ connectors' \in Seq(Connector)
        /\ n \notin DOMAIN connectors /\ DOMAIN connectors' = DOMAIN connectors \cup {n}
        /\ connectors'[n] = new
        /\ \A k \in DOMAIN connectors : connectors'[k] = connectors[k]
    BY <2>1, <2>3, TasksAre, Spawned
  <2> HIDE DEF n
  <2>5. /\ ~connected /\ connected_to_server = <<>> /\ connection_down = 0
        /\ Live(connectors) = {} /\ Live(readers) = {}
    BY <2>1 DEF ClientInv, ChargeIsOnce
  <2>6. \A i \in DOMAIN connectors : Current(connectors[i])' <=> Current(connectors[i])
    BY <1>1, <2>4 DEF Current
  <2>7. \A k \in Live(connectors)' : k = n
    BY <2>4, <2>5, <2>6 DEF Live
  <2>8. TasksAreStarted'
    <3>1. gen <= gen
      BY StreamsAre
    <3> QED BY <1>1, <2>3, <2>4, <3>1 DEF ClientInv, TasksAreStarted
  <2>9. ChargeIsOnce'
    <3>1. (connected <=> half # 0) /\ ~(connection_down # 0)
      BY <2>5 DEF ClientInv, ChargeIsOnce
    <3> QED BY <1>1, <2>2, <2>5, <2>7, <3>1 DEF ChargeIsOnce, queues
  <2>10. StreamsAreNew'
    BY <1>1, <2>3, <2>4, <2>6 DEF ClientInv, StreamsAreNew, queues, hist, env
  <2>11. DataOK'
    <3>1. pc' \in {"dropped", "start", "connected", "listening", "read", "app"}
      BY <1>1
    <3> QED BY <1>1, <1>2, <2>4, <3>1, Zenon DEF DataOK, queues, hist, env
  <2> QED BY <1>3, <2>8, <2>9, <2>10, <2>11 DEF ClientInv
<1> QED BY <1>4, <1>5

LEMMA CheckConnectedToMainPortInv ==
  ASSUME TypeOK, ClientInv, CheckConnectedToMainPort
  PROVE  DataOK' /\ ClientInv'
<1>1. /\ present /\ pc' = "listening"
      /\ UNCHANGED <<present, connecting, listening, connection_down, message_received,
                     tasks, gen, delivered, base, env>>
      /\ Live(connectors)' = Live(connectors) /\ Live(readers)' = Live(readers)
      /\ \A i \in DOMAIN connectors : Current(connectors[i])' <=> Current(connectors[i])
  <2>1. /\ present /\ pc' = "listening"
        /\ UNCHANGED <<present, connecting, listening, connection_down, message_received,
                       tasks, gen, delivered, base, env>>
    BY DEF CheckConnectedToMainPort, ClientInv, RemovedIsEmpty
  <2> QED BY <2>1 DEF tasks, Live, Current
<1>2. DataOK /\ Message' = Message
  BY <1>1, TypeParts DEF Message, env
<1>3. pc' \in {"dropped", "start", "connected", "listening", "read", "app"}
  BY <1>1
<1>4. CASE UNCHANGED <<connected, half, last, connected_to_server>>
  <2>1. TasksAreStarted' /\ RemovedIsEmpty' /\ ChargeIsOnce'
    BY <1>1, <1>4 DEF ClientInv, TasksAreStarted, RemovedIsEmpty, ChargeIsOnce, tasks
  <2>2. StreamsAreNew'
    BY <1>1, <1>4 DEF ClientInv, StreamsAreNew, tasks, env
  <2>3. MessagesAreSorted'
    BY <1>1, <1>4, MessagesStay DEF tasks, env
  <2>4. DataOK'
    BY <1>1, <1>2, <1>3, <1>4, Zenon DEF DataOK, tasks, env
  <2> QED BY <2>1, <2>2, <2>3, <2>4 DEF ClientInv
<1>5. CASE ~connected /\ connected_to_server # <<>>
  <2>1. /\ connected' /\ half' = Head(connected_to_server)
        /\ last' = Head(connected_to_server)
        /\ connected_to_server' = Tail(connected_to_server)
    BY <1>5 DEF CheckConnectedToMainPort
  <2>2. PICK s \in 1 .. Len(link) : s = Head(connected_to_server) /\ s > last
    <3>1. connected_to_server \in Seq(1 .. Len(link))
      BY StreamsAre
    <3>2. /\ Head(connected_to_server) = connected_to_server[1]
          /\ 1 \in DOMAIN connected_to_server
          /\ Head(connected_to_server) \in 1 .. Len(link)
      BY <1>5, <3>1
    <3> QED BY <3>2 DEF ClientInv, StreamsAreNew
  <2>3. /\ connected_to_server' = <<>> /\ connecting /\ connection_down = 0
        /\ Live(connectors) = {} /\ Live(readers) = {}
    BY <1>5, <2>1 DEF ClientInv, ChargeIsOnce
  <2>4. /\ half' = s /\ last' = s /\ s > last /\ s > base /\ s # 0
        /\ s \in Nat /\ last \in Nat /\ base \in Nat /\ Len(link) \in Nat
    BY <2>1, <2>2, StreamsAre
  <2>5. TasksAreStarted' /\ RemovedIsEmpty' /\ ChargeIsOnce'
    <3>1. TasksAreStarted' /\ RemovedIsEmpty'
      BY <1>1 DEF ClientInv, TasksAreStarted, RemovedIsEmpty, tasks
    <3> QED BY <1>1, <2>1, <2>3, <2>4, <3>1 DEF ChargeIsOnce
  <2>6. StreamsAreNew'
    <3>1. \A j \in DOMAIN readers : readers[j].on \in 1 .. s /\ readers[j].on # s
      <4> SUFFICES ASSUME NEW j \in DOMAIN readers
                   PROVE  readers[j].on \in 1 .. s /\ readers[j].on # s
        OBVIOUS
      <4>1. readers[j].on \in 1 .. Len(link) /\ readers[j].on <= last
        BY ReadersStream
      <4> QED BY <2>4, <4>1
    <3>2. \A i \in DOMAIN connectors :
            connectors[i].at \in {"tls", "send"} =>
              connectors[i].on \in 1 .. Len(link) /\ ~Current(connectors[i])
      <4>1. "tls" \notin Ended /\ "send" \notin Ended
        BY DEF Ended
      <4> QED BY <2>3, <4>1 DEF ClientInv, StreamsAreNew, Live
    <3>3. \A j \in DOMAIN readers :
            /\ readers[j].on > base <=> readers[j].gen = gen
            /\ \A k \in DOMAIN readers \ {j} : readers[k].on # readers[j].on
      BY DEF ClientInv, StreamsAreNew
    <3>4. \A k \in DOMAIN connected_to_server' : connected_to_server'[k] > s
      BY <2>3
    <3> QED BY <1>1, <2>4, <3>1, <3>2, <3>3, <3>4 DEF StreamsAreNew, tasks, env
  <2>7. MessagesAreSorted'
    <3>1. Sorted(Given, s)
      <4>1. Sorted(Given, last) /\ Given \in Seq(Nat \X Nat)
        BY GivenIs, Zenon DEF ClientInv, MessagesAreSorted, Given
      <4>2. \A k \in DOMAIN Given : Given[k][1] <= s
        <5> SUFFICES ASSUME NEW k \in DOMAIN Given PROVE Given[k][1] <= s
          OBVIOUS
        <5>1. Given[k][1] \in Nat
          BY <4>1
        <5>2. Given[k][1] <= last
          BY <4>1 DEF Sorted
        <5> QED BY <2>4, <5>1, <5>2
      <4> QED BY <4>1, <4>2 DEF Sorted
    <3>2. \A r \in s + 1 .. Len(link) : taken[r] = 0
      <4>1. \A r \in last + 1 .. Len(link) : taken[r] = 0
        BY Zenon DEF ClientInv, MessagesAreSorted
      <4> QED BY <2>4, <4>1
    <3>3. \A r : Put(r)' = Put(r)
      BY <1>1 DEF Put, tasks, env
    <3>4. /\ \A k \in DOMAIN message_received : message_received[k][1] > base
          /\ \A j \in DOMAIN readers :
               readers[j].at = "hold" => taken[readers[j].on] > 0
          /\ present => \A r \in base + 1 .. Len(link) : InOrder(Given, r, 1, Put(r))
      BY Zenon DEF ClientInv, MessagesAreSorted, Given
    <3> QED BY <1>1, <2>4, <3>1, <3>2, <3>3, <3>4, Zenon DEF MessagesAreSorted, Given,
               tasks, env
  <2>8. DataOK'
    <3>1. half' \in 0 .. Len(link) /\ last' \in half' .. Len(link) /\ base \in 0 .. last'
      BY <2>4
    <3>2. connected_to_server' \in Seq(1 .. Len(link))
      BY <2>3
    <3> QED BY <1>1, <1>2, <1>3, <3>1, <3>2, Zenon DEF DataOK, tasks, env
  <2> QED BY <2>5, <2>6, <2>7, <2>8 DEF ClientInv
<1> QED BY <1>4, <1>5 DEF CheckConnectedToMainPort

LEMMA CheckListeningToMainPortInv ==
  ASSUME TypeOK, ClientInv, Tcp!CheckListeningToMainPort \/ Ws!CheckListeningToMainPort
  PROVE  DataOK' /\ ClientInv'
<1> DEFINE new == [gen |-> gen, on |-> half, at |-> "read"]
<1>1. /\ present /\ pc' = "read"
      /\ UNCHANGED <<present, connecting, connected, half, queues, connectors, gen, hist,
                     env>>
      /\ \/ /\ readers' = Append(readers, new) /\ ~listening /\ half # 0
            /\ listening'
         \/ /\ UNCHANGED readers /\ (listening \/ half = 0)
            /\ listening => listening'
  <2>1. pc = "listening" => present
    BY DEF ClientInv, RemovedIsEmpty
  <2> QED BY <2>1, Zenon DEF Tcp!CheckListeningToMainPort, Ws!CheckListeningToMainPort,
             Tcp!queues, Ws!queues, queues, Tcp!hist, Ws!hist, hist, Tcp!env, Ws!env, env
<1>2. DataOK /\ Message' = Message
  BY <1>1, TypeParts DEF Message, env
<1>3. pc' \in {"dropped", "start", "connected", "listening", "read", "app"}
  BY <1>1
<1>4. Live(connectors)' = Live(connectors) /\ RemovedIsEmpty'
  BY <1>1 DEF Live, Current, RemovedIsEmpty
<1>5. \A i \in DOMAIN connectors : Current(connectors[i])' <=> Current(connectors[i])
  BY <1>1 DEF Current
<1>6. CASE UNCHANGED readers /\ (listening => listening') /\ (listening \/ half = 0)
  <2>1. Live(readers)' = Live(readers)
    BY <1>1, <1>6, TasksStay
  <2>2. TasksAreStarted' /\ ChargeIsOnce'
    BY <1>1, <1>4, <1>6, <2>1 DEF ClientInv, TasksAreStarted, ChargeIsOnce, queues
  <2>3. StreamsAreNew'
    BY <1>1, <1>5, <1>6 DEF ClientInv, StreamsAreNew, queues, hist, env
  <2>4. MessagesAreSorted'
    BY <1>1, <1>6, MessagesStay DEF queues, hist, env
  <2>5. DataOK'
    BY <1>1, <1>2, <1>3, <1>6, Zenon DEF DataOK, queues, hist, env
  <2> QED BY <1>4, <2>2, <2>3, <2>4, <2>5 DEF ClientInv
<1>7. CASE readers' = Append(readers, new) /\ ~listening /\ half # 0 /\ listening'
  <2> DEFINE n == Len(readers) + 1
  <2>1. new.gen = gen /\ new.on = half /\ new.at = "read" /\ new \in Reader
    BY StreamsAre DEF Reader
  <2> HIDE DEF new
  <2>2. /\ readers' \in Seq(Reader)
        /\ n \notin DOMAIN readers /\ DOMAIN readers' = DOMAIN readers \cup {n}
        /\ readers'[n] = new
        /\ \A k \in DOMAIN readers : readers'[k] = readers[k]
    BY <1>7, <2>1, TasksAre, Spawned
  <2> HIDE DEF n
  <2>3. /\ connected /\ connection_down = 0 /\ Live(readers) = {}
        /\ Live(connectors) = {} /\ connected_to_server = <<>>
    BY <1>7 DEF ClientInv, ChargeIsOnce
  <2>4. \A k \in Live(readers)' : k = n
    <3>1. \A k \in DOMAIN readers : Current(readers[k])' <=> Current(readers[k])
      BY <1>1, <2>2 DEF Current
    <3> QED BY <2>2, <2>3, <3>1 DEF Live
  <2>5. TasksAreStarted'
    <3>1. gen <= gen
      BY StreamsAre
    <3> QED BY <1>1, <2>1, <2>2, <3>1 DEF ClientInv, TasksAreStarted
  <2>6. ChargeIsOnce'
    BY <1>1, <1>4, <1>7, <2>1, <2>2, <2>3, <2>4 DEF ClientInv, ChargeIsOnce, queues
  <2>7. /\ half = last /\ half > base
        /\ \A j \in DOMAIN readers : readers[j].on # half
    BY <1>7 DEF ClientInv, StreamsAreNew
  <2>8. half \in 1 .. last
    BY <1>7, <2>7, StreamsAre
  <2>9. StreamsAreNew'
    <3>1. \A j \in DOMAIN readers' :
            /\ readers'[j].on \in 1 .. last
            /\ readers'[j].on > base <=> readers'[j].gen = gen
            /\ \A k \in DOMAIN readers' \ {j} : readers'[k].on # readers'[j].on
      BY <2>1, <2>2, <2>7, <2>8 DEF ClientInv, StreamsAreNew
    <3> QED BY <1>1, <1>5, <1>7, <3>1 DEF ClientInv, StreamsAreNew, queues, hist, env
  <2>10. MessagesAreSorted'
    <3>1. \A s : Put(s)' = Put(s)
      <4> SUFFICES ASSUME NEW s PROVE Put(s)' = Put(s)
        OBVIOUS
      <4>1. (\E j \in DOMAIN readers' : readers'[j].on = s /\ readers'[j].at = "hold")
            <=> \E j \in DOMAIN readers : readers[j].on = s /\ readers[j].at = "hold"
        BY <2>1, <2>2
      <4>2. taken' = taken
        BY <1>1 DEF env
      <4> QED BY <4>1, <4>2, Zenon DEF Put
    <3>2. \A j \in DOMAIN readers' :
            readers'[j].at = "hold" => taken[readers'[j].on] > 0
      <4>1. \A j \in DOMAIN readers : readers[j].at = "hold" => taken[readers[j].on] > 0
        BY Zenon DEF ClientInv, MessagesAreSorted
      <4> QED BY <2>1, <2>2, <4>1
    <3>3. /\ Sorted(Given, last)
          /\ \A k \in DOMAIN message_received : message_received[k][1] > base
          /\ \A s \in last + 1 .. Len(link) : taken[s] = 0
          /\ present => \A s \in base + 1 .. Len(link) : InOrder(Given, s, 1, Put(s))
      BY Zenon DEF ClientInv, MessagesAreSorted, Given
    <3> QED BY <1>1, <3>1, <3>2, <3>3, Zenon DEF MessagesAreSorted, Given, queues, hist, env
  <2>11. DataOK'
    BY <1>1, <1>2, <1>3, <2>2, Zenon DEF DataOK, queues, hist, env
  <2> QED BY <1>4, <2>5, <2>6, <2>9, <2>10, <2>11 DEF ClientInv
<1> HIDE DEF new
<1> QED BY <1>1, <1>6, <1>7

LEMMA ReadMessagesClientInv ==
  ASSUME TypeOK, ClientInv, ReadMessagesClient
  PROVE  DataOK' /\ ClientInv'
<1>1. /\ pc' = "app" /\ delivered' = Given /\ message_received' = <<>>
      /\ UNCHANGED <<present, port, connected_to_server, connection_down, tasks, gen,
                     last, base, env>>
  BY DEF ReadMessagesClient, Given
<1>2. DataOK'
  <2>1. DataOK /\ Message' = Message
    BY <1>1, TypeParts DEF Message, env
  <2>2. Given \in Seq(Message)
    BY <2>1, Behind, Zenon DEF DataOK, Given
  <2>3. <<>> \in Seq(Message)
    OBVIOUS
  <2>4. pc' \in {"dropped", "start", "connected", "listening", "read", "app"}
    BY <1>1
  <2> QED BY <1>1, <2>1, <2>2, <2>3, <2>4, Zenon DEF DataOK, port, tasks, env
<1>3. /\ Live(connectors)' = Live(connectors) /\ Live(readers)' = Live(readers)
      /\ \A i \in DOMAIN connectors : Current(connectors[i])' <=> Current(connectors[i])
  BY <1>1 DEF Live, Current, tasks
<1>4. TasksAreStarted' /\ RemovedIsEmpty' /\ ChargeIsOnce'
  BY <1>1, <1>3 DEF ClientInv, TasksAreStarted, RemovedIsEmpty, ChargeIsOnce, port, tasks
<1>5. StreamsAreNew'
  BY <1>1, <1>3 DEF ClientInv, StreamsAreNew, port, tasks, env
<1>6. MessagesAreSorted'
  <2>1. Given' = Given
    <3>1. Given \in Seq(Nat \X Nat)
      BY GivenIs
    <3>2. Given \o <<>> = Given
      BY <3>1
    <3> QED BY <1>1, <3>2 DEF Given
  <2>2. \A s : Put(s)' = Put(s)
    BY <1>1 DEF Put, tasks, env
  <2>3. \A k \in DOMAIN message_received' : message_received'[k][1] > base
    BY <1>1
  <2>4. /\ Sorted(Given, last)
        /\ \A s \in last + 1 .. Len(link) : taken[s] = 0
        /\ \A j \in DOMAIN readers :
             readers[j].at = "hold" => taken[readers[j].on] > 0
        /\ present => \A s \in base + 1 .. Len(link) : InOrder(Given, s, 1, Put(s))
    BY Zenon DEF ClientInv, MessagesAreSorted, Given
  <2> QED BY <1>1, <2>1, <2>2, <2>3, <2>4, Zenon DEF MessagesAreSorted, Given, tasks, env
<1> QED BY <1>2, <1>4, <1>5, <1>6 DEF ClientInv
\* Every variable keeps its type, and the streams, the tasks and the messages
\* are as ClientInv says.
THEOREM ClientInvariant == Spec => [](TypeOK /\ ClientInv)
<1>1. Init => TypeOK /\ ClientInv
  <2> SUFFICES ASSUME Init PROVE TypeOK /\ ClientInv
    OBVIOUS
  <2>1. /\ connectors = <<>> /\ readers = <<>> /\ link = <<>> /\ taken = <<>>
        /\ delivered = <<>> /\ message_received = <<>> /\ connected_to_server = <<>>
        /\ half = 0 /\ last = 0 /\ base = 0 /\ gen = 0 /\ connection_down = 0 /\ faults = 0
        /\ pc = "app" /\ ~present /\ ~connecting /\ ~connected /\ ~listening
    BY Zenon DEF Init
  <2>2. FlagsOK
    BY Zenon DEF Init, FlagsOK
  <2>3. DataOK
    BY <2>1 DEF DataOK
  <2>4. Live(connectors) = {} /\ Live(readers) = {}
    BY <2>1 DEF Live
  <2>5. /\ TasksAreStarted /\ RemovedIsEmpty /\ ChargeIsOnce /\ StreamsAreNew
        /\ connected <=> half # 0
    BY <2>1, <2>4 DEF TasksAreStarted, RemovedIsEmpty, ChargeIsOnce, StreamsAreNew
  <2>6. MessagesAreSorted
    <3>1. <<>> \o <<>> = <<>> /\ DOMAIN <<>> = {} /\ Len(link) = 0
      BY <2>1
    <3>2. Sorted(<<>>, 0)
      BY DEF Sorted
    <3> QED BY <2>1, <3>1, <3>2 DEF MessagesAreSorted
  <2> QED BY <2>2, <2>3, <2>5, <2>6, TypeParts DEF ClientInv
<1>2. TypeOK /\ ClientInv /\ [Next]_vars => (TypeOK /\ ClientInv)'
  <2> SUFFICES ASSUME TypeOK, ClientInv, [Next]_vars PROVE DataOK' /\ ClientInv'
    BY TypeParts, TypePartsNext, FlagsStay
  <2>1. CASE Disconnect
    BY <2>1, RemoveInv DEF Disconnect
  <2>2. CASE Systems
    BY <2>2, CheckMainPortDroppedInv, StartConnectionsInv, CheckConnectedToMainPortInv,
       CheckListeningToMainPortInv, ReadMessagesClientInv, OtherInv
       DEF Systems, FrameSystems
  <2> QED BY <2>1, <2>2, StartConnectionInv, ConnectorInv, ReaderInv, OtherInv DEF Next
<1> QED BY <1>1, <1>2, PTL DEF Spec

\* Every variable keeps its type.
THEOREM ClientTypeCorrect == Spec => []TypeOK
  BY ClientInvariant, PTL

\* The connector, its stream, a report and the reader are never there at the
\* same time: one of them answers for the connection.
THEOREM OneIsInCharge == Spec => []OneInCharge
<1>1. TypeOK /\ ClientInv => OneInCharge
  <2> SUFFICES ASSUME TypeOK, ClientInv PROVE OneInCharge
    OBVIOUS
  <2>1. /\ connection_down = 0 \/ connection_down = 1
        /\ connected_to_server \in Seq(1 .. Len(link))
    BY StreamsAre DEF ClientInv, ChargeIsOnce
  <2>2. Len(connected_to_server) = 0 \/ Len(connected_to_server) = 1
    <3>1. CASE connected_to_server # <<>>
      <4>1. Tail(connected_to_server) = <<>>
        BY <3>1 DEF ClientInv, ChargeIsOnce
      <4>2. /\ Len(connected_to_server) \in Nat
            /\ Len(Tail(connected_to_server)) = Len(connected_to_server) - 1
        BY <2>1, <3>1, HeadTailProperties
      <4>3. Len(Tail(connected_to_server)) = 0
        <5>1. Len(<<>>) = 0
          OBVIOUS
        <5> QED BY <4>1, <5>1, Zenon
      <4> QED BY <4>2, <4>3
    <3> QED BY <3>1
  <2>3. ASSUME NEW S, \A k, m \in S : k = m
        PROVE  /\ S = {} => Cardinality(S) = 0
               /\ S # {} => Cardinality(S) = 1
    <3>1. S = {} \/ \E k : S = {k}
      BY <2>3
    <3> QED BY <3>1, FS_EmptySet, FS_Singleton
  <2>4. /\ \A k, m \in Live(connectors) : k = m
        /\ \A k, m \in Live(readers) : k = m
    BY DEF ClientInv, ChargeIsOnce
  <2>5. /\ Live(connectors) = {} => Cardinality(Live(connectors)) = 0
        /\ Live(connectors) # {} => Cardinality(Live(connectors)) = 1
        /\ Live(readers) = {} => Cardinality(Live(readers)) = 0
        /\ Live(readers) # {} => Cardinality(Live(readers)) = 1
    BY <2>3, <2>4
  <2>6. CASE Live(connectors) # {}
    <3>1. /\ connected_to_server = <<>> /\ connection_down = 0 /\ Live(readers) = {}
      BY <2>6 DEF ClientInv, ChargeIsOnce
    <3> QED BY <2>5, <2>6, <3>1 DEF OneInCharge
  <2>7. CASE Live(connectors) = {} /\ connected_to_server # <<>>
    <3>1. connection_down = 0 /\ Live(readers) = {} /\ Len(connected_to_server) = 1
      BY <2>1, <2>2, <2>7 DEF ClientInv, ChargeIsOnce
    <3> QED BY <2>5, <2>7, <3>1 DEF OneInCharge
  <2>8. CASE Live(connectors) = {} /\ connected_to_server = <<>>
    <3>1. Live(readers) = {} \/ connection_down = 0
      BY DEF ClientInv, ChargeIsOnce
    <3>2. Len(connected_to_server) = 0
      BY <2>8
    <3> QED BY <2>1, <2>5, <2>8, <3>1, <3>2 DEF OneInCharge
  <2> QED BY <2>6, <2>7, <2>8
<1> QED BY <1>1, ClientInvariant, PTL

\* A reader of this connection reads the stream the port holds and writes to.
THEOREM ReadersHavePortsStream == Spec => []ReaderHasPortsStream
<1>1. ClientInv => ReaderHasPortsStream
  BY DEF ClientInv, ChargeIsOnce, ReaderHasPortsStream
<1> QED BY <1>1, ClientInvariant, PTL

\* What was given to the application, what is in the channel and what the
\* reader holds are together the messages that were read, in order, also when
\* the port was dropped and connected again in between.
THEOREM ClientMessagesInOrder == Spec => []PipelineInOrder
<1>1. TypeOK /\ ClientInv => PipelineInOrder
  <2> SUFFICES ASSUME TypeOK, ClientInv, present, NEW j \in DOMAIN readers,
                      readers[j].gen = gen
               PROVE  InOrder(Given \o Held(j), readers[j].on, 1, taken[readers[j].on])
    BY DEF PipelineInOrder, Given
  <2>1. PICK s \in 1 .. Len(link) : s = readers[j].on /\ s > base
    BY ReadersStream DEF Current
  <2>2. \A k \in DOMAIN readers : readers[k].on = s => k = j
    BY <2>1, ReadersStream
  <2>3. InOrder(Given, s, 1, Put(s))
    <3>1. s \in base + 1 .. Len(link)
      BY <2>1, StreamsAre
    <3> QED BY <3>1, Zenon DEF ClientInv, MessagesAreSorted, Given
  <2>4. Given \in Seq(Nat \X Nat) /\ taken[s] \in Nat /\ s \in Nat /\ 1 \in Nat
    BY <2>1, GivenIs, StreamsAre
  <2>5. CASE readers[j].at = "hold"
    <3>1. Held(j) = <<<<s, taken[s]>>>> /\ Put(s) = taken[s] - 1
      BY <2>1, <2>5 DEF Held, Put
    <3>2. Given \o <<<<s, taken[s]>>>> = Append(Given, <<s, taken[s]>>)
      <4> DEFINE m == <<s, taken[s]>>
      <4>1. m \in Nat \X Nat
        BY <2>4
      <4> HIDE DEF m
      <4>2. Given \o <<m>> = Append(Given, m)
        BY <2>4, <4>1, BehindOne
      <4> QED BY <4>2 DEF m
    <3>3. 1 <= taken[s]
      <4>1. taken[s] > 0
        BY <2>1, <2>5, Zenon DEF ClientInv, MessagesAreSorted
      <4> QED BY <2>4, <4>1
    <3>4. InOrder(Append(Given, <<s, taken[s]>>), s, 1, taken[s])
      BY <2>3, <2>4, <3>1, <3>3, InOrderPushed
    <3> QED BY <2>1, <3>1, <3>2, <3>4
  <2>6. CASE readers[j].at # "hold"
    <3>1. Held(j) = <<>> /\ Put(s) = taken[s]
      BY <2>1, <2>2, <2>6 DEF Held, Put
    <3>2. Given \o <<>> = Given
      BY <2>4
    <3> QED BY <2>1, <2>3, <3>1, <3>2
  <2> QED BY <2>5, <2>6
<1> QED BY <1>1, ClientInvariant, PTL
=============================================================================
