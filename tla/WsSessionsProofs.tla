-------------------------- MODULE WsSessionsProofs --------------------------
(* Theorems of WsSessions, for any set of clients and any bound.           *)
EXTENDS WsSessions, QueueLemmas

-----------------------------------------------------------------------------
(* The order of the messages, without the one that a reader holds.         *)

Last(c) == IF reader[c] = "hold" THEN taken[c] - 1 ELSE taken[c]

Order(c) ==
  /\ seen[c] <= Last(c)
  /\ InOrder(message_received, c, seen[c] + 1, Last(c))

OrderInv == Alive => \A c \in Clients : Order(c)

LEMMA MessagesAreNumbered ==
  ASSUME TypeOK
  PROVE  /\ message_received \in Seq(Clients \X Nat)
         /\ \A c \in Clients : taken[c] \in Nat /\ seen[c] \in Nat
<1>1. message_received \in Seq(Clients \X (1 .. MaxMsgs))
  BY DEF TypeOK
<1>2. Clients \X (1 .. MaxMsgs) \subseteq Clients \X Nat
  OBVIOUS
<1>3. message_received \in Seq(Clients \X Nat)
  BY <1>1, <1>2
<1> QED BY <1>3 DEF TypeOK

LEMMA OrderMeans ==
  ASSUME TypeOK, OrderInv
  PROVE  PipelineInOrder
<1> SUFFICES ASSUME Alive, NEW c \in Clients
             PROVE  InOrder(message_received \o Held(c), c, seen[c] + 1, taken[c])
  BY DEF PipelineInOrder
<1>1. /\ message_received \in Seq(Clients \X Nat)
      /\ taken[c] \in Nat /\ seen[c] \in Nat
  BY MessagesAreNumbered
<1>2. Order(c)
  BY DEF OrderInv
<1>3. CASE reader[c] = "hold"
  <2>1. message_received \o Held(c) = Append(message_received, <<c, taken[c]>>)
    BY <1>1, <1>3 DEF Held
  <2>2. /\ seen[c] + 1 <= taken[c]
        /\ InOrder(message_received, c, seen[c] + 1, taken[c] - 1)
    BY <1>1, <1>2, <1>3 DEF Order, Last
  <2> QED BY <1>1, <2>1, <2>2, InOrderPushed
<1>4. CASE reader[c] # "hold"
  <2>1. message_received \o Held(c) = message_received
    BY <1>1, <1>4 DEF Held
  <2> QED BY <1>2, <1>4, <2>1 DEF Order, Last
<1> QED BY <1>3, <1>4

-----------------------------------------------------------------------------
(* Type correctness, which rests on the order: a message that is held has a *)
(* number, and as many messages are dispatched as were read.                *)

LEMMA PeerType ==
  ASSUME TypeOK, NEW c \in Clients, PeerConnects(c) \/ PeerSends(c) \/ PeerEnds(c)
  PROVE  TypeOK'
<1> USE DEF TypeOK, tables, channels, readers, frame, peers
<1>1. CASE PeerConnects(c)
  BY <1>1 DEF PeerConnects
<1>2. CASE PeerSends(c)
  <2>1. sent' \in [Clients -> 0 .. MaxMsgs]
    BY <1>2, WsSessionsAssumption DEF PeerSends
  <2>2. \A d \in Clients : sent[d] <= sent'[d]
    BY <1>2 DEF PeerSends
  <2> QED BY <1>2, <2>1, <2>2 DEF PeerSends
<1>3. CASE PeerEnds(c)
  BY <1>3 DEF PeerEnds
<1> QED BY <1>1, <1>2, <1>3

LEMMA ReaderSet ==
  ASSUME TypeOK, NEW c \in Clients, NEW x \in {"read", "hold", "fail", "spin", "done"},
         reader' = [reader EXCEPT ![c] = x]
  PROVE  /\ reader' \in [Clients -> Live \cup {"none", "spin", "done"}]
         /\ reader'[c] = x
         /\ \A d \in Clients \ {c} : reader'[d] = reader[d]
  BY DEF TypeOK, Live

LEMMA ReaderType ==
  ASSUME TypeOK, OrderInv, NEW c \in Clients, Reader(c)
  PROVE  TypeOK'
<1> USE DEF TypeOK, tables, channels, readers, frame, peers
<1>1. CASE ReadMessage(c)
  <2>1. reader' \in [Clients -> Live \cup {"none", "spin", "done"}]
    BY <1>1, ReaderSet DEF ReadMessage
  <2>2. /\ taken' \in [Clients -> Nat]
        /\ \A d \in Clients : taken[d] <= taken'[d] /\ taken'[d] <= sent[d]
    BY <1>1 DEF ReadMessage
  <2>3. \A d \in Clients : seen'[d] <= taken'[d] /\ taken'[d] <= sent'[d]
    BY <1>1, <2>2 DEF ReadMessage
  <2> QED BY <1>1, <2>1, <2>2, <2>3 DEF ReadMessage
<1>2. CASE ReadFails(c)
  BY <1>2, ReaderSet DEF ReadFails
<1>3. CASE ReadEnds(c)
  BY <1>3, ReaderSet DEF ReadEnds
<1>4. CASE ReaderDropped(c)
  BY <1>4, ReaderSet DEF ReaderDropped
<1>5. CASE SendMessageReceived(c)
  <2>1. reader' \in [Clients -> Live \cup {"none", "spin", "done"}]
    BY <1>5, ReaderSet DEF SendMessageReceived
  <2>2. taken[c] \in 1 .. MaxMsgs
    <3>1. Order(c)
      BY <1>5 DEF OrderInv, SendMessageReceived
    <3> QED BY <1>5, <3>1, WsSessionsAssumption DEF Order, Last, SendMessageReceived
  <2>3. message_received' \in Seq(Clients \X (1 .. MaxMsgs))
    <3>1. <<c, taken[c]>> \in Clients \X (1 .. MaxMsgs)
      BY <2>2
    <3> QED BY <1>5, <3>1, Pushed DEF SendMessageReceived
  <2> QED BY <1>5, <2>1, <2>3 DEF SendMessageReceived
<1>6. CASE SendClientDisconnected(c)
  BY <1>6, ReaderSet DEF SendClientDisconnected
<1>7. CASE SendFails(c)
  BY <1>7, ReaderSet DEF SendFails
<1> QED BY <1>1, <1>2, <1>3, <1>4, <1>5, <1>6, <1>7 DEF Reader

\* What read_messages_server takes from the channel are the messages between
\* the last one seen and the last one sent to it.
LEMMA SeenNext ==
  ASSUME TypeOK, OrderInv, ReadMessagesServer
  PROVE  /\ seen' \in [Clients -> Nat]
         /\ \A c \in Clients : seen'[c] = Last(c) /\ seen'[c] <= taken[c]
<1> SUFFICES ASSUME NEW c \in Clients
             PROVE  seen'[c] \in Nat /\ seen'[c] = Last(c) /\ seen'[c] <= taken[c]
  BY DEF ReadMessagesServer
<1>1. /\ message_received \in Seq(Clients \X Nat)
      /\ taken[c] \in Nat /\ seen[c] \in Nat
  BY MessagesAreNumbered
<1>2. Order(c)
  BY DEF OrderInv, Alive, ReadMessagesServer
<1>3. Last(c) \in Nat /\ Last(c) <= taken[c]
  BY <1>1, <1>2 DEF Order, Last
<1> DEFINE n == Cardinality(Places(message_received, c))
<1>4. n = Last(c) - (seen[c] + 1) + 1
  <2>1. /\ seen[c] + 1 \in Nat /\ seen[c] + 1 <= Last(c) + 1
        /\ InOrder(message_received, c, seen[c] + 1, Last(c))
    BY <1>1, <1>2, <1>3 DEF Order
  <2> QED BY <1>1, <1>3, <2>1, InOrderCount
<1>5. seen'[c] = seen[c] + n
  BY DEF ReadMessagesServer
<1> HIDE DEF n
<1> QED BY <1>1, <1>3, <1>4, <1>5

LEMMA CheckClientsType ==
  ASSUME TypeOK, CheckClientsDisconnected
  PROVE  /\ listening_clients' \in SUBSET Clients
         /\ not_authenticated_listening' = not_authenticated_listening
         /\ listening' \in SUBSET (not_authenticated_listening' \cup listening_clients')
         /\ client_disconnected' \in Seq(Clients)
<1>1. CASE client_disconnected = <<>>
  BY <1>1 DEF TypeOK, CheckClientsDisconnected, tables
<1>2. CASE client_disconnected # <<>>
  <2>1. Tail(client_disconnected) \in Seq(Clients)
    BY <1>2, Popped DEF TypeOK
  <2> QED BY <1>2, <2>1 DEF TypeOK, CheckClientsDisconnected
<1> QED BY <1>1, <1>2

LEMMA SystemsType ==
  ASSUME TypeOK, OrderInv, Systems \/ CheckClientsConnected \/ Disconnect
  PROVE  TypeOK'
<1> USE DEF TypeOK, tables, channels, readers, frame, peers
<1>1. CASE CheckClientDisconnectedFromPort
  BY <1>1, CheckClientsType DEF CheckClientDisconnectedFromPort
<1>2. CASE CheckClientConnectedToPort
  BY <1>2, CheckClientsType DEF CheckClientConnectedToPort
<1>3. CASE StartListeningNotAuthenticated
  BY <1>3 DEF StartListeningNotAuthenticated
<1>4. CASE ReadMessagesServer
  BY <1>4, SeenNext DEF ReadMessagesServer
<1>5. CASE EndFrame
  BY <1>5 DEF EndFrame
<1>6. CASE CheckClientsConnected
  <2>1. Head(client_connected) \in Clients /\ Tail(client_connected) \in Seq(Clients)
    BY <1>6, Popped DEF CheckClientsConnected
  <2> QED BY <1>6, <2>1 DEF CheckClientsConnected
<1>7. CASE Disconnect
  BY <1>7 DEF Disconnect
<1> QED BY <1>1, <1>2, <1>3, <1>4, <1>5, <1>6, <1>7 DEF Systems

LEMMA AuthenticateType ==
  ASSUME TypeOK, NEW c \in Clients, AuthenticateClient(c)
  PROVE  TypeOK'
<1> USE DEF TypeOK, tables, channels, readers, frame, peers
<1>1. CASE c \in not_authenticated_listening
  <2>1. reader' \in [Clients -> Live \cup {"none", "spin", "done"}]
    BY <1>1, ReaderSet DEF AuthenticateClient, PortAuthenticate
  <2> QED BY <1>1, <2>1 DEF AuthenticateClient, PortAuthenticate
<1>2. CASE c \notin not_authenticated_listening
  BY <1>2 DEF AuthenticateClient
<1> QED BY <1>1, <1>2

LEMMA TypeNext ==
  ASSUME TypeOK, OrderInv, [Next]_vars
  PROVE  TypeOK'
<1>1. CASE Next
  BY <1>1, PeerType, ReaderType, SystemsType, AuthenticateType DEF Next
<1>2. CASE UNCHANGED vars
  BY <1>2 DEF TypeOK, vars, tables, channels, readers, frame, peers
<1> QED BY <1>1, <1>2

-----------------------------------------------------------------------------
(* The sessions.  The steps speak of the channels of uuids only as sets.   *)

LEMMA PeerInv ==
  ASSUME TypeOK, SessionsInv, NEW c \in Clients,
         PeerConnects(c) \/ PeerSends(c) \/ PeerEnds(c)
  PROVE  SessionsInv'
<1> USE DEF SessionsInv, WaitingIsNew, ReadersAreAdmitted, ReportsAreTrue,
            SessionIsTended, Alive, tables, channels, readers, frame, peers
<1>1. CASE PeerConnects(c)
  <2>1. /\ Range(client_connected') = Range(client_connected) \cup {c}
        /\ IsInjective(client_connected')
    <3>1. client_connected \in Seq(Clients)
      BY DEF TypeOK
    <3>2. client_connected' = Append(client_connected, c)
      BY <1>1 DEF PeerConnects
    <3>3. c \notin Range(client_connected) /\ IsInjective(client_connected)
      BY <1>1 DEF PeerConnects
    <3> QED BY <3>1, <3>2, <3>3, Pushed
  <2>2. /\ peer[c] = "idle" /\ peer'[c] = "open"
        /\ \A d \in Clients \ {c} : peer'[d] = peer[d]
    BY <1>1 DEF PeerConnects, TypeOK
  <2>3. WaitingIsNew'
    BY <1>1, <2>1, <2>2 DEF PeerConnects
  <2>4. reader' = reader /\ client_disconnected' = client_disconnected
    BY <1>1 DEF PeerConnects
  <2>5. \A d \in Clients : peer[d] \in {"broken", "closed"} => peer'[d] = peer[d]
    BY <2>2
  <2>6. ReportsAreTrue'
    <3>1. Range(client_disconnected) \subseteq Clients
      BY Entries DEF TypeOK
    <3> QED BY <2>4, <2>5, <3>1
  <2>7. SessionIsTended'
    BY <1>1, <2>4, <2>5 DEF PeerConnects, TypeOK
  <2> QED BY <1>1, <2>3, <2>6, <2>7 DEF PeerConnects
<1>2. CASE PeerSends(c)
  BY <1>2 DEF PeerSends
<1>3. CASE PeerEnds(c)
  <2>1. /\ peer[c] = "open" /\ peer'[c] # "idle"
        /\ \A d \in Clients \ {c} : peer'[d] = peer[d]
    BY <1>3 DEF PeerEnds, TypeOK
  <2>2. \A d \in Clients : peer[d] \in {"broken", "closed"} => peer'[d] = peer[d]
    BY <2>1
  <2>3. WaitingIsNew'
    BY <1>3, <2>1 DEF PeerEnds
  <2>4. ReportsAreTrue'
    <3>1. Range(client_disconnected) \subseteq Clients
      BY Entries DEF TypeOK
    <3> QED BY <1>3, <2>2, <3>1 DEF PeerEnds
  <2>5. SessionIsTended'
    BY <1>3, <2>2 DEF PeerEnds, TypeOK
  <2> QED BY <1>3, <2>3, <2>4, <2>5 DEF PeerEnds
<1> QED BY <1>1, <1>2, <1>3

\* The steps of a reader that make no report.
LEMMA ReadingInv ==
  ASSUME TypeOK, SessionsInv, NEW c \in Clients,
         \/ ReadMessage(c) \/ ReadFails(c) \/ ReadEnds(c) \/ ReaderDropped(c)
         \/ SendMessageReceived(c) \/ SendFails(c)
  PROVE  SessionsInv'
<1> USE DEF SessionsInv, WaitingIsNew, ReadersAreAdmitted, ReportsAreTrue,
            SessionIsTended, Alive, Live, tables, channels, readers, frame, peers
<1>1. /\ UNCHANGED <<client_connected, client_disconnected, tables, frame, peer,
                     unauth_readers>>
      /\ \A d \in Clients : taken'[d] > 0 => taken[d] > 0 \/ d = c
  BY DEF ReadMessage, ReadFails, ReadEnds, ReaderDropped, SendMessageReceived,
         SendFails, TypeOK
<1>2. PICK x \in {"read", "hold", "fail", "spin", "done"} :
        reader' = [reader EXCEPT ![c] = x]
  BY DEF ReadMessage, ReadFails, ReadEnds, ReaderDropped, SendMessageReceived,
         SendFails
<1>3. /\ reader'[c] = x
      /\ \A d \in Clients \ {c} : reader'[d] = reader[d]
  BY <1>2, ReaderSet
<1>4. /\ reader[c] \in {"read", "hold", "fail"}
      /\ x = "fail" => peer[c] = "broken"
      /\ x = "spin" => peer[c] = "closed"
      /\ x = "done" => ~Alive
  BY <1>2, <1>3 DEF ReadMessage, ReadFails, ReadEnds, ReaderDropped,
         SendMessageReceived, SendFails, TypeOK
<1>5. WaitingIsNew'
  BY <1>1
<1>6. ReadersAreAdmitted'
  BY <1>1, <1>3, <1>4
<1>7. ReportsAreTrue'
  <2>1. Range(client_disconnected) \subseteq Clients
    BY Entries DEF TypeOK
  <2> QED BY <1>1, <1>3, <1>4, <2>1
<1>8. SessionIsTended'
  <2>1. /\ clients_connected' = clients_connected /\ clients_connected \subseteq Clients
        /\ listening_clients' = listening_clients /\ peer' = peer /\ pc' = pc
        /\ client_disconnected' = client_disconnected
    BY <1>1 DEF TypeOK
  <2>2. \A d \in Clients : reader[d] = "spin" => reader'[d] = "spin"
    BY <1>3, <1>4
  <2>3. \A d \in Clients : reader[d] \in Live =>
          reader'[d] \in Live \/ (reader'[d] = "spin" /\ peer[d] = "closed") \/ ~Alive
    BY <1>3, <1>4
  <2> HIDE DEF Live
  <2> QED BY <2>1, <2>2, <2>3
<1> QED BY <1>5, <1>6, <1>7, <1>8

\* A place in client_disconnected, as SessionIsTended has it.
Reported(c) == \E k \in DOMAIN client_disconnected : client_disconnected[k] = c

LEMMA ReportedMeans ==
  ASSUME NEW c
  PROVE  Reported(c) <=> c \in Range(client_disconnected)
  BY DEF Reported, Range

LEMMA ReportInv ==
  ASSUME TypeOK, SessionsInv, NEW c \in Clients, SendClientDisconnected(c)
  PROVE  SessionsInv'
<1> USE DEF SessionsInv, WaitingIsNew, ReadersAreAdmitted, ReportsAreTrue, Alive,
            Live, SendClientDisconnected, tables, readers, frame, peers
<1>1. /\ reader[c] = "fail" /\ reader'[c] = "spin"
      /\ \A d \in Clients \ {c} : reader'[d] = reader[d]
  BY ReaderSet
<1>2. Range(client_disconnected') = Range(client_disconnected) \cup {c}
  <2>1. client_disconnected \in Seq(Clients)
    BY DEF TypeOK
  <2> QED BY <2>1, Pushed
<1>3. Range(client_disconnected) \subseteq Clients
  BY Entries DEF TypeOK
<1>4. WaitingIsNew' /\ ReadersAreAdmitted'
  BY <1>1
<1>5. ReportsAreTrue'
  BY <1>1, <1>2, <1>3
<1>6. \A d : Reported(d)' <=> Reported(d) \/ d = c
  <2>1. \A d : Reported(d)' <=> d \in Range(client_disconnected')
    BY DEF Reported, Range
  <2> QED BY <1>2, <2>1, ReportedMeans
<1>7. SessionIsTended'
  <2>1. /\ clients_connected' = clients_connected /\ clients_connected \subseteq Clients
        /\ listening_clients' = listening_clients /\ peer' = peer /\ pc' = pc
    BY DEF TypeOK
  <2>2. SessionIsTended <=>
          (Alive => \A d \in clients_connected :
             IF d \in listening_clients
             THEN \/ reader[d] \in Live
                  \/ reader[d] = "spin" /\ Reported(d)
                  \/ reader[d] = "spin" /\ peer[d] = "closed"
             ELSE reader[d] = "spin" /\ peer[d] = "broken")
    BY DEF SessionIsTended, Reported
  <2>3. SessionIsTended' <=>
          (Alive' => \A d \in clients_connected' :
             IF d \in listening_clients'
             THEN \/ reader'[d] \in Live
                  \/ reader'[d] = "spin" /\ Reported(d)'
                  \/ reader'[d] = "spin" /\ peer'[d] = "closed"
             ELSE reader'[d] = "spin" /\ peer'[d] = "broken")
    BY DEF SessionIsTended, Reported
  <2> QED BY <1>1, <1>6, <2>1, <2>2, <2>3
<1> QED BY <1>4, <1>5, <1>7

LEMMA ReaderInv ==
  ASSUME TypeOK, SessionsInv, NEW c \in Clients, Reader(c)
  PROVE  SessionsInv'
  BY ReadingInv, ReportInv DEF Reader

\* One report taken off client_disconnected.
LEMMA CheckClientsInv ==
  ASSUME TypeOK, SessionsInv, Alive, Alive', CheckClientsDisconnected,
         UNCHANGED <<client_connected, reader, unauth_readers, clients_connected,
                     known, peer, taken>>
  PROVE  SessionsInv'
<1> USE DEF SessionsInv, WaitingIsNew, ReadersAreAdmitted, ReportsAreTrue,
            SessionIsTended, Live, tables
<1>1. CASE client_disconnected = <<>>
  BY <1>1 DEF CheckClientsDisconnected
<1>2. CASE client_disconnected # <<>>
  <2>1. PICK d \in Clients : d = Head(client_disconnected)
    BY <1>2, Popped DEF TypeOK
  <2>2. Range(client_disconnected) = {d} \cup Range(client_disconnected')
    BY <1>2, <2>1, Popped DEF TypeOK, CheckClientsDisconnected
  <2>3. \A c : Reported(c) => Reported(c)' \/ c = d
    <3>1. \A c : Reported(c)' <=> c \in Range(client_disconnected')
      BY DEF Reported, Range
    <3> QED BY <2>2, <3>1, ReportedMeans
  <2>4. /\ listening_clients' = listening_clients \ {d}
        /\ not_authenticated_listening' = not_authenticated_listening
    BY <1>2, <2>1 DEF CheckClientsDisconnected
  <2>5. reader[d] = "spin" /\ peer[d] = "broken"
    BY <2>2
  <2>6. WaitingIsNew' /\ ReadersAreAdmitted' /\ ReportsAreTrue'
    BY <2>2, <2>4
  <2>7. SessionIsTended'
    BY <2>3, <2>4, <2>5 DEF Reported
  <2> QED BY <2>6, <2>7
<1> QED BY <1>1, <1>2

LEMMA SystemsInv ==
  ASSUME TypeOK, SessionsInv, Systems \/ CheckClientsConnected \/ Disconnect
  PROVE  SessionsInv'
<1> USE DEF SessionsInv, WaitingIsNew, ReadersAreAdmitted, ReportsAreTrue,
            SessionIsTended, Alive, Live, tables, channels, readers, frame, peers
<1>1. CASE CheckClientDisconnectedFromPort
  BY <1>1, CheckClientsInv DEF CheckClientDisconnectedFromPort
<1>2. CASE CheckClientConnectedToPort
  BY <1>2, CheckClientsInv DEF CheckClientConnectedToPort
<1>3. CASE StartListeningNotAuthenticated
  <2>1. unauth_readers' = {}
    BY <1>3 DEF StartListeningNotAuthenticated, Found
  <2> QED BY <1>3, <2>1 DEF StartListeningNotAuthenticated
<1>4. CASE ReadMessagesServer
  BY <1>4 DEF ReadMessagesServer
<1>5. CASE EndFrame
  BY <1>5 DEF EndFrame
<1>6. CASE CheckClientsConnected
  <2>1. PICK c \in Clients : c = Head(client_connected)
    BY <1>6, Popped DEF TypeOK, CheckClientsConnected
  <2>2. /\ Range(client_connected) = {c} \cup Range(client_connected')
        /\ c \notin Range(client_connected')
        /\ IsInjective(client_connected')
    BY <1>6, <2>1, Popped DEF TypeOK, CheckClientsConnected
  <2>3. c \notin known /\ c \notin clients_connected /\ peer[c] # "idle"
    BY <2>2 DEF TypeOK
  <2>4. /\ known' = known \cup {c}
        /\ not_authenticated_listening' = not_authenticated_listening \cup {c}
        /\ UNCHANGED <<workers, listening_clients, listening, client_disconnected,
                       message_received, readers, clients_connected, pc, peers>>
    BY <1>6, <2>1 DEF CheckClientsConnected
  <2>5. WaitingIsNew'
    BY <2>2, <2>3, <2>4
  <2>6. ReadersAreAdmitted'
    BY <2>3, <2>4
  <2>7. ReportsAreTrue' /\ SessionIsTended'
    BY <2>4
  <2> QED BY <2>5, <2>6, <2>7
<1>7. CASE Disconnect
  <2>1. Range(client_connected') = {} /\ Range(client_disconnected') = {}
    BY <1>7, Emptied DEF Disconnect
  <2>2. IsInjective(client_connected')
    BY <1>7, Emptied DEF Disconnect
  <2> QED BY <1>7, <2>1, <2>2 DEF Disconnect
<1> QED BY <1>1, <1>2, <1>3, <1>4, <1>5, <1>6, <1>7 DEF Systems

LEMMA AuthenticateInv ==
  ASSUME TypeOK, SessionsInv, NEW c \in Clients, AuthenticateClient(c)
  PROVE  SessionsInv'
<1> USE DEF SessionsInv, WaitingIsNew, ReadersAreAdmitted, ReportsAreTrue,
            SessionIsTended, Alive, Live, channels, frame, peers
<1>1. /\ c \in not_authenticated_listening /\ c \in known
      /\ c \notin clients_connected /\ reader[c] = "none"
  BY DEF AuthenticateClient
<1>2. /\ reader'[c] = "read"
      /\ \A d \in Clients \ {c} : reader'[d] = reader[d]
  BY <1>1, ReaderSet DEF AuthenticateClient, PortAuthenticate
<1>3. /\ not_authenticated_listening' = not_authenticated_listening \ {c}
      /\ listening_clients' = listening_clients \cup {c}
      /\ clients_connected' = clients_connected \cup {c}
      /\ UNCHANGED <<channels, unauth_readers, pc, known, peers>>
  BY <1>1 DEF AuthenticateClient, PortAuthenticate
<1>4. WaitingIsNew'
  BY <1>3
<1>5. ReadersAreAdmitted'
  <2>1. \A d \in Clients : reader'[d] # "none" <=> reader[d] # "none" \/ d = c
    BY <1>2
  <2>2. \A d \in Clients : reader'[d] = "done" => reader[d] = "done"
    BY <1>2
  <2>3. Alive
    BY DEF AuthenticateClient
  <2> QED BY <1>3, <2>1, <2>2, <2>3 DEF TypeOK
<1>6. Range(client_disconnected) \subseteq Clients
  BY Entries DEF TypeOK
<1>7. ReportsAreTrue'
  BY <1>1, <1>2, <1>3, <1>6
<1>8. SessionIsTended'
  BY <1>1, <1>2, <1>3 DEF TypeOK
<1> QED BY <1>4, <1>5, <1>7, <1>8

LEMMA SessionsNext ==
  ASSUME TypeOK, SessionsInv, [Next]_vars
  PROVE  SessionsInv'
<1>1. CASE Next
  BY <1>1, PeerInv, ReaderInv, SystemsInv, AuthenticateInv DEF Next
<1>2. CASE UNCHANGED vars
  BY <1>2 DEF SessionsInv, WaitingIsNew, ReadersAreAdmitted, ReportsAreTrue,
     SessionIsTended, Alive, vars, tables, channels, readers, frame, peers
<1> QED BY <1>1, <1>2

-----------------------------------------------------------------------------
(* The order of the messages.                                              *)

\* A step that changes neither the channel nor the numbers.
LEMMA OrderKept ==
  ASSUME OrderInv, Alive' => Alive,
         UNCHANGED <<message_received, seen>>,
         \A c \in Clients : Last(c)' = Last(c)
  PROVE  OrderInv'
  BY DEF OrderInv, Order

LEMMA OrderSent ==
  ASSUME TypeOK, OrderInv, NEW c \in Clients, SendMessageReceived(c)
  PROVE  OrderInv'
<1> SUFFICES ASSUME NEW d \in Clients PROVE Order(d)'
  BY DEF OrderInv
<1>1. Alive /\ Order(d) /\ Order(c)
  BY DEF SendMessageReceived, OrderInv
<1>2. /\ message_received \in Seq(Clients \X Nat)
      /\ taken[c] \in Nat /\ seen[c] \in Nat /\ taken[d] \in Nat /\ seen[d] \in Nat
  BY MessagesAreNumbered
<1>3. /\ reader[c] = "hold"
      /\ message_received' = Append(message_received, <<c, taken[c]>>)
      /\ taken' = taken /\ seen' = seen
  BY DEF SendMessageReceived, peers
<1>4. /\ reader'[c] = "read"
      /\ \A e \in Clients \ {c} : reader'[e] = reader[e]
  BY ReaderSet DEF SendMessageReceived
<1>5. CASE d = c
  <2>1. Last(c) = taken[c] - 1 /\ Last(c)' = taken[c]
    BY <1>3, <1>4 DEF Last
  <2>2. seen[c] + 1 <= taken[c]
    BY <1>1, <1>2, <2>1 DEF Order
  <2>3. InOrder(message_received', c, seen[c] + 1, taken[c])
    <3>1. InOrder(message_received, c, seen[c] + 1, taken[c] - 1)
      BY <1>1, <2>1 DEF Order
    <3> QED BY <1>2, <1>3, <2>2, <3>1, InOrderPushed
  <2> QED BY <1>2, <1>3, <1>5, <2>1, <2>2, <2>3 DEF Order
<1>6. CASE d # c
  <2>1. Last(d)' = Last(d) /\ Last(d) \in Int
    BY <1>2, <1>3, <1>4, <1>6 DEF Last
  <2>2. InOrder(message_received', d, seen[d] + 1, Last(d))
    <3>1. InOrder(message_received, d, seen[d] + 1, Last(d))
      BY <1>1 DEF Order
    <3>2. c \in Clients \ {d} /\ seen[d] + 1 \in Int
      BY <1>2, <1>6
    <3> QED BY <1>2, <1>3, <2>1, <3>1, <3>2, InOrderPushedOther
  <2> QED BY <1>1, <1>3, <2>1, <2>2 DEF Order
<1> QED BY <1>5, <1>6

LEMMA OrderRead ==
  ASSUME TypeOK, OrderInv, ReadMessagesServer
  PROVE  OrderInv'
<1> SUFFICES ASSUME NEW c \in Clients PROVE Order(c)'
  BY DEF OrderInv
<1>1. seen'[c] = Last(c) /\ seen'[c] \in Nat
  BY SeenNext
<1>2. Last(c)' = Last(c) /\ message_received' = <<>>
  BY DEF ReadMessagesServer, Last, readers, peers
<1>3. InOrder(<<>>, c, seen'[c] + 1, seen'[c])
  BY <1>1, InOrderEmpty
<1> QED BY <1>1, <1>2, <1>3 DEF Order

LEMMA OrderNext ==
  ASSUME TypeOK, SessionsInv, OrderInv, [Next]_vars
  PROVE  OrderInv'
<1> USE DEF tables, channels, readers, frame, peers
<1>1. CASE \E c \in Clients : PeerConnects(c) \/ PeerSends(c) \/ PeerEnds(c)
  BY <1>1, OrderKept DEF PeerConnects, PeerSends, PeerEnds, Last, Alive
<1>2. ASSUME NEW c \in Clients, Reader(c) PROVE OrderInv'
  <2>1. CASE ReadMessage(c)
    <3>1. /\ reader[c] = "read" /\ reader'[c] = "hold"
          /\ \A d \in Clients \ {c} : reader'[d] = reader[d]
      BY <2>1, ReaderSet DEF ReadMessage
    <3>2. /\ taken'[c] = taken[c] + 1 /\ taken[c] \in Nat
          /\ \A d \in Clients \ {c} : taken'[d] = taken[d]
      BY <2>1 DEF ReadMessage, TypeOK
    <3>3. \A d \in Clients : Last(d)' = Last(d)
      BY <3>1, <3>2 DEF Last
    <3> QED BY <2>1, <3>3, OrderKept DEF ReadMessage, Alive
  <2>2. CASE SendMessageReceived(c)
    BY <2>2, OrderSent
  <2>3. CASE ReadFails(c) \/ ReadEnds(c) \/ SendClientDisconnected(c)
    <3>1. \A d \in Clients : reader[d] # "hold" <=> reader'[d] # "hold"
      BY <2>3, ReaderSet DEF ReadFails, ReadEnds, SendClientDisconnected
    <3>2. \A d \in Clients : Last(d)' = Last(d)
      BY <2>3, <3>1 DEF Last, ReadFails, ReadEnds, SendClientDisconnected
    <3> QED BY <2>3, <3>2, OrderKept
            DEF ReadFails, ReadEnds, SendClientDisconnected, Alive
  <2>4. CASE ReaderDropped(c) \/ SendFails(c)
    BY <2>4 DEF ReaderDropped, SendFails, OrderInv, Alive
  <2> QED BY <1>2, <2>1, <2>2, <2>3, <2>4 DEF Reader
<1>3. CASE \/ CheckClientDisconnectedFromPort \/ CheckClientConnectedToPort
           \/ StartListeningNotAuthenticated \/ EndFrame \/ CheckClientsConnected
  <2>1. /\ UNCHANGED <<message_received, seen, reader, taken>>
        /\ Alive
    BY <1>3 DEF CheckClientDisconnectedFromPort, CheckClientConnectedToPort,
       StartListeningNotAuthenticated, EndFrame, CheckClientsConnected, Alive
  <2> QED BY <2>1, OrderKept DEF Last
<1>4. CASE ReadMessagesServer
  BY <1>4, OrderRead
<1>5. CASE Disconnect
  BY <1>5 DEF Disconnect, OrderInv, Alive
<1>6. ASSUME NEW c \in Clients, AuthenticateClient(c) PROVE OrderInv'
  <2>1. CASE c \in not_authenticated_listening
    <3>1. reader[c] = "none"
      BY <1>6, <2>1 DEF AuthenticateClient, SessionsInv, ReadersAreAdmitted, Alive
    <3>2. /\ reader'[c] = "read"
          /\ \A d \in Clients \ {c} : reader'[d] = reader[d]
      BY <1>6, <2>1, ReaderSet DEF AuthenticateClient, PortAuthenticate
    <3>3. \A d \in Clients : Last(d)' = Last(d)
      BY <1>6, <3>1, <3>2 DEF AuthenticateClient, Last
    <3> QED BY <1>6, <3>3, OrderKept DEF AuthenticateClient, Alive
  <2>2. CASE c \notin not_authenticated_listening
    BY <1>6, <2>2, OrderKept DEF AuthenticateClient, Last, Alive
  <2> QED BY <2>1, <2>2
<1>7. CASE UNCHANGED vars
  BY <1>7, OrderKept DEF vars, Last, Alive
<1> QED BY <1>1, <1>2, <1>3, <1>4, <1>5, <1>6, <1>7 DEF Next, Systems

-----------------------------------------------------------------------------
(* The theorems.                                                           *)

\* Types, sessions and the order of the messages are one inductive invariant:
\* the type of a message rests on the order, the order on the admission of
\* every session happening once.
THEOREM WsInvariant == Spec => [](TypeOK /\ SessionsInv /\ OrderInv)
<1>1. Init => TypeOK
  BY WsSessionsAssumption DEF Init, TypeOK
<1>2. Init => SessionsInv
  BY Emptied DEF Init, SessionsInv, WaitingIsNew, ReadersAreAdmitted,
     ReportsAreTrue, SessionIsTended
<1>3. Init => OrderInv
  <2>1. \A c \in Clients : InOrder(<<>>, c, 0 + 1, 0)
    BY InOrderEmpty
  <2> QED BY <2>1 DEF Init, OrderInv, Order, Last
<1>4. TypeOK /\ SessionsInv /\ OrderInv /\ [Next]_vars
        => (TypeOK /\ SessionsInv /\ OrderInv)'
  BY TypeNext, SessionsNext, OrderNext
<1> QED BY <1>1, <1>2, <1>3, <1>4, PTL DEF Spec

\* Every variable of a WebSocket server keeps its type.
THEOREM WsTypeCorrect == Spec => []TypeOK
  BY WsInvariant, PTL

\* Every message read from a WebSocket is dispatched once and in order.
THEOREM WsMessagesInOrder == Spec => []PipelineInOrder
<1>1. TypeOK /\ OrderInv => PipelineInOrder
  BY OrderMeans
<1> QED BY <1>1, WsInvariant, PTL

\* An admitted session is in the table exactly while it can be sent to, but
\* for the one whose peer has closed the WebSocket.
THEOREM WsSessionsAreTended == Spec => []SessionIsTended
<1>1. SessionsInv => SessionIsTended
  BY DEF SessionsInv
<1> QED BY <1>1, WsInvariant, PTL
=============================================================================
