------------------------ MODULE ServerSessionsProofs ------------------------
(* Theorems of ServerSessions, for any set of clients and any bounds.      *)
EXTENDS ServerSessions, QueueLemmas

\* Setting the state of one reader.
LEMMA ReaderSet ==
  ASSUME NEW f \in [Clients -> [Roles -> States]],
         NEW c \in Clients, NEW r \in Roles, NEW x \in States
  PROVE  [f EXCEPT ![c][r] = x] \in [Clients -> [Roles -> States]]
  OBVIOUS

\* Counting one more.
LEMMA Counted ==
  ASSUME NEW f \in [Clients -> Nat], NEW c \in Clients
  PROVE  [f EXCEPT ![c] = @ + 1] \in [Clients -> Nat]
  OBVIOUS

LEMMA StatesAre ==
  /\ {"none", "lock", "drain", "read", "hold", "fail", "done",
      "panicked"} \subseteq States
  /\ "unauth" \in Roles /\ "auth" \in Roles
  BY DEF States, Ended, Live, Holding, Roles

-----------------------------------------------------------------------------
(* Type correctness.                                                       *)

LEMMA PeerType ==
  ASSUME TypeOK, NEW c \in Clients, Peer(c)
  PROVE  TypeOK'
<1> USE DEF TypeOK, tables, channels, frame, peers, history
<1>1. CASE PeerConnects(c)
  BY <1>1 DEF PeerConnects
<1>2. CASE PeerSends(c)
  <2>1. PICK k \in Kinds : sent' = [sent EXCEPT ![c] = Append(@, k)]
    BY <1>2 DEF PeerSends
  <2>2. sent \in [Clients -> Seq(Kinds)] /\ taken \in [Clients -> Nat]
    OBVIOUS
  <2>3. sent' \in [Clients -> Seq(Kinds)]
    BY <2>1, <2>2
  <2>4. \A d \in Clients : taken[d] <= Len(sent'[d])
    <3> TAKE d \in Clients
    <3>1. taken[d] <= Len(sent[d]) /\ taken[d] \in Nat /\ sent[d] \in Seq(Kinds)
      BY <2>2
    <3>2. sent'[d] = sent[d] \/ sent'[d] = Append(sent[d], k)
      BY <2>1, <2>2
    <3> QED BY <3>1, <3>2
  <2> QED BY <1>2, <2>3, <2>4 DEF PeerSends
<1>3. CASE PeerCloses(c)
  BY <1>3 DEF PeerCloses
<1> QED BY <1>1, <1>2, <1>3 DEF Peer

LEMMA ReaderType ==
  ASSUME TypeOK, NEW c \in Clients, NEW r \in Roles,
         Reader(c, r) \/ ReadPanics(c, r)
  PROVE  TypeOK'
<1> USE StatesAre DEF TypeOK, tables, channels, frame, peers, history
<1>1. CASE LockReadHalf(c, r)
  BY <1>1, ReaderSet DEF LockReadHalf
<1>2. CASE StopUnauthReader(c)
  <2>1. client_authenticated' \in Seq(Clients)
    BY <1>2, Dropped DEF StopUnauthReader
  <2>2. reader' \in [Clients -> [Roles -> States]]
    BY <1>2, ReaderSet DEF StopUnauthReader
  <2> QED BY <1>2, <2>1, <2>2 DEF StopUnauthReader
<1>3. CASE DrainAnnounced(c)
  <2>1. reader' \in [Clients -> [Roles -> States]]
    BY <1>3 DEF DrainAnnounced
  <2>2. client_authenticated' \in Seq(Clients)
    BY <1>3 DEF DrainAnnounced
  <2> QED BY <1>3, <2>1, <2>2 DEF DrainAnnounced
<1>4. CASE ReadMessage(c, r)
  <2>1. reader' \in [Clients -> [Roles -> States]]
    BY <1>4, ReaderSet DEF ReadMessage
  <2>2. taken' \in [Clients -> Nat]
    BY <1>4, Counted DEF ReadMessage
  <2>3. \A d \in Clients : taken'[d] <= Len(sent[d])
    <3> TAKE d \in Clients
    <3>1. /\ taken[d] \in Nat /\ sent[d] \in Seq(Kinds) /\ taken[d] <= Len(sent[d])
          /\ taken[c] < Len(sent[c])
      BY <1>4 DEF ReadMessage
    <3>2. taken'[d] = IF d = c THEN taken[d] + 1 ELSE taken[d]
      BY <1>4 DEF ReadMessage
    <3> QED BY <3>1, <3>2
  <2> QED BY <1>4, <2>1, <2>2, <2>3 DEF ReadMessage
<1>5. CASE ReadFails(c, r)
  BY <1>5, ReaderSet DEF ReadFails
<1>6. CASE SendMessageReceived(c, r)
  <2>1. reader' \in [Clients -> [Roles -> States]]
    BY <1>6, ReaderSet DEF SendMessageReceived
  <2>2. <<c, taken[c]>> \in Message
    BY DEF Message
  <2>3. message_received' \in Seq(Message)
    BY <1>6, <2>2 DEF SendMessageReceived
  <2> QED BY <1>6, <2>1, <2>3 DEF SendMessageReceived
<1>7. CASE SendClientDisconnected(c, r)
  <2>1. reader' \in [Clients -> [Roles -> States]]
    BY <1>7, ReaderSet DEF SendClientDisconnected
  <2>2. client_disconnected' \in Seq(Report)
    BY <1>7 DEF SendClientDisconnected, Report
  <2> QED BY <1>7, <2>1, <2>2 DEF SendClientDisconnected
<1>8. CASE SendFails(c, r)
  BY <1>8, ReaderSet DEF SendFails
<1>9. CASE ReadPanics(c, r)
  BY <1>9, ReaderSet DEF ReadPanics
<1> QED BY <1>1, <1>2, <1>3, <1>4, <1>5, <1>6, <1>7, <1>8, <1>9 DEF Reader

LEMMA CheckClientsType ==
  ASSUME TypeOK, CheckClientsDisconnected
  PROVE  /\ not_authenticated_listening' \in SUBSET Clients
         /\ listening_clients' \in SUBSET Clients
         /\ listening' \in SUBSET Clients
         /\ client_disconnected' \in Seq(Report)
<1>1. CASE client_disconnected = <<>>
  BY <1>1 DEF TypeOK, CheckClientsDisconnected, tables
<1>2. CASE client_disconnected # <<>>
  <2>1. Tail(client_disconnected) \in Seq(Report)
    BY <1>2, Popped DEF TypeOK
  <2> QED BY <1>2, <2>1 DEF TypeOK, CheckClientsDisconnected
<1> QED BY <1>1, <1>2

LEMMA PortAuthenticateType ==
  ASSUME TypeOK, NEW c \in Clients, PortAuthenticate(c)
  PROVE  /\ not_authenticated_listening' \in SUBSET Clients
         /\ listening_clients' \in SUBSET Clients
         /\ listening' \in SUBSET Clients
         /\ client_authenticated' \in Seq(Clients)
         /\ reader' \in [Clients -> [Roles -> States]]
<1>1. [reader EXCEPT ![c]["auth"] = "lock"] \in [Clients -> [Roles -> States]]
  BY StatesAre, ReaderSet DEF TypeOK
<1>2. CASE c \in not_authenticated_listening
  <2>1. reader' \in [Clients -> [Roles -> States]]
    BY <1>1, <1>2 DEF PortAuthenticate
  <2>2. client_authenticated' \in Seq(Clients)
    <3>1. client_authenticated \in Seq(Clients)
      BY DEF TypeOK
    <3>2. client_authenticated' = Append(client_authenticated, c)
      BY <1>2 DEF PortAuthenticate
    <3> QED BY <3>1, <3>2
  <2> QED BY <1>2, <2>1, <2>2 DEF TypeOK, PortAuthenticate
<1>3. CASE c \notin not_authenticated_listening
  BY <1>3 DEF TypeOK, PortAuthenticate, tables
<1> QED BY <1>2, <1>3

LEMMA SystemsType ==
  ASSUME TypeOK, Systems \/ CheckClientsConnected \/ EndFrame \/ Disconnect
  PROVE  TypeOK'
<1> USE StatesAre DEF TypeOK, tables, channels, frame, peers, history
<1>1. CASE CheckClientDisconnectedFromPort
  BY <1>1, CheckClientsType DEF CheckClientDisconnectedFromPort
<1>2. CASE CheckClientConnectedToPort
  BY <1>2, CheckClientsType DEF CheckClientConnectedToPort
<1>3. CASE StartListeningNotAuthenticated
  BY <1>3 DEF StartListeningNotAuthenticated
<1>4. CASE CheckMessagesReceived
  BY <1>4 DEF CheckMessagesReceived
<1>5. CASE ReadMessagesServer
  <2>0. Head(batch) \in Message
    BY <1>5, Popped DEF ReadMessagesServer
  <2>1. Head(batch)[1] \in Clients /\ Head(batch)[2] \in Nat
    BY <2>0 DEF Message
  <2>2. /\ batch' \in Seq(Message)
        /\ events' \in Seq(Message)
    BY <1>5, Popped DEF ReadMessagesServer
  <2>3. seen' \in [Clients -> Nat]
    BY <1>5, <2>1, Counted DEF ReadMessagesServer
  <2>4. delivered' \in [Clients -> SUBSET Nat]
    <3> DEFINE c == Head(batch)[1]
               D == IF KindOf(Head(batch)) = "data" /\ c \in clients_connected
                    THEN delivered[c] \cup {Head(batch)[2]} ELSE delivered[c]
    <3>1. delivered' = [delivered EXCEPT ![c] = D]
      BY <1>5 DEF ReadMessagesServer
    <3>2. D \in SUBSET Nat
      BY <2>1
    <3> HIDE DEF D, c
    <3> QED BY <3>1, <3>2
  <2> QED BY <1>5, <2>2, <2>3, <2>4 DEF ReadMessagesServer
<1>6. CASE ReadMessagesServerEnd
  BY <1>6 DEF ReadMessagesServerEnd
<1>7. CASE AuthenticationMessageServer
  <2>1. Head(events) \in Message /\ events' \in Seq(Message)
    BY <1>7, Popped DEF AuthenticationMessageServer
  <2>2. PICK c \in Clients : c = Head(events)[1]
    BY <2>1 DEF Message
  <2>3. PortAuthenticate(c) \/ UNCHANGED <<tables, reader, client_authenticated>>
    BY <1>7, <2>2 DEF AuthenticationMessageServer
  <2>4. \/ replies' = replies
        \/ replies' = [replies EXCEPT ![c] = @ + 1]
    BY <1>7, <2>2 DEF AuthenticationMessageServer
  <2>5. replies' \in [Clients -> Nat]
    <3>1. replies \in [Clients -> Nat]
      OBVIOUS
    <3>2. [replies EXCEPT ![c] = @ + 1] \in [Clients -> Nat]
      BY <3>1, Counted
    <3> QED BY <2>4, <3>1, <3>2
  <2>6. clients_connected' \in SUBSET Clients
    BY <1>7, <2>2 DEF AuthenticationMessageServer
  <2> QED BY <1>7, <2>1, <2>3, <2>5, <2>6, PortAuthenticateType
          DEF AuthenticationMessageServer
<1>8. CASE AuthenticationMessageServerEnd
  BY <1>8 DEF AuthenticationMessageServerEnd
<1>9. CASE CheckClientsConnected
  <2>1. Head(client_connected) \in Clients /\ client_connected' \in Seq(Clients)
    BY <1>9, Popped DEF CheckClientsConnected
  <2> QED BY <1>9, <2>1 DEF CheckClientsConnected
<1>10. CASE EndFrame
  BY <1>10 DEF EndFrame
<1>11. CASE Disconnect
  BY <1>11 DEF Disconnect
<1> QED BY <1>1, <1>2, <1>3, <1>4, <1>5, <1>6, <1>7, <1>8, <1>9, <1>10, <1>11
        DEF Systems

\* Every variable keeps its type.
THEOREM TypeCorrect == Spec => []TypeOK
<1>1. Init => TypeOK
  BY StatesAre DEF Init, TypeOK
<1>2. TypeOK /\ [Next]_vars => TypeOK'
  <2> SUFFICES ASSUME TypeOK, [Next]_vars PROVE TypeOK'
    OBVIOUS
  <2>1. CASE Next
    BY <2>1, PeerType, ReaderType, SystemsType DEF Next
  <2>2. CASE UNCHANGED vars
    BY <2>2 DEF TypeOK, vars, tables, channels, frame, peers, history
  <2> QED BY <2>1, <2>2
<1> QED BY <1>1, <1>2, PTL DEF Spec

-----------------------------------------------------------------------------
(* The inductive invariant of the sessions.  The steps that follow speak of *)
(* the channels only as sets of entries (Range); Shape is all that they    *)
(* need to know of the types.                                              *)

Shape ==
  /\ not_authenticated_listening \in SUBSET Clients
  /\ listening_clients \in SUBSET Clients
  /\ listening \in SUBSET Clients
  /\ reader \in [Clients -> [Roles -> States]]
  /\ peer \in [Clients -> {"idle", "open", "closed", "broken"}]
  /\ Range(client_connected) \subseteq Clients
  /\ Range(client_authenticated) \subseteq Clients
  /\ Range(client_disconnected) \subseteq Report
  /\ Range(message_received) \subseteq Message
  /\ Range(batch) \subseteq Message
  /\ Range(events) \subseteq Message

LEMMA TypeOKShape ==
  ASSUME TypeOK
  PROVE  Shape
  BY Entries DEF TypeOK, Shape

LEMMA TypeOKShapeNext ==
  ASSUME TypeOK'
  PROVE  Shape'
  BY Entries DEF TypeOK, Shape

LEMMA PeerInv ==
  ASSUME TypeOK, Shape, Shape', SessionsInv, NEW c \in Clients, Peer(c)
  PROVE  SessionsInv'
<1> USE DEF Shape, SessionsInv, WaitingIsFresh, MessagesAreOfStarted,
            ReadersFollowTables, AnnouncedIsAuthenticated, ReportsAreTrue,
            NoLeakedSession, Tended, ConnectedIsListed, RemovedIsEmpty, Started, Fresh,
            Listed, Reported, Alive, Live, Ended, Holding, Roles, tables,
            channels, frame, peers, history
<1>1. CASE PeerConnects(c)
  <2>1. /\ Range(client_connected') = Range(client_connected) \cup {c}
        /\ IsInjective(client_connected')
    <3>1. client_connected \in Seq(Clients)
      BY DEF TypeOK
    <3>2. client_connected' = Append(client_connected, c)
      BY <1>1 DEF PeerConnects
    <3>3. c \notin Range(client_connected) /\ IsInjective(client_connected)
      BY <1>1 DEF PeerConnects
    <3> QED BY <3>1, <3>2, <3>3, Pushed
  <2> QED BY <1>1, <2>1 DEF PeerConnects
<1>2. CASE PeerSends(c)
  BY <1>2 DEF PeerSends
<1>3. CASE PeerCloses(c)
  BY <1>3 DEF PeerCloses
<1> QED BY <1>1, <1>2, <1>3 DEF Peer

\* The steps of a reader up to the moment it has something to send.
LEMMA ReadingInv ==
  ASSUME TypeOK, Shape, Shape', SessionsInv, NEW c \in Clients, NEW r \in Roles,
         \/ LockReadHalf(c, r) \/ StopUnauthReader(c) \/ DrainAnnounced(c)
         \/ ReadMessage(c, r) \/ ReadPanics(c, r) \/ ReadFails(c, r)
  PROVE  SessionsInv'
<1> USE DEF Shape, SessionsInv, WaitingIsFresh, MessagesAreOfStarted,
            ReadersFollowTables, AnnouncedIsAuthenticated, ReportsAreTrue,
            NoLeakedSession, Tended, ConnectedIsListed, RemovedIsEmpty, Started, Fresh,
            Listed, Reported, Alive, Live, Ended, Holding, Roles, tables,
            channels, frame, peers, history
<1>1. CASE LockReadHalf(c, r)
  BY <1>1 DEF LockReadHalf, ReadHalfFree, States, Report, Message
<1>2. CASE StopUnauthReader(c)
  <2>1. client_authenticated \in Seq(Clients)
    BY DEF TypeOK
  <2>2. PICK i \in DOMAIN client_authenticated :
          /\ client_authenticated[i] = c
          /\ client_authenticated' =
               SubSeq(client_authenticated, i + 1, Len(client_authenticated))
    BY <1>2 DEF StopUnauthReader
  <2>3. /\ c \in Range(client_authenticated)
        /\ Range(client_authenticated') \subseteq Range(client_authenticated)
    BY <2>1, <2>2, Dropped DEF Range
  <2> QED BY <1>2, <2>3 DEF StopUnauthReader
<1>3. CASE DrainAnnounced(c)
  <2>1. Range(client_authenticated') = {}
    BY <1>3, Emptied DEF DrainAnnounced
  <2> QED BY <1>3, <2>1 DEF DrainAnnounced
<1>4. CASE ReadMessage(c, r)
  BY <1>4 DEF ReadMessage
<1>5. CASE ReadFails(c, r)
  BY <1>5 DEF ReadFails
<1>6. CASE ReadPanics(c, r)
  BY <1>6 DEF ReadPanics
<1> QED BY <1>1, <1>2, <1>3, <1>4, <1>5, <1>6

LEMMA SendMessageReceivedInv ==
  ASSUME TypeOK, Shape, Shape', SessionsInv, NEW c \in Clients, NEW r \in Roles,
         SendMessageReceived(c, r)
  PROVE  SessionsInv'
<1> USE DEF Shape, SessionsInv, Started, Fresh, Listed, Alive, Live, Ended,
            Holding, Roles, SendMessageReceived, tables, channels, frame, peers, history
<1>1. Range(message_received') = Range(message_received) \cup {<<c, taken[c]>>}
  <2>1. message_received \in Seq(Message) /\ <<c, taken[c]>> \in Message
    BY DEF TypeOK, Message
  <2> QED BY <2>1, Pushed
<1>2. MessagesAreOfStarted'
  <2>1. Started(c)'
    BY DEF ReadersFollowTables
  <2>2. \A d \in Clients : Started(d) => Started(d)'
    BY <2>1
  <2>3. \A m \in Range(message_received') :
          m \in Range(message_received) \/ m[1] = c
    <3>1. <<c, taken[c]>>[1] = c
      OBVIOUS
    <3> QED BY <1>1, <3>1
  <2>4. \A m \in Message : m[1] \in Clients
    BY DEF Message
  <2> HIDE DEF Started
  <2> QED BY <2>1, <2>2, <2>3, <2>4 DEF MessagesAreOfStarted
<1>3. WaitingIsFresh' /\ AnnouncedIsAuthenticated' /\ RemovedIsEmpty'
  BY DEF WaitingIsFresh, AnnouncedIsAuthenticated, RemovedIsEmpty
<1>4. ReadersFollowTables'
  BY DEF ReadersFollowTables
<1>5. ReportsAreTrue'
  BY DEF ReportsAreTrue, Reported
<1>6. NoLeakedSession' /\ ConnectedIsListed'
  BY DEF NoLeakedSession, Tended, ConnectedIsListed, Reported
<1> QED BY <1>2, <1>3, <1>4, <1>5, <1>6

LEMMA SendClientDisconnectedInv ==
  ASSUME TypeOK, Shape, Shape', SessionsInv, NEW c \in Clients, NEW r \in Roles,
         SendClientDisconnected(c, r)
  PROVE  SessionsInv'
<1> USE DEF Shape, SessionsInv, Started, Fresh, Listed, Alive, Live, Ended,
            Holding, Roles, SendClientDisconnected, tables, channels, frame, peers,
            history
<1>1. \A d \in Clients, s \in Roles :
        Reported(d, s)' <=> Reported(d, s) \/ (d = c /\ s = r)
  <2>1. client_disconnected \in Seq(Report) /\ <<c, r>> \in Report
    BY DEF TypeOK, Report
  <2>2. Range(client_disconnected') = Range(client_disconnected) \cup {<<c, r>>}
    BY <2>1, Pushed
  <2> QED BY <2>2 DEF Reported
<1>2. /\ reader[c][r] = "fail"
      /\ reader'[c][r] = "done"
      /\ \A d \in Clients, s \in Roles :
           d # c \/ s # r => reader'[d][s] = reader[d][s]
  OBVIOUS
<1>3. peer[c] = "broken" /\ peer' = peer
  BY DEF ReportsAreTrue
<1>4. WaitingIsFresh' /\ MessagesAreOfStarted' /\ AnnouncedIsAuthenticated'
  BY DEF WaitingIsFresh, MessagesAreOfStarted, AnnouncedIsAuthenticated, Message
<1>5. ReadersFollowTables'
  BY DEF ReadersFollowTables
<1>6. ReportsAreTrue'
  <2>1. \A d \in Clients, s \in Roles :
          Reported(d, s)' => reader'[d][s] = "done" /\ peer'[d] = "broken"
    BY <1>1, <1>2, <1>3 DEF ReportsAreTrue
  <2>2. \A d \in Clients, s \in Roles :
          reader'[d][s] = "fail" => peer'[d] = "broken"
    BY <1>2, <1>3 DEF ReportsAreTrue
  <2>3. \A d \in Clients :
          /\ reader'[d]["auth"] = "done" => peer'[d] = "broken"
          /\ Started(d)' /\ ~Listed(d)' => peer'[d] = "broken"
    BY <1>2, <1>3 DEF ReportsAreTrue
  <2> QED BY <2>1, <2>2, <2>3 DEF ReportsAreTrue
<1>7. NoLeakedSession'
  BY <1>1, <1>2 DEF NoLeakedSession, Tended
<1>8. ConnectedIsListed' /\ RemovedIsEmpty'
  BY DEF ConnectedIsListed, RemovedIsEmpty
<1> QED BY <1>4, <1>5, <1>6, <1>7, <1>8

LEMMA SendFailsInv ==
  ASSUME Shape, Shape', SessionsInv, NEW c \in Clients, NEW r \in Roles,
         SendFails(c, r)
  PROVE  SessionsInv'
  BY DEF Shape, SessionsInv, WaitingIsFresh, MessagesAreOfStarted,
         ReadersFollowTables, AnnouncedIsAuthenticated, ReportsAreTrue,
         NoLeakedSession, Tended, ConnectedIsListed, RemovedIsEmpty, Started, Fresh,
         Listed, Reported, Alive, Live, Ended, Holding, Roles, Message, SendFails,
         tables, channels, frame, peers, history

LEMMA ReaderInv ==
  ASSUME TypeOK, Shape, Shape', SessionsInv, NEW c \in Clients, NEW r \in Roles,
         Reader(c, r) \/ ReadPanics(c, r)
  PROVE  SessionsInv'
  BY ReadingInv, SendMessageReceivedInv, SendClientDisconnectedInv, SendFailsInv
     DEF Reader

\* One report taken off client_disconnected.
LEMMA CheckClientsInv ==
  ASSUME TypeOK, Shape, Shape', SessionsInv, Alive, Alive',
         CheckClientsDisconnected,
         UNCHANGED <<client_connected, message_received, client_authenticated,
                     reader, clients_connected, batch, events, peer>>
  PROVE  SessionsInv'
<1> USE DEF Shape, SessionsInv, Started, Fresh, Listed, Live, Ended, Holding, Roles,
            tables
<1>1. CASE client_disconnected = <<>>
  BY <1>1 DEF CheckClientsDisconnected, WaitingIsFresh, MessagesAreOfStarted,
              ReadersFollowTables, AnnouncedIsAuthenticated, ReportsAreTrue,
              NoLeakedSession, Tended, ConnectedIsListed, RemovedIsEmpty, Reported
<1>2. CASE client_disconnected # <<>>
  <2>1. PICK d \in Clients, a \in Roles : Head(client_disconnected) = <<d, a>>
    <3>1. client_disconnected \in Seq(Report)
      BY DEF TypeOK
    <3>2. Head(client_disconnected) \in Report
      BY <1>2, <3>1, Popped
    <3> QED BY <3>2 DEF Report
  <2>2. Range(client_disconnected) = Range(client_disconnected') \cup {<<d, a>>}
    <3>1. client_disconnected \in Seq(Report)
      BY DEF TypeOK
    <3>2. client_disconnected' = Tail(client_disconnected)
      BY <1>2 DEF CheckClientsDisconnected
    <3> QED BY <1>2, <2>1, <3>1, <3>2, Popped
  <2>3. /\ Reported(d, a)
        /\ \A c \in Clients, r \in Roles :
             Reported(c, r)' => Reported(c, r)
        /\ \A c \in Clients, r \in Roles :
             Reported(c, r) => Reported(c, r)' \/ (c = d /\ r = a)
    BY <2>2 DEF Reported
  <2>4. /\ listening_clients' =
             IF a = "auth" THEN listening_clients \ {d} ELSE listening_clients
        /\ not_authenticated_listening' =
             IF a = "auth" THEN not_authenticated_listening
             ELSE not_authenticated_listening \ {d}
        /\ listening' = listening \cap (not_authenticated_listening'
                                          \cup listening_clients')
    BY <1>2, <2>1 DEF CheckClientsDisconnected
  <2>5. reader[d][a] = "done" /\ peer[d] = "broken"
    BY <2>3 DEF ReportsAreTrue
  <2>6. WaitingIsFresh' /\ MessagesAreOfStarted' /\ AnnouncedIsAuthenticated'
    BY <2>4 DEF WaitingIsFresh, MessagesAreOfStarted, AnnouncedIsAuthenticated
  <2>7. ReadersFollowTables'
    BY <2>4, <2>5 DEF ReadersFollowTables
  <2>8. ReportsAreTrue'
    BY <2>3, <2>4, <2>5 DEF ReportsAreTrue
  <2>9. NoLeakedSession'
    BY <2>3, <2>4 DEF NoLeakedSession, Tended
  <2>10. ConnectedIsListed' /\ RemovedIsEmpty'
    BY <2>4, <2>5 DEF ConnectedIsListed, RemovedIsEmpty
  <2> QED BY <2>6, <2>7, <2>8, <2>9, <2>10
<1> QED BY <1>1, <1>2

\* The change of tables, of a client whose message has been received.
LEMMA PortAuthenticateInv ==
  ASSUME TypeOK, Shape, Shape', SessionsInv, Alive, Alive',
         NEW c \in Clients, Started(c), c \in not_authenticated_listening,
         PortAuthenticate(c), clients_connected' = clients_connected \cup {c},
         Range(events') \subseteq Range(events),
         UNCHANGED <<client_connected, client_disconnected, message_received,
                     batch, peer>>
  PROVE  SessionsInv'
<1> USE DEF Shape, SessionsInv, Started, Fresh, Listed, Live, Ended, Holding, Roles,
            PortAuthenticate
<1>1. Range(client_authenticated') = Range(client_authenticated) \cup {c}
  <2>1. client_authenticated \in Seq(Clients)
    BY DEF TypeOK
  <2>2. client_authenticated' = Append(client_authenticated, c)
    OBVIOUS
  <2> QED BY <2>1, <2>2, Pushed
<1>2. /\ reader[c]["auth"] = "none"
      /\ reader'[c]["auth"] = "lock"
      /\ \A d \in Clients, s \in Roles :
           d # c \/ s = "unauth" => reader'[d][s] = reader[d][s]
  BY DEF ReadersFollowTables
<1>3. \A d \in Clients, s \in Roles : Reported(d, s)' = Reported(d, s)
  BY DEF Reported
<1>4. WaitingIsFresh'
  BY DEF WaitingIsFresh
<1>5. MessagesAreOfStarted'
  BY <1>2 DEF MessagesAreOfStarted, Message
<1>6. ReadersFollowTables'
  BY <1>2 DEF ReadersFollowTables
<1>7. AnnouncedIsAuthenticated'
  BY <1>1, <1>2 DEF AnnouncedIsAuthenticated
<1>8. ReportsAreTrue'
  BY <1>2, <1>3 DEF ReportsAreTrue
<1>9. NoLeakedSession'
  BY <1>2, <1>3 DEF NoLeakedSession, Tended
<1>10. ConnectedIsListed' /\ RemovedIsEmpty'
  BY DEF ConnectedIsListed, RemovedIsEmpty
<1> QED BY <1>4, <1>5, <1>6, <1>7, <1>8, <1>9, <1>10

LEMMA AuthenticationMessageServerInv ==
  ASSUME TypeOK, Shape, Shape', SessionsInv, AuthenticationMessageServer
  PROVE  SessionsInv'
<1>1. Head(events) \in Message /\ Range(events) = {Head(events)} \cup Range(events')
  <2>1. events \in Seq(Message) /\ events # <<>> /\ events' = Tail(events)
    BY DEF TypeOK, AuthenticationMessageServer
  <2> QED BY <2>1, Popped
<1>2. PICK c \in Clients : c = Head(events)[1]
  BY <1>1 DEF Message
<1>3. Started(c)
  BY <1>1, <1>2 DEF SessionsInv, MessagesAreOfStarted
<1>4. Alive /\ Alive'
  BY DEF AuthenticationMessageServer, Alive
<1>5. /\ Range(events') \subseteq Range(events)
      /\ UNCHANGED <<client_connected, client_disconnected, message_received,
                     batch, peer>>
  BY <1>1 DEF AuthenticationMessageServer, peers
<1>6. \/ /\ c \in not_authenticated_listening
         /\ PortAuthenticate(c)
         /\ clients_connected' = clients_connected \cup {c}
      \/ /\ UNCHANGED <<tables, reader, client_authenticated>>
         /\ \/ clients_connected' = clients_connected
            \/ /\ clients_connected' = clients_connected \cup {c}
               /\ c \notin not_authenticated_listening
  BY <1>2 DEF AuthenticationMessageServer, PortAuthenticate, tables
<1>7. CASE UNCHANGED <<tables, reader, client_authenticated>>
  <2> USE <1>4, <1>5, <1>7 DEF SessionsInv, Started, Fresh, Listed, Reported,
                               Live, Ended, Holding, Roles, tables
  <2>1. \A d \in clients_connected' :
          d \in clients_connected \/ (d = c /\ c \notin not_authenticated_listening)
    BY <1>6, <1>7 DEF PortAuthenticate
  <2>2. WaitingIsFresh'
    BY <1>3, <2>1 DEF WaitingIsFresh, Shape
  <2>3. MessagesAreOfStarted' /\ AnnouncedIsAuthenticated'
    BY DEF MessagesAreOfStarted, AnnouncedIsAuthenticated
  <2>4. ReadersFollowTables' /\ ReportsAreTrue'
    BY DEF ReadersFollowTables, ReportsAreTrue
  <2>5. NoLeakedSession' /\ RemovedIsEmpty'
    BY DEF NoLeakedSession, Tended, RemovedIsEmpty
  <2>6. ConnectedIsListed'
    BY <1>3, <2>1 DEF ConnectedIsListed, ReportsAreTrue
  <2> QED BY <2>2, <2>3, <2>4, <2>5, <2>6
<1> QED BY <1>3, <1>4, <1>5, <1>6, <1>7, PortAuthenticateInv

LEMMA DispatchMoves ==
  ASSUME TypeOK, ReadMessagesServer
  PROVE  /\ Range(batch) = {Head(batch)} \cup Range(batch')
         /\ Range(events') \subseteq Range(events) \cup {Head(batch)}
<1>1. batch \in Seq(Message) /\ batch # <<>> /\ batch' = Tail(batch)
  BY DEF TypeOK, ReadMessagesServer
<1>2. events \in Seq(Message) /\ Head(batch) \in Message
  BY <1>1, Popped DEF TypeOK
<1>3. events' = events \/ events' = Append(events, Head(batch))
  BY DEF ReadMessagesServer
<1>4. Range(Append(events, Head(batch))) = Range(events) \cup {Head(batch)}
  BY <1>2, Pushed
<1> QED BY <1>1, <1>3, <1>4, Popped

LEMMA SystemsInv ==
  ASSUME TypeOK, Shape, Shape', SessionsInv,
         Systems \/ CheckClientsConnected \/ EndFrame \/ Disconnect
  PROVE  SessionsInv'
<1> USE DEF Shape, SessionsInv, WaitingIsFresh, MessagesAreOfStarted,
            ReadersFollowTables, AnnouncedIsAuthenticated, ReportsAreTrue,
            NoLeakedSession, Tended, ConnectedIsListed, RemovedIsEmpty, Started, Fresh,
            Listed, Reported, Alive, Live, Ended, Holding, Roles, States, Message,
            Report, tables, channels, frame, peers, history
<1>1. CASE CheckClientDisconnectedFromPort
  BY <1>1, CheckClientsInv DEF CheckClientDisconnectedFromPort
<1>2. CASE CheckClientConnectedToPort
  BY <1>2, CheckClientsInv DEF CheckClientConnectedToPort
<1>3. CASE StartListeningNotAuthenticated
  BY <1>3 DEF StartListeningNotAuthenticated
<1>4. CASE CheckMessagesReceived
  <2>1. Range(message_received') = {}
    BY <1>4, Emptied DEF CheckMessagesReceived
  <2> QED BY <1>4, <2>1 DEF CheckMessagesReceived
<1>5. CASE ReadMessagesServer
  <2>1. /\ Range(batch) = {Head(batch)} \cup Range(batch')
        /\ Range(events') \subseteq Range(events) \cup {Head(batch)}
    BY <1>5, DispatchMoves
  <2> QED BY <1>5, <2>1 DEF ReadMessagesServer
<1>6. CASE ReadMessagesServerEnd
  BY <1>6 DEF ReadMessagesServerEnd
<1>7. CASE AuthenticationMessageServer
  BY <1>7, AuthenticationMessageServerInv
<1>8. CASE AuthenticationMessageServerEnd
  BY <1>8 DEF AuthenticationMessageServerEnd
<1>9. CASE CheckClientsConnected
  <2>1. /\ client_connected \in Seq(Clients) /\ client_connected # <<>>
        /\ client_connected' = Tail(client_connected)
    BY <1>9 DEF TypeOK, CheckClientsConnected
  <2>2. PICK c \in Clients : c = Head(client_connected)
    BY <2>1, Popped
  <2>3. /\ Range(client_connected) = Range(client_connected') \cup {c}
        /\ c \notin Range(client_connected')
        /\ IsInjective(client_connected')
    BY <2>1, <2>2, Popped
  <2> QED BY <1>9, <2>2, <2>3 DEF CheckClientsConnected
<1>10. CASE EndFrame
  BY <1>10 DEF EndFrame
<1>11. CASE Disconnect
  BY <1>11, Emptied DEF Disconnect
<1> QED BY <1>1, <1>2, <1>3, <1>4, <1>5, <1>6, <1>7, <1>8, <1>9, <1>10, <1>11
        DEF Systems

\* A session's tables, readers, uuid and reports agree in every state.
THEOREM SessionsInvariant == Spec => []SessionsInv
<1>1. Init => SessionsInv
  BY Emptied DEF Init, SessionsInv, WaitingIsFresh, MessagesAreOfStarted,
     ReadersFollowTables, AnnouncedIsAuthenticated, ReportsAreTrue, Reported,
     NoLeakedSession, Tended, ConnectedIsListed, RemovedIsEmpty, Started, Fresh,
     Listed, Alive, Live, Ended, Holding, Roles
<1>2. TypeOK /\ TypeOK' /\ SessionsInv /\ [Next]_vars => SessionsInv'
  <2> SUFFICES ASSUME TypeOK, TypeOK', SessionsInv, [Next]_vars
               PROVE  SessionsInv'
    OBVIOUS
  <2>1. Shape /\ Shape'
    BY TypeOKShape, TypeOKShapeNext
  <2>2. CASE Next
    BY <2>1, <2>2, PeerInv, ReaderInv, SystemsInv DEF Next
  <2>3. CASE UNCHANGED vars
    BY <2>3 DEF vars, tables, channels, frame, peers, history, SessionsInv,
       WaitingIsFresh, MessagesAreOfStarted, ReadersFollowTables,
       AnnouncedIsAuthenticated, ReportsAreTrue, Reported, NoLeakedSession, Tended,
       ConnectedIsListed, RemovedIsEmpty, Started, Fresh, Listed, Alive
  <2> QED BY <2>2, <2>3
<1> QED BY <1>1, <1>2, TypeCorrect, PTL DEF Spec

\* The two readers of a stream never hold its read half together.
THEOREM HandoffIsStrict == Spec => []StrictHandoff
<1>1. SessionsInv => StrictHandoff
  BY DEF SessionsInv, ReadersFollowTables, StrictHandoff
<1> QED BY <1>1, SessionsInvariant, PTL

\* Every reader of a live connection serves a listed session.
THEOREM ReadersAreListed == Spec => []NoOrphanReader
<1>1. TypeOK /\ SessionsInv => NoOrphanReader
  BY DEF SessionsInv, ReadersFollowTables, NoOrphanReader, Listed, Roles
<1> QED BY <1>1, SessionsInvariant, TypeCorrect, PTL

\* No session stays listed with neither a reader nor a report under way, unless
\* its reader has panicked over a size.
THEOREM SessionsAreTended == Spec => []NoLeakedSession
<1>1. SessionsInv => NoLeakedSession
  BY DEF SessionsInv
<1> QED BY <1>1, SessionsInvariant, PTL

\* A connected client whose stream is not known to be broken is listed.
THEOREM ConnectedAreListed == Spec => []ConnectedIsListed
<1>1. SessionsInv => ConnectedIsListed
  BY DEF SessionsInv
<1> QED BY <1>1, SessionsInvariant, PTL

-----------------------------------------------------------------------------
(* The reply to an admission.                                              *)

\* No step but the handling of a message lists a client as authenticated, and
\* none takes a reply back.
LEMMA OthersDoNotAdmit ==
  ASSUME TypeOK, [Next]_vars, ~AuthenticationMessageServer
  PROVE  listening_clients' \subseteq listening_clients /\ replies' = replies
<1> USE DEF tables, channels, frame, peers, history
<1>1. CASE \E c \in Clients : Peer(c)
  BY <1>1 DEF Peer, PeerConnects, PeerSends, PeerCloses
<1>2. CASE \E c \in Clients, r \in Roles : Reader(c, r) \/ ReadPanics(c, r)
  BY <1>2 DEF Reader, ReadPanics, LockReadHalf, StopUnauthReader, DrainAnnounced,
     ReadMessage, ReadFails, SendMessageReceived, SendClientDisconnected,
     SendFails
<1>3. CASE Systems
  BY <1>3 DEF Systems, CheckClientDisconnectedFromPort,
     CheckClientConnectedToPort, CheckClientsDisconnected,
     StartListeningNotAuthenticated, CheckMessagesReceived, ReadMessagesServer,
     ReadMessagesServerEnd, AuthenticationMessageServerEnd
<1>4. CASE CheckClientsConnected \/ EndFrame \/ Disconnect
  BY <1>4 DEF CheckClientsConnected, EndFrame, Disconnect
<1>5. CASE UNCHANGED vars
  BY <1>5 DEF vars
<1> QED BY <1>1, <1>2, <1>3, <1>4, <1>5 DEF Next

\* A client listed as authenticated has been sent its AuthenticatedUuid.
THEOREM AdmittedAreAnswered == Spec => []AdmittedIsAnswered
<1>1. Init => AdmittedIsAnswered
  BY DEF Init, AdmittedIsAnswered
<1>2. TypeOK /\ AdmittedIsAnswered /\ [Next]_vars => AdmittedIsAnswered'
  <2> SUFFICES ASSUME TypeOK, AdmittedIsAnswered, [Next]_vars,
                      NEW d \in listening_clients'
               PROVE  replies'[d] > 0
    BY DEF AdmittedIsAnswered
  <2>1. CASE ~AuthenticationMessageServer
    BY <2>1, OthersDoNotAdmit DEF AdmittedIsAnswered
  <2>2. CASE AuthenticationMessageServer
    <3>1. PICK c \in Clients : c = Head(events)[1]
      <4>1. events \in Seq(Message) /\ events # <<>>
        BY <2>2 DEF TypeOK, AuthenticationMessageServer
      <4> QED BY <4>1, Popped DEF Message
    <3>2. \/ UNCHANGED <<listening_clients, replies>>
          \/ /\ listening_clients' \subseteq listening_clients \cup {c}
             /\ replies' = [replies EXCEPT ![c] =
                              IF c \in listening_clients' THEN @ + 1 ELSE @]
      BY <2>2, <3>1 DEF AuthenticationMessageServer, PortAuthenticate, tables
    <3>3. replies \in [Clients -> Nat] /\ listening_clients \subseteq Clients
      BY DEF TypeOK
    <3> QED BY <3>2, <3>3 DEF AdmittedIsAnswered
  <2> QED BY <2>1, <2>2
<1> QED BY <1>1, <1>2, TypeCorrect, PTL DEF Spec

-----------------------------------------------------------------------------
(* The messages: their order, and to whom the application owes them.       *)

Holds(c) == \E r \in Roles : reader[c][r] = "hold"

LEMMA Numbered ==
  ASSUME TypeOK
  PROVE  /\ batch \in Seq(Clients \X Nat) /\ message_received \in Seq(Clients \X Nat)
         /\ batch \o message_received \in Seq(Clients \X Nat)
         /\ \A c \in Clients : taken[c] \in Nat /\ seen[c] \in Nat
<1>1. batch \in Seq(Clients \X Nat) /\ message_received \in Seq(Clients \X Nat)
  BY DEF TypeOK, Message
<1>2. batch \o message_received \in Seq(Clients \X Nat)
  BY <1>1
<1> QED BY <1>1, <1>2 DEF TypeOK

LEMMA OrderMeans ==
  ASSUME TypeOK, OrderInv
  PROVE  PipelineInOrder
<1> DEFINE q == batch \o message_received
<1> SUFFICES ASSUME Alive, NEW c \in Clients
             PROVE  InOrder(q \o Held(c), c, seen[c] + 1, taken[c])
  BY DEF PipelineInOrder
<1>1. q \in Seq(Clients \X Nat) /\ taken[c] \in Nat /\ seen[c] \in Nat
  BY Numbered
<1>2. seen[c] <= Last(c) /\ InOrder(q, c, seen[c] + 1, Last(c))
  BY DEF OrderInv
<1> HIDE DEF q
<1>3. CASE Holds(c)
  <2>1. Held(c) = <<<<c, taken[c]>>>> /\ Last(c) = taken[c] - 1
    BY <1>3 DEF Held, Last, Holds
  <2>2. q \o Held(c) = Append(q, <<c, taken[c]>>)
    BY <1>1, <2>1
  <2>3. seen[c] + 1 <= taken[c] /\ InOrder(q, c, seen[c] + 1, taken[c] - 1)
    BY <1>1, <1>2, <2>1
  <2> QED BY <1>1, <2>2, <2>3, InOrderPushed
<1>4. CASE ~Holds(c)
  <2>1. Held(c) = <<>> /\ Last(c) = taken[c]
    BY <1>4 DEF Held, Last, Holds
  <2>2. q \o Held(c) = q
    BY <1>1, <2>1
  <2> QED BY <1>2, <2>1, <2>2
<1> QED BY <1>3, <1>4

-----------------------------------------------------------------------------
(* The order of the messages.                                              *)

\* A step that changes neither the channel nor the numbers.
LEMMA OrderKept ==
  ASSUME OrderInv, Alive' => Alive,
         UNCHANGED <<message_received, batch, seen>>,
         pc' # "dispatch" => pc # "dispatch" \/ batch = <<>>,
         \A c \in Clients : Last(c)' = Last(c)
  PROVE  OrderInv'
  BY DEF OrderInv

LEMMA ReaderOrder ==
  ASSUME TypeOK, SessionsInv, OrderInv, NEW c \in Clients, NEW r \in Roles,
         Reader(c, r) \/ ReadPanics(c, r)
  PROVE  OrderInv'
<1> USE DEF tables, channels, frame, peers, history
<1>1. ASSUME NEW s \in Roles, reader[c][s] \in Holding
      PROVE  \A t \in Roles \ {s} : reader[c][t] # "hold"
  BY <1>1 DEF SessionsInv, ReadersFollowTables, Holding, Ended, Roles
<1>2. taken \in [Clients -> Nat] /\ reader \in [Clients -> [Roles -> States]]
  BY DEF TypeOK
<1>3. CASE \/ LockReadHalf(c, r) \/ (r = "unauth" /\ StopUnauthReader(c))
           \/ (r = "unauth" /\ DrainAnnounced(c)) \/ ReadFails(c, r)
           \/ SendClientDisconnected(c, r) \/ ReadPanics(c, r)
  <2>1. PICK s \in Roles, x \in States \ {"hold"} :
          /\ reader[c][s] # "hold"
          /\ reader' = [reader EXCEPT ![c][s] = x]
    BY <1>3, StatesAre DEF LockReadHalf, StopUnauthReader, DrainAnnounced,
       ReadFails, SendClientDisconnected, ReadPanics
  <2>2. \A d \in Clients : Holds(d)' <=> Holds(d)
    BY <1>2, <2>1 DEF Holds
  <2>3. UNCHANGED <<message_received, batch, seen, taken, pc>>
    BY <1>3 DEF LockReadHalf, StopUnauthReader, DrainAnnounced, ReadFails,
       SendClientDisconnected, ReadPanics
  <2>4. \A d \in Clients : Last(d)' = Last(d)
    BY <2>2, <2>3 DEF Last, Holds
  <2> QED BY <2>3, <2>4, OrderKept DEF Alive
<1>4. CASE ReadMessage(c, r)
  <2>1. /\ reader[c][r] = "read" /\ taken' = [taken EXCEPT ![c] = @ + 1]
        /\ reader' = [reader EXCEPT ![c][r] = "hold"]
        /\ UNCHANGED <<message_received, batch, seen, pc>>
    BY <1>4 DEF ReadMessage
  <2>2. ~Holds(c)
    BY <1>1, <2>1 DEF Holds, Holding
  <2>3. Holds(c)' /\ \A d \in Clients \ {c} : Holds(d)' <=> Holds(d)
    BY <1>2, <2>1 DEF Holds
  <2>4. taken'[c] = taken[c] + 1 /\ \A d \in Clients \ {c} : taken'[d] = taken[d]
    BY <1>2, <2>1
  <2>5. \A d \in Clients : Last(d)' = Last(d)
    BY <1>2, <2>2, <2>3, <2>4 DEF Last, Holds
  <2> QED BY <2>1, <2>5, OrderKept DEF Alive
<1>5. CASE SendMessageReceived(c, r)
  <2> SUFFICES ASSUME NEW d \in Clients
               PROVE  /\ seen'[d] <= Last(d)'
                      /\ InOrder(batch' \o message_received', d, seen'[d] + 1, Last(d)')
    BY <1>5 DEF OrderInv, SendMessageReceived
  <2> DEFINE q == batch \o message_received
  <2>1. /\ reader[c][r] = "hold" /\ Alive
        /\ message_received' = Append(message_received, <<c, taken[c]>>)
        /\ UNCHANGED <<batch, seen, taken>>
    BY <1>5 DEF SendMessageReceived
  <2>2. PICK x \in States \ {"hold"} : reader' = [reader EXCEPT ![c][r] = x]
    <3>1. \/ reader' = [reader EXCEPT ![c][r] = "drain"]
          \/ reader' = [reader EXCEPT ![c][r] = "read"]
      BY <1>5 DEF SendMessageReceived
    <3> QED BY <3>1, StatesAre
  <2>3. Holds(c) /\ ~Holds(c)'
    BY <1>1, <1>2, <2>1, <2>2 DEF Holds, Holding
  <2>4. \A e \in Clients \ {c} : Holds(e)' <=> Holds(e)
    BY <1>2, <2>2 DEF Holds
  <2>5. /\ q \in Seq(Clients \X Nat)
        /\ batch' \o message_received' = Append(q, <<c, taken[c]>>)
    <3>1. batch \in Seq(Clients \X Nat) /\ message_received \in Seq(Clients \X Nat)
      BY Numbered
    <3>2. <<c, taken[c]>> \in Clients \X Nat
      BY <1>2
    <3> QED BY <2>1, <3>1, <3>2
  <2>6. /\ taken[d] \in Nat /\ seen[d] \in Nat /\ taken[c] \in Nat
        /\ seen[d] <= Last(d) /\ InOrder(q, d, seen[d] + 1, Last(d))
    BY <2>1, Numbered DEF OrderInv
  <2> HIDE DEF q
  <2>7. CASE d = c
    <3>1. Last(d) = taken[d] - 1 /\ Last(d)' = taken[d]
      BY <2>1, <2>3, <2>7 DEF Last, Holds
    <3>2. InOrder(Append(q, <<d, taken[d]>>), d, seen[d] + 1, taken[d])
      <4>1. PICK lo \in Nat, hi \in Nat : lo = seen[d] + 1 /\ hi = taken[d]
        BY <2>6
      <4>2. lo <= hi /\ InOrder(q, d, lo, hi - 1)
        BY <2>6, <3>1, <4>1
      <4>3. InOrder(Append(q, <<d, hi>>), d, lo, hi)
        BY <2>5, <4>2, InOrderPushed
      <4> QED BY <4>1, <4>3
    <3>3. seen'[d] <= Last(d)'
      BY <2>1, <2>6, <3>1
    <3>4. batch' \o message_received' = Append(q, <<d, taken[d]>>)
      BY <2>5, <2>7
    <3> QED BY <2>1, <3>1, <3>2, <3>3, <3>4
  <2>8. CASE d # c
    <3>1. Last(d)' = Last(d) /\ Last(d) \in Int
      BY <2>1, <2>4, <2>6, <2>8 DEF Last, Holds
    <3>2. InOrder(Append(q, <<c, taken[c]>>), d, seen[d] + 1, Last(d))
      <4>1. c \in Clients \ {d} /\ seen[d] + 1 \in Int
        BY <2>6, <2>8
      <4> QED BY <2>5, <2>6, <3>1, <4>1, InOrderPushedOther
    <3> QED BY <2>1, <2>5, <2>6, <3>1, <3>2
  <2> QED BY <2>7, <2>8
<1>6. CASE SendFails(c, r)
  BY <1>6 DEF SendFails, OrderInv, Alive
<1> QED BY <1>3, <1>4, <1>5, <1>6 DEF Reader

\* A step that does not touch the messages under way at all.
LEMMA OrderUntouched ==
  ASSUME TypeOK, OrderInv, Alive, pc # "dispatch", pc' # "dispatch",
         UNCHANGED <<message_received, batch, seen, taken>>,
         \A c \in Clients : Holds(c)' <=> Holds(c)
  PROVE  OrderInv'
<1>1. \A c \in Clients : Last(c)' = Last(c)
  BY DEF Last, Holds
<1>2. batch = <<>>
  BY DEF OrderInv
<1> QED BY <1>1, <1>2, OrderKept DEF Alive

LEMMA CheckMessagesReceivedOrder ==
  ASSUME TypeOK, OrderInv, CheckMessagesReceived
  PROVE  OrderInv'
<1>1. batch = <<>> /\ pc' = "dispatch" /\ Alive
  BY DEF OrderInv, CheckMessagesReceived, Alive
<1>2. batch' \o message_received' = batch \o message_received
  <2>1. message_received \in Seq(Clients \X Nat)
    BY Numbered
  <2>2. batch' = message_received /\ message_received' = <<>>
    BY DEF CheckMessagesReceived
  <2> QED BY <1>1, <2>1, <2>2
<1>3. \A c \in Clients : Last(c)' = Last(c) /\ seen'[c] = seen[c]
  BY DEF CheckMessagesReceived, Last, peers, history
<1> QED BY <1>1, <1>2, <1>3 DEF OrderInv

\* The read loop takes the oldest message under way: the one it is waiting
\* for from that client.
LEMMA ReadMessagesServerOrder ==
  ASSUME TypeOK, OrderInv, ReadMessagesServer, NEW m, m = Head(batch)
  PROVE  /\ m \in Clients \X Nat
         /\ m[2] = seen[m[1]] + 1 /\ seen[m[1]] + 1 <= Last(m[1])
         /\ OrderInv'
<1> DEFINE q == batch \o message_received
<1>1. /\ batch \in Seq(Clients \X Nat) /\ message_received \in Seq(Clients \X Nat)
      /\ q \in Seq(Clients \X Nat) /\ batch # <<>>
  BY Numbered DEF ReadMessagesServer
<1>2. /\ batch' = Tail(batch) /\ message_received' = message_received
      /\ seen' = [seen EXCEPT ![m[1]] = @ + 1]
      /\ pc = "dispatch" /\ pc' = "dispatch"
      /\ UNCHANGED <<reader, taken>>
  BY DEF ReadMessagesServer, channels, peers
<1>3. m \in Clients \X Nat
  BY <1>1, Popped
<1>4. q # <<>> /\ Head(q) = m /\ Tail(q) = batch' \o message_received'
  BY <1>1, <1>2
<1>5. \A c \in Clients : Last(c)' = Last(c) /\ Last(c) \in Int /\ seen[c] \in Nat
  BY <1>2, Numbered DEF Last
<1>6. \A c \in Clients : seen[c] <= Last(c) /\ InOrder(q, c, seen[c] + 1, Last(c))
  BY <1>2 DEF OrderInv, Alive
<1> HIDE DEF q
<1>7. \A c \in Clients :
        IF m[1] = c
        THEN /\ seen[c] + 1 <= Last(c) /\ m[2] = seen[c] + 1
             /\ InOrder(Tail(q), c, seen[c] + 1 + 1, Last(c))
        ELSE InOrder(Tail(q), c, seen[c] + 1, Last(c))
  <2> TAKE c \in Clients
  <2>1. seen[c] + 1 \in Nat /\ Last(c) \in Nat
    BY <1>5, <1>6
  <2> QED BY <1>1, <1>4, <1>6, <2>1, InOrderPopped
<1>8. \A c \in Clients : seen'[c] = IF m[1] = c THEN seen[c] + 1 ELSE seen[c]
  BY <1>2, <1>3 DEF TypeOK
<1>9. \A c \in Clients : /\ seen'[c] <= Last(c)'
                         /\ InOrder(Tail(q), c, seen'[c] + 1, Last(c)')
  BY <1>5, <1>6, <1>7, <1>8
<1>10. OrderInv'
  BY <1>2, <1>4, <1>9 DEF OrderInv
<1>11. m[1] \in Clients
  BY <1>3
<1> QED BY <1>3, <1>7, <1>10, <1>11

LEMMA SystemsOrder ==
  ASSUME TypeOK, SessionsInv, OrderInv,
         Systems \/ CheckClientsConnected \/ EndFrame \/ Disconnect
  PROVE  OrderInv'
<1> USE DEF Alive, tables, channels, frame, peers, history
<1>1. CASE CheckClientDisconnectedFromPort
  BY <1>1, OrderUntouched DEF CheckClientDisconnectedFromPort, Holds
<1>2. CASE CheckClientConnectedToPort
  BY <1>2, OrderUntouched DEF CheckClientConnectedToPort, Holds
<1>3. CASE StartListeningNotAuthenticated
  <2>1. \A c \in Clients : Holds(c)' <=> Holds(c)
    <3> TAKE c \in Clients
    <3>1. CASE c \in not_authenticated_listening \ listening
      <4>1. reader[c]["unauth"] = "none"
        BY <3>1 DEF SessionsInv, ReadersFollowTables
      <4>2. /\ reader'[c]["unauth"] = "lock"
            /\ reader'[c]["auth"] = reader[c]["auth"]
        BY <1>3, <3>1, StatesAre DEF StartListeningNotAuthenticated, TypeOK
      <4> QED BY <4>1, <4>2 DEF Holds, Roles
    <3>2. CASE c \notin not_authenticated_listening \ listening
      <4>1. reader'[c] = reader[c]
        BY <1>3, <3>2 DEF StartListeningNotAuthenticated
      <4> QED BY <4>1 DEF Holds
    <3> QED BY <3>1, <3>2
  <2> QED BY <1>3, <2>1, OrderUntouched DEF StartListeningNotAuthenticated
<1>4. CASE CheckMessagesReceived
  BY <1>4, CheckMessagesReceivedOrder
<1>5. CASE ReadMessagesServer
  BY <1>5, ReadMessagesServerOrder
<1>6. CASE ReadMessagesServerEnd
  <2>1. \A c \in Clients : Last(c)' = Last(c)
    BY <1>6 DEF ReadMessagesServerEnd, Last
  <2> QED BY <1>6, <2>1, OrderKept DEF ReadMessagesServerEnd
<1>7. CASE AuthenticationMessageServer
  <2>1. PICK c \in Clients : c = Head(events)[1]
    <3>1. events \in Seq(Message) /\ events # <<>>
      BY <1>7 DEF TypeOK, AuthenticationMessageServer
    <3> QED BY <3>1, Popped DEF Message
  <2>2. \/ reader' = reader
        \/ /\ c \in not_authenticated_listening
           /\ reader' = [reader EXCEPT ![c]["auth"] = "lock"]
    BY <1>7, <2>1 DEF AuthenticationMessageServer, PortAuthenticate
  <2>3. \A d \in Clients : Holds(d)' <=> Holds(d)
    <3>1. CASE reader' = reader
      BY <3>1 DEF Holds
    <3>2. CASE /\ c \in not_authenticated_listening
               /\ reader' = [reader EXCEPT ![c]["auth"] = "lock"]
      <4>1. reader[c]["auth"] = "none"
        BY <3>2 DEF SessionsInv, ReadersFollowTables
      <4>2. reader \in [Clients -> [Roles -> States]] /\ "auth" \in Roles
        BY StatesAre DEF TypeOK
      <4> QED BY <3>2, <4>1, <4>2 DEF Holds
    <3> QED BY <2>2, <3>1, <3>2
  <2> QED BY <1>7, <2>3, OrderUntouched DEF AuthenticationMessageServer
<1>8. CASE AuthenticationMessageServerEnd
  BY <1>8, OrderUntouched DEF AuthenticationMessageServerEnd, Holds
<1>9. CASE CheckClientsConnected
  BY <1>9, OrderUntouched DEF CheckClientsConnected, Holds
<1>10. CASE EndFrame
  BY <1>10, OrderUntouched DEF EndFrame, Holds
<1>11. CASE Disconnect
  BY <1>11 DEF Disconnect, OrderInv
<1> QED BY <1>1, <1>2, <1>3, <1>4, <1>5, <1>6, <1>7, <1>8, <1>9, <1>10, <1>11
        DEF Systems

LEMMA PeerOrder ==
  ASSUME OrderInv, NEW c \in Clients, Peer(c)
  PROVE  OrderInv'
<1>1. /\ UNCHANGED <<message_received, batch, seen, taken, reader, pc>>
      /\ \A d \in Clients : Last(d)' = Last(d)
  BY DEF Peer, PeerConnects, PeerSends, PeerCloses, tables, channels, frame,
     peers, history, Last
<1> QED BY <1>1, OrderKept DEF Alive

\* The channel and the batch hold what was sent to the read loop and not seen.
THEOREM OrderInvariant == Spec => []OrderInv
<1>1. Init => OrderInv
  <2> SUFFICES ASSUME Init, NEW c \in Clients
               PROVE  /\ seen[c] <= Last(c)
                      /\ InOrder(batch \o message_received, c, seen[c] + 1, Last(c))
    BY DEF Init, OrderInv
  <2>1. seen[c] = 0 /\ Last(c) = 0 /\ batch \o message_received = <<>>
    BY StatesAre DEF Init, Last
  <2> QED BY <2>1, InOrderEmpty
<1>2. TypeOK /\ SessionsInv /\ OrderInv /\ [Next]_vars => OrderInv'
  <2> SUFFICES ASSUME TypeOK, SessionsInv, OrderInv, [Next]_vars
               PROVE  OrderInv'
    OBVIOUS
  <2>1. CASE Next
    BY <2>1, PeerOrder, ReaderOrder, SystemsOrder DEF Next
  <2>2. CASE UNCHANGED vars
    BY <2>2 DEF vars, tables, channels, frame, peers, history, OrderInv, Alive,
       Last
  <2> QED BY <2>1, <2>2
<1> QED BY <1>1, <1>2, TypeCorrect, SessionsInvariant, PTL DEF Spec

\* Every message taken from a stream reaches the read loop once and in order.
THEOREM MessagesInOrder == Spec => []PipelineInOrder
<1>1. TypeOK /\ OrderInv => PipelineInOrder
  BY OrderMeans
<1> QED BY <1>1, TypeCorrect, OrderInvariant, PTL

-----------------------------------------------------------------------------
(* To whom the messages are given.                                         *)

\* What the peer of c has sent stays as it is, and may grow.
Grows(c) ==
  /\ taken'[c] \in Nat /\ taken[c] <= taken'[c] /\ taken'[c] <= Len(sent'[c])
  /\ Len(sent[c]) <= Len(sent'[c])
  /\ \A k \in 1 .. Len(sent[c]) : sent'[c][k] = sent[c][k]

LEMMA DeliveryTypes ==
  ASSUME TypeOK
  PROVE  \A c \in Clients : /\ seen[c] \in Nat /\ taken[c] \in Nat
                            /\ Len(sent[c]) \in Nat /\ delivered[c] \in SUBSET Nat
<1> SUFFICES ASSUME NEW c \in Clients
             PROVE  /\ seen[c] \in Nat /\ taken[c] \in Nat
                    /\ Len(sent[c]) \in Nat /\ delivered[c] \in SUBSET Nat
  OBVIOUS
<1>1. sent[c] \in Seq(Kinds)
  BY DEF TypeOK
<1> QED BY <1>1 DEF TypeOK

\* A step of a peer, a reader or a system that gives nobody anything.
LEMMA DeliveryKept ==
  ASSUME TypeOK, DeliveryInv, UNCHANGED <<seen, delivered>>,
         Range(events') \subseteq Range(events), Alive' => Alive,
         \/ clients_connected' = clients_connected
         \/ ~Alive' /\ clients_connected' = {},
         \A c \in Clients : Grows(c)
  PROVE  DeliveryInv'
<1>1. \A c \in Clients : /\ seen[c] \in Nat /\ taken[c] \in Nat
                         /\ Len(sent[c]) \in Nat /\ delivered[c] \in SUBSET Nat
  BY DeliveryTypes
<1>2. \A c \in Clients : /\ seen[c] <= taken[c] /\ taken[c] <= Len(sent[c])
                         /\ taken[c] <= taken'[c] /\ taken'[c] <= Len(sent'[c])
  BY DEF DeliveryInv, Grows
<1>3. \A c \in Clients : \A k \in 1 .. seen[c] : sent'[c][k] = sent[c][k]
  <2> TAKE c \in Clients
  <2>1. 1 .. seen[c] \subseteq 1 .. Len(sent[c])
    BY <1>1, <1>2
  <2> QED BY <2>1 DEF Grows
<1>4. \A c \in Clients : seen'[c] <= taken'[c] /\ taken'[c] <= Len(sent'[c])
  <2> TAKE c \in Clients
  <2>1. taken'[c] \in Int
    BY DEF Grows
  <2> QED BY <1>1, <1>2, <2>1
<1>5. \A m \in Range(events') : m[2] \in 1 .. seen'[m[1]]
  BY DEF DeliveryInv
<1>6. \A c \in clients_connected' : \E k \in 1 .. seen'[c] : sent'[c][k] = "auth"
  <2> TAKE c \in clients_connected'
  <2>1. c \in Clients /\ c \in clients_connected
    BY DEF TypeOK
  <2>2. PICK k \in 1 .. seen[c] : sent[c][k] = "auth"
    BY <2>1 DEF DeliveryInv
  <2> QED BY <1>3, <2>1, <2>2
<1>7. \A c \in Clients :
        /\ delivered'[c] \subseteq 1 .. seen'[c]
        /\ Alive' /\ delivered'[c] # {} => c \in clients_connected'
  BY DEF DeliveryInv
<1>8. AuthBeforeData'
  <2> SUFFICES ASSUME NEW c \in Clients, NEW n \in delivered'[c]
               PROVE  \E k \in 1 .. n - 1 : sent'[c][k] = "auth"
    BY DEF AuthBeforeData
  <2>1. n \in delivered[c] /\ n \in 1 .. seen[c]
    BY DEF DeliveryInv
  <2>2. PICK k \in 1 .. n - 1 : sent[c][k] = "auth"
    BY <2>1 DEF DeliveryInv, AuthBeforeData
  <2>3. k \in 1 .. seen[c]
    BY <1>1, <2>1
  <2> QED BY <1>3, <2>2, <2>3
<1>9. NoGapAfterAdmission'
  <2> SUFFICES ASSUME NEW c \in Clients, NEW n \in delivered'[c],
                      NEW k \in n .. seen'[c], sent'[c][k] = "data"
               PROVE  k \in delivered'[c]
    BY DEF NoGapAfterAdmission
  <2>1. n \in delivered[c] /\ n \in 1 .. seen[c] /\ k \in n .. seen[c]
    BY DEF DeliveryInv
  <2>2. k \in 1 .. seen[c]
    BY <1>1, <2>1
  <2> QED BY <1>3, <2>1, <2>2 DEF DeliveryInv, NoGapAfterAdmission
<1> QED BY <1>4, <1>5, <1>6, <1>7, <1>8, <1>9 DEF DeliveryInv

LEMMA PeerDelivery ==
  ASSUME TypeOK, DeliveryInv, NEW c \in Clients, Peer(c)
  PROVE  DeliveryInv'
<1> USE DEF tables, channels, frame, peers, history, Alive
<1>1. \A d \in Clients : Grows(d)
  <2> TAKE d \in Clients
  <2>1. /\ sent[d] \in Seq(Kinds) /\ taken[d] \in Nat
        /\ taken[d] <= Len(sent[d])
    BY DEF TypeOK, DeliveryInv
  <2>2. taken' = taken
    BY DEF Peer, PeerConnects, PeerSends, PeerCloses
  <2>3. sent'[d] = sent[d] \/ \E k \in Kinds : sent'[d] = Append(sent[d], k)
    BY DEF TypeOK, Peer, PeerConnects, PeerSends, PeerCloses
  <2>4. CASE sent'[d] = sent[d]
    BY <2>1, <2>2, <2>4 DEF Grows
  <2>5. ASSUME NEW k \in Kinds, sent'[d] = Append(sent[d], k)
        PROVE  Grows(d)
    <3>1. /\ Len(sent'[d]) = Len(sent[d]) + 1 /\ Len(sent[d]) \in Nat
          /\ \A i \in 1 .. Len(sent[d]) : sent'[d][i] = sent[d][i]
      BY <2>1, <2>5
    <3> QED BY <2>1, <2>2, <3>1 DEF Grows
  <2> QED BY <2>3, <2>4, <2>5
<1>2. /\ UNCHANGED <<seen, delivered, events, clients_connected, pc>>
  BY DEF Peer, PeerConnects, PeerSends, PeerCloses
<1> QED BY <1>1, <1>2, DeliveryKept

LEMMA ReaderDelivery ==
  ASSUME TypeOK, DeliveryInv, NEW c \in Clients, NEW r \in Roles,
         Reader(c, r) \/ ReadPanics(c, r)
  PROVE  DeliveryInv'
<1> USE DEF tables, channels, frame, peers, history, Alive
<1>1. /\ UNCHANGED <<seen, delivered, events, clients_connected, pc, sent>>
      /\ \/ taken' = taken
         \/ taken' = [taken EXCEPT ![c] = @ + 1] /\ taken[c] < Len(sent[c])
  BY DEF Reader, LockReadHalf, StopUnauthReader, DrainAnnounced, ReadMessage,
     ReadFails, SendMessageReceived, SendClientDisconnected, SendFails,
     ReadPanics
<1>2. \A d \in Clients : Grows(d)
  <2> TAKE d \in Clients
  <2>1. taken[d] \in Nat /\ Len(sent[d]) \in Nat /\ taken[d] <= Len(sent[d])
    BY DeliveryTypes DEF DeliveryInv
  <2>2. \/ taken'[d] = taken[d]
        \/ taken'[d] = taken[d] + 1 /\ taken[d] < Len(sent[d])
    BY <1>1 DEF TypeOK
  <2> QED BY <1>1, <2>1, <2>2 DEF Grows
<1> QED BY <1>1, <1>2, DeliveryKept

LEMMA ReadMessagesServerDelivery ==
  ASSUME TypeOK, OrderInv, DeliveryInv, ReadMessagesServer
  PROVE  DeliveryInv'
<1> DEFINE m == Head(batch)
<1>1. /\ m \in Clients \X Nat
      /\ m[2] = seen[m[1]] + 1 /\ seen[m[1]] + 1 <= Last(m[1])
  BY ReadMessagesServerOrder
<1>2. /\ events' = events \/ events' = Append(events, m)
      /\ seen' = [seen EXCEPT ![m[1]] = @ + 1]
      /\ delivered' = [delivered EXCEPT ![m[1]] =
                         IF KindOf(m) = "data" /\ m[1] \in clients_connected
                         THEN @ \cup {m[2]} ELSE @]
      /\ UNCHANGED <<clients_connected, taken, sent, pc>> /\ pc = "dispatch"
  BY DEF ReadMessagesServer, peers
<1>3. Range(events') \subseteq Range(events) \cup {m}
  BY DispatchMoves
<1> HIDE DEF m
<1>4. PICK c \in Clients : m[1] = c
  BY <1>1
<1>5. /\ m[2] = seen[c] + 1 /\ seen'[c] = seen[c] + 1 /\ seen[c] + 1 <= taken[c]
      /\ \A d \in Clients \ {c} : seen'[d] = seen[d]
  <2>1. Last(c) <= taken[c] /\ seen[c] \in Nat /\ taken[c] \in Nat /\ Last(c) \in Int
    BY DeliveryTypes DEF Last
  <2>2. seen'[c] = seen[c] + 1 /\ \A d \in Clients \ {c} : seen'[d] = seen[d]
    BY <1>2, <1>4 DEF TypeOK
  <2> QED BY <1>1, <1>4, <2>1, <2>2
<1>6. KindOf(m) = sent[c][seen[c] + 1]
  BY <1>1, <1>4 DEF KindOf
<1>7. /\ delivered'[c] = IF sent[c][seen[c] + 1] = "data" /\ c \in clients_connected
                         THEN delivered[c] \cup {seen[c] + 1} ELSE delivered[c]
      /\ \A d \in Clients \ {c} : delivered'[d] = delivered[d]
  BY <1>1, <1>2, <1>4, <1>6 DEF TypeOK
<1>8. \A d \in Clients : /\ seen[d] \in Nat /\ taken[d] \in Nat
                         /\ Len(sent[d]) \in Nat /\ delivered[d] \in SUBSET Nat
                         /\ taken[d] <= Len(sent[d]) /\ seen[d] <= taken[d]
                         /\ delivered[d] \subseteq 1 .. seen[d]
  BY DeliveryTypes DEF DeliveryInv
<1>9. \A d \in Clients : seen'[d] \in Nat /\ seen[d] <= seen'[d]
  BY <1>5, <1>8
<1>10. \A d \in Clients : seen'[d] <= taken'[d] /\ taken'[d] <= Len(sent'[d])
  BY <1>2, <1>5, <1>8
<1>11. \A e \in Range(events') : e[2] \in 1 .. seen'[e[1]]
  <2> TAKE e \in Range(events')
  <2>1. CASE e = m
    BY <1>4, <1>5, <1>8, <2>1
  <2>2. CASE e \in Range(events)
    <3>1. e[2] \in 1 .. seen[e[1]]
      BY <2>2 DEF DeliveryInv
    <3>2. e[1] \in Clients
      <4>1. e \in Message
        BY <2>2, TypeOKShape DEF Shape
      <4> QED BY <4>1 DEF Message
    <3> QED BY <1>8, <1>9, <3>1, <3>2
  <2> QED BY <1>3, <2>1, <2>2
<1>12. \A d \in clients_connected' : \E k \in 1 .. seen'[d] : sent'[d][k] = "auth"
  <2> TAKE d \in clients_connected'
  <2>1. d \in Clients /\ d \in clients_connected
    BY <1>2 DEF TypeOK
  <2>2. PICK k \in 1 .. seen[d] : sent[d][k] = "auth"
    BY <2>1 DEF DeliveryInv
  <2> QED BY <1>2, <1>8, <1>9, <2>1, <2>2
<1>13. \A d \in Clients :
         /\ delivered'[d] \subseteq 1 .. seen'[d]
         /\ Alive' /\ delivered'[d] # {} => d \in clients_connected'
  <2> TAKE d \in Clients
  <2>1. delivered[d] # {} => d \in clients_connected
    BY <1>2 DEF DeliveryInv, Alive
  <2>2. CASE d = c
    BY <1>2, <1>5, <1>7, <1>8, <2>1, <2>2
  <2>3. CASE d # c
    BY <1>2, <1>5, <1>7, <1>8, <2>1, <2>3
  <2> QED BY <2>2, <2>3
<1>14. AuthBeforeData'
  <2> SUFFICES ASSUME NEW d \in Clients, NEW n \in delivered'[d]
               PROVE  \E k \in 1 .. n - 1 : sent'[d][k] = "auth"
    BY DEF AuthBeforeData
  <2>1. CASE n \in delivered[d]
    BY <1>2, <2>1 DEF DeliveryInv, AuthBeforeData
  <2>2. CASE n \notin delivered[d]
    <3>1. d = c /\ n = seen[c] + 1 /\ c \in clients_connected
      BY <1>7, <2>2
    <3>2. n - 1 = seen[d]
      BY <1>8, <3>1
    <3> QED BY <1>2, <3>1, <3>2 DEF DeliveryInv
  <2> QED BY <2>1, <2>2
<1>15. NoGapAfterAdmission'
  <2> SUFFICES ASSUME NEW d \in Clients, NEW n \in delivered'[d],
                      NEW k \in n .. seen'[d], sent'[d][k] = "data"
               PROVE  k \in delivered'[d]
    BY DEF NoGapAfterAdmission
  <2>1. n \in 1 .. seen'[d] /\ k \in Nat
    BY <1>9, <1>13
  <2>2. delivered[d] \subseteq delivered'[d]
    BY <1>7
  <2>3. CASE k \in 1 .. seen[d] /\ n \in delivered[d]
    <3>1. k \in n .. seen[d]
      BY <2>1, <2>3
    <3> QED BY <1>2, <2>2, <2>3, <3>1 DEF DeliveryInv, NoGapAfterAdmission
  <2>4. CASE k \notin 1 .. seen[d] \/ n \notin delivered[d]
    <3>1. d = c /\ k = seen[c] + 1
      <4>1. CASE d = c
        <5>1. n \notin delivered[d] => n = seen[c] + 1
          BY <1>7, <4>1
        <5>2. k <= seen[c] + 1 /\ n <= k /\ 1 <= k
          BY <1>5, <1>8, <2>1, <4>1
        <5> QED BY <1>8, <2>1, <2>4, <4>1, <5>1, <5>2
      <4>2. CASE d # c
        BY <1>5, <1>7, <1>8, <2>1, <2>4, <4>2
      <4> QED BY <4>1, <4>2
    <3>2. c \in clients_connected
      BY <1>2, <1>13, <3>1 DEF Alive
    <3> QED BY <1>2, <1>7, <3>1, <3>2
  <2> QED BY <2>3, <2>4
<1> QED BY <1>10, <1>11, <1>12, <1>13, <1>14, <1>15 DEF DeliveryInv

LEMMA AuthenticationMessageServerDelivery ==
  ASSUME TypeOK, DeliveryInv, AuthenticationMessageServer
  PROVE  DeliveryInv'
<1>1. /\ UNCHANGED <<seen, delivered, taken, sent, pc>>
      /\ events' = Tail(events) /\ events # <<>>
  BY DEF AuthenticationMessageServer, peers, history
<1>2. Head(events) \in Message /\ Range(events) = {Head(events)} \cup Range(events')
  BY <1>1, Popped DEF TypeOK
<1>3. PICK c \in Clients, n \in Nat : Head(events) = <<c, n>>
  BY <1>2 DEF Message
<1>4. n \in 1 .. seen[c]
  BY <1>2, <1>3 DEF DeliveryInv
<1>5. /\ clients_connected \subseteq clients_connected'
      /\ \A d \in clients_connected' :
           d \in clients_connected \/ (d = c /\ sent[c][n] = "auth")
  BY <1>3 DEF AuthenticationMessageServer, KindOf
<1>6. \A d \in clients_connected' : \E k \in 1 .. seen[d] : sent[d][k] = "auth"
  BY <1>4, <1>5 DEF DeliveryInv
<1>7. AuthBeforeData' /\ NoGapAfterAdmission'
  BY <1>1 DEF DeliveryInv, AuthBeforeData, NoGapAfterAdmission
<1> QED BY <1>1, <1>2, <1>5, <1>6, <1>7 DEF DeliveryInv, Alive

LEMMA SystemsDelivery ==
  ASSUME TypeOK, OrderInv, DeliveryInv,
         Systems \/ CheckClientsConnected \/ EndFrame \/ Disconnect
  PROVE  DeliveryInv'
<1>1. CASE ReadMessagesServer
  BY <1>1, ReadMessagesServerDelivery
<1>2. CASE AuthenticationMessageServer
  BY <1>2, AuthenticationMessageServerDelivery
<1>3. CASE ~ReadMessagesServer /\ ~AuthenticationMessageServer
  <2>1. UNCHANGED <<seen, delivered, taken, sent, events>>
    BY <1>3 DEF Systems, CheckClientDisconnectedFromPort,
       CheckClientConnectedToPort, StartListeningNotAuthenticated,
       CheckMessagesReceived, ReadMessagesServerEnd,
       AuthenticationMessageServerEnd, CheckClientsConnected, EndFrame,
       Disconnect, peers, frame, history
  <2>2. /\ Alive
        /\ \/ clients_connected' = clients_connected
           \/ ~Alive' /\ clients_connected' = {}
    BY <1>3 DEF Systems, CheckClientDisconnectedFromPort,
       CheckClientConnectedToPort, StartListeningNotAuthenticated,
       CheckMessagesReceived, ReadMessagesServerEnd,
       AuthenticationMessageServerEnd, CheckClientsConnected, EndFrame,
       Disconnect, frame, Alive
  <2>3. \A c \in Clients : Grows(c)
    BY <2>1, DeliveryTypes DEF Grows, DeliveryInv
  <2> QED BY <2>1, <2>2, <2>3, DeliveryKept
<1> QED BY <1>1, <1>2, <1>3

\* The application gets the data of the clients that have been admitted, from
\* their admission on.
THEOREM DeliveryInvariant == Spec => []DeliveryInv
<1>1. Init => DeliveryInv
  <2> SUFFICES ASSUME Init PROVE DeliveryInv
    OBVIOUS
  <2>1. \A c \in Clients : /\ seen[c] = 0 /\ taken[c] = 0 /\ Len(sent[c]) = 0
                           /\ delivered[c] = {}
    BY DEF Init
  <2>2. Range(events) = {} /\ clients_connected = {}
    BY Emptied DEF Init
  <2> QED BY <2>1, <2>2 DEF DeliveryInv, AuthBeforeData, NoGapAfterAdmission
<1>2. TypeOK /\ OrderInv /\ DeliveryInv /\ [Next]_vars => DeliveryInv'
  <2> SUFFICES ASSUME TypeOK, OrderInv, DeliveryInv, [Next]_vars
               PROVE  DeliveryInv'
    OBVIOUS
  <2>1. CASE Next
    BY <2>1, PeerDelivery, ReaderDelivery, SystemsDelivery DEF Next
  <2>2. CASE UNCHANGED vars
    BY <2>2 DEF vars, peers, frame, history, DeliveryInv, Alive,
       AuthBeforeData, NoGapAfterAdmission
  <2> QED BY <2>1, <2>2
<1> QED BY <1>1, <1>2, TypeCorrect, OrderInvariant, PTL DEF Spec

\* Data is given to the application only of a client that has sent an accepted
\* authentication message before it.
THEOREM DataIsOfTheAdmitted == Spec => []AuthBeforeData
<1>1. DeliveryInv => AuthBeforeData
  BY DEF DeliveryInv
<1> QED BY <1>1, DeliveryInvariant, PTL

\* From the first data message of a client that the application was given, it
\* is given every one that the read loop sees.
THEOREM AdmissionLasts == Spec => []NoGapAfterAdmission
<1>1. DeliveryInv => NoGapAfterAdmission
  BY DEF DeliveryInv
<1> QED BY <1>1, DeliveryInvariant, PTL
=============================================================================
