--------------------------- MODULE ClientLinkProofs ---------------------------
(* Client implements ClientLink, for any bounds: every step of the port, of  *)
(* its tasks and channels is a step of the connection that ClientLink        *)
(* promises, or none.                                                        *)
EXTENDS ClientProofs

\* The state of the connection, as ClientLink knows it.
LinkState == IF ~present THEN "absent" ELSE IF connected THEN "up" ELSE "down"

\* None.
LinkStays == UNCHANGED <<LinkState, half, last, base, delivered>>

LEMMA Stays ==
  ASSUME UNCHANGED <<present, connected, half, last, base, delivered>>
  PROVE  LinkStays
  BY DEF LinkStays, LinkState

LEMMA StartIsStart ==
  ASSUME ClientInv, StartConnection
  PROVE  Link!Start
<1>1. /\ ~present /\ present' /\ base' = last
      /\ UNCHANGED <<connected, half, last, delivered>>
  BY DEF StartConnection, port
<1>2. ~connected
  BY <1>1 DEF ClientInv, RemovedIsEmpty
<1> QED BY <1>1, <1>2 DEF Link!Start

LEMMA RemoveIsRemove ==
  ASSUME present, Remove, UNCHANGED hist
  PROVE  Link!Remove
<1>1. ~present' /\ half' = 0 /\ UNCHANGED <<last, base, delivered>>
  BY Zenon DEF Remove, hist
<1> QED BY <1>1 DEF Link!Remove

LEMMA DropIsLose ==
  ASSUME ClientInv, CheckMainPortDropped
  PROVE  Link!Lose \/ Link!Remove \/ LinkStays
<1>1. present /\ UNCHANGED hist
  BY DEF CheckMainPortDropped, ClientInv, RemovedIsEmpty
<1>2. CASE connection_down = 0
  BY <1>1, <1>2, Stays DEF CheckMainPortDropped, port, hist
<1>3. CASE connection_down # 0 /\ try_reconnect
  <2>1. present' /\ ~connected' /\ half' = 0 /\ UNCHANGED <<last, base, delivered>>
    BY <1>1, <1>3, Zenon DEF CheckMainPortDropped, PortDropped, hist
  <2>2. CASE connected
    BY <1>1, <2>1, <2>2 DEF Link!Lose
  <2>3. CASE ~connected
    <3>1. half = 0
      BY <2>3 DEF ClientInv, ChargeIsOnce
    <3> QED BY <1>1, <2>1, <2>3, <3>1 DEF LinkStays, LinkState
  <2> QED BY <2>2, <2>3
<1>4. CASE connection_down # 0 /\ ~try_reconnect
  BY <1>1, <1>4, RemoveIsRemove DEF CheckMainPortDropped
<1> QED BY <1>2, <1>3, <1>4

\* The stream that the port takes from its channel is a new one.
LEMMA ConnectedIsConnect ==
  ASSUME TypeOK, ClientInv, CheckConnectedToMainPort
  PROVE  Link!Connect \/ LinkStays
<1>1. present /\ UNCHANGED <<present, base, delivered>>
  BY DEF CheckConnectedToMainPort, ClientInv, RemovedIsEmpty
<1>2. CASE UNCHANGED <<connected, half, last>>
  BY <1>1, <1>2, Stays
<1>3. CASE ~connected /\ connected_to_server # <<>>
  <2>1. connected' /\ half' = Head(connected_to_server) /\ last' = half'
    BY <1>3 DEF CheckConnectedToMainPort
  <2>2. half' > last
    <3>1. connected_to_server \in Seq(1 .. Len(link))
      BY StreamsAre
    <3>2. 1 \in DOMAIN connected_to_server /\ half' = connected_to_server[1]
      BY <1>3, <2>1, <3>1
    <3> QED BY <3>2 DEF ClientInv, StreamsAreNew
  <2> QED BY <1>1, <1>3, <2>1, <2>2 DEF Link!Connect
<1> QED BY <1>2, <1>3 DEF CheckConnectedToMainPort

\* A message in the channel may follow what was given to the application.
LEMMA MessageFollows ==
  ASSUME TypeOK, ClientInv, present, NEW k \in Len(delivered) + 1 .. Len(Given)
  PROVE  /\ Given[k][1] \in base + 1 .. last
         /\ Link!Follows(Given[k], SubSeq(Given, 1, k - 1))
<1> DEFINE L == Len(Given)
<1>1. /\ L \in Nat /\ DOMAIN Given = 1 .. L /\ k \in 1 .. L
      /\ k - Len(delivered) \in DOMAIN message_received
      /\ Given[k] = message_received[k - Len(delivered)]
  <2>1. /\ delivered \in Seq(Pair) /\ message_received \in Seq(Pair) /\ Given \in Seq(Pair)
    BY GivenIs DEF Pair
  <2>2. /\ Len(delivered) \in Nat
        /\ k - Len(delivered) \in DOMAIN message_received
        /\ Given[k] = message_received[k - Len(delivered)]
    BY <2>1, BehindPlaces DEF Given
  <2>3. L \in Nat /\ DOMAIN Given = 1 .. L
    BY <2>1
  <2>4. k \in 1 .. L
    BY <2>2, <2>3
  <2> QED BY <2>2, <2>3, <2>4
<1>2. /\ Given \in Seq(Nat \X Nat)
      /\ \A i \in 1 .. L : /\ Given[i][1] \in Nat /\ Given[i][2] \in Nat
                           /\ Given[i] = <<Given[i][1], Given[i][2]>>
  <2>1. Given \in Seq(Nat \X Nat)
    BY GivenIs
  <2>2. \A i \in 1 .. L : Given[i] \in Nat \X Nat
    BY <1>1, <2>1
  <2> QED BY <2>1, <2>2
<1>3. Sorted(Given, last) /\ message_received[k - Len(delivered)][1] > base
  BY <1>1, Zenon DEF ClientInv, MessagesAreSorted, Given
<1> HIDE DEF L
<1>4. Given[k][1] \in base + 1 .. last
  <2>1. Given[k][1] <= last
    BY <1>1, <1>3 DEF Sorted
  <2>2. Given[k][1] \in Nat /\ Given[k][1] > base
    BY <1>1, <1>2, <1>3
  <2>3. last \in Nat /\ base \in Nat
    BY StreamsAre
  <2> QED BY <2>1, <2>2, <2>3
<1>5. /\ InOrder(Given, Given[k][1], 1, Put(Given[k][1])) /\ Put(Given[k][1]) \in Nat
  <2>1. PICK s \in base + 1 .. Len(link) : s = Given[k][1]
    BY <1>4, StreamsAre
  <2>2. InOrder(Given, s, 1, Put(s))
    BY Zenon DEF ClientInv, MessagesAreSorted, Given
  <2>3. s \in 1 .. Len(link) /\ taken[s] \in Nat
    BY <2>1, StreamsAre
  <2>4. \A j \in DOMAIN readers : readers[j].at = "hold" => taken[readers[j].on] > 0
    BY Zenon DEF ClientInv, MessagesAreSorted
  <2>5. Put(s) \in Nat
    <3>1. (\E j \in DOMAIN readers : readers[j].on = s /\ readers[j].at = "hold")
            => taken[s] > 0
      BY <2>4
    <3> QED BY <2>3, <3>1 DEF Put
  <2> QED BY <2>1, <2>2, <2>5
<1>6. \/ Given[k][2] = 1 /\ (k = 1 \/ Given[k - 1][1] < Given[k][1])
      \/ /\ k > 1 /\ Given[k - 1][1] = Given[k][1]
         /\ Given[k][2] = Given[k - 1][2] + 1
  <2>1. PICK g \in Seq(Nat \X Nat), n \in Nat : g = Given /\ n = Put(Given[k][1])
    BY <1>2, <1>5
  <2>2. /\ DOMAIN g = 1 .. L /\ L \in Nat /\ k \in 1 .. L
        /\ \A i \in 1 .. L : g[i][1] \in Nat /\ g[i][2] \in Nat
        /\ Sorted(g, last) /\ InOrder(g, g[k][1], 1, n)
    BY <1>1, <1>2, <1>3, <1>5, <2>1, Zenon
  <2>3. \/ g[k][2] = 1 /\ (k = 1 \/ g[k - 1][1] < g[k][1])
        \/ k > 1 /\ g[k - 1][1] = g[k][1] /\ g[k][2] = g[k - 1][2] + 1
    BY <2>2, Following, Zenon
  <2> QED BY <2>1, <2>3, Zenon
<1> DEFINE before == SubSeq(Given, 1, k - 1)
<1>7. /\ Len(before) = k - 1 /\ (k = 1 => before = <<>>)
      /\ k > 1 => before # <<>> /\ before[Len(before)] = Given[k - 1] /\ k - 1 \in 1 .. L
  <2>1. Given \in Seq(Pair) /\ k \in 1 .. Len(Given)
    BY <1>1, <1>2 DEF Pair, L
  <2>2. /\ Len(before) = k - 1 /\ (k = 1 => before = <<>>)
        /\ k > 1 => before # <<>> /\ before[k - 1] = Given[k - 1]
    BY <2>1, InFront
  <2>3. k > 1 => k - 1 \in 1 .. L
    BY <1>1
  <2> QED BY <2>2, <2>3
<1> HIDE DEF before
<1>8. Link!Follows(Given[k], before)
  <2>1. CASE Given[k][2] = 1 /\ k = 1
    BY <1>7, <2>1 DEF Link!Follows
  <2>2. CASE Given[k][2] = 1 /\ k > 1 /\ Given[k - 1][1] < Given[k][1]
    BY <1>7, <2>2 DEF Link!Follows
  <2>3. CASE /\ k > 1 /\ Given[k - 1][1] = Given[k][1]
             /\ Given[k][2] = Given[k - 1][2] + 1
    <3>1. \A a, b \in Nat \X Nat :
            a[1] = b[1] /\ b[2] = a[2] + 1 => b = [a EXCEPT ![2] = a[2] + 1]
      OBVIOUS
    <3>2. Given[k] \in Nat \X Nat /\ Given[k - 1] \in Nat \X Nat
      BY <1>1, <1>2, <1>7, <2>3
    <3>3. Given[k] = [Given[k - 1] EXCEPT ![2] = Given[k - 1][2] + 1]
      BY <2>3, <3>1, <3>2
    <3> QED BY <1>7, <2>3, <3>3 DEF Link!Follows
  <2>4. k > 1 \/ k = 1
    BY <1>1
  <2> QED BY <1>6, <2>1, <2>2, <2>3, <2>4
<1> QED BY <1>4, <1>8 DEF before

LEMMA ReadIsDeliver ==
  ASSUME TypeOK, ClientInv, ReadMessagesClient
  PROVE  Link!Deliver \/ LinkStays
<1>1. /\ present /\ delivered' = Given
      /\ UNCHANGED <<present, connected, half, last, base>>
  BY DEF ReadMessagesClient, Given, port, ClientInv, RemovedIsEmpty
<1>2. delivered \in Seq(Pair) /\ message_received \in Seq(Pair)
  BY GivenIs DEF Pair
<1>3. CASE message_received = <<>>
  <2>1. Given = delivered
    <3>1. delivered \o <<>> = delivered
      BY <1>2
    <3> QED BY <1>3, <3>1 DEF Given
  <2> QED BY <1>1, <2>1, Stays
<1>4. CASE message_received # <<>>
  <2>1. /\ Len(Given) > Len(delivered)
        /\ SubSeq(Given, 1, Len(delivered)) = delivered
    <3>1. /\ Len(delivered) \in Nat /\ Len(message_received) \in Nat
          /\ Len(Given) = Len(delivered) + Len(message_received)
          /\ SubSeq(Given, 1, Len(delivered)) = delivered
      BY <1>2, BehindPlaces DEF Given
    <3>2. Len(message_received) # 0
      BY <1>2, <1>4
    <3> QED BY <3>1, <3>2
  <2>2. \A k \in Len(delivered) + 1 .. Len(Given) :
          /\ Given[k][1] \in base + 1 .. last
          /\ Link!Follows(Given[k], SubSeq(Given, 1, k - 1))
    BY <1>1, MessageFollows
  <2>3. LinkState # "absent" /\ LinkState' = LinkState
    BY <1>1 DEF LinkState
  <2> HIDE DEF Given
  <2> QED BY <1>1, <2>1, <2>2, <2>3, Zenon DEF Link!Deliver, LinkState
<1> QED BY <1>3, <1>4

\* Port, tasks and channels together keep the promise of a connection.
THEOREM ClientImplementsLink == Spec => ImplementsLink
<1>1. Init => Link!LinkInit
  <2>1. Init => ~present /\ half = 0 /\ last = 0 /\ base = 0 /\ delivered = <<>>
    BY Zenon DEF Init
  <2> QED BY <2>1 DEF Link!LinkInit
<1>2. TypeOK /\ ClientInv /\ [Next]_vars => [Link!LinkNext]_(Link!linkVars)
  <2> SUFFICES ASSUME TypeOK, ClientInv, [Next]_vars
               PROVE  Link!LinkNext \/ LinkStays
    BY DEF Link!linkVars, LinkStays, LinkState
  <2>1. CASE StartConnection
    BY <2>1, StartIsStart DEF Link!LinkNext
  <2>2. CASE Disconnect
    BY <2>2, RemoveIsRemove DEF Link!LinkNext, Disconnect
  <2>3. CASE CheckMainPortDropped
    BY <2>3, DropIsLose DEF Link!LinkNext
  <2>4. CASE StartConnections
    BY <2>4, Stays DEF StartConnections, hist
  <2>5. CASE CheckConnectedToMainPort
    BY <2>5, ConnectedIsConnect DEF Link!LinkNext
  <2>6. CASE Tcp!CheckListeningToMainPort \/ Ws!CheckListeningToMainPort
    BY <2>6, Stays DEF Tcp!CheckListeningToMainPort, Ws!CheckListeningToMainPort,
       Tcp!hist, Ws!hist
  <2>7. CASE ReadMessagesClient
    BY <2>7, ReadIsDeliver DEF Link!LinkNext
  <2>8. CASE EndFrame \/ UNCHANGED vars
    BY <2>8, Stays DEF EndFrame, vars, port, hist
  <2>9. ASSUME NEW i \in DOMAIN connectors, ConnectorStep(i)
        PROVE  LinkStays
    <3>1. ConnectorDoes(i)
      BY <2>9, ConnectorSteps DEF ConnectorDoes
    <3> QED BY <3>1, ConnectorFrame, Stays
  <2>10. ASSUME NEW j \in DOMAIN readers,
                ReadMessage(j) \/ ReadPanics(j) \/ ReaderStep(j)
         PROVE  LinkStays
    <3>1. ReaderDoes(j)
      BY <2>10, ReaderSteps DEF ReaderDoes
    <3> QED BY <3>1, ReaderFrame, Stays
  <2>11. ASSUME NEW s \in DOMAIN link, LinkBreaks(s) \/ Ws!ServerCloses(s)
         PROVE  LinkStays
    BY <2>11, Stays DEF LinkBreaks, Ws!ServerCloses, mainThread, Ws!mainThread,
       port, Ws!port, hist, Ws!hist
  <2> QED BY <2>1, <2>2, <2>3, <2>4, <2>5, <2>6, <2>7, <2>8, <2>9, <2>10, <2>11
          DEF Next, Systems, FrameSystems
<1> QED BY <1>1, <1>2, ClientInvariant, PTL DEF Spec, ImplementsLink, Link!LinkSpec
=============================================================================
