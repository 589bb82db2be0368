------------------------ MODULE ServerListenerProofs ------------------------
(* Theorems of ServerListener, for any set of peers and any bounds.        *)
EXTENDS ServerListener, QueueLemmas

-----------------------------------------------------------------------------
(* Type correctness.                                                       *)

BinderStates == {"spawned", "bind", "send", "done", "panicked"}
LoopStates   == {"accept", "tls", "ws", "send", "down", "ending", "done",
                 "panicked"}

LEMMA TasksAre ==
  ASSUME TypeOK
  PROVE  /\ binders \in Seq(Binder) /\ \A i \in DOMAIN binders : binders[i] \in Binder
         /\ loops \in Seq(Loop) /\ \A j \in DOMAIN loops : loops[j] \in Loop
<1>1. binders \in Seq(Binder) /\ loops \in Seq(Loop)
  BY DEF TypeOK
<1> QED BY <1>1

\* Binder i goes from state x to state y.
BinderGoes(i, x, y) ==
  /\ binders[i].at = x /\ binders'[i].at = y
  /\ binders'[i].gen = binders[i].gen
  /\ DOMAIN binders' = DOMAIN binders
  /\ \A k \in DOMAIN binders \ {i} : binders'[k] = binders[k]

LEMMA BinderMoves ==
  ASSUME TypeOK, NEW i \in DOMAIN binders, NEW y \in BinderStates,
         binders' = [binders EXCEPT ![i].at = y]
  PROVE  binders' \in Seq(Binder) /\ BinderGoes(i, binders[i].at, y)
<1>1. binders \in Seq(Binder) /\ binders[i] \in Binder
  BY TasksAre, Zenon
<1> DEFINE e == [binders[i] EXCEPT !.at = y]
<1>2. e \in Binder /\ e.at = y /\ e.gen = binders[i].gen
  BY <1>1 DEF Binder, BinderStates
<1>3. binders' = [binders EXCEPT ![i] = e]
  OBVIOUS
<1> HIDE DEF e
<1> QED BY <1>1, <1>2, <1>3, Moved DEF BinderGoes

\* Accept loop j goes from state x to state y.
LoopGoes(j, x, y) ==
  /\ loops[j].at = x /\ loops'[j].at = y
  /\ loops'[j].gen = loops[j].gen /\ loops'[j].on = loops[j].on
  /\ DOMAIN loops' = DOMAIN loops
  /\ \A k \in DOMAIN loops \ {j} : loops'[k] = loops[k]

LEMMA LoopMoves ==
  ASSUME TypeOK, NEW j \in DOMAIN loops, NEW y \in LoopStates,
         \/ loops' = [loops EXCEPT ![j].at = y]
         \/ \E P \in SUBSET Peers : loops' = [loops EXCEPT ![j].peer = P, ![j].at = y]
  PROVE  loops' \in Seq(Loop) /\ LoopGoes(j, loops[j].at, y)
<1>1. loops \in Seq(Loop) /\ loops[j] \in Loop
  BY TasksAre, Zenon
<1>2. PICK e \in Loop : /\ loops' = [loops EXCEPT ![j] = e]
                        /\ e.at = y /\ e.gen = loops[j].gen /\ e.on = loops[j].on
  <2>1. CASE loops' = [loops EXCEPT ![j].at = y]
    <3> DEFINE e == [loops[j] EXCEPT !.at = y]
    <3>1. /\ e \in Loop /\ e.at = y /\ e.gen = loops[j].gen /\ e.on = loops[j].on
          /\ loops' = [loops EXCEPT ![j] = e]
      BY <1>1, <2>1 DEF Loop, LoopStates
    <3> QED BY <3>1
  <2>2. ASSUME NEW P \in SUBSET Peers,
               loops' = [loops EXCEPT ![j].peer = P, ![j].at = y]
        PROVE  \E e \in Loop : /\ loops' = [loops EXCEPT ![j] = e]
                               /\ e.at = y /\ e.gen = loops[j].gen
                               /\ e.on = loops[j].on
    <3> DEFINE e == [loops[j] EXCEPT !.peer = P, !.at = y]
    <3>1. e \in Loop /\ e.at = y /\ e.gen = loops[j].gen /\ e.on = loops[j].on
      BY <1>1 DEF Loop, LoopStates
    <3>2. loops' = [loops EXCEPT ![j] = e]
      BY <1>1, <2>2
    <3> QED BY <3>1, <3>2
  <2> QED BY <2>1, <2>2
<1> QED BY <1>1, <1>2, Moved DEF LoopGoes

\* The flags, and the rest of TypeOK.
FlagsOK ==
  /\ ws \in BOOLEAN /\ auto_reconnect \in BOOLEAN /\ tls \in BOOLEAN
  /\ present \in BOOLEAN /\ sc_connected \in BOOLEAN
  /\ connecting \in BOOLEAN /\ connected \in BOOLEAN
  /\ accepting_connections \in BOOLEAN
  /\ accepting_connections => connected
  /\ workers \in Workers
  /\ foreign \in BOOLEAN

DataOK ==
  /\ tcp_listener \in Nat
  /\ port_connected \in Seq(Nat) /\ connection_down \in Nat
  /\ binders \in Seq(Binder) /\ loops \in Seq(Loop)
  /\ pc \in {"dropped", "start", "receive", "accept", "app"}
  /\ gen \in Nat /\ listeners \in Nat /\ faults \in Nat
  /\ conn \in [Peers -> {"out", "waiting", "handshake", "accepted"}]
  /\ session \in [Peers -> Nat] /\ spinning \in [0 .. MaxStarts -> Nat]

LEMMA TypeParts == TypeOK <=> FlagsOK /\ DataOK
  BY Zenon DEF TypeOK, FlagsOK, DataOK

LEMMA TypePartsNext ==
  ASSUME FlagsOK', DataOK'
  PROVE  TypeOK'
  BY Zenon DEF TypeOK, FlagsOK, DataOK

LEMMA MainFlags ==
  ASSUME FlagsOK, StartConnection \/ Disconnect \/ Systems
  PROVE  FlagsOK'
<1> USE DEF FlagsOK, settings, port, queues, tasks, env, readers
<1>1. CASE StartConnection
  BY <1>1, Zenon DEF StartConnection
<1>2. CASE Disconnect
  BY <1>2, Zenon DEF Disconnect, Remove
<1>3. CASE CheckMainPortDropped
  BY <1>3, Zenon DEF CheckMainPortDropped, Remove, PortDropped
<1>4. CASE StartConnections
  <2>1. connecting' \in BOOLEAN
    BY <1>4, Zenon DEF StartConnections
  <2> QED BY <1>4, <2>1, Zenon DEF StartConnections
<1>5. CASE ReceiveMainPortListener
  BY <1>5, Zenon DEF ReceiveMainPortListener
<1>6. CASE StartAcceptingConnectionsMainPort
  BY <1>6, Zenon DEF StartAcceptingConnectionsMainPort
<1>7. CASE EndFrame
  BY <1>7, Zenon DEF EndFrame
<1> QED BY <1>1, <1>2, <1>3, <1>4, <1>5, <1>6, <1>7 DEF Systems

LEMMA ReceivedListener ==
  ASSUME TypeOK, ReceiveMainPortListener
  PROVE  tcp_listener' \in Nat /\ port_connected' \in Seq(Nat)
<1>1. port_connected \in Seq(Nat) /\ tcp_listener \in Nat
  BY DEF TypeOK
<1>2. CASE UNCHANGED <<tcp_listener, port_connected>>
  BY <1>1, <1>2
<1>3. CASE /\ port_connected # <<>>
           /\ tcp_listener' = Head(port_connected)
           /\ port_connected' = Tail(port_connected)
  <2>1. Head(port_connected) \in Nat /\ Tail(port_connected) \in Seq(Nat)
    BY <1>1, <1>3, Popped
  <2> QED BY <1>3, <2>1
<1> QED BY <1>2, <1>3 DEF ReceiveMainPortListener

LEMMA MainData ==
  ASSUME DataOK, StartConnection \/ Disconnect \/ Systems, TypeOK
  PROVE  DataOK'
<1> USE DEF DataOK, settings, port, queues, tasks, env, readers
<1>1. CASE StartConnection
  BY <1>1 DEF StartConnection
<1>2. CASE Disconnect
  BY <1>2 DEF Disconnect, Remove
<1>3. CASE CheckMainPortDropped
  <2>1. \/ UNCHANGED <<tcp_listener, queues>>
        \/ /\ connection_down # 0 /\ connection_down' = connection_down - 1
           /\ tcp_listener' = 0
           /\ UNCHANGED port_connected
        \/ Remove
    BY <1>3, Zenon DEF CheckMainPortDropped, PortDropped
  <2>2. /\ UNCHANGED <<tasks, gen, listeners, env>>
        /\ pc' = "start" \/ pc' = "app"
    BY <1>3, Zenon DEF CheckMainPortDropped
  <2>3. CASE Remove
    BY <2>2, <2>3 DEF Remove
  <2> QED BY <2>1, <2>2, <2>3
<1>4. CASE StartConnections
  <2> DEFINE new == [gen |-> gen, at |-> "spawned"]
  <2>1. binders' = binders \/ binders' = Append(binders, new)
    BY <1>4 DEF StartConnections
  <2>2. new \in Binder
    BY DEF Binder
  <2> HIDE DEF new
  <2>3. Append(binders, new) \in Seq(Binder)
    BY <2>2
  <2> QED BY <1>4, <2>1, <2>3 DEF StartConnections
<1>5. CASE ReceiveMainPortListener
  BY <1>5, ReceivedListener DEF ReceiveMainPortListener
<1>6. CASE StartAcceptingConnectionsMainPort
  <2> DEFINE new == [gen |-> gen, on |-> tcp_listener, peer |-> {}, at |-> "accept"]
  <2>1. loops' = loops \/ loops' = Append(loops, new)
    BY <1>6 DEF StartAcceptingConnectionsMainPort
  <2>2. new \in Loop
    BY DEF Loop
  <2> HIDE DEF new
  <2>3. Append(loops, new) \in Seq(Loop)
    BY <2>2
  <2> QED BY <1>6, <2>1, <2>3 DEF StartAcceptingConnectionsMainPort
<1>7. CASE EndFrame
  BY <1>7 DEF EndFrame
<1> QED BY <1>1, <1>2, <1>3, <1>4, <1>5, <1>6, <1>7 DEF Systems

LEMMA MainType ==
  ASSUME TypeOK, StartConnection \/ Disconnect \/ Systems
  PROVE  TypeOK'
  BY TypeParts, TypePartsNext, MainFlags, MainData

\* What the steps of a binder do to the list of the binders.
LEMMA BinderStepMoves ==
  ASSUME TypeOK, NEW i \in DOMAIN binders
  PROVE  /\ BinderStep(i) => binders' \in Seq(Binder)
         /\ BinderStarts(i) => BinderGoes(i, "spawned", "bind")
         /\ BindSucceeds(i) => BinderGoes(i, "bind", "send")
         /\ SendPortConnected(i) =>
              BinderGoes(i, "send", IF Current(binders[i]) THEN "done" ELSE "panicked")
         /\ BinderDropped(i) => BinderGoes(i, "spawned", "done")
<1>1. ASSUME BinderStarts(i)
      PROVE  binders' \in Seq(Binder) /\ BinderGoes(i, "spawned", "bind")
  BY <1>1, BinderMoves DEF BinderStarts, BinderStates
<1>2. ASSUME BindSucceeds(i)
      PROVE  binders' \in Seq(Binder) /\ BinderGoes(i, "bind", "send")
  BY <1>2, BinderMoves DEF BindSucceeds, BinderStates
<1>3. ASSUME SendPortConnected(i)
      PROVE  /\ binders' \in Seq(Binder)
             /\ BinderGoes(i, "send", IF Current(binders[i]) THEN "done" ELSE "panicked")
  BY <1>3, BinderMoves DEF SendPortConnected, BinderStates
<1>4. ASSUME BinderDropped(i)
      PROVE  binders' \in Seq(Binder) /\ BinderGoes(i, "spawned", "done")
  BY <1>4, BinderMoves DEF BinderDropped, BinderStates
<1> QED BY <1>1, <1>2, <1>3, <1>4, Zenon DEF BinderStep

LEMMA BinderType ==
  ASSUME TypeOK, NEW i \in DOMAIN binders, BinderStep(i)
  PROVE  TypeOK'
<1> USE DEF BinderStep, BinderStarts, BindSucceeds, SendPortConnected,
            BinderDropped, settings, port, queues, tasks, env, readers
<1>1. binders' \in Seq(Binder)
  BY BinderStepMoves DEF BinderStep
<1>2. port_connected' \in Seq(Nat) /\ listeners' \in Nat
  <2>1. port_connected \in Seq(Nat) /\ listeners \in Nat
    BY DEF TypeOK
  <2>2. \/ port_connected' = port_connected
        \/ port_connected' = Append(port_connected, listeners)
    OBVIOUS
  <2>3. listeners' = listeners \/ listeners' = listeners + 1
    OBVIOUS
  <2>4. Append(port_connected, listeners) \in Seq(Nat) /\ listeners + 1 \in Nat
    BY <2>1
  <2> QED BY <2>1, <2>2, <2>3, <2>4, Zenon
<1>3. UNCHANGED <<settings, present, sc_connected, port, connection_down,
                  loops, pc, gen, env>>
  OBVIOUS
<1> QED BY <1>1, <1>2, <1>3, Zenon DEF TypeOK

\* The steps of an accept loop.
LoopAction(j) ==
  \/ LoopStep(j) \/ AcceptFails(j)
  \/ TlsAccepted(j) \/ TlsFails(j) \/ WsAccepted(j) \/ WsFails(j)
  \/ \E p \in Peers : Accept(j, p)

Busy == {"tls", "ws", "send"}

\* A loop that runs goes on, or fails and has a report to send, or ends.
LEMMA LoopActionMoves ==
  ASSUME TypeOK, NEW j \in DOMAIN loops, LoopAction(j)
  PROVE  /\ loops' \in Seq(Loop)
         /\ \/ \E x, y \in Busy \cup {"accept", "down"} :
                 x # "down" /\ LoopGoes(j, x, y) /\ UNCHANGED connection_down
            \/ /\ Current(loops[j]) /\ LoopGoes(j, "down", "ending")
               /\ connection_down' = connection_down + 1
            \/ LoopGoes(j, "ending", "done") /\ UNCHANGED connection_down
            \/ \E x \in Busy \cup {"accept", "down"}, y \in Ended :
                 ~Current(loops[j]) /\ LoopGoes(j, x, y) /\ UNCHANGED connection_down
<1> USE DEF queues
<1>1. \A p \in Peers : {p} \in SUBSET Peers
  OBVIOUS
<1>2. {} \in SUBSET Peers
  OBVIOUS
<1>3. ASSUME SendConnectionDown(j), Current(loops[j])
      PROVE  /\ loops[j].at = "down" /\ loops' = [loops EXCEPT ![j].at = "ending"]
             /\ connection_down' = connection_down + 1
  BY <1>3 DEF SendConnectionDown
<1>4. ASSUME ~(SendConnectionDown(j) /\ Current(loops[j])), ~LoopEnds(j)
      PROVE  /\ UNCHANGED connection_down
             /\ \E y \in LoopStates :
                  /\ \/ loops' = [loops EXCEPT ![j].at = y]
                     \/ \E P \in SUBSET Peers :
                          loops' = [loops EXCEPT ![j].peer = P, ![j].at = y]
                  /\ \/ loops[j].at \in Busy \cup {"accept"} /\ y \in Busy \cup {"accept", "down"}
                     \/ /\ ~Current(loops[j])
                        /\ loops[j].at \in Busy \cup {"accept", "down"} /\ y \in Ended
  <2>1. CASE SendConnectionDown(j)
    BY <1>4, <2>1 DEF SendConnectionDown, LoopStates, Busy, Ended
  <2>2. CASE SendClientConnected(j)
    <3>1. CASE Current(loops[j])
      BY <1>2, <2>2, <3>1 DEF SendClientConnected, LoopStates, Busy
    <3>2. CASE ~Current(loops[j])
      BY <1>2, <2>2, <3>2 DEF SendClientConnected, LoopStates, Busy, Ended
    <3> QED BY <3>1, <3>2
  <2>3. CASE LoopDropped(j)
    BY <1>2, <2>3 DEF LoopDropped, LoopStates, Busy, Ended
  <2>4. CASE AcceptFails(j)
    BY <2>4 DEF AcceptFails, LoopStates, Busy
  <2>5. CASE TlsAccepted(j)
    BY <2>5 DEF TlsAccepted, AfterTls, LoopStates, Busy
  <2>6. CASE TlsFails(j)
    BY <1>2, <2>6 DEF TlsFails, LoopStates, Busy
  <2>7. CASE WsAccepted(j)
    BY <2>7 DEF WsAccepted, LoopStates, Busy
  <2>8. CASE WsFails(j)
    BY <1>2, <2>8 DEF WsFails, LoopStates, Busy
  <2>9. ASSUME NEW p \in Peers, Accept(j, p)
        PROVE  /\ UNCHANGED connection_down
               /\ \E y \in Busy : loops[j].at = "accept" /\ 
                    loops' = [loops EXCEPT ![j].peer = {p}, ![j].at = y]
    BY <2>9 DEF Accept, AfterTls, Busy
  <2>10. Busy \subseteq LoopStates
    BY DEF Busy, LoopStates
  <2> QED BY <1>1, <1>4, <2>1, <2>2, <2>3, <2>4, <2>5, <2>6, <2>7, <2>8, <2>9, <2>10
          DEF LoopAction, LoopStep
<1>5. CASE SendConnectionDown(j) /\ Current(loops[j])
  <2>1. loops' \in Seq(Loop) /\ LoopGoes(j, "down", "ending")
    BY <1>3, <1>5, LoopMoves DEF LoopStates
  <2> QED BY <1>3, <1>5, <2>1
<1>6. CASE LoopEnds(j)
  <2>1. /\ loops[j].at = "ending" /\ loops' = [loops EXCEPT ![j].at = "done"]
        /\ UNCHANGED connection_down
    BY <1>6 DEF LoopEnds
  <2>2. loops' \in Seq(Loop) /\ LoopGoes(j, "ending", "done")
    BY <2>1, LoopMoves DEF LoopStates
  <2> QED BY <2>1, <2>2
<1>7. CASE ~(SendConnectionDown(j) /\ Current(loops[j])) /\ ~LoopEnds(j)
  <2>1. PICK y \in LoopStates :
          /\ \/ loops' = [loops EXCEPT ![j].at = y]
             \/ \E P \in SUBSET Peers :
                  loops' = [loops EXCEPT ![j].peer = P, ![j].at = y]
          /\ \/ loops[j].at \in Busy \cup {"accept"} /\ y \in Busy \cup {"accept", "down"}
             \/ /\ ~Current(loops[j])
                /\ loops[j].at \in Busy \cup {"accept", "down"} /\ y \in Ended
    BY <1>4, <1>7
  <2>2. loops' \in Seq(Loop) /\ LoopGoes(j, loops[j].at, y)
    BY <2>1, LoopMoves
  <2>3. "down" \notin Busy \cup {"accept"}
    BY DEF Busy
  <2> QED BY <1>4, <1>7, <2>1, <2>2, <2>3
<1> QED BY <1>5, <1>6, <1>7

\* What a loop leaves alone.
LEMMA LoopActionFrame ==
  ASSUME TypeOK, NEW j \in DOMAIN loops, LoopAction(j)
  PROVE  /\ UNCHANGED <<settings, present, sc_connected, port, port_connected,
                        binders, pc, gen, listeners, foreign, spinning>>
         /\ faults' = faults \/ faults' = faults + 1
         /\ \/ session' = session
            \/ \E p \in Peers : session' = [session EXCEPT ![p] = gen]
         /\ \/ conn' = conn \/ conn' = Hangup(j)
            \/ \E p \in Peers, x \in {"handshake", "accepted"} :
                 conn' = [conn EXCEPT ![p] = x]
<1> USE DEF queues, env, readers, tasks
<1>1. CASE SendConnectionDown(j) \/ LoopEnds(j) \/ AcceptFails(j) \/ LoopDropped(j)
  BY <1>1 DEF SendConnectionDown, LoopEnds, AcceptFails, LoopDropped
<1>2. CASE SendClientConnected(j)
  <2>1. /\ UNCHANGED <<settings, present, sc_connected, port, port_connected,
                       binders, pc, gen, listeners, foreign, spinning, faults>>
        /\ \/ \E p \in loops[j].peer :
                /\ conn' = [conn EXCEPT ![p] = "accepted"]
                /\ session' = [session EXCEPT ![p] = gen]
           \/ conn' = Hangup(j) /\ UNCHANGED session
    BY <1>2, Zenon DEF SendClientConnected
  <2>2. loops[j].peer \subseteq Peers
    BY TasksAre DEF Loop
  <2> QED BY <2>1, <2>2
<1>3. CASE TlsAccepted(j) \/ TlsFails(j) \/ WsAccepted(j) \/ WsFails(j)
  BY <1>3 DEF TlsAccepted, TlsFails, WsAccepted, WsFails
<1>4. ASSUME NEW p \in Peers, Accept(j, p)
      PROVE  /\ UNCHANGED <<settings, present, sc_connected, port, port_connected,
                            binders, pc, gen, listeners, foreign, readers,
                            faults>>
             /\ conn' = [conn EXCEPT ![p] = "handshake"]
  BY <1>4 DEF Accept
<1> QED BY <1>1, <1>2, <1>3, <1>4, Zenon DEF LoopAction, LoopStep

LEMMA LoopType ==
  ASSUME TypeOK, NEW j \in DOMAIN loops, LoopAction(j)
  PROVE  TypeOK'
<1>1. loops' \in Seq(Loop) /\ connection_down' \in Nat
  <2>1. connection_down' = connection_down \/ connection_down' = connection_down + 1
    BY LoopActionMoves
  <2> QED BY <2>1, LoopActionMoves DEF TypeOK
<1>2. conn' \in [Peers -> {"out", "waiting", "handshake", "accepted"}]
  <2>1. conn \in [Peers -> {"out", "waiting", "handshake", "accepted"}]
    BY DEF TypeOK
  <2>2. Hangup(j) \in [Peers -> {"out", "waiting", "handshake", "accepted"}]
    BY <2>1 DEF Hangup
  <2>3. \A p \in Peers, x \in {"handshake", "accepted"} :
          [conn EXCEPT ![p] = x] \in [Peers -> {"out", "waiting", "handshake", "accepted"}]
    BY <2>1
  <2> QED BY <2>1, <2>2, <2>3, LoopActionFrame, Zenon
<1>3. session' \in [Peers -> Nat] /\ spinning' \in [0 .. MaxStarts -> Nat]
  <2>1. session \in [Peers -> Nat] /\ gen \in Nat /\ spinning \in [0 .. MaxStarts -> Nat]
    BY DEF TypeOK
  <2>2. \A p \in Peers : [session EXCEPT ![p] = gen] \in [Peers -> Nat]
    BY <2>1
  <2>3. /\ spinning' = spinning
        /\ \/ session' = session
           \/ \E p \in Peers : session' = [session EXCEPT ![p] = gen]
    BY LoopActionFrame
  <2> QED BY <2>1, <2>2, <2>3
<1>4. faults' \in Nat
  <2>1. faults \in Nat
    BY DEF TypeOK
  <2>2. faults' = faults \/ faults' = faults + 1
    BY LoopActionFrame
  <2> QED BY <2>1, <2>2
<1>5. UNCHANGED <<settings, present, sc_connected, port, port_connected, binders,
                  pc, gen, listeners, foreign>>
  BY LoopActionFrame
<1> QED BY <1>1, <1>2, <1>3, <1>4, <1>5, Zenon DEF TypeOK, settings, port

Surroundings ==
  \/ AddressFreed
  \/ \E p \in Peers :
       \/ PeerConnects(p) \/ PeerReset(p) \/ WebSocketEnds(p) \/ StreamDropped(p)

LEMMA SurroundingsType ==
  ASSUME TypeOK, Surroundings
  PROVE  TypeOK'
<1>1. FlagsOK'
  <2>1. /\ UNCHANGED <<settings, present, sc_connected, port>>
        /\ foreign' = foreign \/ foreign' = FALSE
    BY DEF Surroundings, AddressFreed, PeerConnects, PeerReset, WebSocketEnds,
           StreamDropped
  <2> QED BY <2>1, TypeParts DEF FlagsOK, settings, port
<1> USE DEF Surroundings, AddressFreed, PeerConnects, PeerReset, WebSocketEnds,
            StreamDropped, settings, port, queues, tasks, readers
<1>2. DataOK'
  <2>1. UNCHANGED <<port, queues, tasks, pc, gen, listeners, faults>>
    OBVIOUS
  <2>2. conn' \in [Peers -> {"out", "waiting", "handshake", "accepted"}]
    BY TypeParts DEF DataOK
  <2>3. session' \in [Peers -> Nat]
    BY TypeParts DEF DataOK
  <2>4. spinning' \in [0 .. MaxStarts -> Nat]
    <3>1. spinning \in [0 .. MaxStarts -> Nat]
      BY TypeParts DEF DataOK
    <3>2. \/ spinning' = spinning
          \/ \E g : spinning' = [spinning EXCEPT ![g] = @ + 1]
      OBVIOUS
    <3>3. ASSUME NEW g, spinning' = [spinning EXCEPT ![g] = @ + 1]
          PROVE  spinning' \in [0 .. MaxStarts -> Nat]
      <4>1. CASE g \in 0 .. MaxStarts
        <5>1. spinning[g] + 1 \in Nat
          BY <3>1, <4>1
        <5> QED BY <3>1, <3>3, <5>1
      <4>2. CASE g \notin 0 .. MaxStarts
        BY <3>1, <3>3, <4>2
      <4> QED BY <4>1, <4>2
    <3> QED BY <3>1, <3>2, <3>3
  <2> QED BY <2>1, <2>2, <2>3, <2>4, TypeParts DEF DataOK
<1> QED BY <1>1, <1>2, TypePartsNext

\* Every variable keeps its type.
THEOREM ListenerTypeCorrect == Spec => []TypeOK
<1>1. Init => TypeOK
  <2>1. Init => FlagsOK
    BY Zenon DEF Init, FlagsOK
  <2>2. Init => DataOK
    BY DEF Init, DataOK
  <2> QED BY <2>1, <2>2, TypeParts
<1>2. TypeOK /\ [Next]_vars => TypeOK'
  <2> SUFFICES ASSUME TypeOK, [Next]_vars PROVE TypeOK'
    OBVIOUS
  <2>1. CASE Next
    BY <2>1, MainType, BinderType, LoopType, SurroundingsType
       DEF Next, LoopAction, Surroundings
  <2>2. CASE UNCHANGED vars
    BY <2>2 DEF TypeOK, vars, settings, port, queues, tasks, env, readers
  <2> QED BY <2>1, <2>2
<1> QED BY <1>1, <1>2, PTL DEF Spec

-----------------------------------------------------------------------------
(* The inductive invariant.  First the steps of the tasks: what they do to *)
(* the sets that the invariant speaks of.                                  *)

LEMMA LoopsKept ==
  ASSUME NEW j \in DOMAIN loops, NEW x, NEW y, LoopGoes(j, x, y),
         UNCHANGED <<present, gen>>,
         (x \in Over <=> y \in Over) \/ ~Current(loops[j])
  PROVE  CurrentLoops' = CurrentLoops
<1>1. ASSUME NEW k \in DOMAIN loops
      PROVE  k \in CurrentLoops' <=> k \in CurrentLoops
  BY DEF LoopGoes, CurrentLoops, Current
<1> QED BY <1>1 DEF LoopGoes, CurrentLoops

LEMMA LoopReports ==
  ASSUME NEW j \in DOMAIN loops, LoopGoes(j, "down", "ending"),
         UNCHANGED <<present, gen>>, Current(loops[j])
  PROVE  j \in CurrentLoops /\ CurrentLoops' = CurrentLoops \ {j}
<1>1. ASSUME NEW k \in DOMAIN loops
      PROVE  k \in CurrentLoops' <=> k \in CurrentLoops /\ k # j
  BY DEF LoopGoes, CurrentLoops, Current, Over, Ended
<1> QED BY <1>1 DEF LoopGoes, CurrentLoops, Current, Over, Ended

LEMMA LoopInv ==
  ASSUME TypeOK, ListenerInv, NEW j \in DOMAIN loops, LoopAction(j)
  PROVE  ListenerInv'
<1>1. UNCHANGED <<present, connecting, connected, accepting_connections,
                  tcp_listener, port_connected, binders, pc, gen, listeners>>
  BY LoopActionFrame DEF port
<1>2. PICK x, y : LoopGoes(j, x, y)
  BY LoopActionMoves
<1>3. /\ DOMAIN loops' = DOMAIN loops
      /\ \A k \in DOMAIN loops : /\ loops'[k].on = loops[k].on
                                 /\ loops'[k].gen = loops[k].gen
  BY <1>2 DEF LoopGoes
<1>4. TasksAreStarted' /\ ListenersAreNumbered'
  BY <1>1, <1>3 DEF ListenerInv, TasksAreStarted, ListenersAreNumbered
<1>5. ListenerIsOnce'
  BY <1>1 DEF ListenerInv, ListenerIsOnce, Binding, Current
<1>6. LoopIsOnce' /\ (~present => connection_down' = 0)
  <2>1. CASE UNCHANGED connection_down /\ CurrentLoops' = CurrentLoops
    <3>1. CurrentLoops \subseteq DOMAIN loops
      BY DEF CurrentLoops
    <3> QED BY <1>1, <1>3, <2>1, <3>1 DEF ListenerInv, LoopIsOnce, RemovedIsEmpty
  <2>2. CASE /\ Current(loops[j]) /\ LoopGoes(j, "down", "ending")
             /\ connection_down' = connection_down + 1
    <3>1. j \in CurrentLoops /\ CurrentLoops' = CurrentLoops \ {j}
      BY <1>1, <2>2, LoopReports
    <3>2. /\ accepting_connections /\ CurrentLoops = {j} /\ connection_down = 0
          /\ present
      BY <2>2, <3>1 DEF ListenerInv, LoopIsOnce, Current
    <3>3. CurrentLoops' = {} /\ connection_down' = 1
      BY <2>2, <3>1, <3>2
    <3> QED BY <1>1, <3>2, <3>3 DEF LoopIsOnce
  <2>3. ASSUME NEW u \in Busy \cup {"accept", "down"},
               NEW v \in Busy \cup {"accept", "down"}, LoopGoes(j, u, v)
        PROVE  CurrentLoops' = CurrentLoops
    <3>1. u \notin Over /\ v \notin Over
      BY DEF Over, Ended, Busy
    <3> QED BY <1>1, <2>3, <3>1, LoopsKept
  <2>4. ASSUME NEW u, NEW v, ~Current(loops[j]), LoopGoes(j, u, v)
        PROVE  CurrentLoops' = CurrentLoops
    BY <1>1, <2>4, LoopsKept
  <2>5. ASSUME LoopGoes(j, "ending", "done")
        PROVE  CurrentLoops' = CurrentLoops
    <3>1. "ending" \in Over /\ "done" \in Over
      BY DEF Over, Ended
    <3> QED BY <1>1, <2>5, <3>1, LoopsKept
  <2> QED BY <2>1, <2>2, <2>3, <2>4, <2>5, LoopActionMoves
<1>7. RemovedIsEmpty'
  BY <1>1, <1>6 DEF ListenerInv, RemovedIsEmpty
<1> QED BY <1>4, <1>5, <1>6, <1>7 DEF ListenerInv

LEMMA BinderInv ==
  ASSUME TypeOK, ListenerInv, NEW i \in DOMAIN binders, BinderStep(i)
  PROVE  ListenerInv'
<1>1. UNCHANGED <<present, connecting, connected, accepting_connections,
                  tcp_listener, connection_down, loops, pc, gen>>
  BY DEF BinderStep, BinderStarts, BindSucceeds, SendPortConnected,
     BinderDropped, port, queues
<1>2. \E x, y : BinderGoes(i, x, y)
  BY BinderStepMoves DEF BinderStep
<1>3. TasksAreStarted'
  BY <1>1, <1>2 DEF ListenerInv, TasksAreStarted, BinderGoes
<1>4. LoopIsOnce'
  <2>1. CurrentLoops' = CurrentLoops
    BY <1>1 DEF CurrentLoops, Current
  <2> QED BY <1>1, <2>1 DEF ListenerInv, LoopIsOnce
<1>5. ListenersAreNumbered'
  <2>1. listeners \in Nat
    BY DEF TypeOK
  <2>2. CASE BindSucceeds(i)
    <3>1. listeners' > 0 /\ UNCHANGED port_connected
      BY <2>1, <2>2 DEF BindSucceeds, queues
    <3> QED BY <3>1 DEF ListenerInv, ListenersAreNumbered
  <2>3. CASE SendPortConnected(i) /\ Current(binders[i])
    <3>1. BinderGoes(i, "send", "done") /\ UNCHANGED listeners
      BY <2>3, BinderStepMoves DEF SendPortConnected
    <3>2. listeners > 0
      BY <3>1 DEF ListenerInv, ListenersAreNumbered, BinderGoes
    <3>3. \A k \in DOMAIN port_connected' : port_connected'[k] > 0
      <4>1. port_connected \in Seq(Nat) /\ port_connected' = Append(port_connected, listeners)
        BY <2>3 DEF TypeOK, SendPortConnected
      <4> QED BY <2>1, <3>2, <4>1, Spawned DEF ListenerInv, ListenersAreNumbered
    <3> QED BY <3>1, <3>3 DEF ListenerInv, ListenersAreNumbered, BinderGoes
  <2>4. CASE \/ BinderStarts(i) \/ BinderDropped(i)
             \/ SendPortConnected(i) /\ ~Current(binders[i])
    <3>1. UNCHANGED <<listeners, port_connected>>
      BY <2>4 DEF BinderStarts, BinderDropped, SendPortConnected, queues
    <3>2. /\ DOMAIN binders' = DOMAIN binders /\ binders'[i].at # "send"
          /\ \A k \in DOMAIN binders \ {i} : binders'[k] = binders[k]
      BY <2>4, BinderStepMoves DEF BinderGoes
    <3> QED BY <3>1, <3>2 DEF ListenerInv, ListenersAreNumbered
  <2> QED BY <2>2, <2>3, <2>4 DEF BinderStep
<1>6. ListenerIsOnce' /\ (~present => port_connected' = <<>>)
  <2>1. CASE SendPortConnected(i) /\ Current(binders[i])
    <3>1. BinderGoes(i, "send", "done")
      BY <2>1, BinderStepMoves
    <3>2. Binding(i) /\ ~Binding(i)'
      BY <2>1, <3>1 DEF Binding, BinderGoes, Ended
    <3>3. connecting /\ ~connected /\ port_connected = <<>> /\ present
      BY <2>1, <3>2 DEF ListenerInv, ListenerIsOnce, Current
    <3>4. \A k \in DOMAIN binders' : ~Binding(k)'
      <4>1. \A k \in DOMAIN binders \ {i} : ~Binding(k)
        BY <3>2 DEF ListenerInv, ListenerIsOnce
      <4> QED BY <1>1, <3>1, <3>2, <4>1 DEF BinderGoes, Binding, Current
    <3>5. Tail(port_connected') = <<>>
      <4>1. port_connected' = <<listeners>>
        BY <2>1, <3>3 DEF SendPortConnected
      <4> QED BY <4>1
    <3> QED BY <1>1, <3>3, <3>4, <3>5 DEF ListenerInv, ListenerIsOnce
  <2>2. CASE ~(SendPortConnected(i) /\ Current(binders[i]))
    <3>1. UNCHANGED port_connected
      BY <2>2 DEF BinderStep, BinderStarts, BindSucceeds, SendPortConnected,
         BinderDropped, queues
    <3>2. DOMAIN binders' = DOMAIN binders /\ \A k \in DOMAIN binders : Binding(k)' => Binding(k)
      <4>1. \/ BinderGoes(i, "spawned", "bind") \/ BinderGoes(i, "bind", "send")
            \/ \E x, y : ~Current(binders[i]) /\ BinderGoes(i, x, y)
        BY <2>2, BinderStepMoves DEF BinderStep, BinderDropped
      <4>2. CASE BinderGoes(i, "spawned", "bind") \/ BinderGoes(i, "bind", "send")
        BY <1>1, <4>2 DEF BinderGoes, Binding, Current, Ended
      <4>3. ASSUME NEW x, NEW y, ~Current(binders[i]), BinderGoes(i, x, y)
            PROVE  /\ DOMAIN binders' = DOMAIN binders
                   /\ \A k \in DOMAIN binders : Binding(k)' => Binding(k)
        BY <1>1, <4>3 DEF BinderGoes, Binding, Current
      <4> QED BY <4>1, <4>2, <4>3
    <3> QED BY <1>1, <3>1, <3>2 DEF ListenerInv, ListenerIsOnce, RemovedIsEmpty
  <2> QED BY <2>1, <2>2
<1>7. RemovedIsEmpty'
  BY <1>1, <1>6 DEF ListenerInv, RemovedIsEmpty
<1> QED BY <1>3, <1>4, <1>5, <1>6, <1>7 DEF ListenerInv

\* The steps that change none of what the invariant speaks of.
LEMMA OtherInv ==
  ASSUME ListenerInv, Surroundings \/ EndFrame \/ UNCHANGED vars
  PROVE  ListenerInv'
<1>1. /\ UNCHANGED <<present, port, port_connected, connection_down, tasks, gen,
                     listeners>>
      /\ pc' = pc \/ present
  BY DEF Surroundings, AddressFreed, PeerConnects, PeerReset, WebSocketEnds,
     StreamDropped, EndFrame, vars, queues, env
<1>2. CurrentLoops' = CurrentLoops /\ \A i : Binding(i)' <=> Binding(i)
  BY <1>1 DEF CurrentLoops, Binding, Current, tasks
<1> QED BY <1>1, <1>2 DEF ListenerInv, TasksAreStarted, ListenersAreNumbered,
           RemovedIsEmpty, ListenerIsOnce, LoopIsOnce, port, tasks

\* A connection that is removed.
LEMMA RemoveInv ==
  ASSUME TypeOK, ListenerInv, Remove, pc' = "app", UNCHANGED <<tasks, gen, listeners>>
  PROVE  ListenerInv'
<1>1. /\ ~present' /\ ~connecting' /\ ~connected' /\ ~accepting_connections'
      /\ tcp_listener' = 0 /\ port_connected' = <<>> /\ connection_down' = 0
  BY Zenon DEF Remove
<1>2. CurrentLoops' = {} /\ \A i : ~Binding(i)'
  BY <1>1 DEF CurrentLoops, Binding, Current
<1>3. TasksAreStarted'
  BY DEF ListenerInv, TasksAreStarted, tasks
<1>4. ListenersAreNumbered'
  BY <1>1 DEF ListenerInv, ListenersAreNumbered, tasks
<1> QED BY <1>1, <1>2, <1>3, <1>4 DEF ListenerInv, RemovedIsEmpty, ListenerIsOnce,
           LoopIsOnce

LEMMA StartConnectionInv ==
  ASSUME TypeOK, ListenerInv, StartConnection
  PROVE  ListenerInv'
<1>1. /\ ~present /\ present' /\ gen' = gen + 1
      /\ UNCHANGED <<port, port_connected, connection_down, tasks, pc, listeners>>
  BY DEF StartConnection, queues
<1>2. /\ ~connecting /\ ~connected /\ ~accepting_connections
      /\ tcp_listener = 0 /\ port_connected = <<>> /\ connection_down = 0
  BY <1>1 DEF ListenerInv, RemovedIsEmpty
<1>3. /\ \A i \in DOMAIN binders : binders[i].gen <= gen' /\ binders[i].gen # gen'
      /\ \A j \in DOMAIN loops : loops[j].gen <= gen' /\ loops[j].gen # gen'
  <2>1. /\ \A i \in DOMAIN binders : binders[i].gen \in Nat
        /\ \A j \in DOMAIN loops : loops[j].gen \in Nat
    BY TasksAre DEF Binder, Loop
  <2>2. gen \in Nat
    BY DEF TypeOK
  <2> QED BY <1>1, <2>1, <2>2 DEF ListenerInv, TasksAreStarted
<1>4. CurrentLoops' = {} /\ \A i \in DOMAIN binders' : ~Binding(i)'
  <2>1. /\ \A i \in DOMAIN binders' : binders'[i].gen # gen'
        /\ \A j \in DOMAIN loops' : loops'[j].gen # gen'
    BY <1>1, <1>3 DEF tasks
  <2> QED BY <2>1 DEF CurrentLoops, Binding, Current
<1>5. TasksAreStarted' /\ ListenersAreNumbered'
  BY <1>1, <1>3, Zenon DEF ListenerInv, TasksAreStarted, ListenersAreNumbered, tasks
<1>6. RemovedIsEmpty'
  BY <1>1 DEF RemovedIsEmpty
<1>7. ListenerIsOnce' /\ LoopIsOnce'
  BY <1>1, <1>2, <1>4 DEF ListenerIsOnce, LoopIsOnce, port
<1> QED BY <1>5, <1>6, <1>7 DEF ListenerInv

LEMMA CheckMainPortDroppedInv ==
  ASSUME TypeOK, ListenerInv, CheckMainPortDropped
  PROVE  ListenerInv'
<1>1. /\ present
      /\ UNCHANGED <<tasks, gen, listeners>>
  BY DEF CheckMainPortDropped, ListenerInv, RemovedIsEmpty
<1>2. CASE connection_down = 0
  <2>1. UNCHANGED <<present, port, port_connected, connection_down>>
    BY <1>2 DEF CheckMainPortDropped, queues
  <2>2. CurrentLoops' = CurrentLoops /\ \A i : Binding(i)' <=> Binding(i)
    BY <1>1, <2>1 DEF CurrentLoops, Binding, Current, tasks
  <2> QED BY <1>1, <2>1, <2>2 DEF ListenerInv, TasksAreStarted, ListenersAreNumbered,
             RemovedIsEmpty, ListenerIsOnce, LoopIsOnce, port, tasks
<1>3. CASE connection_down # 0 /\ auto_reconnect
  <2>1. /\ connection_down' = connection_down - 1
        /\ ~connected' /\ ~connecting' /\ ~accepting_connections' /\ tcp_listener' = 0
        /\ UNCHANGED <<present, port_connected>>
    BY <1>3, Zenon DEF CheckMainPortDropped, PortDropped
  <2>2. accepting_connections /\ CurrentLoops = {} /\ connection_down = 1
    BY <1>3 DEF ListenerInv, LoopIsOnce
  <2>3. connected /\ port_connected = <<>> /\ \A i \in DOMAIN binders : ~Binding(i)
    BY <2>2 DEF ListenerInv, ListenerIsOnce
  <2>4. CurrentLoops' = {} /\ \A i \in DOMAIN binders' : ~Binding(i)'
    BY <1>1, <2>1, <2>2, <2>3 DEF CurrentLoops, Binding, Current, tasks
  <2>5. connection_down' = 0
    BY <2>1, <2>2
  <2>6. TasksAreStarted' /\ ListenersAreNumbered'
    BY <1>1, <2>1 DEF ListenerInv, TasksAreStarted, ListenersAreNumbered, tasks
  <2> QED BY <1>1, <2>1, <2>3, <2>4, <2>5, <2>6
          DEF ListenerInv, RemovedIsEmpty, ListenerIsOnce, LoopIsOnce
<1>4. CASE connection_down # 0 /\ ~auto_reconnect
  BY <1>1, <1>4, RemoveInv DEF CheckMainPortDropped
<1> QED BY <1>2, <1>3, <1>4

LEMMA StartConnectionsInv ==
  ASSUME TypeOK, ListenerInv, StartConnections
  PROVE  ListenerInv'
<1>1. /\ present
      /\ UNCHANGED <<present, connected, accepting_connections, tcp_listener,
                     port_connected, connection_down, loops, gen, listeners>>
  BY DEF StartConnections, queues, ListenerInv, RemovedIsEmpty
<1>2. CurrentLoops' = CurrentLoops
  BY <1>1 DEF CurrentLoops, Current
<1>3. LoopIsOnce' /\ RemovedIsEmpty'
  BY <1>1, <1>2 DEF ListenerInv, LoopIsOnce, RemovedIsEmpty
<1>4. CASE binders' = binders
  <2>1. connecting => connecting'
    BY Zenon DEF StartConnections
  <2>2. \A i : Binding(i)' <=> Binding(i)
    BY <1>1, <1>4 DEF Binding, Current
  <2> QED BY <1>1, <1>3, <1>4, <2>1, <2>2
          DEF ListenerInv, TasksAreStarted, ListenersAreNumbered, ListenerIsOnce
<1>5. CASE binders' # binders
  <2> DEFINE new == [gen |-> gen, at |-> "spawned"]
             n   == Len(binders) + 1
  <2>1. binders' = Append(binders, new) /\ ~connecting
    BY <1>5 DEF StartConnections
  <2>2. connecting'
    BY <1>5, Zenon DEF StartConnections
  <2>3. new.gen = gen /\ new.at = "spawned" /\ new \in Binder
    BY DEF Binder, TypeOK
  <2> HIDE DEF new
  <2>4. /\ n \notin DOMAIN binders /\ DOMAIN binders' = DOMAIN binders \cup {n}
        /\ binders'[n] = new /\ \A k \in DOMAIN binders : binders'[k] = binders[k]
    BY <2>1, <2>3, TasksAre, Spawned
  <2> HIDE DEF n
  <2>5. ~connected /\ port_connected = <<>> /\ \A i \in DOMAIN binders : ~Binding(i)
    BY <2>1 DEF ListenerInv, ListenerIsOnce
  <2>6. \A i \in DOMAIN binders : ~Binding(i)'
    BY <1>1, <2>4, <2>5 DEF Binding, Current
  <2>7. ListenerIsOnce'
    BY <1>1, <2>2, <2>4, <2>5, <2>6 DEF ListenerInv, ListenerIsOnce
  <2>8. TasksAreStarted'
    BY <1>1, <2>3, <2>4 DEF ListenerInv, TasksAreStarted, TypeOK
  <2>9. ListenersAreNumbered'
    BY <1>1, <2>3, <2>4 DEF ListenerInv, ListenersAreNumbered
  <2> QED BY <1>3, <2>7, <2>8, <2>9 DEF ListenerInv
<1> QED BY <1>4, <1>5

LEMMA ReceiveMainPortListenerInv ==
  ASSUME TypeOK, ListenerInv, ReceiveMainPortListener
  PROVE  ListenerInv'
<1>1. /\ present
      /\ UNCHANGED <<present, connecting, accepting_connections, connection_down,
                     tasks, gen, listeners>>
  BY DEF ReceiveMainPortListener, queues, ListenerInv, RemovedIsEmpty
<1>2. CurrentLoops' = CurrentLoops /\ \A i : Binding(i)' <=> Binding(i)
  BY <1>1 DEF CurrentLoops, Binding, Current, tasks
<1>3. TasksAreStarted' /\ RemovedIsEmpty'
  BY <1>1 DEF ListenerInv, TasksAreStarted, RemovedIsEmpty, tasks
<1>4. CASE connected \/ port_connected = <<>>
  <2>1. UNCHANGED <<connected, tcp_listener, port_connected>>
    BY <1>4 DEF ReceiveMainPortListener
  <2> QED BY <1>1, <1>2, <1>3, <2>1 DEF ListenerInv, ListenersAreNumbered,
             ListenerIsOnce, LoopIsOnce, tasks
<1>5. CASE ~connected /\ port_connected # <<>>
  <2>1. /\ connected' /\ tcp_listener' = Head(port_connected)
        /\ port_connected' = Tail(port_connected)
    BY <1>5, Zenon DEF ReceiveMainPortListener
  <2>2. /\ connecting /\ Tail(port_connected) = <<>> /\ ~accepting_connections
        /\ \A i \in DOMAIN binders : ~Binding(i)
    BY <1>5 DEF ListenerInv, ListenerIsOnce
  <2>3. tcp_listener' # 0
    <3>1. port_connected \in Seq(Nat)
      BY DEF TypeOK
    <3>2. Head(port_connected) = port_connected[1] /\ 1 \in DOMAIN port_connected
      BY <1>5, <3>1
    <3> QED BY <2>1, <3>2 DEF ListenerInv, ListenersAreNumbered
  <2>4. ListenerIsOnce'
    BY <1>1, <1>2, <2>1, <2>2, <2>3 DEF ListenerIsOnce, tasks
  <2>5. LoopIsOnce'
    BY <1>1, <1>2, <2>2 DEF ListenerInv, LoopIsOnce
  <2>6. ListenersAreNumbered'
    BY <1>1, <2>1, <2>2 DEF ListenerInv, ListenersAreNumbered, tasks
  <2> QED BY <1>3, <2>4, <2>5, <2>6 DEF ListenerInv
<1> QED BY <1>4, <1>5

LEMMA StartAcceptingInv ==
  ASSUME TypeOK, ListenerInv, StartAcceptingConnectionsMainPort
  PROVE  ListenerInv'
<1>1. /\ present
      /\ UNCHANGED <<present, connecting, connected, tcp_listener, port_connected,
                     connection_down, binders, gen, listeners>>
  BY DEF StartAcceptingConnectionsMainPort, queues, ListenerInv, RemovedIsEmpty
<1>2. \A i : Binding(i)' <=> Binding(i)
  BY <1>1 DEF Binding, Current
<1>3. ListenersAreNumbered' /\ RemovedIsEmpty'
  BY <1>1 DEF ListenerInv, ListenersAreNumbered, RemovedIsEmpty
<1>4. CASE accepting_connections \/ ~connected \/ tcp_listener = 0
  <2>1. UNCHANGED <<accepting_connections, loops>>
    BY <1>4 DEF StartAcceptingConnectionsMainPort
  <2>2. CurrentLoops' = CurrentLoops
    BY <1>1, <2>1 DEF CurrentLoops, Current
  <2> QED BY <1>1, <1>2, <1>3, <2>1, <2>2 DEF ListenerInv, TasksAreStarted,
             ListenerIsOnce, LoopIsOnce
<1>5. CASE ~(accepting_connections \/ ~connected \/ tcp_listener = 0)
  <2> DEFINE new == [gen |-> gen, on |-> tcp_listener, peer |-> {}, at |-> "accept"]
             n   == Len(loops) + 1
  <2>1. accepting_connections' /\ loops' = Append(loops, new)
    BY <1>5, Zenon DEF StartAcceptingConnectionsMainPort
  <2>2. /\ new.gen = gen /\ new.on = tcp_listener /\ new.at = "accept"
        /\ new \in Loop
    BY DEF Loop, TypeOK
  <2> HIDE DEF new
  <2>3. /\ n \notin DOMAIN loops /\ DOMAIN loops' = DOMAIN loops \cup {n}
        /\ loops'[n] = new /\ \A k \in DOMAIN loops : loops'[k] = loops[k]
    BY <2>1, <2>2, TasksAre, Spawned
  <2> HIDE DEF n
  <2>4. CurrentLoops = {} /\ connection_down = 0 /\ connected
    BY <1>5 DEF ListenerInv, LoopIsOnce
  <2>5. CurrentLoops' = {n} /\ loops'[n].on = tcp_listener'
    BY <1>1, <2>2, <2>3, <2>4 DEF CurrentLoops, Current, Over, Ended
  <2>6. LoopIsOnce'
    BY <1>1, <2>1, <2>4, <2>5 DEF LoopIsOnce
  <2>7. ListenerIsOnce'
    BY <1>1, <1>2, <2>4 DEF ListenerInv, ListenerIsOnce
  <2>8. TasksAreStarted'
    BY <1>1, <2>2, <2>3 DEF ListenerInv, TasksAreStarted, TypeOK
  <2> QED BY <1>3, <2>6, <2>7, <2>8 DEF ListenerInv
<1> QED BY <1>4, <1>5

\* The listener of a connection is in one place, with one loop at most, and
\* its flags say where.
THEOREM ListenerInvariant == Spec => []ListenerInv
<1>1. Init => ListenerInv
  <2> SUFFICES ASSUME Init PROVE ListenerInv
    OBVIOUS
  <2>1. /\ ~present /\ ~connecting /\ ~connected /\ ~accepting_connections
        /\ tcp_listener = 0 /\ port_connected = <<>> /\ connection_down = 0
        /\ binders = <<>> /\ loops = <<>> /\ pc = "app"
    BY Zenon DEF Init
  <2>2. DOMAIN binders = {} /\ DOMAIN loops = {} /\ DOMAIN port_connected = {}
    BY <2>1
  <2>3. CurrentLoops = {}
    BY <2>2 DEF CurrentLoops
  <2> QED BY <2>1, <2>2, <2>3 DEF ListenerInv, TasksAreStarted,
       ListenersAreNumbered, RemovedIsEmpty, ListenerIsOnce, LoopIsOnce
<1>2. TypeOK /\ ListenerInv /\ [Next]_vars => ListenerInv'
  <2> SUFFICES ASSUME TypeOK, ListenerInv, [Next]_vars PROVE ListenerInv'
    OBVIOUS
  <2>1. CASE StartConnection
    BY <2>1, StartConnectionInv
  <2>2. CASE Disconnect
    BY <2>2, RemoveInv DEF Disconnect
  <2>3. CASE Systems
    BY <2>3, CheckMainPortDroppedInv, StartConnectionsInv,
       ReceiveMainPortListenerInv, StartAcceptingInv, OtherInv DEF Systems
  <2>4. CASE \E i \in DOMAIN binders : BinderStep(i)
    BY <2>4, BinderInv
  <2>5. CASE \E j \in DOMAIN loops : LoopAction(j)
    BY <2>5, LoopInv
  <2>6. CASE Surroundings \/ UNCHANGED vars
    BY <2>6, OtherInv
  <2> QED BY <2>1, <2>2, <2>3, <2>4, <2>5, <2>6 DEF Next, LoopAction, Surroundings
<1> QED BY <1>1, <1>2, ListenerTypeCorrect, PTL DEF Spec

\* While the port believes that it accepts connections, one loop does, on the
\* port's listener, or its report is waiting; otherwise there is neither.
THEOREM LoopsAreReported == Spec => []LoopOrReport
<1>1. ListenerInv => LoopOrReport
  <2> SUFFICES ASSUME ListenerInv, present, accepting_connections
               PROVE  /\ Cardinality(CurrentLoops) + connection_down = 1
                      /\ \A j \in CurrentLoops : loops[j].on = tcp_listener
    BY DEF ListenerInv, LoopIsOnce, LoopOrReport
  <2>1. CASE /\ \E j \in CurrentLoops : CurrentLoops = {j} /\ loops[j].on = tcp_listener
             /\ connection_down = 0
    <3>1. PICK j \in CurrentLoops : CurrentLoops = {j} /\ loops[j].on = tcp_listener
      BY <2>1
    <3>2. Cardinality(CurrentLoops) = 1
      BY <3>1, FS_Singleton
    <3> QED BY <2>1, <3>1, <3>2
  <2>2. CASE CurrentLoops = {} /\ connection_down = 1
    <3>1. Cardinality(CurrentLoops) = 0
      BY <2>2, FS_EmptySet
    <3> QED BY <2>2, <3>1
  <2> QED BY <2>1, <2>2 DEF ListenerInv, LoopIsOnce
<1> QED BY <1>1, ListenerInvariant, PTL

\* A binder never has to wait for a listener of its own connection.
THEOREM BindersAreAlone == Spec => []BinderIsAlone
<1>1. TypeOK /\ ListenerInv => BinderIsAlone
  <2> SUFFICES ASSUME TypeOK, ListenerInv, NEW i \in DOMAIN binders,
                      Current(binders[i]), binders[i].at \in {"spawned", "bind", "send"}
               PROVE  /\ tcp_listener = 0 /\ port_connected = <<>> /\ CurrentLoops = {}
                      /\ \A k \in DOMAIN binders \ {i} :
                           Current(binders[k]) => binders[k].at \in Ended
    BY DEF BinderIsAlone
  <2>1. Binding(i)
    BY DEF Binding, Ended
  <2>2. /\ ~connected /\ port_connected = <<>>
        /\ \A k \in DOMAIN binders \ {i} : ~Binding(k)
    BY <2>1 DEF ListenerInv, ListenerIsOnce
  <2>3. tcp_listener = 0 /\ ~accepting_connections
    BY <2>2 DEF ListenerInv, ListenerIsOnce
  <2>4. CurrentLoops = {}
    BY <2>3 DEF ListenerInv, LoopIsOnce
  <2> QED BY <2>2, <2>3, <2>4 DEF Binding
<1> QED BY <1>1, ListenerTypeCorrect, ListenerInvariant, PTL
=============================================================================
