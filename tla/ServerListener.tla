--------------------------- MODULE ServerListener ---------------------------
(***************************************************************************)
(* The listening port of a server: how ServerTcp or ServerWebSocket binds  *)
(* its address, accepts connections and waits for their handshakes,        *)
(* notices that accepting has failed, binds again or is removed, and how   *)
(* the application removes and restarts a connection of the same name      *)
(* while tasks of the earlier one are still running.  The two ports have   *)
(* the same code, but for the WebSocket handshake.                         *)
(*                                                                         *)
(* The main thread runs the first systems of ServerConnectionPlugin once   *)
(* per frame (variable pc).  Every start of the connection has a           *)
(* generation of its own: a runtime, a port and fresh channels.  What      *)
(* happens to an accepted stream is ServerSessions or WsSessions; here it  *)
(* counts only that the reader of a WebSocket which has ended keeps a      *)
(* worker of the runtime that the binder and the accept loop need.         *)
(***************************************************************************)
EXTENDS Naturals, Sequences, FiniteSets

CONSTANTS
  Peers,           \* sockets that connect to the address
  MaxConnections,  \* TcpSettingsServer.max_connections, 0 for no limit
  MaxStarts,       \* bound: calls of NetworkConnections::start_connection
  MaxFaults,       \* bound: accept calls that return an error
  Workers          \* the numbers of workers a runtime may have

ASSUME ListenerAssumption ==
  /\ MaxConnections \in Nat
  /\ MaxStarts \in Nat
  /\ MaxFaults \in Nat
  /\ Workers \subseteq Nat \ {0}

VARIABLES
  \* the port is a ServerWebSocket, its settings: auto_reconnect; TLS is set;
  \* the workers of a runtime
  ws, auto_reconnect, tls, workers,
  \* NetworkConnections and ServerConnection
  present, sc_connected,
  \* ServerTcp; tcp_listener is the number of a listener, 0 for None
  connecting, connected, accepting_connections, tcp_listener,
  \* channels: listeners, the number of reports; a stream in client_connected
  \* is a peer that is accepted
  port_connected, connection_down,
  \* tasks of every generation, in the order they were spawned
  binders, loops,
  \* the frame, the generations started, the listeners bound
  pc, gen, listeners,
  \* the address is held by another process; the peers; the generation that
  \* reads the stream of an accepted one; errors so far
  foreign, conn, session, faults,
  \* readers of every generation that spin
  spinning

settings == <<ws, auto_reconnect, tls, workers>>
port   == <<connecting, connected, accepting_connections, tcp_listener>>
queues == <<port_connected, connection_down>>
tasks  == <<binders, loops>>
readers == <<session, spinning>>
env    == <<foreign, conn, readers, faults>>
vars   == <<settings, present, sc_connected, port, queues, tasks, pc, gen,
            listeners, env>>

Binder == [gen : Nat, at : {"spawned", "bind", "send", "done", "panicked"}]
Loop   == [gen : Nat, on : Nat, peer : SUBSET Peers,
           at : {"accept", "tls", "ws", "send", "down", "ending", "done",
                 "panicked"}]
Ended  == {"done", "panicked"}

TypeOK ==
  /\ ws \in BOOLEAN /\ auto_reconnect \in BOOLEAN /\ tls \in BOOLEAN
  /\ workers \in Workers
  /\ present \in BOOLEAN /\ sc_connected \in BOOLEAN
  /\ connecting \in BOOLEAN /\ connected \in BOOLEAN
  /\ accepting_connections \in BOOLEAN /\ tcp_listener \in Nat
  /\ accepting_connections => connected
  /\ port_connected \in Seq(Nat) /\ connection_down \in Nat
  /\ binders \in Seq(Binder) /\ loops \in Seq(Loop)
  /\ pc \in {"dropped", "start", "receive", "accept", "app"}
  /\ gen \in Nat /\ listeners \in Nat /\ faults \in Nat
  /\ foreign \in BOOLEAN
  /\ conn \in [Peers -> {"out", "waiting", "handshake", "accepted"}]
  /\ session \in [Peers -> Nat] /\ spinning \in [0 .. MaxStarts -> Nat]

Init ==
  /\ ws \in BOOLEAN /\ auto_reconnect \in BOOLEAN /\ tls \in BOOLEAN
  /\ workers \in Workers
  /\ present = FALSE /\ sc_connected = FALSE
  /\ connecting = FALSE /\ connected = FALSE
  /\ accepting_connections = FALSE /\ tcp_listener = 0
  /\ port_connected = <<>> /\ connection_down = 0
  /\ binders = <<>> /\ loops = <<>>
  /\ pc = "app" /\ gen = 0 /\ listeners = 0 /\ faults = 0
  /\ foreign \in BOOLEAN
  /\ conn = [p \in Peers |-> "out"]
  /\ session = [p \in Peers |-> 0]
  /\ spinning = [g \in 0 .. MaxStarts |-> 0]

\* A task of the connection that is there now, with its receivers.
Current(task) == present /\ task.gen = gen

LiveLoop(j) == loops[j].at \notin Ended

\* A listener closes when its last Arc is dropped: ServerTcp's, the one in
\* the channel and that of a loop.
SocketOpen ==
  \/ tcp_listener # 0
  \/ port_connected # <<>>
  \/ \E i \in DOMAIN binders : binders[i].at = "send"
  \/ \E j \in DOMAIN loops : LiveLoop(j)

\* The workers of generation g that a task keeps until its next await, or for
\* ever: bind has no await that waits, and neither has a reader that spins.
Kept(g) ==
  Cardinality({i \in DOMAIN binders :
                 binders[i].gen = g /\ binders[i].at \in {"bind", "send"}})
    + Cardinality({j \in DOMAIN loops :
                     loops[j].gen = g /\ loops[j].at \in {"send", "down", "ending"}})
    + spinning[g]

\* A worker is left for a task that is ready.
Free(g) == Kept(g) < workers

-----------------------------------------------------------------------------
(* The application.                                                        *)

\* NetworkConnections::start_connection, with can_connect.
StartConnection ==
  /\ pc = "app"
  /\ ~present
  /\ gen < MaxStarts
  /\ present' = TRUE
  /\ gen' = gen + 1
  /\ UNCHANGED <<settings, sc_connected, port, queues, tasks, pc, listeners,
                 env>>

\* NetworkConnections::disconnect: the ServerConnection is dropped with its
\* port and receivers; its tasks are told to stop and go on until they do,
\* those that read the accepted streams, too.
Remove ==
  /\ present' = FALSE
  /\ sc_connected' = FALSE
  /\ connecting' = FALSE
  /\ connected' = FALSE
  /\ accepting_connections' = FALSE
  /\ tcp_listener' = 0
  /\ port_connected' = <<>>
  /\ connection_down' = 0

Disconnect ==
  /\ pc = "app"
  /\ present
  /\ Remove
  /\ UNCHANGED <<settings, tasks, pc, gen, listeners, env>>

EndFrame ==
  /\ pc = "app"
  /\ present
  /\ pc' = "dropped"
  /\ UNCHANGED <<settings, present, sc_connected, port, queues, tasks, gen,
                 listeners, env>>

-----------------------------------------------------------------------------
(* The systems of a frame.                                                 *)

\* Fault: the listener is not taken out of the port.
PortDroppedKeeps ==
  /\ connection_down' = connection_down - 1
  /\ connected' = FALSE
  /\ connecting' = FALSE
  /\ accepting_connections' = FALSE
  /\ UNCHANGED tcp_listener

\* Fault: the port still believes that it accepts connections.
PortDroppedHalf ==
  /\ connection_down' = connection_down - 1
  /\ connected' = FALSE
  /\ connecting' = FALSE
  /\ tcp_listener' = 0
  /\ UNCHANGED accepting_connections

\* check_port_dropped with a report: the port starts over.
PortDropped ==
  /\ connection_down' = connection_down - 1
  /\ connected' = FALSE
  /\ connecting' = FALSE
  /\ accepting_connections' = FALSE
  /\ tcp_listener' = 0

\* Fault: the connection is kept whatever auto_reconnect says.
CheckMainPortDroppedKeeps ==
  /\ pc = "dropped"
  /\ pc' = "start"
  /\ IF connection_down = 0
     THEN UNCHANGED <<sc_connected, port, connection_down>>
     ELSE PortDropped /\ sc_connected' = FALSE
  /\ UNCHANGED <<settings, present, port_connected, tasks,
                 gen, listeners, env>>

CheckMainPortDropped ==
  /\ pc = "dropped"
  /\ IF connection_down = 0
     THEN /\ pc' = "start"
          /\ UNCHANGED <<present, sc_connected, port, queues>>
     ELSE IF auto_reconnect
     THEN /\ PortDropped
          /\ sc_connected' = FALSE
          /\ pc' = "start"
          /\ UNCHANGED <<present, port_connected>>
     ELSE Remove /\ pc' = "app"
  /\ UNCHANGED <<settings, tasks, gen, listeners, env>>

\* start_connections, ServerConnection::start_connection and connect.
StartConnections ==
  /\ pc = "start"
  /\ pc' = "receive"
  /\ sc_connected' = TRUE
  /\ connecting' = (connecting \/ ~sc_connected)
  /\ binders' = IF sc_connected \/ connecting THEN binders
                ELSE Append(binders, [gen |-> gen, at |-> "spawned"])
  /\ UNCHANGED <<settings, present, connected, accepting_connections,
                 tcp_listener, queues, loops, gen, listeners, env>>

\* check_port_connected.
ReceiveMainPortListener ==
  /\ pc = "receive"
  /\ pc' = "accept"
  /\ IF connected \/ port_connected = <<>>
     THEN UNCHANGED <<connected, tcp_listener, port_connected>>
     ELSE /\ connected' = TRUE
          /\ tcp_listener' = Head(port_connected)
          /\ port_connected' = Tail(port_connected)
  /\ UNCHANGED <<settings, present, sc_connected, connecting,
                 accepting_connections, connection_down, tasks, gen, listeners, env>>

\* Fault: the flag is not set.
StartAcceptingConnectionsAgain ==
  /\ pc = "accept"
  /\ pc' = "app"
  /\ IF accepting_connections \/ ~connected \/ tcp_listener = 0
     THEN UNCHANGED loops
     ELSE loops' = Append(loops, [gen |-> gen, on |-> tcp_listener,
                                  peer |-> {}, at |-> "accept"])
  /\ UNCHANGED <<settings, present, sc_connected, port, queues, binders, gen,
                 listeners, env>>

\* start_accepting_connections: nothing without a listener.
StartAcceptingConnectionsMainPort ==
  /\ pc = "accept"
  /\ pc' = "app"
  /\ IF accepting_connections \/ ~connected \/ tcp_listener = 0
     THEN UNCHANGED <<accepting_connections, loops>>
     ELSE /\ accepting_connections' = TRUE
          /\ loops' = Append(loops, [gen |-> gen, on |-> tcp_listener,
                                     peer |-> {}, at |-> "accept"])
  /\ UNCHANGED <<settings, present, sc_connected, connecting, connected,
                 tcp_listener, queues, binders, gen, listeners, env>>

Systems ==
  \/ CheckMainPortDropped \/ StartConnections
  \/ ReceiveMainPortListener \/ StartAcceptingConnectionsMainPort
  \/ EndFrame

-----------------------------------------------------------------------------
(* The tasks.  A task that was waiting needs a worker to go on.  A bind     *)
(* that fails is tried again at once and changes nothing.                  *)

BinderStarts(i) ==
  /\ binders[i].at = "spawned"
  /\ Free(binders[i].gen)
  /\ binders' = [binders EXCEPT ![i].at = "bind"]
  /\ UNCHANGED <<settings, present, sc_connected, port, queues, loops, pc, gen,
                 listeners, env>>

BindSucceeds(i) ==
  /\ binders[i].at = "bind"
  /\ ~SocketOpen
  /\ ~foreign
  /\ listeners' = listeners + 1
  /\ binders' = [binders EXCEPT ![i].at = "send"]
  /\ UNCHANGED <<settings, present, sc_connected, port, queues, loops, pc, gen,
                 env>>

\* port_connected_sender.send(tcp_listener), which expects a receiver.
SendPortConnected(i) ==
  /\ binders[i].at = "send"
  /\ IF Current(binders[i])
     THEN /\ port_connected' = Append(port_connected, listeners)
          /\ binders' = [binders EXCEPT ![i].at = "done"]
     ELSE /\ binders' = [binders EXCEPT ![i].at = "panicked"]
          /\ UNCHANGED port_connected
  /\ UNCHANGED <<settings, present, sc_connected, port, connection_down,
                 loops, pc, gen, listeners, env>>

\* What an accept loop does with a stream that needs no TLS handshake any more.
AfterTls == IF ws THEN "ws" ELSE "send"

\* A connection is taken from the backlog.  The semaphore's permit is dropped
\* as soon as it is acquired, so that one is always free, and the branches
\* for a full server are never reached.
Accept(j, p) ==
  /\ loops[j].at = "accept"
  /\ Free(loops[j].gen)
  /\ conn[p] = "waiting"
  /\ conn' = [conn EXCEPT ![p] = "handshake"]
  /\ loops' = [loops EXCEPT ![j].peer = {p},
                            ![j].at = IF tls THEN "tls" ELSE AfterTls]
  /\ UNCHANGED <<settings, present, sc_connected, port, queues, binders, pc,
                 gen, listeners, foreign, readers, faults>>

\* The loop waits for the handshake before it accepts again.
TlsAccepted(j) ==
  /\ loops[j].at = "tls"
  /\ Free(loops[j].gen)
  /\ loops' = [loops EXCEPT ![j].at = AfterTls]
  /\ UNCHANGED <<settings, present, sc_connected, port, queues, binders, pc,
                 gen, listeners, env>>

\* accept_async, which accept_stream awaits in the loop, with or without TLS.
WsAccepted(j) ==
  /\ loops[j].at = "ws"
  /\ Free(loops[j].gen)
  /\ loops' = [loops EXCEPT ![j].at = "send"]
  /\ UNCHANGED <<settings, present, sc_connected, port, queues, binders, pc,
                 gen, listeners, env>>

\* The peer is left alone: the loop gave its stream up.
Hangup(j) == [p \in Peers |-> IF p \in loops[j].peer THEN "out" ELSE conn[p]]

TlsFails(j) ==
  /\ loops[j].at = "tls"
  /\ Free(loops[j].gen)
  /\ conn' = Hangup(j)
  /\ loops' = [loops EXCEPT ![j].peer = {}, ![j].at = "accept"]
  /\ UNCHANGED <<settings, present, sc_connected, port, queues, binders, pc,
                 gen, listeners, foreign, readers, faults>>

WsFails(j) ==
  /\ loops[j].at = "ws"
  /\ Free(loops[j].gen)
  /\ conn' = Hangup(j)
  /\ loops' = [loops EXCEPT ![j].peer = {}, ![j].at = "accept"]
  /\ UNCHANGED <<settings, present, sc_connected, port, queues, binders, pc,
                 gen, listeners, foreign, readers, faults>>

\* client_connected_sender.send((stream, addr)), which expects a receiver.
SendClientConnected(j) ==
  /\ loops[j].at = "send"
  /\ IF Current(loops[j])
     THEN /\ \E p \in loops[j].peer :
               /\ conn' = [conn EXCEPT ![p] = "accepted"]
               /\ session' = [session EXCEPT ![p] = gen]
          /\ loops' = [loops EXCEPT ![j].peer = {}, ![j].at = "accept"]
     ELSE /\ conn' = Hangup(j)
          /\ loops' = [loops EXCEPT ![j].peer = {}, ![j].at = "panicked"]
          /\ UNCHANGED session
  /\ UNCHANGED <<settings, present, sc_connected, port, queues, binders, pc,
                 gen, listeners, foreign, spinning, faults>>

AcceptFails(j) ==
  /\ loops[j].at = "accept"
  /\ Free(loops[j].gen)
  /\ faults < MaxFaults
  /\ faults' = faults + 1
  /\ loops' = [loops EXCEPT ![j].at = "down"]
  /\ UNCHANGED <<settings, present, sc_connected, port, queues, binders, pc,
                 gen, listeners, foreign, conn, readers>>

\* Fault: the loop ends without a report.
SendConnectionDownLost(j) ==
  /\ loops[j].at = "down"
  /\ loops' = [loops EXCEPT ![j].at = "ending"]
  /\ UNCHANGED <<settings, present, sc_connected, port, queues, binders, pc,
                 gen, listeners, env>>

\* connection_down_sender.send(()), which expects a receiver.  The task has yet
\* to end: until then it holds its Arc of the listener.
SendConnectionDown(j) ==
  /\ loops[j].at = "down"
  /\ IF Current(loops[j])
     THEN /\ connection_down' = connection_down + 1
          /\ loops' = [loops EXCEPT ![j].at = "ending"]
     ELSE /\ loops' = [loops EXCEPT ![j].at = "panicked"]
          /\ UNCHANGED connection_down
  /\ UNCHANGED <<settings, present, sc_connected, port, port_connected,
                 binders, pc, gen, listeners, env>>

LoopEnds(j) ==
  /\ loops[j].at = "ending"
  /\ loops' = [loops EXCEPT ![j].at = "done"]
  /\ UNCHANGED <<settings, present, sc_connected, port, queues, binders, pc,
                 gen, listeners, env>>

\* shutdown_background: a task of a removed connection is dropped at an await.
\* The binder has none that waits: once it runs it goes on until it has bound.
\* The dropping is done by a worker of the runtime, as soon as one is free.
BinderDropped(i) ==
  /\ binders[i].at = "spawned"
  /\ Free(binders[i].gen)
  /\ ~Current(binders[i])
  /\ binders' = [binders EXCEPT ![i].at = "done"]
  /\ UNCHANGED <<settings, present, sc_connected, port, queues, loops, pc, gen,
                 listeners, env>>

\* Fault: the runtime is not shut down, a loop ends only in a handshake.
LoopDroppedLate(j) ==
  /\ loops[j].at = "tls"
  /\ Free(loops[j].gen)
  /\ ~Current(loops[j])
  /\ conn' = Hangup(j)
  /\ loops' = [loops EXCEPT ![j].peer = {}, ![j].at = "done"]
  /\ UNCHANGED <<settings, present, sc_connected, port, queues, binders, pc,
                 gen, listeners, foreign, readers, faults>>

LoopDropped(j) ==
  /\ loops[j].at \in {"accept", "tls", "ws"}
  /\ Free(loops[j].gen)
  /\ ~Current(loops[j])
  /\ conn' = Hangup(j)
  /\ loops' = [loops EXCEPT ![j].peer = {}, ![j].at = "done"]
  /\ UNCHANGED <<settings, present, sc_connected, port, queues, binders, pc,
                 gen, listeners, foreign, readers, faults>>

BinderStep(i) ==
  BinderStarts(i) \/ BindSucceeds(i) \/ SendPortConnected(i) \/ BinderDropped(i)

\* What a loop does without the help of a peer.
LoopStep(j) ==
  \/ SendClientConnected(j) \/ SendConnectionDown(j) \/ LoopEnds(j)
  \/ LoopDropped(j)

\* The peer has closed its WebSocket: the stream is always ready from now on,
\* its reader never awaits again and keeps its worker as long as the process
\* lives, whether or not its connection is removed.
WebSocketEnds(p) ==
  /\ ws
  /\ conn[p] = "accepted"
  /\ Free(session[p])
  /\ spinning' = [spinning EXCEPT ![session[p]] = @ + 1]
  /\ conn' = [conn EXCEPT ![p] = "out"]
  /\ session' = [session EXCEPT ![p] = 0]
  /\ UNCHANGED <<settings, present, sc_connected, port, queues, tasks, pc, gen,
                 listeners, foreign, faults>>

\* The runtime of a removed connection drops the reader of an accepted stream.
StreamDropped(p) ==
  /\ conn[p] = "accepted"
  /\ ~(present /\ session[p] = gen)
  /\ Free(session[p])
  /\ conn' = [conn EXCEPT ![p] = "out"]
  /\ session' = [session EXCEPT ![p] = 0]
  /\ UNCHANGED <<settings, present, sc_connected, port, queues, tasks, pc, gen,
                 listeners, foreign, spinning, faults>>

-----------------------------------------------------------------------------
(* The surroundings.                                                       *)

\* The other process that held the address has let it go.
AddressFreed ==
  /\ foreign
  /\ foreign' = FALSE
  /\ UNCHANGED <<settings, present, sc_connected, port, queues, tasks, pc, gen,
                 listeners, conn, readers, faults>>

PeerConnects(p) ==
  /\ SocketOpen
  /\ conn[p] = "out"
  /\ conn' = [conn EXCEPT ![p] = "waiting"]
  /\ UNCHANGED <<settings, present, sc_connected, port, queues, tasks, pc, gen,
                 listeners, foreign, readers, faults>>

\* The backlog of a closed listener is reset.
PeerReset(p) ==
  /\ ~SocketOpen
  /\ conn[p] = "waiting"
  /\ conn' = [conn EXCEPT ![p] = "out"]
  /\ UNCHANGED <<settings, present, sc_connected, port, queues, tasks, pc, gen,
                 listeners, foreign, readers, faults>>

Next ==
  \/ StartConnection \/ Disconnect \/ Systems
  \/ \E i \in DOMAIN binders : BinderStep(i)
  \/ \E j \in DOMAIN loops :
       \/ LoopStep(j) \/ AcceptFails(j)
       \/ TlsAccepted(j) \/ TlsFails(j) \/ WsAccepted(j) \/ WsFails(j)
       \/ \E p \in Peers : Accept(j, p)
  \/ AddressFreed
  \/ \E p \in Peers :
       \/ PeerConnects(p) \/ PeerReset(p) \/ WebSocketEnds(p) \/ StreamDropped(p)

Spec == Init /\ [][Next]_vars

\* At most one task is spawned for every start and every error.
Slots == 1 .. MaxStarts + MaxFaults

\* The schedule runs every frame, the runtime polls every task that is ready as
\* long as it has a worker for it (Free), and the backlog of a listener is served
\* first come first served (so that a peer is not passed over for ever).  Nothing is assumed of the application,
\* of the peers, of a handshake, or of the other process.
Fairness ==
  /\ WF_vars(Systems)
  /\ \A i \in Slots :
       /\ WF_vars(i \in DOMAIN binders /\ BinderStep(i))
       /\ WF_vars(i \in DOMAIN loops /\ LoopStep(i))
  /\ \A p \in Peers :
       /\ SF_vars(\E j \in DOMAIN loops : Accept(j, p))
       /\ WF_vars(PeerReset(p))

FairSpec == Spec /\ Fairness

-----------------------------------------------------------------------------
(* Safety.                                                                 *)

\* A loop that is "ending" has made its report and accepts no more.
Over == Ended \cup {"ending"}

CurrentLoops == {j \in DOMAIN loops : Current(loops[j]) /\ loops[j].at \notin Over}

\* The flag accepting_connections tells the truth: while it is set exactly one
\* accept loop runs, on the port's own listener, or its report is waiting in
\* connection_down; while it is not set neither is there.  A flag that stays
\* set without a loop is a server that is silent for ever
\* (check_port_dropped and start_accepting_connections).
LoopOrReport ==
  present =>
    IF accepting_connections
    THEN /\ Cardinality(CurrentLoops) + connection_down = 1
         /\ \A j \in CurrentLoops : loops[j].on = tcp_listener
    ELSE CurrentLoops = {} /\ connection_down = 0

\* The binder never competes with its own connection: while it tries to bind,
\* neither the port nor the channel of that connection holds a listener on the
\* address, no other task binds it, and a loop that still holds one has nothing
\* left to do but to end.  Otherwise connect would try for ever.
BinderIsAlone ==
  \A i \in DOMAIN binders :
    Current(binders[i]) /\ binders[i].at \in {"spawned", "bind", "send"} =>
      /\ tcp_listener = 0 /\ port_connected = <<>> /\ CurrentLoops = {}
      /\ \A k \in DOMAIN binders \ {i} :
           Current(binders[k]) => binders[k].at \in Ended

\* A server with max_connections accepts no more than that many connections
\* ("Connection is full, rejecting connection" in start_accepting_connections).
FullServerRejects ==
  MaxConnections > 0 =>
    Cardinality({p \in Peers : conn[p] = "accepted"}) <= MaxConnections

-----------------------------------------------------------------------------
(* What makes the safety inductive.                                        *)

\* Binder i is still to deliver a listener to the connection that is there.
Binding(i) == Current(binders[i]) /\ binders[i].at \notin Ended

\* No task is of a later connection than the one that was started last.
TasksAreStarted ==
  /\ \A i \in DOMAIN binders : binders[i].gen <= gen
  /\ \A j \in DOMAIN loops : loops[j].gen <= gen

\* A listener has a number, wherever it is.
ListenersAreNumbered ==
  /\ \A i \in DOMAIN binders : binders[i].at = "send" => listeners > 0
  /\ \A k \in DOMAIN port_connected : port_connected[k] > 0

\* The frame begins with a connection, and a removed one leaves nothing behind.
RemovedIsEmpty ==
  /\ pc # "app" => present
  /\ ~present => /\ ~connecting /\ ~connected /\ ~accepting_connections
                 /\ tcp_listener = 0
                 /\ port_connected = <<>> /\ connection_down = 0

\* The listener of a connection is in one place: with the binder, in the
\* channel, or in the port; connecting is set as long as it is in any.
ListenerIsOnce ==
  /\ connected <=> tcp_listener # 0
  /\ accepting_connections => connected
  /\ connected => connecting /\ port_connected = <<>>
  /\ port_connected # <<>> => connecting /\ Tail(port_connected) = <<>>
  /\ \A i \in DOMAIN binders : Binding(i) =>
       /\ connecting /\ ~connected /\ port_connected = <<>>
       /\ \A k \in DOMAIN binders \ {i} : ~Binding(k)

\* LoopOrReport without counting.
LoopIsOnce ==
  IF accepting_connections
  THEN \/ /\ \E j \in CurrentLoops : CurrentLoops = {j} /\ loops[j].on = tcp_listener
          /\ connection_down = 0
       \/ CurrentLoops = {} /\ connection_down = 1
  ELSE CurrentLoops = {} /\ connection_down = 0

ListenerInv ==
  /\ TasksAreStarted
  /\ ListenersAreNumbered
  /\ RemovedIsEmpty
  /\ ListenerIsOnce
  /\ LoopIsOnce

-----------------------------------------------------------------------------
(* Liveness.                                                               *)

Serving == \E j \in CurrentLoops : loops[j].at # "down"

\* Readers of WebSockets that have ended keep every worker of generation g.
Starved(g) == spinning[g] >= workers

\* A loop that has yet to be dropped or to go on, and no worker to do it.
LoopStarved == \E j \in DOMAIN loops : LiveLoop(j) /\ Starved(loops[j].gen)

\* With auto_reconnect, a connection that is there gets an accept loop, at
\* the start and after every error, unless another process has the address or
\* readers of ended WebSockets keep every worker: those of this connection, or
\* those of an earlier one, whose loop then keeps the address for ever.
\* The tasks of an earlier connection of that name, which may still bind the
\* address once, do not prevent it.
PresentIsServing ==
  auto_reconnect /\ present
    ~> Serving \/ ~present \/ foreign \/ Starved(gen) \/ LoopStarved

\* Without auto_reconnect the connection is removed once accepting has failed.
DownIsRemoved ==
  ~auto_reconnect /\ present /\ connection_down > 0 ~> ~present

\* A peer in the backlog is accepted or reset, whatever happens to the
\* connection, except while the accept loop waits for another peer's TLS or
\* WebSocket handshake, for which nothing limits the time, or has no worker.
PendingIsServed ==
  \A p \in Peers :
    conn[p] = "waiting" ~>
      \/ conn[p] # "waiting" \/ LoopStarved
      \/ \E j \in DOMAIN loops : loops[j].at \in {"tls", "ws"}

\* After disconnect the address is free at some time, although tasks of the
\* removed connection are still running: they are dropped or panic, as long as
\* readers of ended WebSockets leave their runtime a worker to drop them.
RemovedFreesAddress == ~present ~> present \/ ~SocketOpen \/ LoopStarved
=============================================================================
