----------------------------- MODULE Messaging -----------------------------
(***************************************************************************)
(* What a message is on its way between two applications: the registries   *)
(* of message ids of the two sides, which nothing compares, the two forms  *)
(* a message can have on the wire, the decoding in the read loops, and the *)
(* authentication message with its answer.                                 *)
(*                                                                         *)
(* send_message writes the message as it is.  The read loops expect a      *)
(* MessageInfos, an id and the bytes of the message, and the crate has no  *)
(* function that makes one: an application that wants to be understood     *)
(* sends a type of its own with these two fields.                          *)
(*                                                                         *)
(* One client, one server; the uuid of a session is its number.  How the   *)
(* bytes of a message travel and what becomes of the tasks and tables is   *)
(* in the other modules: here a stream that breaks takes along what was on *)
(* its way.                                                                *)
(***************************************************************************)
EXTENDS Naturals, Sequences, FiniteSets, SequencesExt

CONSTANTS
  AppMessages,   \* the message types of the application
  MaxRegistered, \* bound: calls of register_message by each application
  MaxSent,       \* bound: messages the applications send
  MaxSessions    \* bound: streams between the two

ASSUME MessagingAssumption ==
  /\ AppMessages \cap {"auth", "uuid"} = {}
  /\ MaxRegistered \in Nat /\ MaxSent \in Nat /\ MaxSessions \in Nat

Side == {"client", "server"}

VARIABLES
  \* MessagesRegistry: the type registered under every id, ids from 1 on
  registry,
  \* the application is built and runs; sides whose main thread has panicked
  running, panicked,
  \* the session there is, 0 for none; how many there have been
  session, sessions,
  \* ServerConnection::clients_connected, ClientConnection::local_uuid (0: None)
  clients_connected, local_uuid,
  \* messages on their way to the server and to the client
  up, down,
  \* history: messages sent; what was dispatched, as which type, on which side
  sent, dispatched

app  == <<registry, running>>
vars == <<app, panicked, session, sessions, clients_connected, local_uuid,
          up, down, sent, dispatched>>

\* A message on the wire: as it is (id 0), or in a MessageInfos.
Wire(i, t, u) == [id |-> i, type |-> t, uuid |-> u]

Types == AppMessages \cup {"auth", "uuid"}

Message == [id : Nat, type : Types, uuid : Nat]

TypeOK ==
  /\ registry \in [Side -> Seq(Types)]
  /\ running \in BOOLEAN /\ panicked \subseteq Side
  /\ session \in Nat /\ sessions \in Nat
  /\ clients_connected \subseteq Nat /\ local_uuid \in Nat
  /\ up \in Seq(Message) /\ down \in Seq(Message)
  /\ sent \in Nat
  /\ dispatched \subseteq [side : Side, as : Types, sent : Types]

-----------------------------------------------------------------------------
(* Building the two applications.                                          *)

\* Fault: the client's plugin registers the answer only.
AuthenticationPluginAnswer(side) ==
  IF side = "client" THEN <<"uuid">> ELSE <<"auth", "uuid">>

\* AuthenticationPlugin::build, called by ConnectionPlugin::build on each side.
AuthenticationPlugin(side) == <<"auth", "uuid">>

Init ==
  /\ registry = [side \in Side |-> AuthenticationPlugin(side)]
  /\ running = FALSE /\ panicked = {}
  /\ session = 0 /\ sessions = 0
  /\ clients_connected = {} /\ local_uuid = 0
  /\ up = <<>> /\ down = <<>>
  /\ sent = 0 /\ dispatched = {}

\* The next id, also for a type that has one already.
RegisterMessage(side, t) ==
  /\ ~running
  /\ Len(registry[side]) < 2 + MaxRegistered
  /\ registry' = [registry EXCEPT ![side] = Append(@, t)]
  /\ UNCHANGED <<running, panicked, session, sessions, clients_connected,
                 local_uuid, up, down, sent, dispatched>>

Run ==
  /\ ~running
  /\ running' = TRUE
  /\ UNCHANGED <<registry, panicked, session, sessions, clients_connected,
                 local_uuid, up, down, sent, dispatched>>

-----------------------------------------------------------------------------
(* Sessions.                                                               *)

Alive(side) == running /\ side \notin panicked

Connect ==
  /\ \A side \in Side : Alive(side)
  /\ session = 0
  /\ sessions < MaxSessions
  /\ sessions' = sessions + 1
  /\ session' = sessions + 1
  /\ UNCHANGED <<app, panicked, clients_connected, local_uuid, up, down, sent,
                 dispatched>>

\* The stream breaks.  A client that reconnects keeps its ClientConnection, and
\* with it the uuid; one that does not is removed.  The server never takes a
\* uuid out of clients_connected.
Lose ==
  /\ session # 0
  /\ session' = 0
  /\ local_uuid' \in {local_uuid, 0}
  /\ up' = <<>> /\ down' = <<>>
  /\ UNCHANGED <<app, panicked, sessions, clients_connected, sent, dispatched>>

-----------------------------------------------------------------------------
(* Sending.                                                                *)

\* What an application may hand to send_message: a message of one of its types,
\* as it is or in a MessageInfos of its own with the id of the type.
Sendable(side) ==
  LET ids == DOMAIN registry[side]
  IN  {Wire(0, registry[side][i], session) : i \in ids}
        \cup {Wire(i, registry[side][i], session) : i \in ids}

ClientSends ==
  /\ Alive("client")
  /\ session # 0
  /\ sent < MaxSent
  /\ sent' = sent + 1
  /\ \E m \in Sendable("client") : up' = Append(up, m)
  /\ UNCHANGED <<app, panicked, session, sessions, clients_connected,
                 local_uuid, down, dispatched>>

\* send_message of a server port looks its client up among the authenticated.
ServerSends ==
  /\ Alive("server")
  /\ session \in clients_connected
  /\ sent < MaxSent
  /\ sent' = sent + 1
  /\ \E m \in Sendable("server") : down' = Append(down, m)
  /\ UNCHANGED <<app, panicked, session, sessions, clients_connected,
                 local_uuid, up, dispatched>>

-----------------------------------------------------------------------------
(* The read loops.                                                         *)

\* The places, among the first n of a queue, of the messages with a MessageInfos
\* around them and an id that is registered; the read loop prints an error for
\* the others, or passes them over.
Known(side, queue, n) == {k \in 1 .. n : queue[k].id \in DOMAIN registry[side]}

\* The type a message is decoded as, and how the loop's dispatch is recorded.
As(side, m) == registry[side][m.id]

Dispatch(side, messages) ==
  {[side |-> side, as |-> As(side, m), sent |-> m.type] : m \in messages}

\* deserialize_message of a type on the bytes of another one: that may succeed,
\* or "Failed to decode message" ends the main thread.
Undecodable(side, messages) == \E m \in messages : As(side, m) # m.type

Panics(side, messages) ==
  /\ Undecodable(side, messages)
  /\ panicked' = panicked \cup {side}
  /\ UNCHANGED <<clients_connected, local_uuid, dispatched>>

\* read_messages_server on the first n messages, and then
\* authentication_message_server: a client that is not connected may send
\* authentication messages only, and every one of these is answered.
ReadMessagesServer(n) ==
  LET known == Known("server", up, n)
      asked == {k \in known : As("server", up[k]) = "auth"}
      heard == IF session \in clients_connected THEN known ELSE asked
  IN  /\ Alive("server")
      /\ up' = SubSeq(up, n + 1, Len(up))
      /\ \/ Panics("server", {up[k] : k \in known}) /\ UNCHANGED down
         \/ /\ dispatched' = dispatched \cup Dispatch("server", {up[k] : k \in heard})
            /\ clients_connected' = clients_connected \cup {session : k \in asked}
            /\ down' = down \o [k \in 1 .. Cardinality(asked) |-> Wire(0, "uuid", session)]
            /\ UNCHANGED <<panicked, local_uuid>>
      /\ UNCHANGED <<app, session, sessions, sent>>

\* read_messages_client on the first n messages, and authentication_message_client.
ReadMessagesClient(n) ==
  LET known == Known("client", down, n)
      uuids == {k \in known : As("client", down[k]) = "uuid"}
      messages == {down[k] : k \in known}
  IN  /\ Alive("client")
      /\ down' = SubSeq(down, n + 1, Len(down))
      /\ \/ Panics("client", messages)
         \/ /\ dispatched' = dispatched \cup Dispatch("client", messages)
            /\ local_uuid' = IF uuids = {} THEN local_uuid ELSE down[Max(uuids)].uuid
            /\ UNCHANGED <<panicked, clients_connected>>
      /\ UNCHANGED <<app, session, sessions, up, sent>>

ServerReads == \E n \in 1 .. Len(up) : ReadMessagesServer(n)
ClientReads == \E n \in 1 .. Len(down) : ReadMessagesClient(n)

Next ==
  \/ \E side \in Side, t \in AppMessages : RegisterMessage(side, t)
  \/ Run \/ Connect \/ Lose \/ ClientSends \/ ServerSends
  \/ ServerReads \/ ClientReads

Spec == Init /\ [][Next]_vars

\* A message on its way arrives, and the schedule runs the read loops.
FairSpec == Spec /\ WF_vars(ServerReads) /\ WF_vars(ClientReads)

-----------------------------------------------------------------------------
(* Properties.                                                             *)

\* What the application has registered on a side, after the plugin.
Registered(side) ==
  SubSeq(registry[side], Len(AuthenticationPlugin(side)) + 1, Len(registry[side]))

\* One application has registered what the other has, in the same order, and
\* perhaps more after it.
Agree ==
  \/ IsPrefix(Registered("client"), Registered("server"))
  \/ IsPrefix(Registered("server"), Registered("client"))

\* Ids are given by counting (register_message), and no id or type is compared
\* when a client connects: two applications that register the same types in
\* the same order never decode a message as another type, nor panic on its bytes
\* (deserialize_message), in whatever form the applications send it.
DispatchedAsSent ==
  Agree => panicked = {} /\ \A d \in dispatched : d.as = d.sent

\* What makes that inductive: both registries begin with the plugin's types, a
\* message with an id is of the type its sender has under that id, and nothing
\* is sent before the registries are complete.
RegistriesBegin ==
  \A side \in Side : IsPrefix(AuthenticationPlugin(side), registry[side])

SentAs(side, m) ==
  m.id # 0 => m.id \in DOMAIN registry[side] /\ m.type = As(side, m)

IdsAreTrue ==
  /\ \A k \in DOMAIN up : SentAs("client", up[k])
  /\ \A k \in DOMAIN down : SentAs("server", down[k])

NothingBefore ==
  ~running => up = <<>> /\ down = <<>> /\ panicked = {} /\ dispatched = {}

MessagingInv == RegistriesBegin /\ IdsAreTrue /\ NothingBefore /\ DispatchedAsSent

\* A client that the server has admitted learns its uuid
\* (authentication_message_server sends AuthenticatedUuid,
\* authentication_message_client waits for it).
ReplyIsUnderstood ==
  \A s \in 1 .. MaxSessions :
    Agree /\ session = s /\ s \in clients_connected
      ~> local_uuid = s \/ session # s
=============================================================================
