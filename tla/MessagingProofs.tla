-------------------------- MODULE MessagingProofs --------------------------
(* Theorems of Messaging, for any message types of the application and any *)
(* bounds.                                                                 *)
EXTENDS Messaging, QueueLemmas


-----------------------------------------------------------------------------
(* Registries and queues.                                                  *)

LEMMA PrefixBehind ==
  ASSUME NEW S, NEW s \in Seq(S), NEW t \in Seq(S), NEW n \in Nat,
         n <= Len(s), n <= Len(t),
         IsPrefix(SubSeq(s, n + 1, Len(s)), SubSeq(t, n + 1, Len(t)))
  PROVE  \A i \in n + 1 .. Len(s) : i \in DOMAIN t /\ s[i] = t[i]
<1> DEFINE a == SubSeq(s, n + 1, Len(s))
           b == SubSeq(t, n + 1, Len(t))
<1>1. /\ Len(a) = Len(s) - n
      /\ \A i \in 1 .. Len(s) - n : a[i] = s[n + i]
  BY SubSeqProperties
<1>2. /\ Len(b) = Len(t) - n
      /\ \A i \in 1 .. Len(t) - n : b[i] = t[n + i]
  BY SubSeqProperties
<1>3. Len(a) <= Len(b) /\ SubSeq(a, 1, Len(a)) = SubSeq(b, 1, Len(a))
  BY DEF IsPrefix
<1> HIDE DEF a, b
<1>4. \A i \in 1 .. Len(a) : a[i] = b[i]
  <2>1. \A i \in 1 .. Len(a) : SubSeq(a, 1, Len(a))[i] = a[i]
    BY <1>1
  <2>2. \A i \in 1 .. Len(a) : SubSeq(b, 1, Len(a))[i] = b[i]
    BY <1>1
  <2> QED BY <1>3, <2>1, <2>2
<1> TAKE i \in n + 1 .. Len(s)
<1> DEFINE j == i - n
<1>5. /\ j \in 1 .. Len(s) - n /\ j \in 1 .. Len(t) - n
      /\ n + j = i /\ i \in DOMAIN t
  BY <1>1, <1>2, <1>3
<1> HIDE DEF j
<1>6. a[j] = s[i] /\ b[j] = t[i] /\ a[j] = b[j]
  BY <1>1, <1>2, <1>4, <1>5
<1> QED BY <1>5, <1>6

LEMMA RegistryBegins ==
  ASSUME TypeOK, RegistriesBegin, NEW side \in Side
  PROVE  /\ registry[side] \in Seq(Types) /\ Len(registry[side]) >= 2
         /\ registry[side][1] = "auth" /\ registry[side][2] = "uuid"
<1> DEFINE r == registry[side]
           p == AuthenticationPlugin(side)
<1>1. r \in Seq(Types) /\ p = <<"auth", "uuid">> /\ IsPrefix(p, r)
  BY DEF TypeOK, RegistriesBegin, AuthenticationPlugin
<1> HIDE DEF r, p
<1>2. Len(p) = 2 /\ 2 <= Len(r) /\ SubSeq(p, 1, 2) = SubSeq(r, 1, 2)
  BY <1>1 DEF IsPrefix
<1>3. SubSeq(r, 1, 2)[1] = r[1] /\ SubSeq(r, 1, 2)[2] = r[2]
  BY <1>1, <1>2
<1>4. SubSeq(p, 1, 2)[1] = "auth" /\ SubSeq(p, 1, 2)[2] = "uuid"
  BY <1>1
<1> QED BY <1>1, <1>2, <1>3, <1>4 DEF r

\* Registries that agree have the same type under every id that both have.
LEMMA AgreeMeans ==
  ASSUME TypeOK, RegistriesBegin, Agree,
         NEW i \in DOMAIN registry["client"], i \in DOMAIN registry["server"]
  PROVE  registry["client"][i] = registry["server"][i]
<1> DEFINE c == registry["client"]
           s == registry["server"]
<1>1. /\ c \in Seq(Types) /\ Len(c) >= 2 /\ c[1] = "auth" /\ c[2] = "uuid"
      /\ s \in Seq(Types) /\ Len(s) >= 2 /\ s[1] = "auth" /\ s[2] = "uuid"
  BY RegistryBegins DEF Side
<1>2. \/ IsPrefix(SubSeq(c, 3, Len(c)), SubSeq(s, 3, Len(s)))
      \/ IsPrefix(SubSeq(s, 3, Len(s)), SubSeq(c, 3, Len(c)))
  BY DEF Agree, Registered, AuthenticationPlugin
<1>3. i \in 1 .. Len(c) /\ i \in 1 .. Len(s)
  BY <1>1
<1> HIDE DEF c, s
<1>4. CASE i <= 2
  BY <1>1, <1>3, <1>4 DEF c, s
<1>5. CASE i > 2
  <2>1. i \in 2 + 1 .. Len(c) /\ i \in 2 + 1 .. Len(s)
    BY <1>1, <1>3, <1>5
  <2>2. CASE IsPrefix(SubSeq(c, 3, Len(c)), SubSeq(s, 3, Len(s)))
    BY <1>1, <2>1, <2>2, PrefixBehind DEF c, s
  <2>3. CASE IsPrefix(SubSeq(s, 3, Len(s)), SubSeq(c, 3, Len(c)))
    BY <1>1, <2>1, <2>3, PrefixBehind DEF c, s
  <2> QED BY <1>2, <2>2, <2>3
<1> QED BY <1>1, <1>3, <1>4, <1>5

-----------------------------------------------------------------------------
(* Type correctness.                                                       *)

LEMMA LastOne ==
  ASSUME NEW n \in Nat, NEW S, S \subseteq 1 .. n, S # {}
  PROVE  Max(S) \in S
<1>1. \E x \in S : \A y \in S : y <= x
  <2>1. S \subseteq 0 .. n
    OBVIOUS
  <2> QED BY <2>1, GreatestNumber
<1>2. \E x \in S : \A y \in S : x >= y
  BY <1>1
<1> QED BY <1>2, Zenon DEF Max

\* What is known of the first n messages of a queue.
LEMMA KnownAre ==
  ASSUME TypeOK, NEW side \in Side, NEW q \in Seq(Message), NEW n \in 1 .. Len(q)
  PROVE  /\ Known(side, q, n) \subseteq 1 .. n
         /\ \A k \in Known(side, q, n) :
              /\ k \in DOMAIN q /\ q[k] \in Message
              /\ q[k].id # 0 /\ q[k].id \in DOMAIN registry[side]
              /\ As(side, q[k]) \in Types /\ q[k].type \in Types /\ q[k].uuid \in Nat
         /\ SubSeq(q, n + 1, Len(q)) \in Seq(Message)
<1>1. /\ Known(side, q, n) \subseteq 1 .. n
      /\ \A k \in Known(side, q, n) :
           k \in DOMAIN q /\ q[k] \in Message /\ q[k].id \in DOMAIN registry[side]
  BY DEF Known
<1>2. registry[side] \in Seq(Types)
  BY DEF TypeOK
<1>3. ASSUME NEW k \in Known(side, q, n)
      PROVE  /\ q[k].id # 0 /\ As(side, q[k]) \in Types
             /\ q[k].type \in Types /\ q[k].uuid \in Nat
  <2>1. q[k].type \in Types /\ q[k].uuid \in Nat
    BY <1>1 DEF Message
  <2>2. q[k].id # 0 /\ registry[side][q[k].id] \in Types
    BY <1>1, <1>2
  <2> QED BY <2>1, <2>2 DEF As
<1>4. n \in DOMAIN q
  OBVIOUS
<1>5. SubSeq(q, n + 1, Len(q)) \in Seq(Message)
  BY <1>4, Dropped
<1> QED BY <1>1, <1>3, <1>5

LEMMA Dispatched ==
  ASSUME TypeOK, NEW side \in Side, NEW q \in Seq(Message), NEW n \in 1 .. Len(q),
         NEW K, K \subseteq Known(side, q, n)
  PROVE  Dispatch(side, {q[k] : k \in K})
           \subseteq [side : Side, as : Types, sent : Types]
<1>1. \A k \in K : As(side, q[k]) \in Types /\ q[k].type \in Types
  BY KnownAre
<1> QED BY <1>1 DEF Dispatch

LEMMA TypeReads ==
  ASSUME TypeOK, ServerReads \/ ClientReads
  PROVE  TypeOK'
<1>1. CASE ServerReads
  <2>1. PICK n \in 1 .. Len(up) : ReadMessagesServer(n)
    BY <1>1 DEF ServerReads
  <2> DEFINE known == Known("server", up, n)
             asked == {k \in known : As("server", up[k]) = "auth"}
             heard == IF session \in clients_connected THEN known ELSE asked
             answers == [k \in 1 .. Cardinality(asked) |-> Wire(0, "uuid", session)]
  <2>2. /\ "server" \in Side /\ up \in Seq(Message) /\ down \in Seq(Message)
        /\ session \in Nat
    BY DEF TypeOK, Side
  <2>3. /\ known \subseteq 1 .. n /\ asked \subseteq 1 .. n
        /\ heard \subseteq known
        /\ SubSeq(up, n + 1, Len(up)) \in Seq(Message)
    BY <2>2, KnownAre
  <2>4. answers \in Seq(Message)
    <3>1. Cardinality(asked) \in Nat
      <4>1. IsFiniteSet(1 .. n)
        BY FS_Interval
      <4> HIDE DEF asked
      <4>2. IsFiniteSet(asked)
        BY <2>3, <4>1, FS_Subset
      <4> QED BY <4>2, FS_CardinalityType
    <3>2. Wire(0, "uuid", session) \in Message
      BY <2>2 DEF Wire, Message, Types
    <3> DEFINE size == Cardinality(asked)
    <3>3. answers \in [1 .. size -> Message]
      BY <3>2
    <3> HIDE DEF answers, size
    <3> QED BY <3>1, <3>3, AsSequence DEF size
  <2>5. Dispatch("server", {up[k] : k \in heard}) \subseteq [side : Side, as : Types, sent : Types]
    BY <2>2, <2>3, Dispatched
  <2>6. {session : k \in asked} \subseteq Nat
    BY <2>2
  <2>7. /\ up' = SubSeq(up, n + 1, Len(up))
        /\ \/ /\ panicked' = panicked \cup {"server"}
              /\ UNCHANGED <<clients_connected, local_uuid, dispatched, down>>
           \/ /\ dispatched' = dispatched \cup Dispatch("server", {up[k] : k \in heard})
              /\ clients_connected' = clients_connected \cup {session : k \in asked}
              /\ down' = down \o answers
              /\ UNCHANGED <<panicked, local_uuid>>
        /\ UNCHANGED <<app, session, sessions, sent>>
    BY <2>1, Zenon DEF ReadMessagesServer, Panics
  <2> HIDE DEF known, asked, heard, answers
  <2>8. down \o answers \in Seq(Message)
    BY <2>2, <2>4
  <2>9. CASE /\ panicked' = panicked \cup {"server"}
             /\ UNCHANGED <<clients_connected, local_uuid, dispatched, down>>
    BY <2>2, <2>3, <2>7, <2>9 DEF TypeOK, app
  <2>10. CASE /\ dispatched' = dispatched \cup Dispatch("server", {up[k] : k \in heard})
              /\ clients_connected' = clients_connected \cup {session : k \in asked}
              /\ down' = down \o answers
              /\ UNCHANGED <<panicked, local_uuid>>
    BY <2>3, <2>5, <2>6, <2>7, <2>8, <2>10 DEF TypeOK, app
  <2> QED BY <2>7, <2>9, <2>10
<1>2. CASE ClientReads
  <2>1. PICK n \in 1 .. Len(down) : ReadMessagesClient(n)
    BY <1>2 DEF ClientReads
  <2> DEFINE known == Known("client", down, n)
             uuids == {k \in known : As("client", down[k]) = "uuid"}
             messages == {down[k] : k \in known}
             uuid == IF uuids = {} THEN local_uuid ELSE down[Max(uuids)].uuid
  <2>2. /\ "client" \in Side /\ down \in Seq(Message) /\ local_uuid \in Nat
    BY DEF TypeOK, Side
  <2>3. /\ known \subseteq 1 .. n /\ uuids \subseteq known
        /\ \A k \in known : down[k].uuid \in Nat
        /\ SubSeq(down, n + 1, Len(down)) \in Seq(Message)
    BY <2>2, KnownAre
  <2>4. uuids # {} => Max(uuids) \in uuids
    <3>1. n \in Nat /\ uuids \subseteq 1 .. n
      BY <2>3
    <3> QED BY <3>1, LastOne
  <2>5. uuid \in Nat
    BY <2>2, <2>3, <2>4
  <2>6. Dispatch("client", messages) \subseteq [side : Side, as : Types, sent : Types]
    BY <2>2, Dispatched
  <2>7. /\ down' = SubSeq(down, n + 1, Len(down))
        /\ \/ /\ panicked' = panicked \cup {"client"}
              /\ UNCHANGED <<clients_connected, local_uuid, dispatched>>
           \/ /\ dispatched' = dispatched \cup Dispatch("client", messages)
              /\ local_uuid' = uuid
              /\ UNCHANGED <<panicked, clients_connected>>
        /\ UNCHANGED <<app, session, sessions, up, sent>>
    BY <2>1, Zenon DEF ReadMessagesClient, Panics
  <2> HIDE DEF known, uuids, messages, uuid
  <2>8. "client" \in Side
    BY DEF Side
  <2> QED BY <2>3, <2>5, <2>6, <2>7, <2>8 DEF TypeOK, app
<1> QED BY <1>1, <1>2

LEMMA TypeNext ==
  ASSUME TypeOK, [Next]_vars
  PROVE  TypeOK'
<1>1. CASE \E side \in Side, m \in AppMessages : RegisterMessage(side, m)
  <2>1. PICK side \in Side, m \in AppMessages : RegisterMessage(side, m)
    BY <1>1
  <2>2. registry' = [registry EXCEPT ![side] = Append(registry[side], m)]
    BY <2>1 DEF RegisterMessage
  <2>3. registry \in [Side -> Seq(Types)] /\ m \in Types
    BY DEF TypeOK, Types
  <2>4. Append(registry[side], m) \in Seq(Types)
    BY <2>3
  <2>5. registry' \in [Side -> Seq(Types)]
    BY <2>2, <2>3, <2>4
  <2> QED BY <2>1, <2>5 DEF RegisterMessage, TypeOK
<1>2. CASE Run
  BY <1>2 DEF Run, TypeOK
<1>3. CASE Connect
  BY <1>3 DEF Connect, TypeOK, app
<1>4. CASE Lose
  <2>1. up' \in Seq(Message) /\ down' \in Seq(Message)
    BY <1>4 DEF Lose
  <2> QED BY <1>4, <2>1 DEF Lose, TypeOK, app
<1>5. CASE ClientSends \/ ServerSends
  <2>1. /\ up' = up \/ \E m \in Sendable("client") : up' = Append(up, m)
        /\ down' = down \/ \E m \in Sendable("server") : down' = Append(down, m)
        /\ sent' \in Nat
        /\ UNCHANGED <<app, panicked, session, sessions, clients_connected,
                       local_uuid, dispatched>>
    BY <1>5 DEF ClientSends, ServerSends, TypeOK
  <2>2. \A side \in Side : Sendable(side) \subseteq Message
    BY DEF Sendable, Wire, Message, TypeOK
  <2>3. up \in Seq(Message) /\ down \in Seq(Message)
    BY DEF TypeOK
  <2>4. up' \in Seq(Message)
    <3>1. CASE up' = up
      BY <2>3, <3>1
    <3>2. ASSUME NEW m \in Sendable("client"), up' = Append(up, m)
          PROVE  up' \in Seq(Message)
      <4>1. m \in Message
        BY <2>2 DEF Side
      <4> QED BY <2>3, <3>2, <4>1, Pushed
    <3> QED BY <2>1, <3>1, <3>2
  <2>5. down' \in Seq(Message)
    <3>1. CASE down' = down
      BY <2>3, <3>1
    <3>2. ASSUME NEW m \in Sendable("server"), down' = Append(down, m)
          PROVE  down' \in Seq(Message)
      <4>1. m \in Message
        BY <2>2 DEF Side
      <4> QED BY <2>3, <3>2, <4>1, Pushed
    <3> QED BY <2>1, <3>1, <3>2
  <2> QED BY <2>1, <2>4, <2>5 DEF TypeOK, app
<1>6. CASE UNCHANGED vars
  BY <1>6 DEF vars, app, TypeOK
<1> QED BY <1>1, <1>2, <1>3, <1>4, <1>5, <1>6, TypeReads DEF Next

\* Every variable keeps its type.
THEOREM MessagingTypeCorrect == Spec => []TypeOK
<1>1. Init => TypeOK
  <2> SUFFICES ASSUME Init PROVE TypeOK
    OBVIOUS
  <2>1. \A side \in Side : AuthenticationPlugin(side) \in Seq(Types)
    <3>1. "auth" \in Types /\ "uuid" \in Types
      BY DEF Types
    <3> QED BY <3>1 DEF AuthenticationPlugin
  <2>2. registry \in [Side -> Seq(Types)]
    BY <2>1 DEF Init
  <2>3. up \in Seq(Message) /\ down \in Seq(Message)
    BY DEF Init
  <2> QED BY <2>2, <2>3 DEF Init, TypeOK
<1>2. TypeOK /\ [Next]_vars => TypeOK'
  BY TypeNext
<1> QED BY <1>1, <1>2, PTL DEF Spec

-----------------------------------------------------------------------------
(* Messages are dispatched as they were sent.                              *)

\* A message of the other side is decoded as what it is.
LEMMA Understood ==
  ASSUME TypeOK, RegistriesBegin, Agree,
         NEW side \in Side, NEW other \in Side, side # other,
         NEW q \in Seq(Message), NEW n \in 1 .. Len(q),
         \A k \in DOMAIN q : SentAs(other, q[k]),
         NEW k \in Known(side, q, n)
  PROVE  As(side, q[k]) = q[k].type
<1>1. /\ k \in DOMAIN q /\ q[k].id # 0
      /\ q[k].id \in DOMAIN registry[side]
  BY KnownAre
<1>2. q[k].id \in DOMAIN registry[other] /\ q[k].type = registry[other][q[k].id]
  BY <1>1 DEF SentAs, As
<1>3. registry[side][q[k].id] = registry[other][q[k].id]
  BY <1>1, <1>2, AgreeMeans DEF Side
<1> QED BY <1>2, <1>3 DEF As

\* A read loop of applications that agree.
LEMMA LoopAgrees ==
  ASSUME TypeOK, RegistriesBegin, Agree,
         NEW side \in Side, NEW other \in Side, side # other,
         NEW q \in Seq(Message), NEW n \in 1 .. Len(q),
         \A k \in DOMAIN q : SentAs(other, q[k]),
         NEW K, K \subseteq Known(side, q, n)
  PROVE  /\ ~Undecodable(side, {q[k] : k \in K})
         /\ \A d \in Dispatch(side, {q[k] : k \in K}) : d.as = d.sent
<1>1. \A k \in K : As(side, q[k]) = q[k].type
  BY Understood
<1>2. ~Undecodable(side, {q[k] : k \in K})
  BY <1>1 DEF Undecodable
<1>3. \A d \in Dispatch(side, {q[k] : k \in K}) : d.as = d.sent
  BY <1>1 DEF Dispatch
<1> QED BY <1>2, <1>3

\* What an application sends is of the type it has under its id.
LEMMA SendableAs ==
  ASSUME TypeOK, NEW side \in Side, NEW m \in Sendable(side)
  PROVE  m \in Message /\ SentAs(side, m)
<1>1. PICK i \in DOMAIN registry[side] :
        \/ m = Wire(0, registry[side][i], session)
        \/ m = Wire(i, registry[side][i], session)
  BY DEF Sendable
<1>2. registry[side] \in Seq(Types) /\ session \in Nat
  BY DEF TypeOK
<1>3. i \in Nat /\ registry[side][i] \in Types
  BY <1>2
<1>4. m \in Message
  BY <1>1, <1>2, <1>3 DEF Wire, Message
<1>5. SentAs(side, m)
  BY <1>1 DEF Wire, SentAs, As
<1> QED BY <1>4, <1>5

\* The queues of applications that run, one by one.
Truthful(q, side) == \A k \in DOMAIN q : SentAs(side, q[k])

LEMMA TruthfulQueues ==
  IdsAreTrue <=> Truthful(up, "client") /\ Truthful(down, "server")
BY DEF IdsAreTrue, Truthful

LEMMA TruthfulPushed ==
  ASSUME NEW side \in Side, NEW q \in Seq(Message), Truthful(q, side),
         NEW m \in Message, SentAs(side, m)
  PROVE  Truthful(Append(q, m), side)
<1>1. /\ DOMAIN Append(q, m) = DOMAIN q \cup {Len(q) + 1}
      /\ Append(q, m)[Len(q) + 1] = m
      /\ \A k \in DOMAIN q : Append(q, m)[k] = q[k]
  BY Spawned
<1> QED BY <1>1 DEF Truthful

LEMMA TruthfulDropped ==
  ASSUME NEW side \in Side, NEW q \in Seq(Message), Truthful(q, side), NEW n \in 1 .. Len(q)
  PROVE  Truthful(SubSeq(q, n + 1, Len(q)), side)
<1> DEFINE t == SubSeq(q, n + 1, Len(q))
<1> n \in DOMAIN q
  OBVIOUS
<1>1. t \in Seq(Message) /\ Range(t) \subseteq Range(q)
  BY Dropped
<1> HIDE DEF t
<1>2. \A k \in DOMAIN t : \E j \in DOMAIN q : t[k] = q[j]
  BY <1>1 DEF Range
<1>3. Truthful(t, side)
  BY <1>2 DEF Truthful
<1> QED BY <1>3 DEF t

LEMMA TruthfulBehind ==
  ASSUME NEW side \in Side, NEW q \in Seq(Message), NEW t \in Seq(Message),
         Truthful(q, side), Truthful(t, side)
  PROVE  Truthful(q \o t, side)
<1>1. \A k \in DOMAIN q : k \in DOMAIN (q \o t) /\ (q \o t)[k] = q[k]
  BY Behind
<1>2. /\ Len(q) \in Nat /\ DOMAIN q = 1 .. Len(q)
      /\ \A k \in Len(q) + 1 .. Len(q \o t) :
           k - Len(q) \in DOMAIN t /\ (q \o t)[k] = t[k - Len(q)]
      /\ DOMAIN (q \o t) = 1 .. Len(q \o t) /\ Len(q \o t) \in Nat
  BY BehindPlaces, Behind
<1> DEFINE u == q \o t
           L == Len(u)
<1> HIDE DEF u, L
<1>3. \A k \in DOMAIN u : k \in DOMAIN q \/ k \in Len(q) + 1 .. L
  BY <1>2 DEF u, L
<1>4. ASSUME NEW k \in DOMAIN u PROVE SentAs(side, u[k])
  <2>1. CASE k \in DOMAIN q
    <3>1. u[k] = q[k]
      BY <1>1, <2>1 DEF u
    <3> QED BY <2>1, <3>1 DEF Truthful
  <2>2. CASE k \in Len(q) + 1 .. L
    <3>1. k - Len(q) \in DOMAIN t /\ u[k] = t[k - Len(q)]
      BY <1>2, <2>2 DEF u, L
    <3> QED BY <3>1 DEF Truthful
  <2> QED BY <1>3, <2>1, <2>2
<1> QED BY <1>4 DEF Truthful, u

\* A step that leaves the registries alone, after what is on its way was looked at.
LEMMA InvKept ==
  ASSUME MessagingInv, UNCHANGED registry,
         Truthful(up', "client"), Truthful(down', "server"),
         running \/ UNCHANGED <<up, down, panicked, dispatched>>,
         running => running',
         Agree => /\ panicked' = panicked
                  /\ \A d \in dispatched' : d \in dispatched \/ d.as = d.sent
  PROVE  MessagingInv'
<1>1. RegistriesBegin'
  BY DEF MessagingInv, RegistriesBegin, AuthenticationPlugin
<1>2. IdsAreTrue'
  BY DEF IdsAreTrue, Truthful, SentAs, As
<1>3. NothingBefore'
  BY DEF MessagingInv, NothingBefore
<1>4. Agree' <=> Agree
  BY DEF Agree, Registered
<1>5. DispatchedAsSent'
  BY <1>4 DEF MessagingInv, DispatchedAsSent
<1> QED BY <1>1, <1>2, <1>3, <1>5 DEF MessagingInv

LEMMA RegisterInv ==
  ASSUME TypeOK, MessagingInv, NEW side \in Side, NEW m \in AppMessages,
         RegisterMessage(side, m)
  PROVE  MessagingInv'
<1>1. /\ ~running /\ UNCHANGED <<running, panicked, up, down, dispatched>>
      /\ registry' = [registry EXCEPT ![side] = Append(registry[side], m)]
  BY DEF RegisterMessage
<1>2. up = <<>> /\ down = <<>> /\ panicked = {} /\ dispatched = {}
  BY <1>1 DEF MessagingInv, NothingBefore
<1>3. \A s \in Side : registry'[s] = registry[s] \/ registry'[s] = Append(registry[s], m)
  BY <1>1 DEF TypeOK
<1>4. \A s \in Side : IsPrefix(AuthenticationPlugin(s), registry'[s])
  <2> TAKE s \in Side
  <2> DEFINE r == registry[s]
             p == AuthenticationPlugin(s)
  <2>1. r \in Seq(Types) /\ p \in Seq(Types) /\ m \in Types /\ IsPrefix(p, r)
    BY DEF TypeOK, Types, AuthenticationPlugin, MessagingInv, RegistriesBegin
  <2> HIDE DEF r, p
  <2>2. IsPrefix(p, Append(r, m))
    BY <2>1 DEF IsPrefix
  <2> QED BY <1>3, <2>1, <2>2 DEF r, p
<1>5. RegistriesBegin'
  BY <1>4 DEF RegistriesBegin, AuthenticationPlugin
<1>6. IdsAreTrue' /\ NothingBefore' /\ DispatchedAsSent'
  BY <1>1, <1>2 DEF IdsAreTrue, NothingBefore, DispatchedAsSent
<1> QED BY <1>5, <1>6 DEF MessagingInv

LEMMA SendsInv ==
  ASSUME TypeOK, MessagingInv, ClientSends \/ ServerSends
  PROVE  MessagingInv'
<1>1. up \in Seq(Message) /\ down \in Seq(Message)
  BY DEF TypeOK
<1>2. Truthful(up, "client") /\ Truthful(down, "server")
  BY TruthfulQueues DEF MessagingInv
<1>3. CASE ClientSends
  <2>1. /\ running /\ UNCHANGED <<registry, running, panicked, down, dispatched>>
        /\ \E m \in Sendable("client") : up' = Append(up, m)
    BY <1>3 DEF ClientSends, Alive, app
  <2>2. Truthful(up', "client")
    BY <1>1, <1>2, <2>1, SendableAs, TruthfulPushed DEF Side
  <2> QED BY <1>2, <2>1, <2>2, InvKept
<1>4. CASE ServerSends
  <2>1. /\ running /\ UNCHANGED <<registry, running, panicked, up, dispatched>>
        /\ \E m \in Sendable("server") : down' = Append(down, m)
    BY <1>4 DEF ServerSends, Alive, app
  <2>2. Truthful(down', "server")
    BY <1>1, <1>2, <2>1, SendableAs, TruthfulPushed DEF Side
  <2> QED BY <1>2, <2>1, <2>2, InvKept
<1> QED BY <1>3, <1>4

LEMMA ServerReadsInv ==
  ASSUME TypeOK, MessagingInv, NEW n \in 1 .. Len(up), ReadMessagesServer(n)
  PROVE  MessagingInv'
<1> DEFINE known == Known("server", up, n)
           asked == {k \in known : As("server", up[k]) = "auth"}
           heard == IF session \in clients_connected THEN known ELSE asked
           answers == [k \in 1 .. Cardinality(asked) |-> Wire(0, "uuid", session)]
<1>1. /\ "server" \in Side /\ "client" \in Side
      /\ up \in Seq(Message) /\ down \in Seq(Message) /\ session \in Nat
      /\ RegistriesBegin /\ Truthful(up, "client") /\ Truthful(down, "server")
  BY TruthfulQueues DEF TypeOK, Side, MessagingInv
<1>2. /\ running /\ UNCHANGED <<registry, running>>
      /\ up' = SubSeq(up, n + 1, Len(up))
      /\ \/ /\ Undecodable("server", {up[k] : k \in known})
            /\ UNCHANGED <<down, dispatched>>
         \/ /\ dispatched' = dispatched \cup Dispatch("server", {up[k] : k \in heard})
            /\ down' = down \o answers /\ UNCHANGED panicked
  BY Zenon DEF ReadMessagesServer, Panics, Alive, app
<1>3. Truthful(up', "client")
  BY <1>1, <1>2, TruthfulDropped
<1>4. answers \in Seq(Message) /\ Truthful(answers, "server")
  <2> DEFINE size == Cardinality(asked)
  <2>1. size \in Nat
    <3>1. known \subseteq 1 .. n /\ asked \subseteq 1 .. n /\ IsFiniteSet(1 .. n)
      BY FS_Interval DEF Known
    <3> HIDE DEF asked
    <3> QED BY <3>1, FS_Subset, FS_CardinalityType
  <2>2. Wire(0, "uuid", session) \in Message /\ Wire(0, "uuid", session).id = 0
    BY <1>1 DEF Wire, Message, Types
  <2>3. answers \in [1 .. size -> Message]
    BY <2>2
  <2>4. \A k \in DOMAIN answers : answers[k].id = 0
    BY <2>2
  <2> HIDE DEF answers, size
  <2> QED BY <2>1, <2>3, <2>4, AsSequence DEF Truthful, SentAs
<1>5. Truthful(down', "server")
  <2> HIDE DEF answers
  <2>1. Truthful(down \o answers, "server")
    BY <1>1, <1>4, TruthfulBehind
  <2> QED BY <1>1, <1>2, <2>1
<1>6. ASSUME Agree
      PROVE  /\ panicked' = panicked
             /\ \A d \in dispatched' : d \in dispatched \/ d.as = d.sent
  <2>1. /\ ~Undecodable("server", {up[k] : k \in known})
        /\ \A d \in Dispatch("server", {up[k] : k \in heard}) : d.as = d.sent
    <3>1. heard \subseteq known
      OBVIOUS
    <3>2. \A k \in DOMAIN up : SentAs("client", up[k])
      BY <1>1 DEF Truthful
    <3> HIDE DEF heard
    <3> QED BY <1>1, <1>6, <3>1, <3>2, LoopAgrees
  <2> HIDE DEF heard
  <2> QED BY <1>2, <2>1
<1> QED BY <1>2, <1>3, <1>5, <1>6, InvKept

LEMMA ClientReadsInv ==
  ASSUME TypeOK, MessagingInv, NEW n \in 1 .. Len(down), ReadMessagesClient(n)
  PROVE  MessagingInv'
<1> DEFINE known == Known("client", down, n)
           messages == {down[k] : k \in known}
<1>1. /\ "server" \in Side /\ "client" \in Side
      /\ up \in Seq(Message) /\ down \in Seq(Message)
      /\ RegistriesBegin /\ Truthful(up, "client") /\ Truthful(down, "server")
  BY TruthfulQueues DEF TypeOK, Side, MessagingInv
<1>2. /\ running /\ UNCHANGED <<registry, running, up>>
      /\ down' = SubSeq(down, n + 1, Len(down))
      /\ \/ Undecodable("client", messages) /\ UNCHANGED dispatched
         \/ /\ dispatched' = dispatched \cup Dispatch("client", messages)
            /\ UNCHANGED panicked
  BY Zenon DEF ReadMessagesClient, Panics, Alive, app
<1>3. Truthful(up', "client") /\ Truthful(down', "server")
  BY <1>1, <1>2, TruthfulDropped
<1>4. ASSUME Agree
      PROVE  /\ panicked' = panicked
             /\ \A d \in dispatched' : d \in dispatched \/ d.as = d.sent
  <2>1. /\ ~Undecodable("client", messages)
        /\ \A d \in Dispatch("client", messages) : d.as = d.sent
    <3>1. \A k \in DOMAIN down : SentAs("server", down[k])
      BY <1>1 DEF Truthful
    <3> QED BY <1>1, <1>4, <3>1, LoopAgrees
  <2> HIDE DEF messages
  <2> QED BY <1>2, <2>1
<1> QED BY <1>2, <1>3, <1>4, InvKept

\* The registries, and what the messages on their way say of their types.
THEOREM MessagingInvariant == Spec => []MessagingInv
<1>1. Init => MessagingInv
  <2> SUFFICES ASSUME Init PROVE MessagingInv
    OBVIOUS
  <2>1. \A side \in Side : IsPrefix(AuthenticationPlugin(side), AuthenticationPlugin(side))
    BY DEF IsPrefix
  <2>2. RegistriesBegin
    BY <2>1 DEF Init, RegistriesBegin
  <2>3. IdsAreTrue /\ NothingBefore /\ DispatchedAsSent
    BY DEF Init, IdsAreTrue, NothingBefore, DispatchedAsSent
  <2> QED BY <2>2, <2>3 DEF MessagingInv
<1>2. TypeOK /\ MessagingInv /\ [Next]_vars => MessagingInv'
  <2> SUFFICES ASSUME TypeOK, MessagingInv, [Next]_vars PROVE MessagingInv'
    OBVIOUS
  <2>1. Truthful(up, "client") /\ Truthful(down, "server")
    BY TruthfulQueues DEF MessagingInv
  <2>2. CASE Run
    BY <2>1, <2>2, InvKept DEF Run
  <2>3. CASE Connect
    BY <2>1, <2>3, InvKept DEF Connect, app
  <2>4. CASE Lose
    <3>1. /\ up' = <<>> /\ down' = <<>>
          /\ UNCHANGED <<registry, running, panicked, dispatched>>
      BY <2>4 DEF Lose, app
    <3>2. Truthful(up', "client") /\ Truthful(down', "server")
      BY <3>1 DEF Truthful
    <3>3. running \/ UNCHANGED <<up, down>>
      BY <3>1 DEF MessagingInv, NothingBefore
    <3> QED BY <3>1, <3>2, <3>3, InvKept
  <2>5. CASE UNCHANGED vars
    BY <2>1, <2>5, InvKept DEF vars, app
  <2> QED BY <2>2, <2>3, <2>4, <2>5, RegisterInv, SendsInv, ServerReadsInv,
             ClientReadsInv DEF Next, ServerReads, ClientReads
<1> QED BY <1>1, <1>2, MessagingTypeCorrect, PTL DEF Spec

\* Two applications whose registrations agree never decode a message as
\* another type, nor panic on its bytes.
THEOREM MessagesAreUnderstood == Spec => []DispatchedAsSent
<1>1. MessagingInv => DispatchedAsSent
  BY DEF MessagingInv
<1> QED BY <1>1, MessagingInvariant, PTL
=============================================================================
