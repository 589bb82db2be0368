-------------------------- MODULE MCServerSessions --------------------------
(* Model values for ServerSessions.  Two peers are enough for one reader   *)
(* to take the uuid that was meant for the other.                          *)
EXTENDS ServerSessions, FiniteSets, TLC

CONSTANTS c1, c2

TwoClients == {c1, c2}
Symmetry   == Permutations(TwoClients)

Sent(c, kind) == {n \in DOMAIN sent[c] : sent[c][n] = kind}

\* Constraint: one client that sends messages of all kinds while the other has
\* not connected, one refused authentication and one piece of junk at most; or
\* both with three messages between them, of the kinds that admit and are
\* delivered.
AllKindsAlone ==
  \/ /\ \E c \in Clients : peer[c] = "idle"
     /\ \A c \in Clients : /\ Cardinality(Sent(c, "deny")) <= 1
                          /\ Cardinality(Sent(c, "junk")) <= 1
  \/ /\ Len(sent[c1]) + Len(sent[c2]) <= 3
     /\ \A c \in Clients : Sent(c, "deny") \cup Sent(c, "junk") = {}

FourEach  == [c \in Clients |-> 4]
OneEach   == [c \in Clients |-> 1]
TwoAndOne == [c \in Clients |-> IF c = c1 THEN 2 ELSE 1]
=============================================================================
