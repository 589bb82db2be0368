----------------------------- MODULE ClientLink -----------------------------
(***************************************************************************)
(* What a client's connection promises the application, whatever its port: *)
(* it is absent, down or up; every stream it is up on is a new one; and    *)
(* what the application is given are the messages of those streams, from   *)
(* the first one on, without a gap or a repetition, stream after stream,   *)
(* and never one of a connection that has been removed.  It may be given   *)
(* messages of a stream that was lost, until one of a later stream comes.  *)
(***************************************************************************)
EXTENDS Naturals, Sequences

VARIABLES
  state,   \* "absent", "down" or "up"
  stream,  \* the number of the stream it is up on, 0 otherwise
  last,    \* the last stream it was up on
  base,    \* the last stream there was when it was started
  log      \* the messages given to the application, <<stream, number>>

linkVars == <<state, stream, last, base, log>>

LinkInit ==
  /\ state = "absent" /\ stream = 0
  /\ last = 0 /\ base = 0
  /\ log = <<>>

Start ==
  /\ state = "absent"
  /\ state' = "down"
  /\ base' = last
  /\ UNCHANGED <<stream, last, log>>

Connect ==
  /\ state = "down"
  /\ state' = "up"
  /\ stream' > last
  /\ last' = stream'
  /\ UNCHANGED <<base, log>>

Lose ==
  /\ state = "up"
  /\ state' = "down"
  /\ stream' = 0
  /\ UNCHANGED <<last, base, log>>

Remove ==
  /\ state # "absent"
  /\ state' = "absent"
  /\ stream' = 0
  /\ UNCHANGED <<last, base, log>>

\* Message m may follow what was given before.
Follows(m, before) ==
  \/ m[2] = 1 /\ (before = <<>> \/ before[Len(before)][1] < m[1])
  \/ before # <<>> /\ m = [before[Len(before)] EXCEPT ![2] = @ + 1]

\* One frame gives the application any number of messages.
Deliver ==
  /\ state # "absent"
  /\ Len(log') > Len(log)
  /\ SubSeq(log', 1, Len(log)) = log
  /\ \A k \in Len(log) + 1 .. Len(log') :
       /\ log'[k][1] \in base + 1 .. last
       /\ Follows(log'[k], SubSeq(log', 1, k - 1))
  /\ UNCHANGED <<state, stream, last, base>>

LinkNext == Start \/ Connect \/ Lose \/ Remove \/ Deliver

LinkSpec == LinkInit /\ [][LinkNext]_linkVars
=============================================================================
