---------------------------- MODULE MCWsSessions ----------------------------
(* Model values for WsSessions: two clients, so that the reader of one that *)
(* has ended can take the worker of the other.                              *)
EXTENDS WsSessions

CONSTANTS c1, c2

TwoClients == {c1, c2}
=============================================================================
