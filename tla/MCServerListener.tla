-------------------------- MODULE MCServerListener --------------------------
(* Model values for ServerListener.  Two peers, so that one can wait while  *)
(* the loop is busy with the other.                                        *)
EXTENDS ServerListener, TLC

CONSTANTS p1, p2

TwoPeers == {p1, p2}
OnePeer  == {p1}
Symmetry == Permutations(TwoPeers)
=============================================================================
