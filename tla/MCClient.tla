------------------------------ MODULE MCClient ------------------------------
(* Client needs no model values: its configurations give numbers only.      *)
EXTENDS Client
=============================================================================
