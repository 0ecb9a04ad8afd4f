------------------------- MODULE MCOperationalHealth -------------------------
(* A queue of two with one place reserved, and enough incident identities  *)
(* that a new one is always free.                                          *)
EXTENDS OperationalHealth

MCKeys == {"write", "admission", "timeout", "connection", "monitor"}
MCIncidents == 1..3
=============================================================================
