--------------------------- MODULE MCRadiusClient ---------------------------
(***************************************************************************)
(* Instance of RadiusClient for TLC: two servers per class, with different *)
(* secrets.                                                                *)
(***************************************************************************)
EXTENDS RadiusClient

Two       == [k \in Class |-> 2]
Different == [k \in Class |-> [s \in 1 .. 2 |-> s]]
=============================================================================
