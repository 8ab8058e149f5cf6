----------------------------- MODULE MCWpaAuth -----------------------------
(***************************************************************************)
(* Stations for TLC: a uses WPA2, b and c use WPA, with the group key      *)
(* handshake after the pairwise one; a and c change their SNonce when a    *)
(* message 1/4 is repeated, b does not.                                    *)
(***************************************************************************)
EXTENDS WpaAuth

Versions == [s \in Sta |-> IF s = "a" THEN "WPA2" ELSE "WPA"]
SNonces  == [s \in Sta |-> IF s = "b" THEN {1} ELSE {1, 2}]
=============================================================================
