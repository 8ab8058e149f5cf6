----------------------------- MODULE MCCsiStore -----------------------------
(***************************************************************************)
(* Instances of CsiStore for TLC: one receiver, and two that share the     *)
(* database.                                                               *)
(***************************************************************************)
EXTENDS CsiStore

CONSTANTS p1, p2

\* A report with CSI, and one without a row.
Full == [csi_len |-> 140, rows |-> 56]
Void == [csi_len |-> 0, rows |-> 0]
Both == {Full, Void}
FullOnly == {Full}

One == {p1}
Two == {p1, p2}
Swap == {[x \in Two |-> x], [x \in Two |-> IF x = p1 THEN p2 ELSE p1]}
=============================================================================
