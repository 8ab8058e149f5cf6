---------------------------- MODULE MCSendData ----------------------------
(***************************************************************************)
(* Arguments of send_Data for TLC: negative, zero, and counts that divide  *)
(* a second and that do not.                                               *)
(***************************************************************************)
EXTENDS SendData

SomeCounts == {-2, 0, 2, 3, 7}
SomeSeconds == {-1, 0, 2, 3}
=============================================================================
