---------------------------- MODULE MCLogReader ----------------------------
(***************************************************************************)
(* Instance of CsiLog and LogReader for TLC.                               *)
(***************************************************************************)
EXTENDS LogReader
=============================================================================
