----------------------------- MODULE MCRecovery -----------------------------
(***************************************************************************)
(* Recovery for TLC.  The configurations choose the nodes, the history     *)
(* backends and the faults.                                                *)
(***************************************************************************)
EXTENDS Recovery
=============================================================================
