------------------------ MODULE MCLeasedVersionStore ------------------------
(* Instances of LeasedVersionStore for TLC. *)
EXTENDS LeasedVersionStore
=============================================================================
