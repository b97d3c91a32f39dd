---------------------------- MODULE MCPublishGate ----------------------------
(* Four publishers of one channel and a waiting line of two. *)
EXTENDS PublishGate
=============================================================================
