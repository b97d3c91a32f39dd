--------------------------- MODULE MCReplayBuffer ---------------------------
(* The replay buffer with two stream generations, three serials in each and *)
(* a queue shorter than a stream, so that eviction and overtaking happen.   *)
EXTENDS ReplayBuffer
=============================================================================
