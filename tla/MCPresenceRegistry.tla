------------------------- MODULE MCPresenceRegistry -------------------------
EXTENDS PresenceRegistry, TLC

CONSTANTS c1, c2, c3, room, lobby, ann, t1, t2

(* Each connection has a coordination shard of its own.                    *)
OwnShard == [c \in Conns |-> c]

(* The capacity shard of a channel's client.                               *)
ByChannel == [p \in Channels \X Clients |-> IF p[1] = room THEN 1 ELSE 2]

ThreadSymmetry == Permutations(Threads)

=============================================================================
