---------------------------- MODULE MCRedisQueue ----------------------------
EXTENDS RedisQueue, TLC

CONSTANTS a, b, k1, b1, n1, n2

Req(i, key, delay) == [id |-> i, body |-> b1, key |-> key, delay |-> delay]

(* Two calls whose jobs share a deduplication key, one of them delayed.    *)
SharedKey == {<<Req(a, k1, FALSE)>>, <<Req(b, k1, TRUE)>>}

(* A frame of two jobs, more than one claim takes when Prefetch is 1.      *)
OneFrame == {<<Req(a, None, FALSE), Req(b, None, FALSE)>>}

NodeSymmetry == Permutations({n1, n2})

=============================================================================
