------------------------- MODULE LeasedVersionStore -------------------------
(***************************************************************************)
(* LeasedVersionStore (crates/sockudo-core/src/version_store/leased.rs) on *)
(* every node, over one shared version store, for one channel.             *)
(*                                                                         *)
(* Each node caches a block of delivery serials, its lease.  A request     *)
(* looks at the lease under the node's mutex, and on a miss takes the      *)
(* mutex again to become the leader of a refill or to wait for the one     *)
(* under way; the leader awaits the shared store and installs the block.   *)
(* Commits bypass the leases and draw their serial from the store.         *)
(*                                                                         *)
(* One action is one critical section of the mutex or one call of the      *)
(* shared store.  A task makes one request.                                *)
(***************************************************************************)
EXTENDS Integers

CONSTANTS
    Nodes,          \* processes, each with a LeasedVersionStore
    Tasks,          \* requests
    BlockSize,      \* block_size
    MaxAttempts,    \* max_attempts of reserve_delivery_position_after
    Requests,       \* the kinds of requests made: "plain", "after", "commit"
    Faults          \* the faults injected: "fail", "cancel"

ASSUME BlockSizeAssumption == BlockSize \in Nat \ {0}
ASSUME MaxAttemptsAssumption == MaxAttempts \in Nat \ {0}

VARIABLES
    inner,      \* next_delivery_serial of the shared store
    lease,      \* leases[key] of each node
    inFlight,   \* whether in_flight has the key, on each node
    pc,         \* where each request is
    home,       \* the request's node
    after,      \* after_delivery_serial, 0 for a plain request
    tries,      \* iterations begun by a bounded request
    block,      \* start_delivery_serial of the leader's block, 0 without one
    got         \* the serial handed out, 0 before

vars == << inner, lease, inFlight, pc, home, after, tries, block, got >>

States ==
    {"idle",
     "try",         \* about to look at the lease
     "join",        \* missed, about to look at in_flight
     "waiting",     \* awaits the leader's oneshot
     "lead",        \* awaits the shared store
     "install",     \* the store has reserved the block
     "done", "error",
     "committed",   \* served by the shared store
     "cancelled",   \* the future was dropped while it waited
     "abandoned"}   \* the future was dropped while it led

Leading == {"lead", "install"}

\* No entry.  An entry with nothing left is removed at once, see Advance.
NoLease == [next |-> 0, end |-> 0]

Init ==
    /\ inner = 1
    /\ lease = [n \in Nodes |-> NoLease]
    /\ inFlight = [n \in Nodes |-> FALSE]
    /\ pc = [t \in Tasks |-> "idle"]
    /\ home \in [Tasks -> Nodes]
    /\ after = [t \in Tasks |-> 0]
    /\ tries = [t \in Tasks |-> 0]
    /\ block = [t \in Tasks |-> 0]
    /\ got = [t \in Tasks |-> 0]

-----------------------------------------------------------------------------
(* Requests.                                                               *)

\* reserve_delivery_position; with blocks of one it goes to the store instead.
ReservePlain(t) ==
    /\ "plain" \in Requests
    /\ BlockSize > 1
    /\ pc[t] = "idle"
    /\ pc' = [pc EXCEPT ![t] = "try"]
    /\ UNCHANGED << inner, lease, inFlight, home, after, tries, block, got >>

\* reserve_delivery_position_after, with the serial of an existing version.
ReserveAfter(t) ==
    /\ "after" \in Requests
    /\ pc[t] = "idle"
    /\ \E u \in Tasks :
          got[u] # 0 /\ after' = [after EXCEPT ![t] = got[u]]
    /\ pc' = [pc EXCEPT ![t] = "try"]
    /\ UNCHANGED << inner, lease, inFlight, home, tries, block, got >>

\* commit_create, compare_and_apply, or a plain request with blocks of one.
DrawFromStore(t) ==
    /\ "commit" \in Requests
    /\ pc[t] = "idle"
    /\ got' = [got EXCEPT ![t] = inner]
    /\ inner' = inner + 1
    /\ pc' = [pc EXCEPT ![t] = "committed"]
    /\ UNCHANGED << lease, inFlight, home, after, tries, block >>

-----------------------------------------------------------------------------
(* One iteration of the loop.                                              *)

Bounded(t) == after[t] > 0

\* A mutant of NextAfter: the stale part of the lease is not skipped.
NextAnyway(l, a) == l.next

\* take_cached_after skips what is not after a; take_cached is the case a = 0.
NextAfter(l, a) == IF l.next <= a THEN a + 1 ELSE l.next

\* A mutant of Advance: the cursor stays.
StayPut(l, s) == l

\* take_next; a lease with nothing left is removed.
Advance(l, s) ==
    IF s + 1 >= l.end THEN NoLease ELSE [next |-> s + 1, end |-> l.end]

\* A mutant of Attempt: the attempts are counted and not compared.
AttemptAnyway(t) ==
    tries' = [tries EXCEPT ![t] = IF Bounded(t) THEN @ + 1 ELSE @]

\* An iteration begins: only the loop of a bounded request counts them.
Attempt(t) ==
    /\ Bounded(t) => tries[t] < MaxAttempts
    /\ tries' = [tries EXCEPT ![t] = IF Bounded(t) THEN @ + 1 ELSE @]

\* take_cached, and take_cached_after for a bounded request
TakeCached(t) ==
    LET n == home[t]
        s == NextAfter(lease[n], after[t])
    IN  /\ pc[t] = "try"
        /\ Attempt(t)
        /\ \/ /\ s < lease[n].end
              /\ got' = [got EXCEPT ![t] = s]
              /\ lease' = [lease EXCEPT ![n] = Advance(lease[n], s)]
              /\ pc' = [pc EXCEPT ![t] = "done"]
           \/ /\ s >= lease[n].end
              /\ lease' = [lease EXCEPT ![n] = NoLease]
              /\ pc' = [pc EXCEPT ![t] = "join"]
              /\ UNCHANGED got
        /\ UNCHANGED << inner, inFlight, home, after, block >>

\* The loop of reserve_delivery_position_after runs out.
GiveUp(t) ==
    /\ pc[t] = "try"
    /\ Bounded(t)
    /\ tries[t] = MaxAttempts
    /\ pc' = [pc EXCEPT ![t] = "error"]
    /\ UNCHANGED << inner, lease, inFlight, home, after, tries, block, got >>

\* A mutant of StartOrJoin: in_flight is not consulted.
StartAlways(t) ==
    /\ pc[t] = "join"
    /\ pc' = [pc EXCEPT ![t] = "lead"]
    /\ inFlight' = [inFlight EXCEPT ![home[t]] = TRUE]
    /\ UNCHANGED << inner, lease, home, after, tries, block, got >>

\* start_or_join_reservation
StartOrJoin(t) ==
    /\ pc[t] = "join"
    /\ pc' = [pc EXCEPT ![t] = IF inFlight[home[t]] THEN "waiting" ELSE "lead"]
    /\ inFlight' = [inFlight EXCEPT ![home[t]] = TRUE]
    /\ UNCHANGED << inner, lease, home, after, tries, block, got >>

\* The shared store reserves a block.
ReserveBlock(t) ==
    /\ pc[t] = "lead"
    /\ pc' = [pc EXCEPT ![t] = "install"]
    /\ block' = [block EXCEPT ![t] = inner]
    /\ inner' = inner + BlockSize
    /\ UNCHANGED << lease, inFlight, home, after, tries, got >>

\* A mutant of Wake: the waiters' oneshots are forgotten.
WakeNobody(t, next) == pc' = [pc EXCEPT ![t] = next]

\* in_flight is removed and its waiters are sent to; the leader goes to `next`.
Wake(t, next) ==
    pc' = [u \in Tasks |->
              IF u = t THEN next
              ELSE IF pc[u] = "waiting" /\ home[u] = home[t] THEN "try"
              ELSE pc[u]]

\* finish_reservation: the block replaces whatever lease there is.
FinishReservation(t) ==
    /\ pc[t] = "install"
    /\ lease' = [lease EXCEPT ![home[t]] = [next |-> block[t], end |-> block[t] + BlockSize]]
    /\ inFlight' = [inFlight EXCEPT ![home[t]] = FALSE]
    /\ Wake(t, "try")
    /\ block' = [block EXCEPT ![t] = 0]
    /\ UNCHANGED << inner, home, after, tries, got >>

\* The call of the shared store fails, before or after the store has reserved
\* the block; fail_reservation.
FailReservation(t) ==
    /\ "fail" \in Faults
    /\ pc[t] \in Leading
    /\ inFlight' = [inFlight EXCEPT ![home[t]] = FALSE]
    /\ Wake(t, "error")
    /\ block' = [block EXCEPT ![t] = 0]
    /\ UNCHANGED << inner, lease, home, after, tries, got >>

\* The request's future is dropped at one of its two awaits.  A leader leaves
\* in_flight behind.
Cancel(t) ==
    /\ "cancel" \in Faults
    /\ \/ pc[t] = "waiting" /\ pc' = [pc EXCEPT ![t] = "cancelled"]
       \/ pc[t] \in Leading /\ pc' = [pc EXCEPT ![t] = "abandoned"]
    /\ block' = [block EXCEPT ![t] = 0]
    /\ UNCHANGED << inner, lease, inFlight, home, after, tries, got >>

Step(t) ==
    \/ TakeCached(t)
    \/ GiveUp(t)
    \/ StartOrJoin(t)
    \/ ReserveBlock(t)
    \/ FinishReservation(t)
    \/ FailReservation(t)

Next ==
    \E t \in Tasks :
        ReservePlain(t) \/ ReserveAfter(t) \/ DrawFromStore(t) \/ Step(t) \/ Cancel(t)

Spec == Init /\ [][Next]_vars

\* Tasks keep running and the shared store answers.
FairSpec == Spec /\ \A t \in Tasks : WF_vars(Step(t))

-----------------------------------------------------------------------------
(* Properties.                                                             *)

\* Every variable has its type, and a bounded request stays within its attempts.
TypeOK ==
    /\ inner \in Nat \ {0}
    /\ lease \in [Nodes -> [next : Nat, end : Nat]]
    /\ inFlight \in [Nodes -> BOOLEAN]
    /\ pc \in [Tasks -> States]
    /\ home \in [Tasks -> Nodes]
    /\ after \in [Tasks -> Nat]
    /\ tries \in [Tasks -> 0 .. MaxAttempts]
    /\ block \in [Tasks -> Nat]
    /\ got \in [Tasks -> Nat]

\* A delivery serial is handed out once, across nodes, leases and commits: the
\* version store refuses a second record with the same delivery_serial.
SerialsUnique ==
    \A t, u \in Tasks : got[t] # 0 /\ got[t] = got[u] => t = u

\* A request for a serial after a given one gets such a serial, although the
\* node's lease may be older than what other nodes or commits have drawn.
AfterRespected == \A t \in Tasks : got[t] # 0 => got[t] > after[t]

\* A node has at most one refill under way.
SingleFlight ==
    \A t, u \in Tasks :
        /\ pc[t] \in Leading
        /\ pc[u] \in Leading
        /\ home[t] = home[u]
        => t = u

\* The serials a node's leases hand out only grow, although refills overlap
\* with requests and a refill replaces the lease unconditionally.
NodeOrdered ==
    [][\A t, u \in Tasks :
          /\ pc[t] = "try" /\ pc'[t] = "done"
          /\ pc[u] = "done" /\ home[u] = home[t]
          => got[u] < got'[t]]_vars

\* Every request is answered, gives up or is cancelled, unless a leader of its
\* node was dropped during the refill.
EveryRequestAnswered ==
    \A t \in Tasks :
        pc[t] = "try" ~> \/ pc[t] \in {"done", "error", "cancelled", "abandoned"}
                         \/ \E u \in Tasks : home[u] = home[t] /\ pc[u] = "abandoned"

\* No reserved serial is lost: each one is handed out, in a lease, or about to
\* be installed.
Gapless ==
    \A s \in 1 .. (inner - 1) :
        \/ \E t \in Tasks : got[t] = s
        \/ \E n \in Nodes : lease[n].next <= s /\ s < lease[n].end
        \/ \E t \in Tasks :
              pc[t] = "install" /\ block[t] <= s /\ s < block[t] + BlockSize
=============================================================================
