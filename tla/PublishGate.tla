----------------------------- MODULE PublishGate -----------------------------
(***************************************************************************)
(* The per-channel publish gate of one node: ChannelPublishGate, its       *)
(* waiter and permit guards, and acquire_channel_publish_permit            *)
(* (crates/sockudo-adapter/src/handler/mod.rs).                            *)
(*                                                                         *)
(* Every publish to a channel takes the channel's gate from a shared map,  *)
(* waits for its one semaphore permit, publishes, and on drop removes the  *)
(* map's entry if it was the last user.  The steps below are the atomic    *)
(* operations of that code: one per map access (DashMap holds the shard's  *)
(* lock), per atomic counter update, per semaphore operation and per drop  *)
(* of an Arc, in program order, with other tasks in between.               *)
(***************************************************************************)
EXTENDS Integers, FiniteSets

CONSTANTS
    Tasks,          \* publishers of the channel
    Gates,          \* allocations of ChannelPublishGate
    NoGate,         \* the channel has no entry in publish_order_gates
    MaxWaiters      \* MAX_CHANNEL_PUBLISH_WAITERS

ASSUME TasksAssumption == IsFiniteSet(Tasks)
ASSUME NoGateAssumption == NoGate \notin Gates
ASSUME MaxWaitersAssumption == MaxWaiters \in Nat \ {0}

VARIABLES
    map,        \* the gate publish_order_gates holds for the channel
    pc,         \* where each task is
    gate,       \* the gate whose Arc a task holds
    waiters,    \* ChannelPublishGate.waiters
    permits     \* semaphore.available_permits()

vars == << map, pc, gate, waiters, permits >>

States ==
    {"idle",        \* not publishing
     "cloned",      \* holds a clone of the gate, not counted yet
     "rejecting",   \* counted, found the waiting line full
     "waiting",     \* counted, awaiting the semaphore
     "acquired",    \* has the permit, the waiter guard still lives
     "uncounted",   \* the waiter guard has decremented, its Arc still lives
     "publishing",  \* inside the broadcast
     "released",    \* the permit is back, the entry not yet looked at
     "cancelled",   \* a dropped waiter has decremented, its Arcs still live
     "leaving"}     \* only the last Arc is left to drop

\* Tasks inside the section the permit protects.
InSection == {"acquired", "uncounted", "publishing"}

\* Tasks counted in `waiters`.
Counted == {"rejecting", "waiting", "acquired"}

\* Tasks that hold a second Arc, the one inside ChannelPublishWaiter.
WithWaiterGuard == {"waiting", "acquired", "uncounted", "cancelled"}

Init ==
    /\ map = NoGate
    /\ pc = [t \in Tasks |-> "idle"]
    /\ gate = [t \in Tasks |-> NoGate]
    /\ waiters = [g \in Gates |-> 0]
    /\ permits = [g \in Gates |-> 1]

\* The Arcs that point to g: the map's own, each task's, each waiter guard's.
Handles(g) ==
    (IF map = g THEN {<< "map", "map" >>} ELSE {})
    \cup ({t \in Tasks : gate[t] = g} \X {"gate"})
    \cup ({t \in Tasks : gate[t] = g /\ pc[t] \in WithWaiterGuard} \X {"waiter"})

StrongCount(g) == Cardinality(Handles(g))

\* Memory no Arc points to may be allocated again.
Unreferenced(g) == g # map /\ \A t \in Tasks : gate[t] # g

GoTo(t, from, to) == pc[t] = from /\ pc' = [pc EXCEPT ![t] = to]

-----------------------------------------------------------------------------
(* acquire_channel_publish_permit.                                         *)

\* `entry(key).or_insert_with(new).clone()`, under the shard lock.
CloneGate(t) ==
    /\ GoTo(t, "idle", "cloned")
    /\ \/ /\ map # NoGate
          /\ gate' = [gate EXCEPT ![t] = map]
          /\ UNCHANGED << map, waiters, permits >>
       \/ /\ map = NoGate
          /\ \E g \in Gates :
                /\ Unreferenced(g)
                /\ map' = g
                /\ gate' = [gate EXCEPT ![t] = g]
                /\ waiters' = [waiters EXCEPT ![g] = 0]
                /\ permits' = [permits EXCEPT ![g] = 1]

\* A mutant of LineFull: the limit is compared after the increment's result.
LineFullOffByOne(t) == waiters[gate[t]] > MaxWaiters

LineFull(t) == waiters[gate[t]] >= MaxWaiters

\* fetch_add, then the comparison with the value it returned.
CountWaiter(t) ==
    /\ GoTo(t, "cloned", IF LineFull(t) THEN "rejecting" ELSE "waiting")
    /\ waiters' = [waiters EXCEPT ![gate[t]] = @ + 1]
    /\ UNCHANGED << map, gate, permits >>

\* Error::OverCapacity
RejectPublish(t) ==
    /\ GoTo(t, "rejecting", "leaving")
    /\ waiters' = [waiters EXCEPT ![gate[t]] = @ - 1]
    /\ UNCHANGED << map, gate, permits >>

AcquirePermit(t) ==
    /\ GoTo(t, "waiting", "acquired")
    /\ permits[gate[t]] = 1
    /\ permits' = [permits EXCEPT ![gate[t]] = 0]
    /\ UNCHANGED << map, gate, waiters >>

\* drop(waiter): Drop::drop decrements, then the guard's Arc goes.
DropWaiter(t) ==
    /\ GoTo(t, "acquired", "uncounted")
    /\ waiters' = [waiters EXCEPT ![gate[t]] = @ - 1]
    /\ UNCHANGED << map, gate, permits >>

DropWaiterArc(t) ==
    /\ GoTo(t, "uncounted", "publishing")
    /\ UNCHANGED << map, gate, waiters, permits >>

\* A mutant of CancelWaiting: the permit it never had is returned.
CancelReturnsPermit(t) ==
    /\ GoTo(t, "waiting", "cancelled")
    /\ waiters' = [waiters EXCEPT ![gate[t]] = @ - 1]
    /\ permits' = [permits EXCEPT ![gate[t]] = @ + 1]
    /\ UNCHANGED << map, gate >>

\* The publish future is dropped while it awaits the semaphore.
CancelWaiting(t) ==
    /\ GoTo(t, "waiting", "cancelled")
    /\ waiters' = [waiters EXCEPT ![gate[t]] = @ - 1]
    /\ UNCHANGED << map, gate, permits >>

DropCancelledArc(t) ==
    /\ GoTo(t, "cancelled", "leaving")
    /\ UNCHANGED << map, gate, waiters, permits >>

-----------------------------------------------------------------------------
(* Drop for ChannelPublishPermit.                                          *)

\* A mutant of ReleasePermit: the permit is forgotten instead of dropped.
ForgetPermit(t) ==
    /\ GoTo(t, "publishing", "released")
    /\ UNCHANGED << map, gate, waiters, permits >>

\* self.permit.take(), at the end of the publish or when it is cancelled.
ReleasePermit(t) ==
    /\ GoTo(t, "publishing", "released")
    /\ permits' = [permits EXCEPT ![gate[t]] = 1]
    /\ UNCHANGED << map, gate, waiters >>

\* A mutant of LastUser: the reference count is not consulted.
LastUserUncounted(t) ==
    /\ map = gate[t]
    /\ waiters[gate[t]] = 0
    /\ permits[gate[t]] = 1

\* The predicate of remove_if.
LastUser(t) ==
    /\ map = gate[t]
    /\ StrongCount(gate[t]) = 2
    /\ waiters[gate[t]] = 0
    /\ permits[gate[t]] = 1

RemoveIfLast(t) ==
    /\ GoTo(t, "released", "leaving")
    /\ map' = IF LastUser(t) THEN NoGate ELSE map
    /\ UNCHANGED << gate, waiters, permits >>

\* The task's own Arc goes last.
DropGateArc(t) ==
    /\ GoTo(t, "leaving", "idle")
    /\ gate' = [gate EXCEPT ![t] = NoGate]
    /\ UNCHANGED << map, waiters, permits >>

Step(t) ==
    \/ CloneGate(t)
    \/ CountWaiter(t)
    \/ RejectPublish(t)
    \/ AcquirePermit(t)
    \/ DropWaiter(t)
    \/ DropWaiterArc(t)
    \/ CancelWaiting(t)
    \/ DropCancelledArc(t)
    \/ ReleasePermit(t)
    \/ RemoveIfLast(t)
    \/ DropGateArc(t)

Next == \E t \in Tasks : Step(t)

\* Running code is not descheduled forever, a broadcast returns, and tokio's
\* semaphore serves its queue in order.  Starting and cancelling a publish are
\* up to the clients.
Fairness ==
    \A t \in Tasks :
        /\ WF_vars(CountWaiter(t))
        /\ WF_vars(RejectPublish(t))
        /\ SF_vars(AcquirePermit(t))
        /\ WF_vars(DropWaiter(t))
        /\ WF_vars(DropWaiterArc(t))
        /\ WF_vars(DropCancelledArc(t))
        /\ WF_vars(ReleasePermit(t))
        /\ WF_vars(RemoveIfLast(t))
        /\ WF_vars(DropGateArc(t))

Spec == Init /\ [][Next]_vars

FairSpec == Spec /\ Fairness

-----------------------------------------------------------------------------
(* Properties.                                                             *)

\* Every variable has its type.
TypeOK ==
    /\ map \in Gates \cup {NoGate}
    /\ pc \in [Tasks -> States]
    /\ gate \in [Tasks -> Gates \cup {NoGate}]
    /\ waiters \in [Gates -> Int]
    /\ permits \in [Gates -> {0, 1}]

\* The publish order of a channel is total on a node: no two broadcasts of one
\* channel run at once, although gates come and go with the map's entry.
OnePublisher ==
    \A t, u \in Tasks :
        pc[t] \in InSection /\ pc[u] \in InSection => t = u

\* A task that can still wait for, or hold, a permit uses the gate the map
\* hands to the next publisher: the entry is never removed under it.
GateShared ==
    \A t \in Tasks :
        pc[t] \notin {"idle", "leaving"} => map # NoGate /\ gate[t] = map

\* The waiter counter is exact, so it reaches zero when the line is empty and
\* never admits more than MaxWaiters waiting publishers.
WaitersExact ==
    \A g \in Gates :
        map = g =>
            /\ waiters[g] = Cardinality({t \in Tasks : pc[t] \in Counted})
            /\ Cardinality({t \in Tasks : pc[t] \in {"waiting", "acquired"}}) <= MaxWaiters

\* Every publisher that reaches the gate is served or refused, or gives up.
EveryPublishAnswered ==
    \A t \in Tasks :
        pc[t] = "cloned" ~> pc[t] \in {"publishing", "leaving"}
=============================================================================
