---------------------- MODULE LeasedVersionStoreProofs ----------------------
(***************************************************************************)
(* Delivery serials are handed out once, for every number of nodes and     *)
(* requests, every block size and every bound on the attempts.             *)
(*                                                                         *)
(* A serial below next_delivery_serial of the shared store has one owner:  *)
(* a request it was handed to, a lease, or a leader that has not installed *)
(* its block yet.  The invariant says that these regions are disjoint.     *)
(***************************************************************************)
EXTENDS LeasedVersionStore, TLAPS

\* What has been reserved lies below the shared store's next serial.
Below ==
    /\ \A n \in Nodes : lease[n].end <= inner
    /\ \A t \in Tasks : got[t] < inner
    /\ \A t \in Tasks : pc[t] = "install" => block[t] + BlockSize <= inner

\* No lease and no pending block holds a serial that was handed out.
GotApart ==
    /\ \A t \in Tasks, n \in Nodes :
          got[t] # 0 => got[t] < lease[n].next \/ lease[n].end <= got[t]
    /\ \A t, u \in Tasks :
          got[t] # 0 /\ pc[u] = "install"
          => got[t] < block[u] \/ block[u] + BlockSize <= got[t]

\* Leases and pending blocks do not overlap.
RangesApart ==
    /\ \A m, n \in Nodes :
          m # n => lease[m].end <= lease[n].next \/ lease[n].end <= lease[m].next
    /\ \A n \in Nodes, t \in Tasks :
          pc[t] = "install"
          => lease[n].end <= block[t] \/ block[t] + BlockSize <= lease[n].next
    /\ \A t, u \in Tasks :
          pc[t] = "install" /\ pc[u] = "install" /\ t # u
          => block[t] + BlockSize <= block[u] \/ block[u] + BlockSize <= block[t]

\* A serial is set only when the request has ended, and a bound only when it
\* has begun.
Lifecycle ==
    \A t \in Tasks :
        /\ got[t] # 0 => pc[t] \in {"done", "committed"}
        /\ pc[t] = "idle" => after[t] = 0

\* The entry of in_flight stands for its leader.
LeaderMarked == \A t \in Tasks : pc[t] \in Leading => inFlight[home[t]]

\* On one node, what was handed out, the lease and the pending block follow
\* one another.
NodePast ==
    /\ \A t \in Tasks :
          pc[t] = "done" /\ lease[home[t]].end # 0 => got[t] < lease[home[t]].next
    /\ \A t, u \in Tasks :
          pc[t] = "done" /\ pc[u] = "install" /\ home[t] = home[u]
          => got[t] < block[u]
    /\ \A t \in Tasks : pc[t] = "install" => lease[home[t]].end <= block[t]

Flight == LeaderMarked /\ SingleFlight

IInv ==
    /\ TypeOK
    /\ Below
    /\ GotApart
    /\ RangesApart
    /\ SerialsUnique
    /\ Lifecycle
    /\ AfterRespected
    /\ Flight
    /\ NodePast

-----------------------------------------------------------------------------
(* Lemmas.                                                                 *)

\* What a look at the lease may take: a positive serial, not before the
\* lease's next one, and after the one asked for.
LEMMA NextAfterBounds ==
    ASSUME NEW l \in [next : Nat, end : Nat], NEW a \in Nat
    PROVE  /\ NextAfter(l, a) \in Nat \ {0}
           /\ NextAfter(l, a) >= l.next
           /\ NextAfter(l, a) > a
  BY DEF NextAfter

\* Taking a serial leaves nothing or the rest of the lease.
LEMMA AdvanceRest ==
    ASSUME NEW l \in [next : Nat, end : Nat], NEW s \in Nat, s < l.end
    PROVE  /\ Advance(l, s) \in [next : Nat, end : Nat]
           /\ \/ Advance(l, s).next = 0 /\ Advance(l, s).end = 0
              \/ Advance(l, s).next = s + 1 /\ Advance(l, s).end = l.end
  BY DEF Advance, NoLease

\* The refill ends: its waiters look at the lease again and nobody else moves.
LEMMA WakeMoves ==
    ASSUME TypeOK, NEW t \in Tasks, NEW next \in {"try", "error"}, Wake(t, next)
    PROVE  /\ pc' \in [Tasks -> States]
           /\ pc'[t] = next
           /\ \A u \in Tasks :
                 u # t => pc'[u] = pc[u] \/ (pc[u] = "waiting" /\ pc'[u] = "try")
  BY DEF TypeOK, Wake, States

\* A step that hands out and installs nothing keeps the invariant when it keeps
\* types and the marking of leaders.
LEMMA NothingMoves ==
    ASSUME IInv, TypeOK', Flight',
           UNCHANGED << inner, lease, home, got >>,
           \A u \in Tasks : pc'[u] = "install" => pc[u] = "install" /\ block'[u] = block[u],
           \A u \in Tasks : got[u] # 0 => pc'[u] = pc[u] /\ after'[u] = after[u],
           \A u \in Tasks : pc'[u] = "done" => pc[u] = "done",
           \A u \in Tasks : pc'[u] = "idle" => pc[u] = "idle" /\ after'[u] = after[u]
    PROVE  IInv'
  <1> USE DEF IInv, TypeOK
  <1>1. Below'
    BY DEF Below
  <1>2. GotApart'
    BY DEF GotApart
  <1>3. RangesApart'
    BY DEF RangesApart
  <1>4. SerialsUnique' /\ Lifecycle' /\ AfterRespected'
    BY DEF SerialsUnique, Lifecycle, AfterRespected
  <1>5. NodePast'
    BY DEF NodePast
  <1> QED
    BY <1>1, <1>2, <1>3, <1>4, <1>5

-----------------------------------------------------------------------------
(* The induction.                                                          *)

\* The store starts empty, with no lease and no request.
LEMMA InitIInv == Init => IInv
  <1> SUFFICES ASSUME Init PROVE IInv
    OBVIOUS
  <1> USE BlockSizeAssumption, MaxAttemptsAssumption DEF Init, NoLease
  <1>1. TypeOK
    BY DEF TypeOK, States
  <1>2. Below /\ GotApart /\ RangesApart /\ NodePast
    BY DEF Below, GotApart, RangesApart, NodePast
  <1>3. SerialsUnique /\ Lifecycle /\ AfterRespected
    BY DEF SerialsUnique, Lifecycle, AfterRespected
  <1>4. Flight
    BY DEF Flight, LeaderMarked, SingleFlight, Leading
  <1> QED
    BY <1>1, <1>2, <1>3, <1>4 DEF IInv

\* A request that begins, joins, leads, gives up or is dropped hands out nothing.
LEMMA MoveKeeps ==
    ASSUME IInv, NEW t \in Tasks,
           \/ ReservePlain(t) \/ ReserveAfter(t) \/ GiveUp(t)
           \/ StartOrJoin(t) \/ Cancel(t)
    PROVE  IInv'
  <1> USE DEF IInv
  <1>t. TypeOK
    OBVIOUS
  <1>1. CASE ReservePlain(t)
    <2>1. TypeOK'
      BY <1>1 DEF ReservePlain, TypeOK, States
    <2>2. Flight'
      BY <1>1, <1>t DEF ReservePlain, TypeOK, Flight, LeaderMarked, SingleFlight, Leading
    <2> QED
      BY <1>1, <1>t, <2>1, <2>2, NothingMoves DEF ReservePlain, TypeOK, Lifecycle
  <1>2. CASE ReserveAfter(t)
    <2>1. TypeOK'
      BY <1>2 DEF ReserveAfter, TypeOK, States
    <2>2. Flight'
      BY <1>2, <1>t DEF ReserveAfter, TypeOK, Flight, LeaderMarked, SingleFlight, Leading
    <2>3. \A u \in Tasks : got[u] # 0 => u # t
      BY <1>2 DEF ReserveAfter, Lifecycle
    <2>4. \A u \in Tasks : u # t => after'[u] = after[u]
      BY <1>2, <1>t DEF ReserveAfter, TypeOK
    <2> QED
      BY <1>2, <1>t, <2>1, <2>2, <2>3, <2>4, NothingMoves DEF ReserveAfter, TypeOK
  <1>3. CASE GiveUp(t)
    <2>1. TypeOK'
      BY <1>3 DEF GiveUp, TypeOK, States
    <2>2. Flight'
      BY <1>3, <1>t DEF GiveUp, TypeOK, Flight, LeaderMarked, SingleFlight, Leading
    <2> QED
      BY <1>3, <1>t, <2>1, <2>2, NothingMoves DEF GiveUp, TypeOK, Lifecycle
  <1>4. CASE StartOrJoin(t)
    <2>1. TypeOK'
      BY <1>4 DEF StartOrJoin, TypeOK, States
    <2>2. LeaderMarked'
      BY <1>4, <1>t DEF StartOrJoin, TypeOK, Flight, LeaderMarked, Leading
    <2>3. SingleFlight'
      BY <1>4, <1>t DEF StartOrJoin, TypeOK, Flight, LeaderMarked, SingleFlight, Leading
    <2> QED
      BY <1>4, <1>t, <2>1, <2>2, <2>3, NothingMoves DEF StartOrJoin, TypeOK, Lifecycle, Flight
  <1>5. CASE Cancel(t)
    <2>1. TypeOK'
      BY <1>5 DEF Cancel, TypeOK, States
    <2>2. Flight'
      BY <1>5, <1>t DEF Cancel, TypeOK, Flight, LeaderMarked, SingleFlight, Leading
    <2> QED
      BY <1>5, <1>t, <2>1, <2>2, NothingMoves DEF Cancel, TypeOK, Lifecycle, Leading
  <1> QED
    BY <1>1, <1>2, <1>3, <1>4, <1>5

\* fail_reservation ends the only refill of its node.
LEMMA FailKeeps ==
    ASSUME IInv, NEW t \in Tasks, FailReservation(t)
    PROVE  IInv'
  <1>t. TypeOK /\ Flight /\ Lifecycle
    BY DEF IInv
  <1>1. /\ pc' \in [Tasks -> States]
        /\ pc'[t] = "error"
        /\ \A u \in Tasks :
              u # t => pc'[u] = pc[u] \/ (pc[u] = "waiting" /\ pc'[u] = "try")
    BY <1>t, WakeMoves DEF FailReservation
  <1>2. TypeOK'
    BY <1>t, <1>1 DEF FailReservation, TypeOK
  <1>3. Flight'
    BY <1>t, <1>1 DEF FailReservation, TypeOK, Flight, LeaderMarked, SingleFlight, Leading
  <1> QED
    BY <1>t, <1>1, <1>2, <1>3, NothingMoves DEF FailReservation, TypeOK, Lifecycle, Leading

\* A commit's serial is new to every lease, block and request.
LEMMA DrawKeeps ==
    ASSUME IInv, NEW t \in Tasks, DrawFromStore(t)
    PROVE  IInv'
  <1> USE BlockSizeAssumption DEF IInv
  <1>t. TypeOK
    OBVIOUS
  <1>1. /\ got'[t] = inner
        /\ \A u \in Tasks : u # t => got'[u] = got[u] /\ pc'[u] = pc[u]
        /\ pc'[t] = "committed" /\ pc[t] = "idle"
        /\ inner' = inner + 1
        /\ UNCHANGED << lease, inFlight, home, after, tries, block >>
    BY <1>t DEF DrawFromStore, TypeOK
  <1>2. TypeOK'
    BY <1>t DEF DrawFromStore, TypeOK, States
  <1>3. Below'
    BY <1>t, <1>1, <1>2 DEF TypeOK, Below
  <1>4. GotApart'
    BY <1>t, <1>1 DEF TypeOK, Below, GotApart
  <1>5. RangesApart'
    BY <1>t, <1>1 DEF TypeOK, RangesApart
  <1>6. SerialsUnique'
    BY <1>t, <1>1 DEF TypeOK, Below, SerialsUnique
  <1>7. Lifecycle'
    BY <1>t, <1>1 DEF TypeOK, Lifecycle
  <1>8. AfterRespected'
    BY <1>t, <1>1 DEF TypeOK, AfterRespected, Lifecycle
  <1>9. Flight'
    BY <1>t, <1>1 DEF TypeOK, Flight, LeaderMarked, SingleFlight, Leading
  <1>10. NodePast'
    BY <1>t, <1>1 DEF TypeOK, NodePast
  <1> QED
    BY <1>2, <1>3, <1>4, <1>5, <1>6, <1>7, <1>8, <1>9, <1>10

\* A block starts at the store's next serial: nothing owns a part of it.
LEMMA ReserveBlockKeeps ==
    ASSUME IInv, NEW t \in Tasks, ReserveBlock(t)
    PROVE  IInv'
  <1> USE BlockSizeAssumption DEF IInv
  <1>t. TypeOK
    OBVIOUS
  <1>1. /\ block'[t] = inner
        /\ \A u \in Tasks : u # t => block'[u] = block[u] /\ pc'[u] = pc[u]
        /\ pc'[t] = "install" /\ pc[t] = "lead"
        /\ inner' = inner + BlockSize
        /\ UNCHANGED << lease, inFlight, home, after, tries, got >>
    BY <1>t DEF ReserveBlock, TypeOK
  <1>2. TypeOK'
    BY <1>t DEF ReserveBlock, TypeOK, States
  <1>3. Below'
    BY <1>t, <1>1, <1>2 DEF TypeOK, Below
  <1>4. GotApart'
    BY <1>t, <1>1 DEF TypeOK, Below, GotApart
  <1>5. RangesApart'
    BY <1>t, <1>1 DEF TypeOK, Below, RangesApart
  <1>6. SerialsUnique' /\ AfterRespected'
    BY <1>1 DEF SerialsUnique, AfterRespected
  <1>7. Lifecycle'
    BY <1>t, <1>1 DEF TypeOK, Lifecycle
  <1>8. Flight'
    BY <1>t, <1>1 DEF TypeOK, Flight, LeaderMarked, SingleFlight, Leading
  <1>9. NodePast'
    BY <1>t, <1>1 DEF TypeOK, Below, NodePast
  <1> QED
    BY <1>2, <1>3, <1>4, <1>5, <1>6, <1>7, <1>8, <1>9

\* finish_reservation: the block becomes the lease, and the only refill of its
\* node ends.
LEMMA FinishKeeps ==
    ASSUME IInv, NEW t \in Tasks, FinishReservation(t)
    PROVE  IInv'
  <1> USE BlockSizeAssumption DEF IInv
  <1> DEFINE n == home[t]
  <1>t. TypeOK
    OBVIOUS
  <1>1. /\ pc' \in [Tasks -> States]
        /\ pc'[t] = "try"
        /\ \A u \in Tasks :
              u # t => pc'[u] = pc[u] \/ (pc[u] = "waiting" /\ pc'[u] = "try")
    BY <1>t, WakeMoves DEF FinishReservation
  <1>2. n \in Nodes /\ pc[t] = "install"
    BY <1>t DEF FinishReservation, TypeOK
  <1>3. /\ lease'[n].next = block[t] /\ lease'[n].end = block[t] + BlockSize
        /\ \A m \in Nodes : m # n => lease'[m] = lease[m]
        /\ \A u \in Tasks : u # t => block'[u] = block[u]
        /\ UNCHANGED << inner, home, after, tries, got >>
    BY <1>t, <1>2 DEF FinishReservation, TypeOK
  <1>4. TypeOK'
    BY <1>t, <1>1, <1>2 DEF FinishReservation, TypeOK
  <1>5. \A u \in Tasks : pc'[u] = "install" => u # t /\ pc[u] = "install"
    BY <1>1
  <1>6. \A u \in Tasks : pc[u] = "install" /\ home[u] = n => u = t
    BY <1>2 DEF Flight, SingleFlight, Leading
  <1> HIDE DEF n
  <1>7. Below'
    BY <1>t, <1>2, <1>3, <1>4, <1>5 DEF TypeOK, Below
  <1>8. GotApart'
    <2>1. ASSUME NEW u \in Tasks, NEW m \in Nodes, got'[u] # 0
          PROVE  got'[u] < lease'[m].next \/ lease'[m].end <= got'[u]
      <3>1. CASE m = n
        BY <1>t, <1>2, <1>3, <2>1, <3>1 DEF TypeOK, GotApart
      <3>2. CASE m # n
        BY <1>t, <1>3, <2>1, <3>2 DEF TypeOK, GotApart
      <3> QED
        BY <3>1, <3>2
    <2>2. ASSUME NEW u \in Tasks, NEW v \in Tasks, got'[u] # 0, pc'[v] = "install"
          PROVE  got'[u] < block'[v] \/ block'[v] + BlockSize <= got'[u]
      BY <1>t, <1>3, <1>5, <2>2 DEF TypeOK, GotApart
    <2> QED
      BY <2>1, <2>2 DEF GotApart
  <1>9. RangesApart'
    <2>1. ASSUME NEW m \in Nodes, m # n
          PROVE  lease'[m].end <= lease'[n].next \/ lease'[n].end <= lease'[m].next
      BY <1>t, <1>2, <1>3, <2>1 DEF TypeOK, RangesApart
    <2>2. ASSUME NEW m \in Nodes, NEW u \in Tasks, pc'[u] = "install"
          PROVE  lease'[m].end <= block'[u] \/ block'[u] + BlockSize <= lease'[m].next
      <3>1. CASE m = n
        BY <1>t, <1>2, <1>3, <1>5, <2>2, <3>1 DEF TypeOK, RangesApart
      <3>2. CASE m # n
        BY <1>t, <1>3, <1>5, <2>2, <3>2 DEF TypeOK, RangesApart
      <3> QED
        BY <3>1, <3>2
    <2>3. \A m, k \in Nodes :
             m # k => lease'[m].end <= lease'[k].next \/ lease'[k].end <= lease'[m].next
      <3> SUFFICES ASSUME NEW m \in Nodes, NEW k \in Nodes, m # k
                   PROVE  lease'[m].end <= lease'[k].next \/ lease'[k].end <= lease'[m].next
        OBVIOUS
      <3>1. CASE m = n
        BY <2>1, <3>1
      <3>2. CASE k = n
        BY <2>1, <3>2
      <3>3. CASE m # n /\ k # n
        BY <1>t, <1>3, <3>3 DEF TypeOK, RangesApart
      <3> QED
        BY <3>1, <3>2, <3>3
    <2>4. \A u, v \in Tasks :
             pc'[u] = "install" /\ pc'[v] = "install" /\ u # v
             => block'[u] + BlockSize <= block'[v] \/ block'[v] + BlockSize <= block'[u]
      BY <1>3, <1>5 DEF RangesApart
    <2> QED
      BY <2>2, <2>3, <2>4 DEF RangesApart
  <1>10. SerialsUnique' /\ AfterRespected'
    BY <1>3 DEF SerialsUnique, AfterRespected
  <1>11. Lifecycle'
    BY <1>1, <1>2, <1>3 DEF Lifecycle
  <1>12. Flight'
    BY <1>t, <1>1, <1>2 DEF n, FinishReservation, TypeOK, Flight, LeaderMarked, SingleFlight, Leading
  <1>13. NodePast'
    <2>1. \A u \in Tasks : pc'[u] = "done" => pc[u] = "done"
      BY <1>1
    <2>2. home[t] = n
      BY DEF n
    <2> QED
      BY <1>t, <1>2, <1>3, <1>4, <1>5, <1>6, <2>1, <2>2 DEF TypeOK, NodePast
  <1> QED
    BY <1>4, <1>7, <1>8, <1>9, <1>10, <1>11, <1>12, <1>13

\* Leases that lose a prefix, or everything, stay apart.
LEMMA ShrinkKeepsApart ==
    ASSUME TypeOK, TypeOK', RangesApart,
           \A m \in Nodes :
              \/ lease'[m].end = 0
              \/ lease'[m].end = lease[m].end /\ lease[m].next <= lease'[m].next,
           \A u \in Tasks : pc'[u] = "install" => pc[u] = "install" /\ block'[u] = block[u]
    PROVE  RangesApart'
  <1>t. \A m \in Nodes : /\ lease[m].next \in Nat /\ lease[m].end \in Nat
                         /\ lease'[m].next \in Nat /\ lease'[m].end \in Nat
    BY DEF TypeOK
  <1>b. \A u \in Tasks : block'[u] \in Nat
    BY DEF TypeOK
  <1>1. ASSUME NEW m \in Nodes, NEW k \in Nodes, m # k
        PROVE  lease'[m].end <= lease'[k].next \/ lease'[k].end <= lease'[m].next
    <2>1. lease[m].end <= lease[k].next \/ lease[k].end <= lease[m].next
      BY <1>1 DEF RangesApart
    <2> QED
      BY <1>t, <2>1
  <1>2. ASSUME NEW m \in Nodes, NEW u \in Tasks, pc'[u] = "install"
        PROVE  lease'[m].end <= block'[u] \/ block'[u] + BlockSize <= lease'[m].next
    <2>1. lease[m].end <= block'[u] \/ block'[u] + BlockSize <= lease[m].next
      BY <1>2 DEF RangesApart
    <2> QED
      BY <1>t, <1>b, <2>1, BlockSizeAssumption
  <1>3. \A u, v \in Tasks :
           pc'[u] = "install" /\ pc'[v] = "install" /\ u # v
           => block'[u] + BlockSize <= block'[v] \/ block'[v] + BlockSize <= block'[u]
    BY DEF RangesApart
  <1> QED
    BY <1>1, <1>2, <1>3 DEF RangesApart

\* take_cached and take_cached_after: the serial leaves the lease for the
\* request, or the lease is dropped.
LEMMA TakeKeeps ==
    ASSUME IInv, NEW t \in Tasks, TakeCached(t)
    PROVE  IInv'
  <1> USE BlockSizeAssumption, MaxAttemptsAssumption DEF IInv
  <1> DEFINE n == home[t]
             s == NextAfter(lease[n], after[t])
             l == Advance(lease[n], s)
  <1>t. TypeOK
    OBVIOUS
  <1>1. /\ n \in Nodes /\ home[t] = n
        /\ lease[n] \in [next : Nat, end : Nat]
        /\ after[t] \in Nat
    BY <1>t DEF TypeOK
  <1>2. s \in Nat \ {0} /\ s >= lease[n].next /\ s > after[t]
    BY <1>1, NextAfterBounds
  <1>3. tries' \in [Tasks -> 0 .. MaxAttempts]
    BY <1>t DEF TakeCached, Attempt, TypeOK
  <1>4. pc[t] = "try" /\ UNCHANGED << inner, inFlight, home, after, block >>
    BY DEF TakeCached
  <1>5. CASE s < lease[n].end
    <2>1. /\ got' = [got EXCEPT ![t] = s]
          /\ lease' = [lease EXCEPT ![n] = l]
          /\ pc' = [pc EXCEPT ![t] = "done"]
      BY <1>1, <1>2, <1>5 DEF TakeCached
    <2>2. /\ l \in [next : Nat, end : Nat]
          /\ \/ l.next = 0 /\ l.end = 0
             \/ l.next = s + 1 /\ l.end = lease[n].end
      BY <1>1, <1>2, <1>5, AdvanceRest
    <2> HIDE DEF n, s, l
    <2>3. /\ got'[t] = s /\ pc'[t] = "done" /\ lease'[n] = l
          /\ \A u \in Tasks : u # t => got'[u] = got[u] /\ pc'[u] = pc[u]
          /\ \A m \in Nodes : m # n => lease'[m] = lease[m]
      BY <1>t, <1>1, <2>1 DEF TypeOK
    <2>4. TypeOK'
      BY <1>t, <1>1, <1>2, <1>3, <1>4, <2>1, <2>2 DEF TypeOK, States
    <2>5. Below'
      BY <1>t, <1>1, <1>2, <1>4, <1>5, <2>2, <2>3 DEF TypeOK, Below
    <2>6. GotApart'
      <3>1. ASSUME NEW u \in Tasks, NEW m \in Nodes, got'[u] # 0
            PROVE  got'[u] < lease'[m].next \/ lease'[m].end <= got'[u]
        <4>1. CASE m = n
          <5>1. got'[u] < s + 1 \/ lease[n].end <= got'[u]
            <6>1. CASE u = t
              BY <1>2, <2>3, <6>1
            <6>2. CASE u # t
              <7>1. got[u] \in Nat /\ got[u] # 0 /\ got'[u] = got[u]
                BY <1>t, <2>3, <3>1, <6>2 DEF TypeOK
              <7>2. got[u] < lease[n].next \/ lease[n].end <= got[u]
                BY <1>1, <7>1 DEF GotApart
              <7> QED
                BY <1>1, <1>2, <7>1, <7>2
            <6> QED
              BY <6>1, <6>2
          <5>2. got'[u] \in Nat /\ lease'[m] = l
            BY <2>3, <2>4, <4>1 DEF TypeOK
          <5> QED
            BY <2>2, <5>1, <5>2
        <4>2. CASE m # n
          BY <1>t, <1>1, <1>2, <1>5, <2>3, <3>1, <4>2 DEF TypeOK, GotApart, RangesApart
        <4> QED
          BY <4>1, <4>2
      <3>2. ASSUME NEW u \in Tasks, NEW v \in Tasks, got'[u] # 0, pc'[v] = "install"
            PROVE  got'[u] < block'[v] \/ block'[v] + BlockSize <= got'[u]
        BY <1>t, <1>1, <1>2, <1>4, <1>5, <2>3, <3>2 DEF TypeOK, GotApart, RangesApart
      <3> QED
        BY <3>1, <3>2 DEF GotApart
    <2>7. RangesApart'
      <3>1. \A m \in Nodes :
              \/ lease'[m].end = 0
              \/ lease'[m].end = lease[m].end /\ lease[m].next <= lease'[m].next
        BY <1>t, <1>1, <1>2, <2>2, <2>3 DEF TypeOK
      <3> QED
        BY <1>t, <1>4, <2>3, <2>4, <3>1, ShrinkKeepsApart
    <2>8. SerialsUnique'
      BY <1>t, <1>1, <1>2, <1>5, <2>3 DEF TypeOK, SerialsUnique, GotApart
    <2>9. Lifecycle'
      BY <1>4, <2>3 DEF Lifecycle
    <2>10. AfterRespected'
      BY <1>t, <1>2, <1>4, <2>3 DEF TypeOK, AfterRespected
    <2>11. Flight'
      BY <1>4, <2>3 DEF Flight, LeaderMarked, SingleFlight, Leading
    <2>12. NodePast'
      <3>1. ASSUME NEW u \in Tasks, pc'[u] = "done", lease'[home[u]].end # 0
            PROVE  got'[u] < lease'[home[u]].next
        <4>1. CASE home[u] # n
          BY <1>t, <1>1, <2>3, <3>1, <4>1 DEF TypeOK, NodePast
        <4>2. CASE home[u] = n
          <5>1. lease'[home[u]].next = s + 1
            BY <2>2, <2>3, <3>1, <4>2
          <5>2. u # t => got'[u] < lease[n].next
            BY <1>1, <1>2, <1>5, <2>3, <3>1, <4>2 DEF NodePast
          <5>3. got'[u] \in Nat
            BY <2>4 DEF TypeOK
          <5> QED
            BY <1>1, <1>2, <2>3, <5>1, <5>2, <5>3
        <4> QED
          BY <4>1, <4>2
      <3>2. ASSUME NEW u \in Tasks, NEW v \in Tasks,
                   pc'[u] = "done", pc'[v] = "install", home[u] = home[v]
            PROVE  got'[u] < block[v]
        <4>1. v # t /\ pc[v] = "install" /\ block[v] \in Nat
          BY <1>t, <2>3, <3>2 DEF TypeOK
        <4>2. CASE u = t
          BY <1>1, <1>2, <1>5, <2>3, <3>2, <4>1, <4>2 DEF NodePast
        <4>3. CASE u # t
          BY <2>3, <3>2, <4>1, <4>3 DEF NodePast
        <4> QED
          BY <4>2, <4>3
      <3>3. ASSUME NEW u \in Tasks, pc'[u] = "install"
            PROVE  lease'[home[u]].end <= block[u]
        <4>1. u # t /\ pc[u] = "install" /\ block[u] \in Nat /\ home[u] \in Nodes
          BY <1>t, <2>3, <3>3 DEF TypeOK
        <4>2. lease[home[u]].end <= block[u]
          BY <4>1 DEF NodePast
        <4> QED
          BY <1>1, <2>2, <2>3, <4>1, <4>2
      <3> QED
        BY <1>4, <3>1, <3>2, <3>3 DEF NodePast
    <2> QED
      BY <2>4, <2>5, <2>6, <2>7, <2>8, <2>9, <2>10, <2>11, <2>12
  <1>6. CASE s >= lease[n].end
    <2>1. /\ lease' = [lease EXCEPT ![n] = NoLease]
          /\ pc' = [pc EXCEPT ![t] = "join"]
          /\ got' = got
      BY <1>1, <1>2, <1>6 DEF TakeCached
    <2> HIDE DEF n, s, l
    <2>2. /\ pc'[t] = "join" /\ lease'[n].next = 0 /\ lease'[n].end = 0
          /\ \A u \in Tasks : u # t => pc'[u] = pc[u]
          /\ \A m \in Nodes : m # n => lease'[m] = lease[m]
      BY <1>t, <1>1, <2>1 DEF TypeOK, NoLease
    <2>3. TypeOK'
      BY <1>t, <1>3, <1>4, <2>1 DEF TypeOK, States, NoLease
    <2>4. Below'
      BY <1>t, <1>1, <1>4, <2>1, <2>2 DEF TypeOK, Below
    <2>5. GotApart'
      BY <1>t, <1>4, <2>1, <2>2 DEF TypeOK, GotApart
    <2>6. RangesApart'
      BY <1>t, <1>4, <2>2, <2>3, ShrinkKeepsApart DEF TypeOK
    <2>7. SerialsUnique' /\ Lifecycle' /\ AfterRespected'
      BY <1>4, <2>1, <2>2 DEF SerialsUnique, Lifecycle, AfterRespected
    <2>8. Flight'
      BY <1>4, <2>2 DEF Flight, LeaderMarked, SingleFlight, Leading
    <2>9. NodePast'
      BY <1>t, <1>1, <1>4, <2>1, <2>2 DEF TypeOK, NodePast
    <2> QED
      BY <2>3, <2>4, <2>5, <2>6, <2>7, <2>8, <2>9
  <1> QED
    BY <1>1, <1>2, <1>5, <1>6

\* Every step of a request keeps the invariant.
LEMMA StepIInv == IInv /\ [Next]_vars => IInv'
  <1> SUFFICES ASSUME IInv, [Next]_vars
               PROVE  IInv'
    OBVIOUS
  <1>1. CASE Next
    <2>1. PICK t \in Tasks :
             ReservePlain(t) \/ ReserveAfter(t) \/ DrawFromStore(t) \/ Step(t) \/ Cancel(t)
      BY <1>1 DEF Next
    <2> QED
      BY <2>1, MoveKeeps, FailKeeps, DrawKeeps, ReserveBlockKeeps, FinishKeeps, TakeKeeps
      DEF Step
  <1>2. CASE UNCHANGED vars
    <2>1. UNCHANGED << inner, lease, inFlight, pc, home, after, tries, block, got >>
      BY <1>2 DEF vars
    <2>2. TypeOK' /\ Flight'
      BY <2>1 DEF IInv, TypeOK, Flight, LeaderMarked, SingleFlight
    <2> QED
      BY <2>1, <2>2, NothingMoves
  <1> QED
    BY <1>1, <1>2

\* The invariant holds in every reachable state.
THEOREM Invariance == Spec => []IInv
  BY InitIInv, StepIInv, PTL DEF Spec

-----------------------------------------------------------------------------
(* Results.                                                                *)

\* Every variable keeps its type and a bounded request stays within its
\* attempts.
THEOREM TypeCorrect == Spec => []TypeOK
  <1>1. IInv => TypeOK
    BY DEF IInv
  <1> QED
    BY <1>1, Invariance, PTL

\* take_cached, the refills of all nodes and the commits never hand out a
\* delivery serial twice.
THEOREM NoSerialTwice == Spec => []SerialsUnique
  <1>1. IInv => SerialsUnique
    BY DEF IInv
  <1> QED
    BY <1>1, Invariance, PTL

\* reserve_delivery_position_after returns a serial after the one it is given.
THEOREM AfterAlwaysRespected == Spec => []AfterRespected
  <1>1. IInv => AfterRespected
    BY DEF IInv
  <1> QED
    BY <1>1, Invariance, PTL

\* in_flight admits one refill of a node at a time, whoever fails or is dropped.
THEOREM OneRefill == Spec => []SingleFlight
  <1>1. IInv => SingleFlight
    BY DEF IInv, Flight
  <1> QED
    BY <1>1, Invariance, PTL

\* The serials that take_cached hands out on one node only grow.
THEOREM NodeAlwaysOrdered == Spec => NodeOrdered
  <1>1. IInv /\ [Next]_vars
        => [\A t, u \in Tasks :
               /\ pc[t] = "try" /\ pc'[t] = "done"
               /\ pc[u] = "done" /\ home[u] = home[t]
               => got[u] < got'[t]]_vars
    <2> SUFFICES ASSUME IInv, Next, NEW t \in Tasks, NEW u \in Tasks,
                        pc[t] = "try", pc'[t] = "done",
                        pc[u] = "done", home[u] = home[t]
                 PROVE  got[u] < got'[t]
      BY DEF vars
    <2>t. TypeOK
      BY DEF IInv
    <2>1. PICK v \in Tasks :
             ReservePlain(v) \/ ReserveAfter(v) \/ DrawFromStore(v) \/ Step(v) \/ Cancel(v)
      BY DEF Next
    <2>2. ASSUME ~ TakeCached(v) PROVE pc'[t] # "done"
      BY <2>t, <2>1, <2>2
      DEF TypeOK, ReservePlain, ReserveAfter, DrawFromStore, Cancel, Step, GiveUp,
          StartOrJoin, ReserveBlock, FinishReservation, FailReservation, Wake, Leading
    <2>3. TakeCached(v)
      BY <2>2
    <2>4. v = t
      BY <2>3, <2>t DEF TakeCached, TypeOK
    <2> DEFINE n == home[t]
               s == NextAfter(lease[n], after[t])
    <2>5. lease[n] \in [next : Nat, end : Nat] /\ after[t] \in Nat /\ got[u] \in Nat
      BY <2>t DEF TypeOK
    <2>6. s \in Nat \ {0} /\ s >= lease[n].next
      BY <2>5, NextAfterBounds
    <2>7. s < lease[n].end /\ got' = [got EXCEPT ![t] = s]
      BY <2>3, <2>4, <2>t DEF TakeCached, TypeOK
    <2>8. got'[t] = s
      BY <2>7, <2>t DEF TypeOK
    <2>9. got[u] < lease[n].next
      <3>1. lease[home[u]].end # 0
        BY <2>5, <2>6, <2>7
      <3> QED
        BY <3>1 DEF IInv, NodePast
    <2> HIDE DEF n, s
    <2> QED
      BY <2>5, <2>6, <2>8, <2>9
  <1> QED
    BY <1>1, Invariance, PTL DEF Spec, NodeOrdered
=============================================================================
