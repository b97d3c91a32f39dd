-------------------------- MODULE PublishGateProofs --------------------------
(***************************************************************************)
(* Mutual exclusion of the publish gate, for every finite set of           *)
(* publishers and every length of the waiting line.                        *)
(***************************************************************************)
EXTENDS PublishGate, FiniteSetTheorems, TLAPS

\* A gate pointer is set exactly while a publish is under way.
PointerSet ==
    \A t \in Tasks : pc[t] # "idle" => gate[t] \in Gates

\* The permit of a gate is taken while a publisher of it is in its section.
PermitTaken ==
    \A t \in Tasks : pc[t] \in InSection => permits[gate[t]] = 0

IInv == TypeOK /\ PointerSet /\ GateShared /\ PermitTaken /\ OnePublisher

-----------------------------------------------------------------------------

\* A reference count is the cardinality of a finite set.
LEMMA HandlesFinite ==
    ASSUME NEW g
    PROVE  IsFiniteSet(Handles(g))
  <1> DEFINE A == {t \in Tasks : gate[t] = g}
             B == {t \in Tasks : gate[t] = g /\ pc[t] \in WithWaiterGuard}
             M == IF map = g THEN {<< "map", "map" >>} ELSE {}
  <1>1. IsFiniteSet(A) /\ IsFiniteSet(B)
    BY TasksAssumption, FS_Subset
  <1>2. IsFiniteSet(A \X {"gate"}) /\ IsFiniteSet(B \X {"waiter"})
    BY <1>1, FS_Product, FS_Singleton
  <1>3. IsFiniteSet(M)
    BY FS_Singleton, FS_EmptySet
  <1>4. IsFiniteSet(M \cup (A \X {"gate"}))
    BY <1>2, <1>3, FS_Union
  <1>5. IsFiniteSet((M \cup (A \X {"gate"})) \cup (B \X {"waiter"}))
    BY <1>2, <1>4, FS_Union
  <1> QED
    BY <1>5 DEF Handles

\* When remove_if finds the count at two, no other task holds the gate.
LEMMA LastUserAlone ==
    ASSUME NEW t \in Tasks, NEW u \in Tasks, LastUser(t), gate[u] = gate[t]
    PROVE  u = t
  <1> DEFINE g == gate[t]
             a == << "map", "map" >>
             b == << t, "gate" >>
             c == << u, "gate" >>
  <1>1. {a, b, c} \subseteq Handles(g)
    BY DEF Handles, LastUser
  <1>2. IsFiniteSet(Handles(g))
    BY HandlesFinite
  <1>3. Cardinality({a, b, c}) <= 2 /\ IsFiniteSet({a, b, c})
    BY <1>1, <1>2, FS_Subset DEF LastUser, StrongCount
  <1> SUFFICES ASSUME u # t PROVE FALSE
    OBVIOUS
  <1>4. a # b /\ a # c /\ b # c
    OBVIOUS
  <1> HIDE DEF a, b, c
  <1>5. Cardinality({a}) = 1 /\ IsFiniteSet({a})
    BY FS_Singleton
  <1>6. Cardinality({a} \cup {b}) = 2 /\ IsFiniteSet({a} \cup {b})
    BY <1>4, <1>5, FS_AddElement
  <1>7. Cardinality(({a} \cup {b}) \cup {c}) = 3
    BY <1>4, <1>6, FS_AddElement
  <1>8. ({a} \cup {b}) \cup {c} = {a, b, c}
    OBVIOUS
  <1> QED
    BY <1>3, <1>7, <1>8

-----------------------------------------------------------------------------
(* The induction.                                                          *)

\* The gate map starts empty and every task idle.
LEMMA InitIInv == Init => IInv
  BY NoGateAssumption
  DEF Init, IInv, TypeOK, PointerSet, GateShared, PermitTaken, OnePublisher,
      States, InSection

\* A step that only moves one task between states that hold the map's gate, or
\* out of them, keeps the invariant if it does not enter the section.
LEMMA MoveOutside ==
    ASSUME IInv, NEW t \in Tasks, NEW to \in States,
           pc' = [pc EXCEPT ![t] = to],
           pc[t] # "idle",
           to # "idle",
           pc[t] # "leaving" \/ to = "leaving",
           to \in InSection => pc[t] \in InSection,
           waiters' \in [Gates -> Int],
           UNCHANGED << map, gate, permits >>
    PROVE  IInv'
  <1>1. TypeOK'
    BY DEF IInv, TypeOK
  <1>2. PointerSet'
    BY DEF IInv, TypeOK, PointerSet
  <1>3. GateShared'
    BY DEF IInv, TypeOK, GateShared
  <1>4. PermitTaken'
    BY DEF IInv, TypeOK, PermitTaken
  <1>5. OnePublisher'
    BY DEF IInv, TypeOK, OnePublisher
  <1> QED
    BY <1>1, <1>2, <1>3, <1>4, <1>5 DEF IInv

\* Every atomic step of a publisher preserves the invariant.
LEMMA StepIInv == IInv /\ [Next]_vars => IInv'
  <1> SUFFICES ASSUME IInv, [Next]_vars
               PROVE  IInv'
    OBVIOUS
  <1>1. CASE UNCHANGED vars
    BY <1>1 DEF vars, IInv, TypeOK, PointerSet, GateShared, PermitTaken, OnePublisher
  <1>2. CASE Next
    <2>1. PICK t \in Tasks : Step(t)
      BY <1>2 DEF Next
    <2>t. /\ pc \in [Tasks -> States]
          /\ gate \in [Tasks -> Gates \cup {NoGate}]
          /\ waiters \in [Gates -> Int]
          /\ permits \in [Gates -> {0, 1}]
      BY DEF IInv, TypeOK
    <2>g. pc[t] # "idle" => gate[t] \in Gates
      BY DEF IInv, PointerSet
    <2>2. CASE CloneGate(t)
      <3>1. pc[t] = "idle" /\ pc' = [pc EXCEPT ![t] = "cloned"]
        BY <2>2 DEF CloneGate, GoTo
      <3>2. CASE map # NoGate
        <4>1. gate' = [gate EXCEPT ![t] = map] /\ UNCHANGED << map, waiters, permits >>
          BY <2>2, <3>2 DEF CloneGate
        <4>2. map \in Gates
          BY <3>2 DEF IInv, TypeOK
        <4>3. TypeOK'
          BY <2>t, <3>1, <4>1, <4>2 DEF IInv, TypeOK, States
        <4>4. PointerSet'
          BY <2>t, <3>1, <4>1, <4>2 DEF IInv, PointerSet
        <4>5. GateShared'
          BY <2>t, <3>1, <3>2, <4>1 DEF IInv, GateShared
        <4>6. PermitTaken'
          BY <2>t, <3>1, <4>1 DEF IInv, PermitTaken, InSection
        <4>7. OnePublisher'
          BY <2>t, <3>1 DEF IInv, OnePublisher, InSection
        <4> QED
          BY <4>3, <4>4, <4>5, <4>6, <4>7 DEF IInv
      <3>3. CASE map = NoGate
        <4>1. PICK g \in Gates :
                /\ map' = g
                /\ gate' = [gate EXCEPT ![t] = g]
                /\ waiters' = [waiters EXCEPT ![g] = 0]
                /\ permits' = [permits EXCEPT ![g] = 1]
          BY <2>2, <3>3 DEF CloneGate
        <4>2. \A u \in Tasks : pc[u] \in {"idle", "leaving"}
          BY <3>3 DEF IInv, GateShared
        <4>3. TypeOK'
          BY <2>t, <3>1, <4>1 DEF TypeOK, States
        <4>4. PointerSet'
          BY <2>t, <3>1, <4>1 DEF IInv, PointerSet
        <4>5. GateShared'
          BY <2>t, <3>1, <4>1, <4>2, NoGateAssumption DEF GateShared
        <4>6. PermitTaken' /\ OnePublisher'
          BY <2>t, <3>1, <4>2 DEF PermitTaken, OnePublisher, InSection
        <4> QED
          BY <4>3, <4>4, <4>5, <4>6 DEF IInv
      <3> QED
        BY <3>2, <3>3
    <2>3. CASE CountWaiter(t)
      <3>1. PICK to \in {"rejecting", "waiting"} : pc' = [pc EXCEPT ![t] = to]
        BY <2>3 DEF CountWaiter, GoTo
      <3>2. pc[t] = "cloned" /\ UNCHANGED << map, gate, permits >>
        BY <2>3 DEF CountWaiter, GoTo
      <3>3. waiters' \in [Gates -> Int]
        BY <2>3, <2>t, <2>g, <3>2 DEF CountWaiter
      <3>4. to \in States /\ to \notin InSection
        BY <3>1 DEF States, InSection
      <3> QED
        BY <3>1, <3>2, <3>3, <3>4, MoveOutside
    <2>4. CASE RejectPublish(t)
      <3>1. /\ pc[t] = "rejecting"
            /\ pc' = [pc EXCEPT ![t] = "leaving"]
            /\ UNCHANGED << map, gate, permits >>
        BY <2>4 DEF RejectPublish, GoTo
      <3>2. waiters' \in [Gates -> Int]
        BY <2>4, <2>t, <2>g, <3>1 DEF RejectPublish
      <3>3. "leaving" \in States /\ "leaving" \notin InSection
        BY DEF States, InSection
      <3> QED
        BY <3>1, <3>2, <3>3, MoveOutside
    <2>5. CASE AcquirePermit(t)
      <3>1. /\ pc[t] = "waiting"
            /\ pc' = [pc EXCEPT ![t] = "acquired"]
            /\ permits[gate[t]] = 1
            /\ permits' = [permits EXCEPT ![gate[t]] = 0]
            /\ UNCHANGED << map, gate, waiters >>
        BY <2>5 DEF AcquirePermit, GoTo
      <3>2. \A u \in Tasks : pc[u] \notin InSection
        <4> SUFFICES ASSUME NEW u \in Tasks, pc[u] \in InSection PROVE FALSE
          OBVIOUS
        <4>1. gate[u] = map /\ gate[t] = map
          BY <3>1 DEF IInv, GateShared, InSection
        <4>2. permits[gate[u]] = 0
          BY DEF IInv, PermitTaken
        <4> QED
          BY <3>1, <4>1, <4>2
      <3>3. TypeOK'
        BY <2>t, <2>g, <3>1 DEF IInv, TypeOK, States
      <3>4. PointerSet'
        BY <2>t, <2>g, <3>1 DEF IInv, PointerSet
      <3>5. GateShared'
        BY <2>t, <3>1 DEF IInv, GateShared
      <3>6. PermitTaken'
        BY <2>t, <2>g, <3>1, <3>2 DEF PermitTaken
      <3>7. OnePublisher'
        BY <2>t, <3>1, <3>2 DEF OnePublisher
      <3> QED
        BY <3>3, <3>4, <3>5, <3>6, <3>7 DEF IInv
    <2>6. CASE DropWaiter(t)
      <3>1. /\ pc[t] = "acquired"
            /\ pc' = [pc EXCEPT ![t] = "uncounted"]
            /\ UNCHANGED << map, gate, permits >>
        BY <2>6 DEF DropWaiter, GoTo
      <3>2. waiters' \in [Gates -> Int]
        BY <2>6, <2>t, <2>g, <3>1 DEF DropWaiter
      <3>3. "uncounted" \in States /\ pc[t] \in InSection
        BY <3>1 DEF States, InSection
      <3> QED
        BY <3>1, <3>2, <3>3, MoveOutside
    <2>7. CASE DropWaiterArc(t)
      <3>1. /\ pc[t] = "uncounted"
            /\ pc' = [pc EXCEPT ![t] = "publishing"]
            /\ UNCHANGED << map, gate, permits, waiters >>
        BY <2>7 DEF DropWaiterArc, GoTo
      <3>2. waiters' \in [Gates -> Int]
        BY <2>t, <3>1
      <3>3. "publishing" \in States /\ pc[t] \in InSection
        BY <3>1 DEF States, InSection
      <3> QED
        BY <3>1, <3>2, <3>3, MoveOutside
    <2>8. CASE CancelWaiting(t)
      <3>1. /\ pc[t] = "waiting"
            /\ pc' = [pc EXCEPT ![t] = "cancelled"]
            /\ UNCHANGED << map, gate, permits >>
        BY <2>8 DEF CancelWaiting, GoTo
      <3>2. waiters' \in [Gates -> Int]
        BY <2>8, <2>t, <2>g, <3>1 DEF CancelWaiting
      <3>3. "cancelled" \in States /\ "cancelled" \notin InSection
        BY DEF States, InSection
      <3> QED
        BY <3>1, <3>2, <3>3, MoveOutside
    <2>9. CASE DropCancelledArc(t)
      <3>1. /\ pc[t] = "cancelled"
            /\ pc' = [pc EXCEPT ![t] = "leaving"]
            /\ UNCHANGED << map, gate, permits, waiters >>
        BY <2>9 DEF DropCancelledArc, GoTo
      <3>2. waiters' \in [Gates -> Int]
        BY <2>t, <3>1
      <3>3. "leaving" \in States /\ "leaving" \notin InSection
        BY DEF States, InSection
      <3> QED
        BY <3>1, <3>2, <3>3, MoveOutside
    <2>10. CASE ReleasePermit(t)
      <3>1. /\ pc[t] = "publishing"
            /\ pc' = [pc EXCEPT ![t] = "released"]
            /\ permits' = [permits EXCEPT ![gate[t]] = 1]
            /\ UNCHANGED << map, gate, waiters >>
        BY <2>10 DEF ReleasePermit, GoTo
      <3>2. \A u \in Tasks : pc[u] \in InSection => u = t
        BY <3>1 DEF IInv, OnePublisher, InSection
      <3>3. \A u \in Tasks : pc'[u] \notin InSection
        BY <2>t, <3>1, <3>2 DEF InSection
      <3>4. TypeOK'
        BY <2>t, <2>g, <3>1 DEF IInv, TypeOK, States
      <3>5. PointerSet'
        BY <2>t, <2>g, <3>1 DEF IInv, PointerSet
      <3>6. GateShared'
        BY <2>t, <3>1 DEF IInv, GateShared
      <3>7. PermitTaken' /\ OnePublisher'
        BY <3>3 DEF PermitTaken, OnePublisher
      <3> QED
        BY <3>4, <3>5, <3>6, <3>7 DEF IInv
    <2>11. CASE RemoveIfLast(t)
      <3>1. /\ pc[t] = "released"
            /\ pc' = [pc EXCEPT ![t] = "leaving"]
            /\ map' = IF LastUser(t) THEN NoGate ELSE map
            /\ UNCHANGED << gate, waiters, permits >>
        BY <2>11 DEF RemoveIfLast, GoTo
      <3>2. TypeOK'
        BY <2>t, <3>1 DEF IInv, TypeOK, States
      <3>3. PointerSet'
        BY <2>t, <2>g, <3>1 DEF IInv, PointerSet
      <3>4. GateShared'
        <4>1. CASE LastUser(t)
          <5>1. \A u \in Tasks : u # t => gate[u] # map
            BY <4>1, LastUserAlone DEF LastUser
          <5>2. \A u \in Tasks : u # t => pc[u] \in {"idle", "leaving"}
            BY <5>1 DEF IInv, GateShared
          <5> QED
            BY <2>t, <3>1, <5>2 DEF GateShared
        <4>2. CASE ~LastUser(t)
          BY <2>t, <3>1, <4>2 DEF IInv, GateShared
        <4> QED
          BY <4>1, <4>2
      <3>5. PermitTaken'
        BY <2>t, <3>1 DEF IInv, PermitTaken, InSection
      <3>6. OnePublisher'
        BY <2>t, <3>1 DEF IInv, OnePublisher, InSection
      <3> QED
        BY <3>2, <3>3, <3>4, <3>5, <3>6 DEF IInv
    <2>12. CASE DropGateArc(t)
      <3>1. /\ pc[t] = "leaving"
            /\ pc' = [pc EXCEPT ![t] = "idle"]
            /\ gate' = [gate EXCEPT ![t] = NoGate]
            /\ UNCHANGED << map, waiters, permits >>
        BY <2>12 DEF DropGateArc, GoTo
      <3>2. TypeOK'
        BY <2>t, <3>1 DEF IInv, TypeOK, States
      <3>3. PointerSet'
        BY <2>t, <3>1 DEF IInv, PointerSet
      <3>4. GateShared'
        BY <2>t, <3>1 DEF IInv, GateShared
      <3>5. PermitTaken'
        BY <2>t, <3>1 DEF IInv, PermitTaken, InSection
      <3>6. OnePublisher'
        BY <2>t, <3>1 DEF IInv, OnePublisher, InSection
      <3> QED
        BY <3>2, <3>3, <3>4, <3>5, <3>6 DEF IInv
    <2> QED
      BY <2>1, <2>2, <2>3, <2>4, <2>5, <2>6, <2>7, <2>8, <2>9, <2>10, <2>11, <2>12
      DEF Step
  <1> QED
    BY <1>1, <1>2

-----------------------------------------------------------------------------
(* The waiting line.                                                       *)

\* How many tasks are in a set of states after one task has moved.
LEMMA TasksAfterMove ==
    ASSUME NEW X, NEW t \in Tasks, NEW to, pc \in [Tasks -> States],
           pc' = [pc EXCEPT ![t] = to]
    PROVE  LET before == Cardinality({u \in Tasks : pc[u] \in X})
               after == Cardinality({u \in Tasks : pc'[u] \in X})
           IN  /\ before \in Nat
               /\ pc[t] \notin X /\ to \in X => after = before + 1
               /\ pc[t] \in X /\ to \notin X => after = before - 1
               /\ (pc[t] \in X <=> to \in X) => after = before
  <1> DEFINE B == {u \in Tasks : pc[u] \in X}
             A == {u \in Tasks : pc'[u] \in X}
  <1>1. IsFiniteSet(B) /\ Cardinality(B) \in Nat
    BY TasksAssumption, FS_Subset, FS_CardinalityType
  <1>2. pc[t] \notin X /\ to \in X => A = B \cup {t} /\ t \notin B
    OBVIOUS
  <1>3. pc[t] \in X /\ to \notin X => A = B \ {t} /\ t \in B
    OBVIOUS
  <1>4. (pc[t] \in X <=> to \in X) => A = B
    OBVIOUS
  <1> HIDE DEF A, B
  <1>5. pc[t] \notin X /\ to \in X => Cardinality(A) = Cardinality(B) + 1
    BY <1>1, <1>2, FS_AddElement
  <1>6. pc[t] \in X /\ to \notin X => Cardinality(A) = Cardinality(B) - 1
    BY <1>1, <1>3, FS_RemoveElement
  <1>7. (pc[t] \in X <=> to \in X) => Cardinality(A) = Cardinality(B)
    BY <1>4
  <1> QED
    BY <1>1, <1>5, <1>6, <1>7 DEF A, B

\* The counter starts at zero with nobody in line.
LEMMA InitWaiters == Init => WaitersExact
  BY NoGateAssumption DEF Init, WaitersExact

\* Every atomic step keeps the counter exact and the line within its limit.
LEMMA StepWaiters == IInv /\ WaitersExact /\ [Next]_vars => WaitersExact'
  <1> SUFFICES ASSUME IInv, WaitersExact, [Next]_vars
               PROVE  WaitersExact'
    OBVIOUS
  <1> DEFINE In(X) == Cardinality({u \in Tasks : pc[u] \in X})
             Line == {"waiting", "acquired"}
  <1>1. CASE UNCHANGED vars
    BY <1>1 DEF vars, WaitersExact
  <1>2. CASE Next
    <2>1. PICK t \in Tasks : Step(t)
      BY <1>2 DEF Next
    <2>t. /\ pc \in [Tasks -> States]
          /\ gate \in [Tasks -> Gates \cup {NoGate}]
          /\ waiters \in [Gates -> Int]
          /\ pc[t] # "idle" => gate[t] \in Gates
      BY DEF IInv, TypeOK, PointerSet
    <2>g. pc[t] \notin {"idle", "leaving"} => map = gate[t]
      BY DEF IInv, GateShared
    <2>w. \A g \in Gates : map = g => waiters[g] = In(Counted) /\ In(Line) <= MaxWaiters
      BY DEF WaitersExact
    <2>s. In(Line) <= In(Counted) /\ In(Line) \in Nat /\ In(Counted) \in Nat
      <3>1. IsFiniteSet({u \in Tasks : pc[u] \in Counted})
        BY TasksAssumption, FS_Subset
      <3>2. {u \in Tasks : pc[u] \in Line} \in SUBSET {u \in Tasks : pc[u] \in Counted}
        BY DEF Counted
      <3> QED
        BY <3>1, <3>2, FS_Subset, FS_CardinalityType
    <2>m. ASSUME NEW to, pc' = [pc EXCEPT ![t] = to]
          PROVE  /\ pc[t] \notin Counted /\ to \in Counted => In(Counted)' = In(Counted) + 1
                 /\ pc[t] \in Counted /\ to \notin Counted => In(Counted)' = In(Counted) - 1
                 /\ (pc[t] \in Counted <=> to \in Counted) => In(Counted)' = In(Counted)
                 /\ pc[t] \notin Line /\ to \in Line => In(Line)' = In(Line) + 1
                 /\ pc[t] \in Line /\ to \notin Line => In(Line)' = In(Line) - 1
                 /\ (pc[t] \in Line <=> to \in Line) => In(Line)' = In(Line)
      BY <2>m, <2>t, TasksAfterMove
    <2> HIDE DEF In, Line
    <2> SUFFICES ASSUME NEW g \in Gates, map' = g
                 PROVE  waiters'[g] = In(Counted)' /\ In(Line)' <= MaxWaiters
      BY DEF WaitersExact, In, Line
    <2>2. CASE CloneGate(t)
      <3>1. pc[t] = "idle" /\ pc' = [pc EXCEPT ![t] = "cloned"]
        BY <2>2 DEF CloneGate, GoTo
      <3>o. {"idle", "cloned"} \cap (Counted \cup Line) = {}
        BY DEF Counted, Line
      <3>2. In(Counted)' = In(Counted) /\ In(Line)' = In(Line)
        BY <2>m, <3>1, <3>o
      <3>3. CASE map # NoGate
        <4>1. UNCHANGED << map, waiters >>
          BY <2>2, <3>3 DEF CloneGate
        <4> QED
          BY <2>w, <3>2, <4>1
      <3>4. CASE map = NoGate
        <4>1. waiters' = [waiters EXCEPT ![g] = 0]
          BY <2>2, <3>4 DEF CloneGate
        <4>2. \A u \in Tasks : pc[u] \in {"idle", "leaving"}
          BY <3>4 DEF IInv, GateShared
        <4>3. {u \in Tasks : pc[u] \in Counted} = {} /\ {u \in Tasks : pc[u] \in Line} = {}
          BY <4>2 DEF Counted, Line
        <4>4. In(Counted) = 0 /\ In(Line) = 0
          BY <4>3, FS_EmptySet DEF In
        <4> QED
          BY <2>t, <3>2, <4>1, <4>4, MaxWaitersAssumption
      <3> QED
        BY <3>3, <3>4
    <2>3. CASE CountWaiter(t)
      <3>1. /\ pc[t] = "cloned"
            /\ pc' = [pc EXCEPT ![t] = IF LineFull(t) THEN "rejecting" ELSE "waiting"]
            /\ waiters' = [waiters EXCEPT ![gate[t]] = @ + 1]
            /\ map' = map
        BY <2>3 DEF CountWaiter, GoTo
      <3>2. gate[t] = g /\ waiters[g] = In(Counted) /\ In(Line) <= MaxWaiters
        BY <2>g, <2>w, <3>1
      <3>3. waiters'[g] = waiters[g] + 1
        BY <2>t, <3>1, <3>2
      <3>4. In(Counted)' = In(Counted) + 1
        BY <2>m, <3>1 DEF Counted
      <3>5. CASE LineFull(t)
        <4>o. {"cloned", "rejecting"} \cap Line = {}
          BY DEF Line
        <4>1. In(Line)' = In(Line)
          BY <2>m, <3>1, <3>5, <4>o
        <4> QED
          BY <3>2, <3>3, <3>4, <4>1
      <3>6. CASE ~LineFull(t)
        <4>1. In(Line)' = In(Line) + 1
          BY <2>m, <3>1, <3>6 DEF Line
        <4>2. waiters[g] < MaxWaiters
          BY <2>t, <3>2, <3>6, MaxWaitersAssumption DEF LineFull
        <4> QED
          BY <2>s, <3>2, <3>3, <3>4, <4>1, <4>2, MaxWaitersAssumption
      <3> QED
        BY <3>5, <3>6
    <2>4. ASSUME pc[t] \in Counted, NEW to, to \notin Counted \cup Line,
                 pc' = [pc EXCEPT ![t] = to],
                 waiters' = [waiters EXCEPT ![gate[t]] = @ - 1], map' = map
          PROVE  waiters'[g] = In(Counted)' /\ In(Line)' <= MaxWaiters
      <3>1. gate[t] = g /\ waiters[g] = In(Counted) /\ In(Line) <= MaxWaiters
        BY <2>g, <2>w, <2>4 DEF Counted
      <3>2. waiters'[g] = waiters[g] - 1
        BY <2>t, <2>4, <3>1
      <3>3. In(Counted)' = In(Counted) - 1
        BY <2>m, <2>4
      <3>4. In(Line)' = In(Line) \/ In(Line)' = In(Line) - 1
        BY <2>m, <2>4
      <3> QED
        BY <2>s, <3>1, <3>2, <3>3, <3>4, MaxWaitersAssumption
    <2>5. CASE RejectPublish(t) \/ DropWaiter(t) \/ CancelWaiting(t)
      BY <2>4, <2>5 DEF RejectPublish, DropWaiter, CancelWaiting, GoTo, Counted, Line
    <2>6. ASSUME NEW to, pc[t] \in Counted <=> to \in Counted, pc[t] \in Line <=> to \in Line,
                 pc' = [pc EXCEPT ![t] = to], waiters' = waiters, map = g
          PROVE  waiters'[g] = In(Counted)' /\ In(Line)' <= MaxWaiters
      <3>1. In(Counted)' = In(Counted) /\ In(Line)' = In(Line)
        BY <2>m, <2>6
      <3> QED
        BY <2>w, <2>6, <3>1
    <2>7. CASE \/ AcquirePermit(t) \/ DropWaiterArc(t) \/ DropCancelledArc(t)
               \/ ReleasePermit(t) \/ DropGateArc(t)
      BY <2>6, <2>7 DEF AcquirePermit, DropWaiterArc, DropCancelledArc, ReleasePermit,
                        DropGateArc, GoTo, Counted, Line
    <2>8. CASE RemoveIfLast(t)
      BY <2>6, <2>8, NoGateAssumption DEF RemoveIfLast, GoTo, Counted, Line
    <2> QED
      BY <2>1, <2>2, <2>3, <2>5, <2>7, <2>8 DEF Step
  <1> QED
    BY <1>1, <1>2

-----------------------------------------------------------------------------
(* The theorems.                                                           *)

\* Type correctness of the gate, its counters and its map entry.
THEOREM TypeCorrect == Spec => []TypeOK
  <1>1. IInv => TypeOK
    BY DEF IInv
  <1> QED
    BY <1>1, InitIInv, StepIInv, PTL DEF Spec

\* On one node no two broadcasts of a channel overlap, for any number of
\* publishers, cancellations and removals of the map's entry.
THEOREM MutualExclusion == Spec => []OnePublisher
  <1>1. IInv => OnePublisher
    BY DEF IInv
  <1> QED
    BY <1>1, InitIInv, StepIInv, PTL DEF Spec

\* The map's entry is never removed, nor replaced, while a publisher that got
\* its gate from it can still wait for or hold the permit.
THEOREM EntryNotRemovedInUse == Spec => []GateShared
  <1>1. IInv => GateShared
    BY DEF IInv
  <1> QED
    BY <1>1, InitIInv, StepIInv, PTL DEF Spec

\* The waiter counter of the gate in use is exact, so that it returns to zero,
\* and never more than MAX_CHANNEL_PUBLISH_WAITERS publishers wait, although
\* the counter is raised before it is compared.
THEOREM LineExact == Spec => []WaitersExact
  <1>1. Init => IInv /\ WaitersExact
    BY InitIInv, InitWaiters
  <1>2. IInv /\ WaitersExact /\ [Next]_vars => (IInv /\ WaitersExact)'
    BY StepIInv, StepWaiters
  <1> QED
    BY <1>1, <1>2, PTL DEF Spec
=============================================================================
