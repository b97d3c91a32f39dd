------------------------- MODULE PushPipelineProofs -------------------------
(***************************************************************************)
(* What the push pipeline keeps for every number of publishes, workers,    *)
(* devices and faults: its types, the lifecycle of a publish, the          *)
(* exactness of the outcome counters under redelivery, the bound on the    *)
(* requests a provider gets and, where it holds, that no work is lost.     *)
(***************************************************************************)
EXTENDS PushPipeline, FiniteSetTheorems, SequenceTheorems, TLAPS

Stages == {"publish", "shard", "deliver", "result", "retry"}
Labels == {"fast", "shard", "batch", "next", "retry"} \cup Nat

\* The messages about the publishes of P; a result is about some device.
Message(P) ==
    {m \in [stage : Stages, pub : P, batch : Seq(Labels), devs : SUBSET Devices,
            attempt : Nat, out : Answers \cup {"expired", "-"}] :
       m.out # "-" => m.devs # {}}

BusyPcs == {"plan", "recheck", "markPlanning", "emit", "markDispatching", "planned", "shard",
            "preflight", "ack", "feedback", "device", "upsert", "count", "schedule",
            "markScheduled", "retry"} \cup RetryPcs

\* The jobs of busy workers: what is left to emit is there, and a retry is
\* scheduled for some device.
Job(P) ==
    {j \in [pc : BusyPcs, m : Message(P), token : BOOLEAN, rest : Seq(Message(P))] :
       /\ j.pc = "emit" => j.rest # <<>>
       /\ j.pc = "schedule" => j.m.devs # {}}

\* Calls whose status row exists.
RowPcs == {"publish-id", "publish-uid", "append", "produce"}
ReqPcs == {"new", "create", "duplicate", "rejected", "accepted", "aborted"} \cup RowPcs

\* Publishes with a status row.
Known == {p \in Publishes : status[p] # NoStatus}

NewRows == {NewStatus(s, n) : s \in {"queued", "quotaExceeded"}, n \in Estimates}

\* Every message, job and log entry is about a publish with a status row.
Typing ==
    /\ req \in [Requests -> [pc : ReqPcs, row : StatusRows \cup {NoStatus}]]
    /\ status \in [Publishes -> StatusRows \cup {NoStatus}]
    /\ log \subseteq Known /\ repair \subseteq Known
    /\ ready \subseteq Message(Known) /\ inflight \subseteq Message(Known)
    /\ dlq \subseteq Message(Known) /\ counted \subseteq Message(Known)
    /\ registered \subseteq Devices
    /\ faults \in 0 .. MaxFaults
    /\ wk \in [Workers -> Job(Known) \cup {Idle}]
    /\ sent \in [Publishes \X Devices \X (1 .. MaxAttempts) -> Nat]
    /\ \A r \in Requests : /\ req[r].pc = "create" => req[r].row \in NewRows
                           /\ req[r].pc \in RowPcs => Target[r] \in Known

-----------------------------------------------------------------------------
(* Lemmas about the operators *)

\* Every non-empty set of natural numbers has a least element.
LEMMA Least ==
  ASSUME NEW S \in SUBSET Nat, S # {}
  PROVE  \E x \in S : \A y \in S : x <= y
  <1> DEFINE R == OpToRel(<, Nat)
  <1>1. IsWellFoundedOn(R, Nat)
    BY NatLessThanWellFounded
  <1>2. \A x, y \in Nat : x < y => <<x, y>> \in R
    BY DEF OpToRel
  <1> HIDE DEF R
  <1>3. PICK x \in S : \A y \in S : ~(<<y, x>> \in R)
    BY <1>1, WFMin
  <1>4. \A y \in S : ~(y < x)
    BY <1>2, <1>3
  <1> QED
    BY <1>4

\* Min of a non-empty set of natural numbers is one of them.
LEMMA MinIn ==
  ASSUME NEW S \in SUBSET Nat, S # {}
  PROVE  Min(S) \in S
  BY Least DEF Min

\* What a function maps a finite set onto is finite.
LEMMA FiniteOnto ==
  ASSUME NEW S, IsFiniteSet(S), NEW T, NEW f \in [S -> T],
         \A y \in T : \E x \in S : f[x] = y
  PROVE  IsFiniteSet(T)
  <1>1. f \in Surjection(S, T)
    BY DEF Surjection
  <1> QED
    BY <1>1, FS_Surjection

\* The devices are finitely many natural numbers.
LEMMA DevicesFinite == IsFiniteSet(Devices) /\ Devices \subseteq Nat
  <1> DEFINE P == {Subs[i] : i \in DOMAIN Subs}
  <1>1. Subs \in Seq(SUBSET (Nat \ {0})) /\ \A i \in DOMAIN Subs : IsFiniteSet(Subs[i])
    BY PushAssumption
  <1>2. Len(Subs) \in Nat /\ DOMAIN Subs = 1 .. Len(Subs)
    BY <1>1
  <1>3. IsFiniteSet(DOMAIN Subs)
    BY <1>2, FS_Interval
  <1>4. [i \in DOMAIN Subs |-> Subs[i]] \in [DOMAIN Subs -> P]
    OBVIOUS
  <1>5. \A y \in P : \E i \in DOMAIN Subs : [j \in DOMAIN Subs |-> Subs[j]][i] = y
    OBVIOUS
  <1>6. \A T \in P : IsFiniteSet(T)
    BY <1>1
  <1>7. Devices \subseteq Nat
    BY <1>1 DEF Devices
  <1> HIDE DEF P
  <1>8. IsFiniteSet(P)
    BY <1>3, <1>4, <1>5, FiniteOnto
  <1>9. IsFiniteSet(UNION P)
    BY <1>6, <1>8, FS_UNION
  <1> QED
    BY <1>7, <1>9 DEF Devices, P

\* Rank numbers the elements of a finite set of numbers from 1 up.
LEMMA RankOnto ==
  ASSUME NEW S \in SUBSET Nat, IsFiniteSet(S), NEW i \in 1 .. Cardinality(S)
  PROVE  \E d \in S : Rank(S, d) = i
  <1> DEFINE Missing == {j \in 1 .. Cardinality(S) : \A d \in S : Rank(S, d) # j}
  <1>1. Cardinality(S) \in Nat
    BY FS_CardinalityType
  <1>2. SUFFICES ASSUME Missing # {} PROVE FALSE
    BY DEF Missing
  <1>3. PICK j \in Missing : \A k \in Missing : j <= k
    <2>1. Missing \in SUBSET Nat
      BY <1>1
    <2> HIDE DEF Missing
    <2> QED
      BY <1>2, <2>1, Least
  <1>4. j \in 1 .. Cardinality(S) /\ \A d \in S : Rank(S, d) # j
    OBVIOUS
  \* The elements of lower rank, and the least of the others.
  <1>5. PICK T \in SUBSET S : /\ Cardinality(T) = j - 1
                              /\ \A e \in S, d \in T : e <= d => e \in T
    <2>1. CASE j = 1
      BY <2>1, FS_EmptySet
    <2>2. CASE j # 1
      <3>1. j - 1 \in 1 .. Cardinality(S) /\ j - 1 \notin Missing
        BY <1>1, <1>3, <1>4, <2>2
      <3>2. PICK c \in S : Rank(S, c) = j - 1
        BY <3>1
      <3>3. {e \in S : e <= c} \in SUBSET S
        OBVIOUS
      <3>4. \A e \in S, d \in {x \in S : x <= c} : e <= d => e \in {x \in S : x <= c}
        OBVIOUS
      <3> QED
        BY <3>2, <3>3, <3>4 DEF Rank
    <2> QED
      BY <2>1, <2>2
  <1>6. T # S
    BY <1>1, <1>4, <1>5
  <1>7. PICK d \in S \ T : \A e \in S \ T : d <= e
    BY <1>6, Least
  <1>8. {e \in S : e <= d} = T \cup {d}
    <2>1. \A e \in T : e <= d
      BY <1>5, <1>7
    <2>2. \A e \in S \ T : e <= d => e = d
      BY <1>7
    <2> QED
      BY <1>7, <2>1, <2>2
  <1>9. IsFiniteSet(T)
    BY FS_Subset
  <1>10. Cardinality(T \cup {d}) = j
    <2>1. Cardinality(T \cup {d}) = Cardinality(T) + 1
      BY <1>7, <1>9, FS_AddElement
    <2> QED
      BY <1>1, <1>4, <1>5, <2>1
  <1> QED
    BY <1>4, <1>8, <1>10 DEF Rank

\* The state the counters imply is terminal, or the state it was.
LEMMA ResolveState ==
  ASSUME NEW s
  PROVE  Resolve(s) \in TerminalStates \cup {s.state}
  BY DEF Resolve, TerminalStates

\* A counted outcome: one counter grows, the others stay.
LEMMA CountRow ==
  ASSUME NEW s \in StatusRows, NEW f \in {"succeeded", "failed", "expired", "dead"}
  PROVE  /\ Count(s, f) \in StatusRows
         /\ Count(s, f).state \in TerminalStates \cup {s.state}
         /\ Count(s, f).succeeded = s.succeeded + IF f = "succeeded" THEN 1 ELSE 0
         /\ Count(s, f).failed = s.failed + IF f = "failed" THEN 1 ELSE 0
  <1> DEFINE n == [s EXCEPT ![f] = @ + 1]
  <1>1. /\ n \in StatusRows /\ n.state = s.state
        /\ n.succeeded = s.succeeded + IF f = "succeeded" THEN 1 ELSE 0
        /\ n.failed = s.failed + IF f = "failed" THEN 1 ELSE 0
    <2>1. CASE f = "succeeded"
      BY <2>1 DEF StatusRows
    <2>2. CASE f = "failed"
      BY <2>2 DEF StatusRows
    <2>3. CASE f = "expired"
      BY <2>3 DEF StatusRows
    <2>4. CASE f = "dead"
      BY <2>4 DEF StatusRows
    <2> QED
      BY <2>1, <2>2, <2>3, <2>4
  <1>2. Count(s, f) = [n EXCEPT !.state = Resolve(n)]
    BY DEF Count
  <1> HIDE DEF n
  <1>3. Resolve(n) \in TerminalStates \cup {s.state}
    BY <1>1, ResolveState
  <1>4. s.state \in TerminalStates \cup {"queued", "planning", "dispatching"}
    BY DEF StatusRows
  <1> HIDE DEF Resolve
  <1> QED
    BY <1>1, <1>2, <1>3, <1>4 DEF StatusRows

\* A status row is not the missing one.
LEMMA RowIsStatus ==
  ASSUME NEW s \in StatusRows
  PROVE  s # NoStatus /\ s.state # "none"
  BY DEF StatusRows, NoStatus, TerminalStates

\* New rows are rows, with empty counters.
LEMMA NewRow ==
  ASSUME NEW s \in NewRows
  PROVE  s \in StatusRows /\ s.succeeded = 0 /\ s.failed = 0
  BY PushAssumption DEF NewRows, NewStatus, StatusRows, TerminalStates

\* The fields of a message.
LEMMA MessageFields ==
  ASSUME NEW P, NEW m \in Message(P)
  PROVE  /\ m.stage \in Stages /\ m.pub \in P /\ m.batch \in Seq(Labels)
         /\ m.devs \subseteq Devices /\ m.attempt \in Nat
         /\ m.out \in Answers \cup {"expired", "-"} /\ (m.out # "-" => m.devs # {})
  BY DEF Message

\* The messages the handlers build.
LEMMA BuiltMessages ==
  ASSUME NEW P, NEW p \in P, NEW b \in Seq(Labels), NEW D \in SUBSET Devices, NEW n \in Nat,
         NEW o \in Answers \cup {"expired"}
  PROVE  /\ PublishMsg(p) \in Message(P)
         /\ ShardMsg(p, b, n) \in Message(P)
         /\ BatchMsg(p, b, D, n) \in Message(P)
         /\ \A d \in Devices : /\ ResultMsg(p, b, d, n, o) \in Message(P)
                                /\ RetryMsg(p, b, d, n) \in Message(P)
  <1>1. \A s \in Stages, c \in Seq(Labels), E \in SUBSET Devices, k \in Nat,
           a \in Answers \cup {"expired", "-"} :
           (a # "-" => E # {}) => Msg(s, p, c, E, k, a) \in Message(P)
    BY DEF Message, Msg
  <1>2. <<>> \in Seq(Labels) /\ 0 \in Nat
    OBVIOUS
  <1>3. PublishMsg(p) \in Message(P)
    BY <1>1, <1>2 DEF PublishMsg, Stages
  <1>4. ShardMsg(p, b, n) \in Message(P)
    BY <1>1 DEF ShardMsg, Stages
  <1>5. BatchMsg(p, b, D, n) \in Message(P)
    BY <1>1 DEF BatchMsg, Stages
  <1>6. ASSUME NEW d \in Devices
        PROVE  ResultMsg(p, b, d, n, o) \in Message(P) /\ RetryMsg(p, b, d, n) \in Message(P)
    BY <1>1 DEF ResultMsg, RetryMsg, Stages
  <1> QED
    BY <1>3, <1>4, <1>5, <1>6

\* A batch id grows by a label and a number.
LEMMA LabelSeq ==
  ASSUME NEW b \in Seq(Labels), NEW l \in {"batch", "next", "retry"}, NEW i \in Nat
  PROVE  b \o <<l, i>> \in Seq(Labels)
  <1>1. <<l, i>> \in Seq(Labels)
    BY DEF Labels
  <1> QED
    BY <1>1, ConcatProperties

\* The batches of a plan or of a shard.
LEMMA BatchesType ==
  ASSUME NEW P, NEW p \in P, NEW prefix \in Seq(Labels), NEW S \in SUBSET Devices
  PROVE  Batches(p, prefix, S) \in Seq(Message(P))
  <1> DEFINE n == (Cardinality(S) + BatchSize - 1) \div BatchSize
             b(i) == BatchMsg(p, prefix \o <<"batch", i>>,
                              {d \in S : (Rank(S, d) - 1) \div BatchSize + 1 = i}, 1)
  <1>1. n \in Nat
    <2>1. Cardinality(S) \in Nat /\ BatchSize \in Nat \ {0}
      BY DevicesFinite, FS_Subset, FS_CardinalityType, PushAssumption
    <2> QED
      BY <2>1
  <1>2. \A i \in 1 .. n : b(i) \in Message(P)
    <2> SUFFICES ASSUME NEW i \in 1 .. n PROVE b(i) \in Message(P)
      OBVIOUS
    <2>1. prefix \o <<"batch", i>> \in Seq(Labels)
      BY <1>1, LabelSeq
    <2>2. {d \in S : (Rank(S, d) - 1) \div BatchSize + 1 = i} \in SUBSET Devices
      OBVIOUS
    <2> QED
      BY <2>1, <2>2, BuiltMessages
  <1> HIDE DEF b, n
  <1>3. [i \in 1 .. n |-> b(i)] \in Seq(Message(P))
    BY <1>1, <1>2
  <1> QED
    BY <1>3 DEF Batches, b, n

\* Where a shard continues is a position in the subscriptions.
LEMMA ShardNextType == \A R, c : ShardNext(R, c) \in Nat
  <1> SUFFICES ASSUME NEW R, NEW c PROVE ShardNext(R, c) \in Nat
    OBVIOUS
  <1> DEFINE S == {Len(Subs)} \cup {b \in Boundary(R, c) : b >= ShardStop(R, c)}
  <1>1. Len(Subs) \in Nat
    BY PushAssumption
  <1>2. Boundary(R, c) \subseteq 0 .. Len(Subs)
    BY DEF Boundary
  <1>3. S \in SUBSET Nat /\ S # {}
    BY <1>1, <1>2
  <1>4. ShardNext(R, c) = Min(S)
    BY DEF ShardNext
  <1> HIDE DEF S
  <1> QED
    BY <1>3, <1>4, MinIn

\* What PlanOutput and a shard emit.
LEMMA PlanOutputType ==
  ASSUME Typing, NEW p \in Known
  PROVE  PlanOutput(p) \in Seq(Message(Known))
  <1>1. <<"fast">> \in Seq(Labels) /\ <<"shard">> \in Seq(Labels)
    BY DEF Labels
  <1>2. FastAudience \in SUBSET Devices
    BY DEF FastAudience, Typing
  <1>3. Batches(p, <<"fast">>, FastAudience) \in Seq(Message(Known))
    BY <1>1, <1>2, BatchesType
  <1>4. ShardMsg(p, <<"shard">>, 0) \in Message(Known)
    BY <1>1, BuiltMessages
  <1>5. <<ShardMsg(p, <<"shard">>, 0)>> \in Seq(Message(Known))
    BY <1>4
  <1> QED
    BY <1>3, <1>5 DEF PlanOutput

\* The results of a dispatch, one for each device of the batch.
LEMMA ResultsType ==
  ASSUME NEW P, NEW m \in Message(P), NEW o \in [m.devs -> Answers \cup {"expired"}]
  PROVE  [i \in 1 .. Cardinality(m.devs) |->
            ResultMsg(m.pub, m.batch, Sorted(m.devs)[i], m.attempt, o[Sorted(m.devs)[i]])]
           \in Seq(Message(P))
  <1> DEFINE S == m.devs
             n == Cardinality(S)
             x(i) == ResultMsg(m.pub, m.batch, Sorted(S)[i], m.attempt, o[Sorted(S)[i]])
  <1>1. S \in SUBSET Devices /\ m.pub \in P /\ m.batch \in Seq(Labels) /\ m.attempt \in Nat
    BY MessageFields
  <1>2. IsFiniteSet(S) /\ S \in SUBSET Nat /\ n \in Nat
    BY <1>1, DevicesFinite, FS_Subset, FS_CardinalityType
  <1> HIDE DEF S, n
  <1>3. \A i \in 1 .. n : Sorted(S)[i] \in S
    BY <1>2, RankOnto DEF Sorted, n
  <1>4. \A i \in 1 .. n : x(i) \in Message(P)
    <2> SUFFICES ASSUME NEW i \in 1 .. n PROVE x(i) \in Message(P)
      OBVIOUS
    <2>1. Sorted(S)[i] \in Devices /\ o[Sorted(S)[i]] \in Answers \cup {"expired"}
      BY <1>1, <1>3 DEF S
    <2> HIDE DEF Sorted
    <2> QED
      BY <1>1, <2>1, BuiltMessages, FS_EmptySet
  <1> HIDE DEF x
  <1>5. [i \in 1 .. n |-> x(i)] \in Seq(Message(P))
    BY <1>2, <1>4
  <1> QED
    BY <1>5 DEF x, n, S

-----------------------------------------------------------------------------
(* What a worker's step does to the workers *)

\* No worker comes to handle another message, and none starts to apply a
\* delivery result.
ClaimPcs == {"device", "upsert", "count"}
SameClaims ==
    \A v \in Workers : wk'[v].pc \in ClaimPcs => wk[v].pc \in ClaimPcs /\ wk'[v].m = wk[v].m

\* A busy worker has a job.
LEMMA BusyJob ==
  ASSUME Typing, NEW w \in Workers, wk[w].pc # "idle"
  PROVE  /\ wk[w] \in Job(Known) /\ wk[w].pc \in BusyPcs /\ wk[w].m \in Message(Known)
         /\ wk[w].token \in BOOLEAN /\ wk[w].rest \in Seq(Message(Known))
         /\ wk[w].pc = "emit" => wk[w].rest # <<>>
         /\ wk[w].pc = "schedule" => wk[w].m.devs # {}
  <1>1. wk[w] \in Job(Known)
    BY DEF Typing, Idle
  <1>2. wk[w] \in [pc : BusyPcs, m : Message(Known), token : BOOLEAN, rest : Seq(Message(Known))]
    BY <1>1 DEF Job
  <1>3. /\ wk[w].pc = "emit" => wk[w].rest # <<>>
        /\ wk[w].pc = "schedule" => wk[w].m.devs # {}
    BY <1>1 DEF Job
  <1> QED
    BY <1>1, <1>2, <1>3

\* Goto keeps the job.
LEMMA GotoWk ==
  ASSUME Typing, NEW w \in Workers, wk[w].pc # "idle", NEW pc \in BusyPcs, Goto(w, pc),
         pc # "emit", pc = "schedule" => wk[w].m.devs # {}
  PROVE  /\ wk' \in [Workers -> Job(Known) \cup {Idle}]
         /\ \A v \in Workers \ {w} : wk'[v] = wk[v]
         /\ wk'[w].pc = pc /\ wk'[w].m = wk[w].m
  <1>1. wk \in [Workers -> Job(Known) \cup {Idle}] /\ wk[w] \in Job(Known)
    BY BusyJob DEF Typing
  <1>2. wk' = [wk EXCEPT ![w] = [wk[w] EXCEPT !.pc = pc]]
    BY <1>1 DEF Goto
  <1>3. [wk[w] EXCEPT !.pc = pc] \in Job(Known)
    BY <1>1 DEF Job
  <1>4. [wk[w] EXCEPT !.pc = pc].pc = pc /\ [wk[w] EXCEPT !.pc = pc].m = wk[w].m
    BY <1>1 DEF Job
  <1> QED
    BY <1>1, <1>2, <1>3, <1>4

\* EmitFrom keeps the message.
LEMMA EmitWk ==
  ASSUME Typing, NEW w \in Workers, wk[w].pc # "idle", NEW rest \in Seq(Message(Known)),
         EmitFrom(w, rest)
  PROVE  wk' \in [Workers -> Job(Known) \cup {Idle}] /\ SameClaims
  <1> DEFINE pc == IF rest # <<>> THEN "emit"
                   ELSE IF wk[w].m.stage = "publish" THEN "markDispatching" ELSE "ack"
             j == [[wk[w] EXCEPT !.rest = rest] EXCEPT !.pc = pc]
  <1>1. wk \in [Workers -> Job(Known) \cup {Idle}] /\ wk[w] \in Job(Known)
    BY BusyJob DEF Typing
  <1>2. wk' = [wk EXCEPT ![w].rest = rest, ![w].pc = pc]
    BY DEF EmitFrom
  <1>3. pc \in BusyPcs /\ pc \notin ClaimPcs /\ pc # "schedule" /\ (pc = "emit" => rest # <<>>)
    BY DEF BusyPcs, ClaimPcs
  <1> HIDE DEF pc
  <1>4. wk' = [wk EXCEPT ![w] = j]
    BY <1>1, <1>2
  <1>5. j \in Job(Known) /\ j.pc = pc
    BY <1>1, <1>3 DEF Job
  <1> HIDE DEF j
  <1> QED
    BY <1>1, <1>3, <1>4, <1>5 DEF SameClaims

\* A worker drops its message.
LEMMA DropWk ==
  ASSUME Typing, NEW w \in Workers, wk' = [wk EXCEPT ![w] = Idle]
  PROVE  wk' \in [Workers -> Job(Known) \cup {Idle}] /\ SameClaims
  BY DEF Typing, SameClaims, ClaimPcs, Idle

\* An acknowledgement also voids the tokens of others.
LEMMA AckWk ==
  ASSUME Typing, NEW w \in Workers, wk[w].pc # "idle", Ack(w)
  PROVE  /\ wk' \in [Workers -> Job(Known) \cup {Idle}] /\ SameClaims
         /\ inflight' \subseteq inflight
         /\ wk'[w].pc = "idle"
  <1> DEFINE next == [wk EXCEPT ![w] = Idle]
             m == wk[w].m
  <1>1. wk \in [Workers -> Job(Known) \cup {Idle}]
    BY DEF Typing
  <1>2. /\ next \in [Workers -> Job(Known) \cup {Idle}] /\ next[w] = Idle
        /\ \A v \in Workers \ {w} : next[v] = wk[v]
    BY <1>1
  <1>3. inflight' \subseteq inflight
    BY DEF Ack
  <1>4. CASE Leased(w)
    <2>1. wk' = Void(next, m)
      BY <1>4 DEF Ack
    <2> HIDE DEF next, m
    <2>2. \A v \in Workers : /\ wk'[v] \in Job(Known) \cup {Idle}
                             /\ wk'[v].pc = next[v].pc
                             /\ next[v].pc # "idle" => wk'[v].m = next[v].m
      <3> SUFFICES ASSUME NEW v \in Workers
                   PROVE  /\ wk'[v] \in Job(Known) \cup {Idle}
                          /\ wk'[v].pc = next[v].pc
                          /\ next[v].pc # "idle" => wk'[v].m = next[v].m
        OBVIOUS
      <3>1. CASE next[v].pc # "idle" /\ next[v].m = m
        <4>1. wk'[v] = [next[v] EXCEPT !.token = FALSE]
          BY <2>1, <3>1 DEF Void
        <4>2. next[v] \in Job(Known)
          BY <1>2, <3>1 DEF Idle
        <4> QED
          BY <4>1, <4>2 DEF Job
      <3>2. CASE ~(next[v].pc # "idle" /\ next[v].m = m)
        BY <1>2, <2>1, <3>2 DEF Void
      <3> QED
        BY <3>1, <3>2
    <2>3. wk' \in [Workers -> Job(Known) \cup {Idle}]
      BY <2>1, <2>2 DEF Void
    <2>4. wk'[w].pc = "idle"
      BY <1>2, <2>2 DEF Idle
    <2> QED
      BY <1>2, <1>3, <2>2, <2>3, <2>4 DEF SameClaims, ClaimPcs
  <1>5. CASE ~Leased(w)
    <2>1. wk' = next
      BY <1>5 DEF Ack
    <2> QED
      BY <1>2, <1>3, <2>1 DEF SameClaims, ClaimPcs, Idle
  <1> QED
    BY <1>4, <1>5

\* A worker that consumes a message starts the handler of its stage.
LEMMA StartWk ==
  ASSUME Typing, NEW w \in Workers, NEW m \in Message(Known),
         wk' = Start(w, m, FirstPc[m.stage])
  PROVE  wk' \in [Workers -> Job(Known) \cup {Idle}] /\ SameClaims
  <1> DEFINE pc == FirstPc[m.stage]
             j == [pc |-> pc, m |-> m, token |-> TRUE, rest |-> <<>>]
  <1>1. pc \in {"plan", "shard", "preflight", "feedback", "retry"}
    <2>1. m.stage \in Stages
      BY MessageFields
    <2> QED
      BY <2>1 DEF Stages, FirstPc
  <1> HIDE DEF pc
  <1>2. j \in Job(Known) /\ j.pc = pc
    BY <1>1 DEF Job, BusyPcs
  <1>3. wk' = [wk EXCEPT ![w] = j]
    BY DEF Start, pc
  <1> HIDE DEF j
  <1> QED
    BY <1>1, <1>2, <1>3 DEF Typing, SameClaims, ClaimPcs

-----------------------------------------------------------------------------
(* Types *)

\* A status that is written again stays a status.
LEMMA StatusStep ==
  ASSUME Typing, NEW p \in Known, NEW row \in StatusRows, status' = [status EXCEPT ![p] = row]
  PROVE  Known' = Known /\ status' \in [Publishes -> StatusRows \cup {NoStatus}]
  <1>1. p \in Publishes /\ status[p] # NoStatus /\ row # NoStatus
    BY RowIsStatus DEF Known
  <1> QED
    BY <1>1 DEF Typing, Known

\* The row of a known publish.
LEMMA KnownRow ==
  ASSUME Typing, NEW p \in Known
  PROVE  p \in Publishes /\ status[p] \in StatusRows
  BY DEF Typing, Known

\* mark_state keeps a row a row.
LEMMA MarkStep ==
  ASSUME Typing, NEW p \in Known, NEW to \in {"planning", "dispatching"}, MarkState(p, to)
  PROVE  Known' = Known /\ status' \in [Publishes -> StatusRows \cup {NoStatus}]
  <1>1. status[p] \in StatusRows /\ p \in Publishes
    BY KnownRow
  <1>2. CASE CanTransition(status[p].state, to)
    <2>1. status' = [status EXCEPT ![p] = [status[p] EXCEPT !.state = to]]
      BY <1>1, <1>2 DEF MarkState, Typing
    <2>2. [status[p] EXCEPT !.state = to] \in StatusRows
      BY <1>1 DEF StatusRows
    <2> QED
      BY <2>1, <2>2, StatusStep
  <1>3. CASE ~CanTransition(status[p].state, to)
    BY <1>3 DEF MarkState, Typing, Known
  <1> QED
    BY <1>2, <1>3

\* A step of a worker keeps the types if what it writes has them.
LEMMA WorkerTyping ==
  ASSUME Typing,
         Known' = Known, status' \in [Publishes -> StatusRows \cup {NoStatus}],
         ready' \subseteq Message(Known), inflight' \subseteq Message(Known),
         dlq' \subseteq Message(Known), counted' \subseteq Message(Known),
         registered' \subseteq Devices, faults' \in 0 .. MaxFaults,
         wk' \in [Workers -> Job(Known) \cup {Idle}],
         sent' \in [Publishes \X Devices \X (1 .. MaxAttempts) -> Nat],
         UNCHANGED <<req, log, repair>>
  PROVE  Typing'
  BY DEF Typing

\* Known publishes stay known when no status is written.
LEMMA SameKnown ==
  ASSUME Typing, UNCHANGED status
  PROVE  Known' = Known /\ status' \in [Publishes -> StatusRows \cup {NoStatus}]
  BY DEF Typing, Known

\* The queue operations only hold typed messages.
LEMMA QueueTyping ==
  ASSUME Typing
  PROVE  /\ \A m \in Message(Known) : Produce(m) => ready' \subseteq Message(Known)
         /\ \A w \in Workers : wk[w].pc # "idle" /\ Nack(w) =>
              ready' \subseteq Message(Known) /\ inflight' \subseteq Message(Known)
         /\ \A w \in Workers : Ack(w) => inflight' \subseteq Message(Known)
         /\ \A w \in Workers : wk[w].pc # "idle" /\ DeadLetter(w) =>
              dlq' \subseteq Message(Known) /\ inflight' \subseteq Message(Known)
  <1>1. \A w \in Workers : wk[w].pc # "idle" => wk[w].m \in Message(Known)
    BY BusyJob
  <1>2. ready \subseteq Message(Known) /\ inflight \subseteq Message(Known) /\ dlq \subseteq Message(Known)
    BY DEF Typing
  <1>3. \A m \in Message(Known) : Produce(m) => ready' \subseteq Message(Known)
    BY <1>2 DEF Produce, Enqueue
  <1>4. \A w \in Workers : Ack(w) => inflight' \subseteq Message(Known)
    BY <1>2 DEF Ack
  <1>5. \A w \in Workers : wk[w].pc # "idle" /\ Nack(w) =>
              ready' \subseteq Message(Known) /\ inflight' \subseteq Message(Known)
    BY <1>1, <1>2 DEF Nack
  <1>6. \A w \in Workers : wk[w].pc # "idle" /\ DeadLetter(w) =>
              dlq' \subseteq Message(Known) /\ inflight' \subseteq Message(Known)
    BY <1>1, <1>2, <1>4 DEF DeadLetter
  <1> QED
    BY <1>3, <1>4, <1>5, <1>6

\* Messages and jobs stay what they are when more publishes are known.
LEMMA Grows ==
  ASSUME NEW P, NEW Q, P \subseteq Q
  PROVE  Message(P) \subseteq Message(Q) /\ Job(P) \subseteq Job(Q)
  <1>1. Message(P) \subseteq Message(Q)
    BY DEF Message
  <1>2. Seq(Message(P)) \subseteq Seq(Message(Q))
    BY <1>1, SeqMonotonic
  <1>3. Job(P) \subseteq Job(Q)
    <2> SUFFICES ASSUME NEW j \in Job(P) PROVE j \in Job(Q)
      OBVIOUS
    <2>1. /\ j \in [pc : BusyPcs, m : Message(P), token : BOOLEAN, rest : Seq(Message(P))]
          /\ j.pc = "emit" => j.rest # <<>>
          /\ j.pc = "schedule" => j.m.devs # {}
      BY DEF Job
    <2>2. j \in [pc : BusyPcs, m : Message(Q), token : BOOLEAN, rest : Seq(Message(Q))]
      BY <1>1, <1>2, <2>1
    <2> QED
      BY <2>1, <2>2 DEF Job
  <1> QED
    BY <1>1, <1>3

\* The system starts empty.
LEMMA InitTyping == Init => Typing
  <1> SUFFICES ASSUME Init PROVE Typing
    OBVIOUS
  <1>1. /\ req = [r \in Requests |-> [pc |-> "new", row |-> NoStatus]]
        /\ status = [p \in Publishes |-> NoStatus]
        /\ wk = [w \in Workers |-> Idle] /\ faults = MaxFaults
        /\ sent = [x \in Publishes \X Devices \X (1 .. MaxAttempts) |-> 0]
        /\ log = {} /\ repair = {} /\ ready = {} /\ inflight = {} /\ dlq = {} /\ counted = {}
        /\ registered = Devices
    BY DEF Init
  <1>2. req \in [Requests -> [pc : ReqPcs, row : StatusRows \cup {NoStatus}]]
    BY <1>1 DEF ReqPcs
  <1>3. \A r \in Requests : req[r].pc = "new"
    BY <1>1
  <1>4. faults \in 0 .. MaxFaults
    BY <1>1, PushAssumption
  <1>5. wk \in [Workers -> Job(Known) \cup {Idle}]
    BY <1>1
  <1>6. sent \in [Publishes \X Devices \X (1 .. MaxAttempts) -> Nat]
    BY <1>1
  <1>7. status \in [Publishes -> StatusRows \cup {NoStatus}]
    BY <1>1
  <1> QED
    BY <1>1, <1>2, <1>3, <1>4, <1>5, <1>6, <1>7 DEF Typing, RowPcs

\* A step of a call that writes no status.
LEMMA ReqTyping ==
  ASSUME Typing, NEW r \in Requests, NEW q \in [pc : ReqPcs, row : StatusRows \cup {NoStatus}],
         req' = [req EXCEPT ![r] = q],
         q.pc = "create" => q.row \in NewRows, q.pc \in RowPcs => Target[r] \in Known,
         log' \subseteq Known, ready' \subseteq Message(Known), faults' \in 0 .. MaxFaults,
         UNCHANGED <<status, repair, inflight, dlq, counted, registered, wk, sent>>
  PROVE  Typing'
  <1>1. Known' = Known /\ status' \in [Publishes -> StatusRows \cup {NoStatus}]
    BY SameKnown
  <1>2. /\ req' \in [Requests -> [pc : ReqPcs, row : StatusRows \cup {NoStatus}]]
        /\ \A s \in Requests : /\ req'[s].pc = "create" => req'[s].row \in NewRows
                               /\ req'[s].pc \in RowPcs => Target[s] \in Known
    BY DEF Typing
  <1> QED
    BY <1>1, <1>2 DEF Typing

\* The steps of accept_publish_inner keep the types.
LEMMA AcceptTyping ==
  ASSUME Typing, NEW r \in Requests, Accept(r) \/ AcceptAbort(r)
  PROVE  Typing'
  <1> USE DEF store, queue
  <1>1. /\ req \in [Requests -> [pc : ReqPcs, row : StatusRows \cup {NoStatus}]]
        /\ req[r] \in [pc : ReqPcs, row : StatusRows \cup {NoStatus}]
        /\ req[r].pc = "create" => req[r].row \in NewRows
        /\ req[r].pc \in RowPcs => Target[r] \in Known
        /\ log \subseteq Known /\ ready \subseteq Message(Known) /\ faults \in 0 .. MaxFaults
        /\ Target[r] \in Publishes
    BY PushAssumption DEF Typing
  <1>2. CASE AcceptLookup(r)
    <2>1. PICK n \in Estimates, quota \in BOOLEAN :
             req' = [req EXCEPT ![r] =
                       IF {<<"publish-id", Target[r]>>, <<"publish-uid", Target[r]>>} \cap idem # {}
                       THEN [req[r] EXCEPT !.pc = "duplicate"]
                       ELSE [pc |-> "create",
                             row |-> NewStatus(IF quota THEN "quotaExceeded" ELSE "queued", n)]]
      BY <1>2 DEF AcceptLookup
    <2> DEFINE dup == [req[r] EXCEPT !.pc = "duplicate"]
               row == NewStatus(IF quota THEN "quotaExceeded" ELSE "queued", n)
               new == [pc |-> "create", row |-> row]
    <2>2. req' = [req EXCEPT ![r] = dup] \/ req' = [req EXCEPT ![r] = new]
      BY <2>1
    <2>3. row \in NewRows
      BY DEF NewRows
    <2> HIDE DEF row
    <2>4. row \in StatusRows
      BY <2>3, NewRow
    <2>5. /\ dup \in [pc : ReqPcs, row : StatusRows \cup {NoStatus}] /\ dup.pc = "duplicate"
          /\ new \in [pc : ReqPcs, row : StatusRows \cup {NoStatus}] /\ new.pc = "create" /\ new.row = row
      BY <1>1, <2>4 DEF ReqPcs
    <2>6. "duplicate" \notin RowPcs /\ "create" \notin RowPcs
      BY DEF RowPcs
    <2>7. UNCHANGED <<status, repair, inflight, dlq, counted, registered, wk, sent, log, ready, faults>>
      BY <1>2 DEF AcceptLookup
    <2> HIDE DEF dup, new
    <2> QED
      BY <1>1, <2>2, <2>3, <2>5, <2>6, <2>7, ReqTyping
  <1>3. CASE AcceptCreate(r)
    <2> DEFINE p == Target[r]
               pc == IF status[p] \in {NoStatus, req[r].row} THEN "publish-id" ELSE "duplicate"
               q == [req[r] EXCEPT !.pc = pc]
    <2>1. /\ req' = [req EXCEPT ![r] = q]
          /\ status' = [status EXCEPT ![p] = IF status[p] = NoStatus THEN req[r].row ELSE status[p]]
          /\ UNCHANGED <<repair, inflight, dlq, counted, registered, wk, sent, log, ready, faults>>
      BY <1>1, <1>3 DEF AcceptCreate
    <2>2. q \in [pc : ReqPcs, row : StatusRows \cup {NoStatus}] /\ q.pc \in {"publish-id", "duplicate"}
      BY <1>1 DEF ReqPcs, RowPcs
    <2>3. req[r].row \in StatusRows /\ req[r].row # NoStatus
      <3>1. req[r].row \in NewRows
        BY <1>1, <1>3 DEF AcceptCreate
      <3> QED
        BY <3>1, NewRow, RowIsStatus
    <2>4. status \in [Publishes -> StatusRows \cup {NoStatus}]
      BY DEF Typing
    <2>5. /\ status' \in [Publishes -> StatusRows \cup {NoStatus}]
          /\ Known \subseteq Known' /\ p \in Known'
      BY <1>1, <2>1, <2>3, <2>4 DEF Known
    <2>6. Message(Known) \subseteq Message(Known') /\ Job(Known) \subseteq Job(Known')
      BY <2>5, Grows
    <2>7. /\ log' \subseteq Known' /\ repair' \subseteq Known'
          /\ ready' \subseteq Message(Known') /\ inflight' \subseteq Message(Known')
          /\ dlq' \subseteq Message(Known') /\ counted' \subseteq Message(Known')
          /\ wk' \in [Workers -> Job(Known') \cup {Idle}]
          /\ registered' \subseteq Devices /\ faults' \in 0 .. MaxFaults
          /\ sent' \in [Publishes \X Devices \X (1 .. MaxAttempts) -> Nat]
      <3>1. /\ log \subseteq Known /\ repair \subseteq Known
            /\ ready \subseteq Message(Known) /\ inflight \subseteq Message(Known)
            /\ dlq \subseteq Message(Known) /\ counted \subseteq Message(Known)
            /\ wk \in [Workers -> Job(Known) \cup {Idle}]
            /\ registered \subseteq Devices /\ faults \in 0 .. MaxFaults
            /\ sent \in [Publishes \X Devices \X (1 .. MaxAttempts) -> Nat]
        BY DEF Typing
      <3> QED
        BY <2>1, <2>5, <2>6, <3>1
    <2>8. \A s \in Requests : /\ req[s].pc = "create" => req[s].row \in NewRows
                              /\ req[s].pc \in RowPcs => Target[s] \in Known
      BY DEF Typing
    <2> HIDE DEF q, p
    <2>9. /\ req' \in [Requests -> [pc : ReqPcs, row : StatusRows \cup {NoStatus}]]
          /\ \A s \in Requests : /\ req'[s].pc = "create" => req'[s].row \in NewRows
                                 /\ req'[s].pc \in RowPcs => Target[s] \in Known'
      BY <1>1, <2>1, <2>2, <2>5, <2>8 DEF p
    <2> QED
      BY <2>5, <2>7, <2>9 DEF Typing
  <1>4. CASE AcceptRecord(r)
    <2> DEFINE key == <<req[r].pc, Target[r]>>
               pc == IF key \in idem THEN "duplicate"
                     ELSE IF req[r].pc = "publish-id" THEN "publish-uid"
                     ELSE IF req[r].row.state = "quotaExceeded" THEN "rejected" ELSE "append"
               q == [req[r] EXCEPT !.pc = pc]
    <2>1. /\ req' = [req EXCEPT ![r] = q] /\ req[r].pc \in RowPcs
          /\ UNCHANGED <<status, repair, inflight, dlq, counted, registered, wk, sent, log, ready, faults>>
      BY <1>1, <1>4 DEF AcceptRecord, RowPcs
    <2>2. pc \in ReqPcs /\ pc # "create"
      BY DEF ReqPcs, RowPcs
    <2> HIDE DEF pc
    <2>3. q \in [pc : ReqPcs, row : StatusRows \cup {NoStatus}] /\ q.pc = pc
      BY <1>1, <2>2
    <2> HIDE DEF q
    <2> QED
      BY <1>1, <2>1, <2>2, <2>3, ReqTyping
  <1>5. CASE AcceptAppend(r)
    <2> DEFINE q == [req[r] EXCEPT !.pc = "produce"]
    <2>1. /\ req' = [req EXCEPT ![r] = q] /\ log' = log \cup {Target[r]} /\ req[r].pc \in RowPcs
          /\ UNCHANGED <<status, repair, inflight, dlq, counted, registered, wk, sent, ready, faults>>
      BY <1>1, <1>5 DEF AcceptAppend, RowPcs
    <2>2. q \in [pc : ReqPcs, row : StatusRows \cup {NoStatus}] /\ q.pc = "produce"
      BY <1>1 DEF ReqPcs, RowPcs
    <2> HIDE DEF q
    <2> QED
      BY <1>1, <2>1, <2>2, ReqTyping
  <1>6. CASE AcceptProduce(r)
    <2> DEFINE q == [req[r] EXCEPT !.pc = "accepted"]
    <2>1. /\ req' = [req EXCEPT ![r] = q] /\ Produce(PublishMsg(Target[r])) /\ req[r].pc \in RowPcs
          /\ UNCHANGED <<status, repair, inflight, dlq, counted, registered, wk, sent, log, faults>>
      BY <1>1, <1>6 DEF AcceptProduce, RowPcs
    <2>2. q \in [pc : ReqPcs, row : StatusRows \cup {NoStatus}] /\ q.pc = "accepted"
      BY <1>1 DEF ReqPcs
    <2>3. PublishMsg(Target[r]) \in Message(Known)
      <3>1. {} \in SUBSET Devices /\ <<>> \in Seq(Labels) /\ 0 \in Nat /\ "expired" \in Answers \cup {"expired"}
        OBVIOUS
      <3> QED
        BY <1>1, <2>1, <3>1, BuiltMessages
    <2>4. ready' \subseteq Message(Known)
      BY <2>1, <2>3, QueueTyping
    <2> HIDE DEF q
    <2> QED
      BY <1>1, <2>1, <2>2, <2>4, ReqTyping
  <1>7. CASE AcceptAbort(r)
    <2> DEFINE q == [req[r] EXCEPT !.pc = "aborted"]
    <2>1. /\ req' = [req EXCEPT ![r] = q] /\ faults > 0 /\ faults' = faults - 1
          /\ UNCHANGED <<status, repair, inflight, dlq, counted, registered, wk, sent, log, ready>>
      BY <1>1, <1>7 DEF AcceptAbort
    <2>2. q \in [pc : ReqPcs, row : StatusRows \cup {NoStatus}] /\ q.pc = "aborted"
      BY <1>1 DEF ReqPcs
    <2>3. faults' \in 0 .. MaxFaults
      BY <1>1, <2>1, PushAssumption
    <2>4. "aborted" \notin RowPcs
      BY DEF RowPcs
    <2> HIDE DEF q
    <2> QED
      BY <1>1, <2>1, <2>2, <2>3, <2>4, ReqTyping
  <1> QED
    BY <1>2, <1>3, <1>4, <1>5, <1>6, <1>7 DEF Accept

\* The steps of the planner and of the shard and provider workers keep the types.
LEMMA PlanTyping ==
  ASSUME Typing, NEW w \in Workers,
         \/ PlanBegin(w) \/ PlanRecheck(w) \/ PlanMark(w) \/ PlanFinish(w) \/ PlanUnlock(w)
         \/ ShardStream(w) \/ Dispatch(w) \/ Emit(w) \/ AckStep(w) \/ Defer(w)
  PROVE  Typing'
  <1> USE DEF store, queue
  <1> DEFINE m == wk[w].m
  <1>1. /\ ready \subseteq Message(Known) /\ inflight \subseteq Message(Known)
        /\ dlq \subseteq Message(Known) /\ counted \subseteq Message(Known)
        /\ registered \subseteq Devices /\ faults \in 0 .. MaxFaults
        /\ wk \in [Workers -> Job(Known) \cup {Idle}]
        /\ sent \in [Publishes \X Devices \X (1 .. MaxAttempts) -> Nat]
    BY DEF Typing
  <1>2. wk[w].pc # "idle"
    BY DEF PlanBegin, PlanRecheck, PlanMark, PlanFinish, PlanUnlock, ShardStream, Dispatch, Emit,
           AckStep, Defer
  <1>3. m \in Message(Known) /\ m.pub \in Known /\ wk[w].rest \in Seq(Message(Known))
    BY <1>2, BusyJob, MessageFields
  <1>4. \A p \in Message(Known) : Produce(p) => ready' \subseteq Message(Known)
    BY QueueTyping
  <1>5. Nack(w) => /\ ready' \subseteq Message(Known) /\ inflight' \subseteq Message(Known)
                   /\ wk' \in [Workers -> Job(Known) \cup {Idle}]
    BY <1>2, QueueTyping, DropWk DEF Nack
  <1>6. Ack(w) => inflight' \subseteq Message(Known) /\ wk' \in [Workers -> Job(Known) \cup {Idle}]
    BY <1>2, QueueTyping, AckWk
  <1>7. \A pc \in {"recheck", "markPlanning", "planned"} :
           Goto(w, pc) => wk' \in [Workers -> Job(Known) \cup {Idle}]
    BY <1>2, GotoWk DEF BusyPcs
  <1>8. \A rest \in Seq(Message(Known)) :
           EmitFrom(w, rest) => wk' \in [Workers -> Job(Known) \cup {Idle}]
    BY <1>2, EmitWk
  <1>9. UNCHANGED status => Known' = Known /\ status' \in [Publishes -> StatusRows \cup {NoStatus}]
    BY SameKnown
  <1> HIDE DEF m
  <1>10. CASE PlanBegin(w)
    <2>1. /\ UNCHANGED <<req, status, log, repair, dlq, counted, registered, faults, sent>>
          /\ \/ Ack(w) /\ UNCHANGED ready
             \/ Nack(w)
             \/ Goto(w, "recheck") /\ UNCHANGED <<ready, inflight>>
      BY <1>10 DEF PlanBegin
    <2> QED
      BY <1>1, <1>5, <1>6, <1>7, <1>9, <2>1, WorkerTyping
  <1>11. CASE PlanRecheck(w)
    <2>1. /\ UNCHANGED <<req, status, log, repair, ready, dlq, counted, registered, faults, sent>>
          /\ \/ Ack(w)
             \/ Goto(w, "markPlanning") /\ UNCHANGED inflight
      BY <1>11 DEF PlanRecheck
    <2> QED
      BY <1>1, <1>6, <1>7, <1>9, <2>1, WorkerTyping
  <1>12. CASE PlanMark(w)
    <2>1. /\ UNCHANGED <<req, log, repair, ready, inflight, dlq, counted, registered, faults, sent>>
          /\ MarkState(m.pub, "planning") /\ EmitFrom(w, PlanOutput(m.pub))
      BY <1>12 DEF PlanMark, m
    <2>2. Known' = Known /\ status' \in [Publishes -> StatusRows \cup {NoStatus}]
      BY <1>3, <2>1, MarkStep
    <2>3. wk' \in [Workers -> Job(Known) \cup {Idle}]
      BY <1>3, <1>8, <2>1, PlanOutputType
    <2> QED
      BY <1>1, <2>1, <2>2, <2>3, WorkerTyping
  <1>13. CASE PlanFinish(w)
    <2>1. /\ UNCHANGED <<req, log, repair, ready, inflight, dlq, counted, registered, faults, sent>>
          /\ MarkState(m.pub, "dispatching") /\ Goto(w, "planned")
      BY <1>13 DEF PlanFinish, m
    <2>2. Known' = Known /\ status' \in [Publishes -> StatusRows \cup {NoStatus}]
      BY <1>3, <2>1, MarkStep
    <2> QED
      BY <1>1, <1>7, <2>1, <2>2, WorkerTyping
  <1>14. CASE PlanUnlock(w)
    <2>1. /\ UNCHANGED <<req, status, log, repair, ready, dlq, counted, registered, faults, sent>>
          /\ Ack(w)
      BY <1>14 DEF PlanUnlock
    <2> QED
      BY <1>1, <1>6, <1>9, <2>1, WorkerTyping
  <1>15. CASE ShardStream(w)
    <2> DEFINE S == Recipients(registered, m.attempt, ShardStop(registered, m.attempt))
               next == ShardNext(registered, m.attempt)
               cont == ShardMsg(m.pub, m.batch \o <<"next", Cardinality(S)>>, next)
               more == IF next < Len(Subs) THEN <<cont>> ELSE <<>>
    <2>1. /\ UNCHANGED <<req, status, log, repair, ready, inflight, dlq, counted, registered, faults, sent>>
          /\ EmitFrom(w, Batches(m.pub, m.batch, S) \o more)
      BY <1>15 DEF ShardStream, m
    <2>2. S \in SUBSET Devices
      <3>1. \A i, j : Recipients(registered, i, j) \subseteq registered
        BY DEF Recipients
      <3> HIDE DEF Recipients
      <3> QED
        BY <1>1, <3>1
    <2>3. m.batch \in Seq(Labels)
      BY <1>3, MessageFields
    <2>4. Cardinality(S) \in Nat
      BY <2>2, DevicesFinite, FS_Subset, FS_CardinalityType
    <2>5. next \in Nat
      BY ShardNextType
    <2> HIDE DEF S, next
    <2>6. m.batch \o <<"next", Cardinality(S)>> \in Seq(Labels)
      BY <2>3, <2>4, LabelSeq
    <2>7. cont \in Message(Known)
      BY <1>3, <2>2, <2>5, <2>6, BuiltMessages
    <2>8. Batches(m.pub, m.batch, S) \in Seq(Message(Known))
      BY <1>3, <2>2, <2>3, BatchesType
    <2> HIDE DEF cont
    <2>9. more \in Seq(Message(Known))
      BY <2>7
    <2> HIDE DEF more
    <2>10. Batches(m.pub, m.batch, S) \o more \in Seq(Message(Known))
      BY <2>8, <2>9, ConcatProperties
    <2> QED
      BY <1>1, <1>8, <1>9, <2>1, <2>10, WorkerTyping
  <1>16. CASE Dispatch(w)
    <2> DEFINE results(o) == [i \in 1 .. Cardinality(m.devs) |->
                  ResultMsg(m.pub, m.batch, Sorted(m.devs)[i], m.attempt, o[Sorted(m.devs)[i]])]
    <2>1. /\ UNCHANGED <<req, status, log, repair, ready, inflight, dlq, counted, registered, faults>>
          /\ \E o \in [m.devs -> Answers \cup {"expired"}] : EmitFrom(w, results(o))
      <3>1. CASE EmitFrom(w, results([d \in m.devs |-> "expired"]))
        <4>1. [d \in m.devs |-> "expired"] \in [m.devs -> Answers \cup {"expired"}]
          OBVIOUS
        <4> HIDE DEF results
        <4>2. \E o \in [m.devs -> Answers \cup {"expired"}] : EmitFrom(w, results(o))
          BY <3>1, <4>1
        <4> QED
          BY <1>16, <4>2 DEF Dispatch
      <3>2. CASE \E o \in [m.devs -> Outcomes] : EmitFrom(w, results(o))
        <4>1. \A o \in [m.devs -> Outcomes] : o \in [m.devs -> Answers \cup {"expired"}]
          BY PushAssumption
        <4> HIDE DEF results
        <4>2. \E o \in [m.devs -> Answers \cup {"expired"}] : EmitFrom(w, results(o))
          BY <3>2, <4>1
        <4> QED
          BY <1>16, <4>2 DEF Dispatch
      <3> QED
        BY <1>16, <3>1, <3>2 DEF Dispatch, m
    <2>2. \/ sent' = sent
          \/ sent' = [x \in DOMAIN sent |-> IF x[1] = m.pub /\ x[2] \in m.devs /\ x[3] = m.attempt
                                            THEN sent[x] + 1 ELSE sent[x]]
      BY <1>16 DEF Dispatch, m
    <2>3. sent' \in [Publishes \X Devices \X (1 .. MaxAttempts) -> Nat]
      BY <1>1, <2>2
    <2>4. \A o \in [m.devs -> Answers \cup {"expired"}] : results(o) \in Seq(Message(Known))
      BY <1>3, ResultsType
    <2> HIDE DEF results
    <2>5. wk' \in [Workers -> Job(Known) \cup {Idle}]
      BY <1>8, <2>1, <2>4
    <2> QED
      BY <1>1, <1>9, <2>1, <2>3, <2>5, WorkerTyping
  <1>17. CASE Emit(w)
    <2>1. /\ UNCHANGED <<req, status, log, repair, inflight, dlq, counted, registered, faults, sent>>
          /\ Produce(Head(wk[w].rest)) /\ EmitFrom(w, Tail(wk[w].rest)) /\ wk[w].pc = "emit"
      BY <1>17 DEF Emit
    <2>2. wk[w].rest # <<>>
      BY <1>2, <2>1, BusyJob
    <2>3. Head(wk[w].rest) \in Message(Known) /\ Tail(wk[w].rest) \in Seq(Message(Known))
      BY <1>3, <2>2, HeadTailProperties
    <2> QED
      BY <1>1, <1>4, <1>8, <1>9, <2>1, <2>3, WorkerTyping
  <1>18. CASE AckStep(w)
    <2>1. /\ UNCHANGED <<req, status, log, repair, ready, dlq, counted, registered, faults, sent>>
          /\ Ack(w)
      BY <1>18 DEF AckStep
    <2> QED
      BY <1>1, <1>6, <1>9, <2>1, WorkerTyping
  <1>19. CASE Defer(w)
    <2>1. /\ UNCHANGED <<req, status, log, repair, dlq, counted, registered, sent>>
          /\ Nack(w) /\ faults > 0 /\ faults' = faults - 1
      BY <1>19 DEF Defer
    <2>2. faults' \in 0 .. MaxFaults
      BY <1>1, <2>1, PushAssumption
    <2> QED
      BY <1>1, <1>5, <1>9, <2>1, <2>2, WorkerTyping
  <1> QED
    BY <1>10, <1>11, <1>12, <1>13, <1>14, <1>15, <1>16, <1>17, <1>18, <1>19

\* The steps of the feedback processor and of the retry scheduler keep the types.
LEMMA FeedbackTyping ==
  ASSUME Typing, NEW w \in Workers,
         \/ Feedback(w) \/ FeedbackDevice(w) \/ FeedbackUpsert(w) \/ FeedbackCount(w)
         \/ FeedbackSchedule(w) \/ FeedbackMark(w) \/ RetryBegin(w) \/ RetryLock(w) \/ RetryProduce(w)
         \/ RetryTerminal(w) \/ RetryRecord(w) \/ RetryCount(w) \/ RetryFinish(w)
  PROVE  Typing'
  <1> USE DEF store, queue
  <1> DEFINE m == wk[w].m
             p == m.pub
  <1>1. /\ ready \subseteq Message(Known) /\ inflight \subseteq Message(Known)
        /\ dlq \subseteq Message(Known) /\ counted \subseteq Message(Known)
        /\ registered \subseteq Devices /\ faults \in 0 .. MaxFaults
        /\ wk \in [Workers -> Job(Known) \cup {Idle}]
        /\ sent \in [Publishes \X Devices \X (1 .. MaxAttempts) -> Nat]
    BY DEF Typing
  <1>2. wk[w].pc # "idle"
    BY DEF Feedback, FeedbackDevice, FeedbackUpsert, FeedbackCount, FeedbackSchedule, FeedbackMark,
           RetryBegin, RetryLock, RetryProduce, RetryTerminal, RetryRecord, RetryCount, RetryFinish
  <1>3. /\ m \in Message(Known) /\ p \in Known /\ m.batch \in Seq(Labels) /\ m.devs \subseteq Devices
        /\ m.attempt \in Nat /\ (m.out # "-" => m.devs # {})
    BY <1>2, BusyJob, MessageFields
  <1>4. status[p] \in StatusRows /\ p \in Publishes
    BY <1>3, KnownRow
  <1>5. \A x \in Message(Known) : Produce(x) => ready' \subseteq Message(Known)
    BY QueueTyping
  <1>6. Nack(w) => /\ ready' \subseteq Message(Known) /\ inflight' \subseteq Message(Known)
                   /\ wk' \in [Workers -> Job(Known) \cup {Idle}]
    BY <1>2, QueueTyping, DropWk DEF Nack
  <1>7. Ack(w) => inflight' \subseteq Message(Known) /\ wk' \in [Workers -> Job(Known) \cup {Idle}]
    BY <1>2, QueueTyping, AckWk
  <1>8. DeadLetter(w) => /\ inflight' \subseteq Message(Known) /\ dlq' \subseteq Message(Known)
                         /\ wk' \in [Workers -> Job(Known) \cup {Idle}]
    BY <1>2, <1>7, QueueTyping DEF DeadLetter
  <1>9. \A pc \in BusyPcs \ {"emit", "schedule"} :
           Goto(w, pc) => wk' \in [Workers -> Job(Known) \cup {Idle}]
    BY <1>2, GotoWk
  <1>10. {"device", "upsert", "count", "markScheduled"} \cup RetryPcs \subseteq BusyPcs \ {"emit", "schedule"}
    BY DEF BusyPcs, RetryPcs
  <1>11. UNCHANGED status => Known' = Known /\ status' \in [Publishes -> StatusRows \cup {NoStatus}]
    BY SameKnown
  <1>12. \A row \in StatusRows : status' = [status EXCEPT ![p] = row] =>
           Known' = Known /\ status' \in [Publishes -> StatusRows \cup {NoStatus}]
    BY <1>3, StatusStep
  <1>13. status \in [Publishes -> StatusRows \cup {NoStatus}]
    BY DEF Typing
  <1> HIDE DEF m, p
  <1>14. CASE Feedback(w)
    <2>1. /\ UNCHANGED <<req, status, log, repair, ready, dlq, counted, registered, faults, sent>>
          /\ Ack(w) \/ (Goto(w, "device") /\ UNCHANGED inflight)
      BY <1>14 DEF Feedback
    <2> QED
      BY <1>1, <1>7, <1>9, <1>10, <1>11, <2>1, WorkerTyping
  <1>15. CASE FeedbackDevice(w)
    <2>1. /\ UNCHANGED <<req, status, log, repair, ready, inflight, dlq, counted, faults, sent>>
          /\ Goto(w, "count") \/ Goto(w, "upsert")
          /\ registered' \subseteq registered
      BY <1>15 DEF FeedbackDevice
    <2> QED
      BY <1>1, <1>9, <1>10, <1>11, <2>1, WorkerTyping
  <1>16. CASE FeedbackUpsert(w)
    <2>1. /\ UNCHANGED <<req, status, log, repair, ready, inflight, dlq, counted, faults, sent>>
          /\ Goto(w, "count")
          /\ registered' = registered \cup m.devs
      BY <1>16 DEF FeedbackUpsert, m
    <2> QED
      BY <1>1, <1>3, <1>9, <1>10, <1>11, <2>1, WorkerTyping
  <1>17. CASE FeedbackCount(w)
    <2> DEFINE row == CASE m.out = "accepted" -> Count(status[p], "succeeded")
                        [] m.out \in {"invalid", "rejected"} -> Count(status[p], "failed")
                        [] m.out = "expired" -> Count(status[p], "expired")
                        [] OTHER -> [status[p] EXCEPT !.state = Resolve(status[p])]
    <2>1. /\ UNCHANGED <<req, log, repair, ready, dlq, registered, faults, sent>>
          /\ status' = [status EXCEPT ![p] = row] /\ counted' = counted \cup {m}
          /\ Ack(w) \/ (m.out = "retryable" /\ Goto(w, "schedule") /\ UNCHANGED inflight)
      BY <1>4, <1>13, <1>17 DEF FeedbackCount, m, p
    <2>2. row \in StatusRows
      <3>1. \A f \in {"succeeded", "failed", "expired"} : Count(status[p], f) \in StatusRows
        BY <1>4, CountRow
      <3>2. [status[p] EXCEPT !.state = Resolve(status[p])] \in StatusRows
        <4>1. Resolve(status[p]) \in TerminalStates \cup {status[p].state}
          BY ResolveState
        <4> HIDE DEF Resolve
        <4> QED
          BY <1>4, <4>1 DEF StatusRows
      <3> QED
        BY <3>1, <3>2
    <2> HIDE DEF row
    <2>3. Known' = Known /\ status' \in [Publishes -> StatusRows \cup {NoStatus}]
      BY <1>12, <2>1, <2>2
    <2>4. m.out = "retryable" /\ Goto(w, "schedule") => wk' \in [Workers -> Job(Known) \cup {Idle}]
      BY <1>2, <1>3, GotoWk DEF BusyPcs, m
    <2>5. counted' \subseteq Message(Known)
      BY <1>1, <1>3, <2>1
    <2> QED
      BY <1>1, <1>7, <2>1, <2>3, <2>4, <2>5, WorkerTyping
  <1>18. CASE FeedbackSchedule(w)
    <2>1. /\ UNCHANGED <<req, status, log, repair, inflight, dlq, counted, registered, faults, sent>>
          /\ Produce(RetryMsg(p, m.batch, Device(m), m.attempt + 1)) /\ Goto(w, "markScheduled")
          /\ wk[w].pc = "schedule"
      BY <1>18 DEF FeedbackSchedule, m, p
    <2>2. Device(m) \in Devices
      <3>1. m.devs # {}
        BY <1>2, <2>1, BusyJob DEF m
      <3> QED
        BY <1>3, <3>1 DEF Device
    <2>3. RetryMsg(p, m.batch, Device(m), m.attempt + 1) \in Message(Known)
      <3>1. m.attempt + 1 \in Nat /\ "expired" \in Answers \cup {"expired"}
        BY <1>3
      <3> QED
        BY <1>3, <2>2, <3>1, BuiltMessages
    <2> QED
      BY <1>1, <1>5, <1>9, <1>10, <1>11, <2>1, <2>3, WorkerTyping
  <1>19. CASE FeedbackMark(w)
    <2> DEFINE row == [status[p] EXCEPT !.scheduled = status[p].scheduled + 1]
    <2>1. /\ UNCHANGED <<req, log, repair, ready, dlq, counted, registered, faults, sent>>
          /\ status' = [status EXCEPT ![p] = row] /\ Ack(w)
      BY <1>4, <1>13, <1>19 DEF FeedbackMark, m, p
    <2>2. row \in StatusRows
      BY <1>4 DEF StatusRows
    <2> HIDE DEF row
    <2> QED
      BY <1>1, <1>7, <1>12, <2>1, <2>2, WorkerTyping
  <1>20. CASE RetryBegin(w) \/ RetryLock(w)
    <2>1. /\ UNCHANGED <<req, status, log, repair, dlq, counted, registered, faults, sent>>
          /\ \/ Ack(w) /\ UNCHANGED ready
             \/ Nack(w)
             \/ Goto(w, "retryLock") /\ UNCHANGED <<ready, inflight>>
             \/ Goto(w, RetryRoute(m)) /\ UNCHANGED <<ready, inflight>>
      BY <1>20 DEF RetryBegin, RetryLock, m
    <2>2. RetryRoute(m) \in RetryPcs /\ "retryLock" \in RetryPcs
      BY DEF RetryRoute, RetryPcs
    <2> QED
      BY <1>1, <1>6, <1>7, <1>9, <1>10, <1>11, <2>1, <2>2, WorkerTyping
  <1>21. CASE RetryProduce(w)
    <2>1. /\ UNCHANGED <<req, status, log, repair, inflight, dlq, counted, registered, faults, sent>>
          /\ Produce(Successor(m)) /\ Goto(w, "record")
      BY <1>21 DEF RetryProduce, m
    <2>2. Successor(m) \in Message(Known)
      <3>1. m.batch \o <<"retry", m.attempt>> \in Seq(Labels)
        BY <1>3, LabelSeq
      <3>2. m.devs \in SUBSET Devices
        BY <1>3
      <3> QED
        BY <1>3, <3>1, <3>2, BuiltMessages DEF Successor, p
    <2>3. "record" \in RetryPcs
      BY DEF RetryPcs
    <2> QED
      BY <1>1, <1>5, <1>9, <1>10, <1>11, <2>1, <2>2, <2>3, WorkerTyping
  <1>22. CASE RetryTerminal(w)
    <2> DEFINE f == IF wk[w].pc = "terminalExpired" THEN "expired" ELSE "dead"
    <2>1. /\ UNCHANGED <<req, log, repair, ready, inflight, dlq, counted, registered, faults, sent>>
          /\ status' = [status EXCEPT ![p] = Count(status[p], f)] /\ Goto(w, "terminal")
      BY <1>4, <1>13, <1>22 DEF RetryTerminal, m, p
    <2>2. Count(status[p], f) \in StatusRows
      BY <1>4, CountRow
    <2>3. "terminal" \in RetryPcs
      BY DEF RetryPcs
    <2> QED
      BY <1>1, <1>9, <1>10, <1>12, <2>1, <2>2, <2>3, WorkerTyping
  <1>23. CASE RetryRecord(w)
    <2>1. /\ UNCHANGED <<req, status, log, repair, ready, inflight, dlq, counted, registered, faults, sent>>
          /\ \E pc \in RetryPcs : Goto(w, pc)
      BY <1>23 DEF RetryRecord, RetryPcs
    <2> QED
      BY <1>1, <1>9, <1>10, <1>11, <2>1, WorkerTyping
  <1>24. CASE RetryCount(w)
    <2> DEFINE one == [status[p] EXCEPT !.attempted = status[p].attempted + 1]
               two == [one EXCEPT !.state = "dispatching"]
    <2>1. /\ UNCHANGED <<req, log, repair, ready, inflight, dlq, counted, registered, faults, sent>>
          /\ Goto(w, "retryAck")
      BY <1>24 DEF RetryCount
    <2>2. \/ status' = [status EXCEPT ![p] = one]
          \/ status' = [status EXCEPT ![p] = two]
          \/ status' = [status EXCEPT ![p] = status[p]]
      <3>1. two = [status[p] EXCEPT !.attempted = status[p].attempted + 1, !.state = "dispatching"]
        BY <1>4 DEF StatusRows
      <3> QED
        BY <1>4, <1>13, <1>24, <3>1 DEF RetryCount, m, p
    <2>3. one \in StatusRows
      BY <1>4 DEF StatusRows
    <2> HIDE DEF one
    <2>4. two \in StatusRows
      BY <2>3 DEF StatusRows
    <2> HIDE DEF two
    <2>5. "retryAck" \in RetryPcs
      BY DEF RetryPcs
    <2> QED
      BY <1>1, <1>4, <1>9, <1>10, <1>12, <2>1, <2>2, <2>3, <2>4, <2>5, WorkerTyping
  <1>25. CASE RetryFinish(w)
    <2>1. /\ UNCHANGED <<req, status, log, repair, ready, counted, registered, faults, sent>>
          /\ (Ack(w) /\ UNCHANGED dlq) \/ DeadLetter(w)
      BY <1>25 DEF RetryFinish
    <2> QED
      BY <1>1, <1>7, <1>8, <1>11, <2>1, WorkerTyping
  <1> QED
    BY <1>14, <1>15, <1>16, <1>17, <1>18, <1>19, <1>20, <1>21, <1>22, <1>23, <1>24, <1>25

\* Every step keeps the types.
LEMMA StepTyping == Typing /\ [Next]_vars => Typing'
  <1> SUFFICES ASSUME Typing, [Next]_vars PROVE Typing'
    OBVIOUS
  <1> USE DEF store, queue
  <1>1. /\ ready \subseteq Message(Known) /\ inflight \subseteq Message(Known)
        /\ dlq \subseteq Message(Known) /\ counted \subseteq Message(Known)
        /\ registered \subseteq Devices /\ faults \in 0 .. MaxFaults
        /\ wk \in [Workers -> Job(Known) \cup {Idle}]
        /\ sent \in [Publishes \X Devices \X (1 .. MaxAttempts) -> Nat]
        /\ repair \subseteq Known /\ log \subseteq Known
    BY DEF Typing
  <1>2. UNCHANGED status => Known' = Known /\ status' \in [Publishes -> StatusRows \cup {NoStatus}]
    BY SameKnown
  <1>3. \A x \in Message(Known) : Produce(x) => ready' \subseteq Message(Known)
    BY QueueTyping
  <1>4. \A p \in Known : PublishMsg(p) \in Message(Known)
    <2>1. {} \in SUBSET Devices /\ <<>> \in Seq(Labels) /\ 0 \in Nat /\ "expired" \in Answers \cup {"expired"}
      OBVIOUS
    <2> QED
      BY <2>1, BuiltMessages
  <1>5. faults > 0 => faults - 1 \in 0 .. MaxFaults
    BY <1>1, PushAssumption
  <1>6. ASSUME NEW r \in Requests, Accept(r) \/ AcceptAbort(r) PROVE Typing'
    BY <1>6, AcceptTyping
  <1>7. ASSUME NEW w \in Workers, Consume(w) PROVE Typing'
    <2>1. PICK m \in ready : ready' = ready \ {m} /\ inflight' = inflight \cup {m}
                             /\ wk' = Start(w, m, FirstPc[m.stage])
      BY <1>7 DEF Consume
    <2>2. UNCHANGED <<req, status, log, repair, dlq, counted, registered, faults, sent>>
      BY <1>7 DEF Consume
    <2>3. wk' \in [Workers -> Job(Known) \cup {Idle}]
      BY <1>1, <2>1, StartWk
    <2>4. ready' \subseteq Message(Known) /\ inflight' \subseteq Message(Known)
      BY <1>1, <2>1
    <2> QED
      BY <1>1, <1>2, <2>2, <2>3, <2>4, WorkerTyping
  <1>8. ASSUME NEW w \in Workers, Handle(w) \/ Defer(w) PROVE Typing'
    BY <1>8, PlanTyping, FeedbackTyping DEF Handle
  <1>9. ASSUME NEW w \in Workers, Crash(w) PROVE Typing'
    <2>1. /\ UNCHANGED <<req, status, log, repair, ready, inflight, dlq, counted, registered, sent>>
          /\ wk' = [wk EXCEPT ![w] = Idle] /\ faults > 0 /\ faults' = faults - 1
      BY <1>9 DEF Crash
    <2>2. wk' \in [Workers -> Job(Known) \cup {Idle}]
      BY <2>1, DropWk
    <2> QED
      BY <1>1, <1>2, <1>5, <2>1, <2>2, WorkerTyping
  <1>10. ASSUME NEW w \in Workers, StoreError(w) PROVE Typing'
    <2>1. /\ UNCHANGED <<req, status, log, repair, ready, counted, registered, sent>>
          /\ faults > 0 /\ faults' = faults - 1 /\ wk[w].pc # "idle"
          /\ \/ wk' = [wk EXCEPT ![w] = Idle] /\ UNCHANGED <<inflight, dlq>>
             \/ DeadLetter(w)
      BY <1>10 DEF StoreError, Busy
    <2>2. /\ wk' \in [Workers -> Job(Known) \cup {Idle}]
          /\ inflight' \subseteq Message(Known) /\ dlq' \subseteq Message(Known)
      <3>1. CASE wk' = [wk EXCEPT ![w] = Idle] /\ UNCHANGED <<inflight, dlq>>
        BY <1>1, <3>1, DropWk
      <3>2. CASE DeadLetter(w)
        BY <2>1, <3>2, AckWk, QueueTyping DEF DeadLetter
      <3> QED
        BY <2>1, <3>1, <3>2
    <2> QED
      BY <1>1, <1>2, <1>5, <2>1, <2>2, WorkerTyping
  <1>11. CASE RepairScan
    <2>1. /\ UNCHANGED <<req, status, log, ready, inflight, dlq, counted, registered, wk, faults, sent>>
          /\ \E p \in log : repair' = {p}
      BY <1>11 DEF RepairScan, RepairLook, RepairWindow
    <2> QED
      BY <1>1, <1>2, <2>1 DEF Typing
  <1>12. CASE RepairProduce
    <2>1. /\ UNCHANGED <<req, status, log, inflight, dlq, counted, registered, wk, faults, sent>>
          /\ repair' = {} /\ \E p \in repair : Produce(PublishMsg(p))
      BY <1>12 DEF RepairProduce
    <2>2. ready' \subseteq Message(Known)
      BY <1>1, <1>3, <1>4, <2>1
    <2> QED
      BY <1>1, <1>2, <2>1, <2>2 DEF Typing
  <1>13. CASE LeaseExpires
    <2>1. UNCHANGED <<req, status, log, repair, dlq, counted, registered, wk, sent>>
      BY <1>13 DEF LeaseExpires
    <2>2. PICK m \in inflight : /\ inflight' = inflight \ {m} /\ ready' = ready \cup {m}
                                /\ Handled(m) => faults > 0
                                /\ faults' = IF Handled(m) THEN faults - 1 ELSE faults
      BY <1>13 DEF LeaseExpires
    <2>3. faults' \in 0 .. MaxFaults
      BY <1>1, <1>5, <2>2
    <2>4. ready' \subseteq Message(Known) /\ inflight' \subseteq Message(Known)
      BY <1>1, <2>2
    <2> QED
      BY <1>1, <1>2, <2>1, <2>3, <2>4, WorkerTyping
  <1>14. CASE LockExpires
    <2>1. UNCHANGED <<req, status, log, repair, ready, inflight, dlq, counted, registered, wk, sent>>
      BY <1>14 DEF LockExpires
    <2>2. faults' = faults \/ (faults > 0 /\ faults' = faults - 1)
      BY <1>14 DEF LockExpires
    <2> QED
      BY <1>1, <1>2, <1>5, <2>1, <2>2, WorkerTyping
  <1>15. CASE Replay
    <2>1. /\ UNCHANGED <<req, status, log, repair, inflight, dlq, counted, registered, wk, sent>>
          /\ faults > 0 /\ faults' = faults - 1 /\ \E m \in dlq : Produce(m)
      BY <1>15 DEF Replay
    <2>2. ready' \subseteq Message(Known)
      BY <1>1, <1>3, <2>1
    <2> QED
      BY <1>1, <1>2, <1>5, <2>1, <2>2, WorkerTyping
  <1>16. CASE Deadline
    <2>1. UNCHANGED <<req, status, log, repair, ready, inflight, dlq, counted, registered, wk, faults, sent>>
      BY <1>16 DEF Deadline
    <2> QED
      BY <1>1, <1>2, <2>1, WorkerTyping
  <1>17. CASE UNCHANGED vars
    <2>1. UNCHANGED <<req, status, log, repair, ready, inflight, dlq, counted, registered, wk, faults, sent>>
      BY <1>17 DEF vars
    <2> QED
      BY <1>1, <1>2, <2>1, WorkerTyping
  <1> QED
    BY <1>6, <1>7, <1>8, <1>9, <1>10, <1>11, <1>12, <1>13, <1>14, <1>15, <1>16, <1>17 DEF Next

\* The types hold in every reachable state.
LEMMA AlwaysTyping == Spec => []Typing
  BY InitTyping, StepTyping, PTL DEF Spec

-----------------------------------------------------------------------------
(* The queue and the locks *)

\* A message is ready or leased, and a produced key is in the queue once.
QueueOK ==
    /\ ready \cap inflight = {}
    /\ \A x, y \in Queued : Key(x) = Key(y) => x = y

\* A lock id has one owner.
LocksOK ==
    /\ \A l \in locks : l = <<l[1], l[2]>>
    /\ \A x, y \in locks : x[1] = y[1] => x = y

\* What the calls of the queue do to it.
QueueCall ==
    \/ UNCHANGED <<ready, inflight>>
    \/ (\E m : Produce(m)) /\ UNCHANGED inflight
    \/ (\E w \in Workers : Ack(w)) /\ UNCHANGED ready
    \/ \E w \in Workers : Nack(w)
    \/ \E m \in ready : ready' = ready \ {m} /\ inflight' = inflight \cup {m}
    \/ \E m \in inflight : inflight' = inflight \ {m} /\ ready' = ready \cup {m}

\* Every call keeps the queue: a key that is still there is not produced again.
LEMMA QueueCallOK ==
  ASSUME QueueOK, QueueCall
  PROVE  QueueOK'
  <1>1. ready \cap inflight = {} /\ \A x, y \in ready \cup inflight : Key(x) = Key(y) => x = y
    BY DEF QueueOK, Queued
  <1>2. ASSUME ready' \cup inflight' \subseteq ready \cup inflight, ready' \cap inflight' = {}
        PROVE  QueueOK'
    <2>1. ready' \cap inflight' = {} /\ \A x, y \in ready' \cup inflight' : Key(x) = Key(y) => x = y
      BY <1>1, <1>2
    <2> QED
      BY <2>1 DEF QueueOK, Queued, Key
  <1>3. ASSUME NEW m, Produce(m), UNCHANGED inflight
        PROVE  QueueOK'
    <2>1. ready' = IF \E x \in ready \cup inflight : Key(x) = Key(m) THEN ready ELSE ready \cup {m}
      BY <1>3 DEF Produce, Enqueue
    <2>2. m \in ready \cup inflight => \E x \in ready \cup inflight : Key(x) = Key(m)
      OBVIOUS
    <2>3. /\ ready' \cap inflight' = {}
          /\ \A x, y \in ready' \cup inflight' : Key(x) = Key(y) => x = y
      BY <1>1, <1>3, <2>1, <2>2
    <2> QED
      BY <2>3 DEF QueueOK, Queued, Key
  <1>4. ASSUME NEW w \in Workers, Ack(w), UNCHANGED ready
        PROVE  ready' \cup inflight' \subseteq ready \cup inflight /\ ready' \cap inflight' = {}
    BY <1>1, <1>4 DEF Ack
  <1>5. ASSUME NEW w \in Workers, Nack(w)
        PROVE  ready' \cup inflight' \subseteq ready \cup inflight /\ ready' \cap inflight' = {}
    <2>1. CASE Leased(w)
      <3>1. wk[w].m \in inflight
        BY <2>1 DEF Leased
      <3>2. inflight' = inflight \ {wk[w].m} /\ ready' = ready \cup {wk[w].m}
        BY <1>5, <2>1 DEF Nack
      <3> QED
        BY <1>1, <3>1, <3>2
    <2>2. CASE ~Leased(w)
      BY <1>1, <1>5, <2>2 DEF Nack
    <2> QED
      BY <2>1, <2>2
  <1> QED
    BY <1>1, <1>2, <1>3, <1>4, <1>5 DEF QueueCall

\* Every step makes at most one call of the queue.
LEMMA StepQueueCall == [Next]_vars => QueueCall
  <1> SUFFICES ASSUME [Next]_vars PROVE QueueCall
    OBVIOUS
  <1> USE DEF store, queue
  <1>1. ASSUME NEW r \in Requests, Accept(r) \/ AcceptAbort(r) PROVE QueueCall
    <2>1. CASE AcceptProduce(r)
      BY <2>1 DEF AcceptProduce, QueueCall
    <2>2. CASE AcceptLookup(r) \/ AcceptCreate(r) \/ AcceptRecord(r) \/ AcceptAppend(r) \/ AcceptAbort(r)
      BY <2>2 DEF AcceptLookup, AcceptCreate, AcceptRecord, AcceptAppend, AcceptAbort, QueueCall
    <2> QED
      BY <1>1, <2>1, <2>2 DEF Accept
  <1>2. ASSUME NEW w \in Workers, Consume(w) PROVE QueueCall
    BY <1>2 DEF Consume, QueueCall
  <1>3. ASSUME NEW w \in Workers, Handle(w) PROVE QueueCall
    <2>1. CASE PlanMark(w) \/ PlanFinish(w) \/ ShardStream(w) \/ Dispatch(w) \/ FeedbackDevice(w)
               \/ FeedbackUpsert(w) \/ RetryTerminal(w) \/ RetryRecord(w) \/ RetryCount(w)
      BY <2>1 DEF PlanMark, PlanFinish, ShardStream, Dispatch, FeedbackDevice, FeedbackUpsert,
                  RetryTerminal, RetryRecord, RetryCount, QueueCall
    <2>2. CASE PlanUnlock(w) \/ AckStep(w) \/ FeedbackMark(w) \/ RetryFinish(w)
      BY <2>2 DEF PlanUnlock, AckStep, FeedbackMark, RetryFinish, DeadLetter, QueueCall
    <2>3. CASE Emit(w) \/ FeedbackSchedule(w) \/ RetryProduce(w)
      BY <2>3 DEF Emit, FeedbackSchedule, RetryProduce, QueueCall
    <2>4. CASE PlanBegin(w) \/ PlanRecheck(w) \/ Feedback(w) \/ FeedbackCount(w)
               \/ RetryBegin(w) \/ RetryLock(w)
      BY <2>4 DEF PlanBegin, PlanRecheck, Feedback, FeedbackCount, RetryBegin, RetryLock, QueueCall
    <2> QED
      BY <1>3, <2>1, <2>2, <2>3, <2>4 DEF Handle
  <1>4. ASSUME NEW w \in Workers, Defer(w) \/ Crash(w) \/ StoreError(w) PROVE QueueCall
    BY <1>4 DEF Defer, Crash, StoreError, DeadLetter, QueueCall
  <1>5. ASSUME RepairScan \/ RepairProduce \/ Replay \/ Deadline \/ LockExpires PROVE QueueCall
    BY <1>5 DEF RepairScan, RepairLook, RepairProduce, Replay, Deadline, LockExpires, QueueCall
  <1>6. ASSUME LeaseExpires PROVE QueueCall
    BY <1>6 DEF LeaseExpires, QueueCall
  <1>7. CASE UNCHANGED vars
    BY <1>7 DEF vars, QueueCall
  <1> QED
    BY <1>1, <1>2, <1>3, <1>4, <1>5, <1>6, <1>7 DEF Next

\* A step that takes a lock first finds it free or its own.
LEMMA StepLocks == [Next]_vars => locks' \subseteq locks
                                  \/ \E id, w : CanLock(id, w) /\ Acquire(id, w)
  <1> SUFFICES ASSUME [Next]_vars
               PROVE  locks' \subseteq locks \/ \E id, w : CanLock(id, w) /\ Acquire(id, w)
    OBVIOUS
  <1> USE DEF store, queue
  <1>1. ASSUME NEW r \in Requests, Accept(r) \/ AcceptAbort(r) PROVE locks' \subseteq locks
    BY <1>1 DEF Accept, AcceptProduce, AcceptLookup, AcceptCreate, AcceptRecord, AcceptAppend, AcceptAbort
  <1>2. ASSUME NEW w \in Workers, Handle(w)
        PROVE  locks' \subseteq locks \/ \E id : CanLock(id, w) /\ Acquire(id, w)
    <2>1. CASE PlanMark(w) \/ PlanFinish(w) \/ ShardStream(w) \/ Dispatch(w) \/ FeedbackDevice(w)
               \/ FeedbackUpsert(w) \/ RetryTerminal(w) \/ RetryRecord(w) \/ RetryCount(w)
      BY <2>1 DEF PlanMark, PlanFinish, ShardStream, Dispatch, FeedbackDevice, FeedbackUpsert,
                  RetryTerminal, RetryRecord, RetryCount
    <2>2. CASE PlanUnlock(w) \/ AckStep(w) \/ FeedbackMark(w) \/ RetryFinish(w) \/ PlanRecheck(w)
      BY <2>2 DEF PlanUnlock, AckStep, FeedbackMark, RetryFinish, PlanRecheck, Release
    <2>3. CASE Emit(w) \/ FeedbackSchedule(w) \/ RetryProduce(w) \/ Feedback(w) \/ FeedbackCount(w)
      BY <2>3 DEF Emit, FeedbackSchedule, RetryProduce, Feedback, FeedbackCount
    <2>4. CASE PlanBegin(w) \/ RetryBegin(w) \/ RetryLock(w)
      BY <2>4 DEF PlanBegin, RetryBegin, RetryLock
    <2> QED
      BY <1>2, <2>1, <2>2, <2>3, <2>4 DEF Handle
  <1>3. ASSUME NEW w \in Workers, Consume(w) \/ Defer(w) \/ Crash(w) \/ StoreError(w)
        PROVE  locks' \subseteq locks
    BY <1>3 DEF Consume, Defer, Crash, StoreError, Release
  <1>4. ASSUME RepairScan \/ RepairProduce \/ Replay \/ Deadline \/ LeaseExpires \/ LockExpires
        PROVE  locks' \subseteq locks
    BY <1>4 DEF RepairScan, RepairLook, RepairProduce, Replay, Deadline, LeaseExpires, LockExpires
  <1>5. CASE UNCHANGED vars
    BY <1>5 DEF vars
  <1> QED
    BY <1>1, <1>2, <1>3, <1>4, <1>5 DEF Next

\* Queue and locks keep their constraints.
LEMMA AlwaysQueueAndLocks == Spec => [](QueueOK /\ LocksOK)
  <1>1. Init => QueueOK /\ LocksOK
    BY DEF Init, QueueOK, LocksOK, Queued
  <1>2. QueueOK /\ [Next]_vars => QueueOK'
    BY StepQueueCall, QueueCallOK
  <1>3. LocksOK /\ [Next]_vars => LocksOK'
    <2> SUFFICES ASSUME LocksOK, [Next]_vars PROVE LocksOK'
      OBVIOUS
    <2>1. CASE locks' \subseteq locks
      BY <2>1 DEF LocksOK
    <2>2. ASSUME NEW id, NEW w, CanLock(id, w), Acquire(id, w) PROVE LocksOK'
      <3> DEFINE new == <<id, Owner[w]>>
      <3>1. new[1] = id /\ new = <<new[1], new[2]>> /\ locks' = locks \cup {new}
        BY <2>2 DEF Acquire
      <3>2. \A l \in locks : l[1] = id => l = new
        BY <2>2 DEF LocksOK, CanLock
      <3> HIDE DEF new
      <3> QED
        BY <3>1, <3>2 DEF LocksOK
    <2> QED
      BY <2>1, <2>2, StepLocks
  <1> QED
    BY <1>1, <1>2, <1>3, PTL DEF Spec

\* Types: rows, messages and jobs have their fields, a produced key is in the
\* queue once and on one side of a lease, and a lock id has one owner, for
\* every number of publishes, devices, workers and faults.
THEOREM TypeCorrect == Spec => []TypeOK
  <1>1. Typing /\ QueueOK /\ LocksOK => TypeOK
    <2> SUFFICES ASSUME Typing, QueueOK, LocksOK PROVE TypeOK
      OBVIOUS
    <2>1. \A p \in Publishes : status[p] = NoStatus \/ status[p] \in StatusRows
      BY DEF Typing
    <2>2. log \subseteq Publishes /\ registered \subseteq Devices /\ faults \in 0 .. MaxFaults
      BY DEF Typing, Known
    <2>3. \A w \in Workers : Busy(w) => wk[w].token \in BOOLEAN
      BY BusyJob DEF Busy
    <2>4. sent \in [Publishes \X Devices \X (1 .. MaxAttempts) -> Nat]
      BY DEF Typing
    <2>5. /\ ready \cap inflight = {}
          /\ \A x, y \in Queued : Key(x) = Key(y) => x = y
          /\ \A x, y \in locks : x[1] = y[1] => x = y
      BY DEF QueueOK, LocksOK
    <2> QED
      BY <2>1, <2>2, <2>3, <2>4, <2>5 DEF TypeOK
  <1> QED
    BY <1>1, AlwaysTyping, AlwaysQueueAndLocks, PTL

-----------------------------------------------------------------------------
(* The lifecycle of a publish *)

\* What a step may do to a row.
Lifecycle(s, t) ==
    /\ s.state \in TerminalStates => t.state \in TerminalStates
    /\ s.state = "dispatching" => t.state \notin {"queued", "planning"}
SameOutcomes(s, t) == t.succeeded = s.succeeded /\ t.failed = s.failed

\* No step but FeedbackCount writes the outcome counters or the set of applied
\* results, and none but AcceptCreate makes a row.
StatusStepOf ==
    \/ \E r \in Requests : AcceptCreate(r) /\ UNCHANGED counted
    \/ \E w \in Workers : FeedbackCount(w)
    \/ UNCHANGED <<status, counted>>
    \/ /\ UNCHANGED counted
       /\ \E p \in Known, row \in StatusRows :
             /\ status' = [status EXCEPT ![p] = row]
             /\ Lifecycle(status[p], row) /\ SameOutcomes(status[p], row)

\* mark_state respects the lifecycle.
LEMMA MarkLifecycle ==
  ASSUME Typing, NEW p \in Known, NEW to \in {"planning", "dispatching"}, MarkState(p, to),
         UNCHANGED counted
  PROVE  StatusStepOf
  <1>1. status[p] \in StatusRows /\ p \in Publishes
    BY KnownRow
  <1>2. CASE CanTransition(status[p].state, to)
    <2> DEFINE row == [status[p] EXCEPT !.state = to]
    <2>1. status' = [status EXCEPT ![p] = row]
      BY <1>1, <1>2 DEF MarkState, Typing
    <2>2. row \in StatusRows /\ row.state = to /\ SameOutcomes(status[p], row)
      BY <1>1 DEF StatusRows, SameOutcomes
    <2>3. /\ status[p].state \notin TerminalStates
          /\ status[p].state = "dispatching" => to = "dispatching"
      BY <1>2 DEF CanTransition, TerminalStates
    <2> HIDE DEF row
    <2> QED
      BY <2>1, <2>2, <2>3 DEF StatusStepOf, Lifecycle
  <1>3. CASE ~CanTransition(status[p].state, to)
    BY <1>3 DEF MarkState, StatusStepOf
  <1> QED
    BY <1>2, <1>3

\* Every step writes a status in one of these ways.
LEMMA StatusSteps == Typing /\ [Next]_vars => StatusStepOf
  <1> SUFFICES ASSUME Typing, [Next]_vars PROVE StatusStepOf
    OBVIOUS
  <1> USE DEF store, queue
  <1>1. ASSUME NEW w \in Workers, wk[w].pc # "idle"
        PROVE  /\ wk[w].m.pub \in Known /\ wk[w].m.pub \in Publishes
               /\ status[wk[w].m.pub] \in StatusRows
    BY <1>1, BusyJob, MessageFields, KnownRow
  <1>2. status \in [Publishes -> StatusRows \cup {NoStatus}]
    BY DEF Typing
  <1>3. ASSUME NEW r \in Requests, Accept(r) \/ AcceptAbort(r) PROVE StatusStepOf
    BY <1>3 DEF Accept, AcceptProduce, AcceptLookup, AcceptCreate, AcceptRecord, AcceptAppend,
                AcceptAbort, StatusStepOf
  <1>4. ASSUME NEW w \in Workers, PlanMark(w) \/ PlanFinish(w) PROVE StatusStepOf
    <2>1. /\ wk[w].pc # "idle" /\ UNCHANGED counted
          /\ \E to \in {"planning", "dispatching"} : MarkState(wk[w].m.pub, to)
      BY <1>4 DEF PlanMark, PlanFinish
    <2> QED
      BY <1>1, <2>1, MarkLifecycle
  <1>5. ASSUME NEW w \in Workers, FeedbackMark(w) PROVE StatusStepOf
    <2> DEFINE p == wk[w].m.pub
               row == [status[p] EXCEPT !.scheduled = status[p].scheduled + 1]
    <2>1. wk[w].pc # "idle" /\ UNCHANGED counted
      BY <1>5 DEF FeedbackMark
    <2>2. p \in Known /\ status[p] \in StatusRows /\ p \in Publishes
      BY <1>1, <2>1
    <2>3. status' = [status EXCEPT ![p] = row]
      BY <1>2, <1>5, <2>2 DEF FeedbackMark
    <2>4. row \in StatusRows /\ Lifecycle(status[p], row) /\ SameOutcomes(status[p], row)
      BY <2>2 DEF StatusRows, Lifecycle, SameOutcomes
    <2> HIDE DEF p, row
    <2> QED
      BY <2>1, <2>2, <2>3, <2>4 DEF StatusStepOf
  <1>6. ASSUME NEW w \in Workers, RetryTerminal(w) PROVE StatusStepOf
    <2> DEFINE p == wk[w].m.pub
               f == IF wk[w].pc = "terminalExpired" THEN "expired" ELSE "dead"
               row == Count(status[p], f)
    <2>1. wk[w].pc # "idle" /\ UNCHANGED counted
      BY <1>6 DEF RetryTerminal
    <2>2. p \in Known /\ status[p] \in StatusRows /\ p \in Publishes
      BY <1>1, <2>1
    <2>3. status' = [status EXCEPT ![p] = row]
      BY <1>2, <1>6, <2>2 DEF RetryTerminal
    <2>4. /\ row \in StatusRows /\ row.state \in TerminalStates \cup {status[p].state}
          /\ row.succeeded = status[p].succeeded + 0 /\ row.failed = status[p].failed + 0
      BY <2>2, CountRow
    <2>5. status[p].succeeded \in Nat /\ status[p].failed \in Nat
      BY <2>2 DEF StatusRows
    <2> HIDE DEF p, row
    <2>6. Lifecycle(status[p], row) /\ SameOutcomes(status[p], row)
      BY <2>4, <2>5 DEF Lifecycle, SameOutcomes, TerminalStates
    <2> QED
      BY <2>1, <2>2, <2>3, <2>4, <2>6 DEF StatusStepOf
  <1>7. ASSUME NEW w \in Workers, RetryCount(w) PROVE StatusStepOf
    <2> DEFINE p == wk[w].m.pub
               one == [status[p] EXCEPT !.attempted = status[p].attempted + 1]
               two == [one EXCEPT !.state = "dispatching"]
    <2>1. wk[w].pc # "idle" /\ UNCHANGED counted
      BY <1>7 DEF RetryCount
    <2>2. p \in Known /\ status[p] \in StatusRows /\ p \in Publishes
      BY <1>1, <2>1
    <2>3. \/ status' = [status EXCEPT ![p] = one]
          \/ status' = [status EXCEPT ![p] = two] /\ CanTransition(status[p].state, "dispatching")
          \/ status' = status
      <3>1. two = [status[p] EXCEPT !.attempted = status[p].attempted + 1, !.state = "dispatching"]
        BY <2>2 DEF StatusRows
      <3> QED
        BY <1>2, <1>7, <2>2, <3>1 DEF RetryCount
    <2>4. one \in StatusRows /\ one.state = status[p].state /\ SameOutcomes(status[p], one)
      BY <2>2 DEF StatusRows, SameOutcomes
    <2> HIDE DEF one
    <2>5. two \in StatusRows /\ two.state = "dispatching" /\ SameOutcomes(status[p], two)
      BY <2>4 DEF StatusRows, SameOutcomes
    <2> HIDE DEF two
    <2>6. Lifecycle(status[p], one)
      BY <2>4 DEF Lifecycle, TerminalStates
    <2>7. CanTransition(status[p].state, "dispatching") => Lifecycle(status[p], two)
      BY <2>5 DEF Lifecycle, CanTransition, TerminalStates
    <2> HIDE DEF p
    <2> QED
      BY <2>1, <2>2, <2>3, <2>4, <2>5, <2>6, <2>7 DEF StatusStepOf
  <1>8. ASSUME NEW w \in Workers, Handle(w) PROVE StatusStepOf
    <2>1. CASE PlanBegin(w) \/ PlanRecheck(w) \/ PlanUnlock(w) \/ ShardStream(w) \/ Dispatch(w)
               \/ Emit(w) \/ AckStep(w)
      BY <2>1 DEF PlanBegin, PlanRecheck, PlanUnlock, ShardStream, Dispatch, Emit, AckStep, StatusStepOf
    <2>2. CASE Feedback(w) \/ FeedbackDevice(w) \/ FeedbackUpsert(w) \/ FeedbackSchedule(w)
               \/ RetryBegin(w) \/ RetryLock(w) \/ RetryProduce(w) \/ RetryRecord(w) \/ RetryFinish(w)
      BY <2>2 DEF Feedback, FeedbackDevice, FeedbackUpsert, FeedbackSchedule, RetryBegin, RetryLock,
                  RetryProduce, RetryRecord, RetryFinish, StatusStepOf
    <2>3. CASE FeedbackCount(w)
      BY <2>3 DEF StatusStepOf
    <2> QED
      BY <1>4, <1>5, <1>6, <1>7, <1>8, <2>1, <2>2, <2>3 DEF Handle
  <1>9. ASSUME NEW w \in Workers, Consume(w) \/ Defer(w) \/ Crash(w) \/ StoreError(w) PROVE StatusStepOf
    BY <1>9 DEF Consume, Defer, Crash, StoreError, StatusStepOf
  <1>10. ASSUME RepairScan \/ RepairProduce \/ Replay \/ Deadline \/ LeaseExpires \/ LockExpires
         PROVE  StatusStepOf
    BY <1>10 DEF RepairScan, RepairLook, RepairProduce, Replay, Deadline, LeaseExpires, LockExpires,
                 StatusStepOf
  <1>11. CASE UNCHANGED vars
    BY <1>11 DEF vars, StatusStepOf
  <1> QED
    BY <1>3, <1>8, <1>9, <1>10, <1>11 DEF Next

\* update_publish_status writes the row of the result's publish: an outcome is
\* added to its counter, a retryable answer to none.
LEMMA CountStep ==
  ASSUME Typing, NEW w \in Workers, FeedbackCount(w)
  PROVE  LET m == wk[w].m
             p == m.pub
         IN  /\ m \in Message(Known) /\ p \in Known /\ p \in Publishes
             /\ counted' = counted \cup {m}
             /\ \E row \in StatusRows :
                   /\ status' = [status EXCEPT ![p] = row]
                   /\ Lifecycle(status[p], row) /\ row.state \in TerminalStates \cup {status[p].state}
                   /\ row.succeeded = status[p].succeeded + (IF m.out = "accepted" THEN 1 ELSE 0)
                   /\ row.failed = status[p].failed + (IF m.out \in {"invalid", "rejected"} THEN 1 ELSE 0)
  <1> DEFINE m == wk[w].m
             p == m.pub
  <1>1. wk[w].pc # "idle" /\ counted' = counted \cup {m}
    BY DEF FeedbackCount
  <1>2. m \in Message(Known) /\ p \in Known /\ p \in Publishes /\ status[p] \in StatusRows
    BY <1>1, BusyJob, MessageFields, KnownRow
  <1>3. status \in [Publishes -> StatusRows \cup {NoStatus}]
    BY DEF Typing
  <1> DEFINE row == CASE m.out = "accepted" -> Count(status[p], "succeeded")
                      [] m.out \in {"invalid", "rejected"} -> Count(status[p], "failed")
                      [] m.out = "expired" -> Count(status[p], "expired")
                      [] OTHER -> [status[p] EXCEPT !.state = Resolve(status[p])]
  <1>4. status' = [status EXCEPT ![p] = row]
    BY <1>2, <1>3 DEF FeedbackCount
  <1>5. \A f \in {"succeeded", "failed", "expired"} :
           LET c == Count(status[p], f)
           IN  /\ c \in StatusRows /\ c.state \in TerminalStates \cup {status[p].state}
               /\ c.succeeded = status[p].succeeded + (IF f = "succeeded" THEN 1 ELSE 0)
               /\ c.failed = status[p].failed + (IF f = "failed" THEN 1 ELSE 0)
    BY <1>2, CountRow
  <1>6. LET c == [status[p] EXCEPT !.state = Resolve(status[p])]
        IN  /\ c \in StatusRows /\ c.state \in TerminalStates \cup {status[p].state}
            /\ c.succeeded = status[p].succeeded + 0 /\ c.failed = status[p].failed + 0
    <2>1. Resolve(status[p]) \in TerminalStates \cup {status[p].state}
      BY ResolveState
    <2> HIDE DEF Resolve
    <2> QED
      BY <1>2, <2>1 DEF StatusRows
  <1>7. /\ row \in StatusRows /\ row.state \in TerminalStates \cup {status[p].state}
        /\ row.succeeded = status[p].succeeded + (IF m.out = "accepted" THEN 1 ELSE 0)
        /\ row.failed = status[p].failed + (IF m.out \in {"invalid", "rejected"} THEN 1 ELSE 0)
    <2>1. CASE m.out = "accepted"
      BY <1>5, <2>1
    <2>2. CASE m.out \in {"invalid", "rejected"}
      BY <1>5, <2>2
    <2>3. CASE m.out = "expired"
      BY <1>5, <2>3
    <2>4. CASE m.out \notin {"accepted", "invalid", "rejected", "expired"}
      BY <1>6, <2>4
    <2> QED
      BY <2>1, <2>2, <2>3, <2>4
  <1> HIDE DEF row
  <1>8. Lifecycle(status[p], row)
    BY <1>7 DEF Lifecycle, TerminalStates
  <1> QED
    BY <1>1, <1>2, <1>4, <1>7, <1>8

\* The lifecycle: no terminal publish becomes active again and no dispatching
\* one goes back to planning, however late a planner, a feedback worker or the
\* retry scheduler writes the state it decided on earlier.
THEOREM LifecycleForward == Spec => NeverReactivated
  <1>1. Typing /\ [Next]_vars =>
          [\A p \in Publishes :
             /\ status[p].state \in TerminalStates => status'[p].state \in TerminalStates
             /\ status[p].state = "dispatching" => status'[p].state \notin {"queued", "planning"}]_vars
    <2> SUFFICES ASSUME Typing, [Next]_vars, NEW p \in Publishes
                 PROVE  Lifecycle(status[p], status'[p])
      BY DEF Lifecycle
    <2>1. status \in [Publishes -> StatusRows \cup {NoStatus}]
      BY DEF Typing
    <2>2. \A s : Lifecycle(s, s)
      BY DEF Lifecycle, TerminalStates
    <2>3. \A t : Lifecycle(NoStatus, t)
      BY DEF Lifecycle, NoStatus, TerminalStates
    <2>4. CASE \E r \in Requests : AcceptCreate(r)
      <3>1. PICK r \in Requests :
              status' = [status EXCEPT ![Target[r]] = IF status[Target[r]] = NoStatus
                                                      THEN req[r].row ELSE status[Target[r]]]
        BY <2>4 DEF AcceptCreate
      <3>2. status[p] = NoStatus \/ status'[p] = status[p]
        BY <2>1, <3>1
      <3> QED
        BY <2>2, <2>3, <3>2
    <2>5. CASE \E q \in Known, row \in StatusRows :
                 status' = [status EXCEPT ![q] = row] /\ Lifecycle(status[q], row)
      BY <2>1, <2>2, <2>5
    <2>6. CASE UNCHANGED status
      BY <2>2, <2>6
    <2>7. CASE \E w \in Workers : FeedbackCount(w)
      BY <2>5, <2>7, CountStep
    <2> QED
      BY <2>4, <2>5, <2>6, <2>7, StatusSteps DEF StatusStepOf
  <1> QED
    BY <1>1, AlwaysTyping, PTL DEF Spec, NeverReactivated

-----------------------------------------------------------------------------
(* Each delivery result is counted once *)

\* A worker that is applying a result wrote its idempotency record itself, so
\* nobody else applies that result and it is not counted yet; a counted result
\* keeps its record for ever.
Once ==
    /\ \A w \in Workers : wk[w].pc \in ClaimPcs =>
          ResultEvent(wk[w].m) \in idem /\ wk[w].m \notin counted
    /\ \A v, w \in Workers : v # w /\ wk[v].pc \in ClaimPcs /\ wk[w].pc \in ClaimPcs =>
          wk[v].m # wk[w].m
    /\ \A m \in counted : ResultEvent(m) \in idem
    /\ IsFiniteSet(counted)

\* Steps that start no claim, count nothing and forget no record.
LEMMA OnceFrame ==
  ASSUME Once, SameClaims, idem \subseteq idem', UNCHANGED counted
  PROVE  Once'
  <1> HIDE DEF ClaimPcs
  <1>1. \A w \in Workers : wk'[w].pc \in ClaimPcs =>
          wk[w].pc \in ClaimPcs /\ wk'[w].m = wk[w].m
    BY DEF SameClaims
  <1>2. \A w \in Workers : wk'[w].pc \in ClaimPcs =>
          ResultEvent(wk'[w].m) \in idem' /\ wk'[w].m \notin counted'
    BY <1>1 DEF Once
  <1>3. \A v, w \in Workers : v # w /\ wk'[v].pc \in ClaimPcs /\ wk'[w].pc \in ClaimPcs =>
          wk'[v].m # wk'[w].m
    BY <1>1 DEF Once
  <1>4. (\A m \in counted' : ResultEvent(m) \in idem') /\ IsFiniteSet(counted')
    BY DEF Once
  <1> QED
    BY <1>2, <1>3, <1>4 DEF Once

\* Only Feedback and FeedbackCount do more than that.
LEMMA ClaimSteps ==
  ASSUME Typing, [Next]_vars
  PROVE  \/ SameClaims /\ idem \subseteq idem'
         \/ \E w \in Workers : Feedback(w) \/ FeedbackCount(w)
  <1> USE DEF store, queue
  <1> DEFINE Goal == SameClaims /\ idem \subseteq idem'
  <1>1. UNCHANGED wk => SameClaims
    BY DEF SameClaims
  <1>2. ASSUME NEW w \in Workers, wk[w].pc # "idle", NEW pc \in BusyPcs \ {"emit"}, Goto(w, pc),
               pc = "schedule" => wk[w].m.devs # {},
               pc \in ClaimPcs => wk[w].pc \in ClaimPcs
        PROVE  SameClaims
    <2>1. /\ \A v \in Workers \ {w} : wk'[v] = wk[v]
          /\ wk'[w].pc = pc /\ wk'[w].m = wk[w].m
      BY <1>2, GotoWk
    <2> QED
      BY <1>2, <2>1 DEF SameClaims
  <1>3. ASSUME NEW w \in Workers, wk[w].pc # "idle", Ack(w) \/ Nack(w) \/ DeadLetter(w)
        PROVE  SameClaims
    BY <1>3, AckWk, DropWk DEF Nack, DeadLetter
  <1>4. ASSUME NEW w \in Workers, wk[w].pc # "idle", NEW rest, EmitFrom(w, rest)
        PROVE  SameClaims
    <2> DEFINE pc == IF rest # <<>> THEN "emit"
                     ELSE IF wk[w].m.stage = "publish" THEN "markDispatching" ELSE "ack"
    <2>1. wk \in [Workers -> Job(Known) \cup {Idle}] /\ wk[w] \in Job(Known)
      BY <1>4, BusyJob DEF Typing
    <2>2. pc \notin ClaimPcs
      BY DEF ClaimPcs
    <2>3. wk' = [wk EXCEPT ![w].rest = rest, ![w].pc = pc]
      BY <1>4 DEF EmitFrom
    <2> HIDE DEF pc
    <2>4. wk'[w].pc = pc /\ \A v \in Workers \ {w} : wk'[v] = wk[v]
      BY <2>1, <2>3 DEF Job
    <2> QED
      BY <2>2, <2>4 DEF SameClaims
  <1>5. ASSUME NEW r \in Requests, Accept(r) \/ AcceptAbort(r) PROVE Goal
    <2>1. UNCHANGED wk /\ idem \subseteq idem'
      BY <1>5 DEF Accept, AcceptProduce, AcceptLookup, AcceptCreate, AcceptRecord, AcceptAppend, AcceptAbort
    <2> QED
      BY <1>1, <2>1
  <1>6. ASSUME NEW w \in Workers, Consume(w) PROVE Goal
    <2>1. PICK m \in ready : wk' = Start(w, m, FirstPc[m.stage])
      BY <1>6 DEF Consume
    <2>2. m \in Message(Known)
      BY DEF Typing
    <2>3. idem' = idem
      BY <1>6 DEF Consume
    <2> QED
      BY <2>1, <2>2, <2>3, StartWk
  <1>7. ASSUME NEW w \in Workers,
               \/ PlanBegin(w) \/ PlanRecheck(w) \/ PlanMark(w) \/ PlanFinish(w) \/ PlanUnlock(w)
               \/ ShardStream(w) \/ Dispatch(w) \/ Emit(w) \/ AckStep(w) \/ Defer(w)
        PROVE  Goal
    <2>1. /\ wk[w].pc # "idle" /\ idem' = idem
          /\ \/ Ack(w) \/ Nack(w) \/ (\E rest : EmitFrom(w, rest))
             \/ \E pc \in {"recheck", "markPlanning", "planned"} : Goto(w, pc)
      BY <1>7 DEF PlanBegin, PlanRecheck, PlanMark, PlanFinish, PlanUnlock, ShardStream, Dispatch, Emit,
                  AckStep, Defer
    <2>2. \A pc \in {"recheck", "markPlanning", "planned"} :
             pc \in BusyPcs \ {"emit"} /\ pc # "schedule" /\ pc \notin ClaimPcs
      BY DEF BusyPcs, ClaimPcs
    <2>3. \A pc \in {"recheck", "markPlanning", "planned"} : Goto(w, pc) => SameClaims
      BY <1>2, <2>1, <2>2
    <2> QED
      BY <1>3, <1>4, <2>1, <2>3
  <1>8. ASSUME NEW w \in Workers, FeedbackDevice(w) \/ FeedbackUpsert(w) PROVE Goal
    <2>1. /\ wk[w].pc \in ClaimPcs /\ wk[w].pc # "idle" /\ idem' = idem
          /\ Goto(w, "count") \/ Goto(w, "upsert")
      BY <1>8 DEF FeedbackDevice, FeedbackUpsert, ClaimPcs
    <2>2. "count" \in BusyPcs /\ "upsert" \in BusyPcs
      BY DEF BusyPcs
    <2> QED
      BY <1>2, <2>1, <2>2
  <1>9. ASSUME NEW w \in Workers,
               \/ FeedbackSchedule(w) \/ FeedbackMark(w) \/ RetryBegin(w) \/ RetryLock(w) \/ RetryProduce(w)
               \/ RetryTerminal(w) \/ RetryRecord(w) \/ RetryCount(w) \/ RetryFinish(w)
        PROVE  Goal
    <2>1. /\ wk[w].pc # "idle" /\ idem \subseteq idem'
          /\ \/ Ack(w) \/ Nack(w) \/ DeadLetter(w)
             \/ \E pc \in RetryPcs \cup {"markScheduled"} : Goto(w, pc)
      <3>1. RetryRoute(wk[w].m) \in RetryPcs
        BY DEF RetryRoute, RetryPcs
      <3> QED
        BY <1>9, <3>1 DEF FeedbackSchedule, FeedbackMark, RetryBegin, RetryLock, RetryProduce,
                          RetryTerminal, RetryRecord, RetryCount, RetryFinish, RetryPcs
    <2>2. \A pc \in RetryPcs \cup {"markScheduled"} :
             pc \in BusyPcs \ {"emit"} /\ pc # "schedule" /\ pc \notin ClaimPcs
      BY DEF BusyPcs, ClaimPcs, RetryPcs
    <2>3. \A pc \in RetryPcs \cup {"markScheduled"} : Goto(w, pc) => SameClaims
      BY <1>2, <2>1, <2>2
    <2> QED
      BY <1>3, <2>1, <2>3
  <1>10. ASSUME NEW w \in Workers, Crash(w) \/ StoreError(w) PROVE Goal
    <2>1. /\ wk[w].pc # "idle" /\ idem' = idem
          /\ wk' = [wk EXCEPT ![w] = Idle] \/ DeadLetter(w)
      BY <1>10 DEF Crash, StoreError, Busy
    <2> QED
      BY <1>3, <2>1, DropWk
  <1>11. ASSUME RepairScan \/ RepairProduce \/ Replay \/ Deadline \/ LeaseExpires \/ LockExpires
         PROVE  Goal
    <2>1. UNCHANGED <<wk, idem>>
      BY <1>11 DEF RepairScan, RepairLook, RepairProduce, Replay, Deadline, LeaseExpires, LockExpires
    <2> QED
      BY <1>1, <2>1
  <1>12. CASE UNCHANGED vars
    BY <1>1, <1>12 DEF vars
  <1> QED
    BY <1>5, <1>6, <1>7, <1>8, <1>9, <1>10, <1>11, <1>12 DEF Next, Handle

\* Every step keeps Once.
LEMMA StepOnce == Typing /\ Once /\ [Next]_vars => Once'
  <1> SUFFICES ASSUME Typing, Once, [Next]_vars PROVE Once'
    OBVIOUS
  <1> USE DEF store, queue
  <1>1. ASSUME NEW w \in Workers, FeedbackCount(w) PROVE Once'
    <2> DEFINE m == wk[w].m
    <2>1. /\ wk[w].pc = "count" /\ wk[w].pc # "idle" /\ idem' = idem /\ counted' = counted \cup {m}
          /\ Ack(w) \/ (m.out = "retryable" /\ Goto(w, "schedule"))
      BY <1>1 DEF FeedbackCount
    <2>2. wk[w].pc \in ClaimPcs
      BY <2>1 DEF ClaimPcs
    <2>3. m \in Message(Known) /\ (m.out # "-" => m.devs # {})
      BY <2>1, BusyJob, MessageFields
    <2>4. SameClaims /\ wk'[w].pc \notin ClaimPcs
      <3>1. CASE Ack(w)
        BY <2>1, <3>1, AckWk DEF ClaimPcs
      <3>2. CASE m.out = "retryable" /\ Goto(w, "schedule")
        <4>1. wk'[w].pc = "schedule" /\ \A v \in Workers \ {w} : wk'[v] = wk[v]
          BY <2>1, <2>3, <3>2, GotoWk DEF BusyPcs
        <4> QED
          BY <4>1 DEF SameClaims, ClaimPcs
      <3> QED
        BY <2>1, <3>1, <3>2
    <2>5. ResultEvent(m) \in idem /\ \A v \in Workers \ {w} : wk[v].pc \in ClaimPcs => wk[v].m # m
      BY <2>2 DEF Once
    <2> HIDE DEF m
    <2>6. IsFiniteSet(counted')
      BY <2>1, FS_AddElement DEF Once
    <2>7. \A v \in Workers : wk'[v].pc \in ClaimPcs =>
            v # w /\ wk[v].pc \in ClaimPcs /\ wk'[v].m = wk[v].m
      BY <2>4 DEF SameClaims
    <2>8. \A v \in Workers : wk'[v].pc \in ClaimPcs =>
            ResultEvent(wk'[v].m) \in idem' /\ wk'[v].m \notin counted'
      BY <2>1, <2>5, <2>7 DEF Once
    <2>9. \A u, v \in Workers : u # v /\ wk'[u].pc \in ClaimPcs /\ wk'[v].pc \in ClaimPcs =>
            wk'[u].m # wk'[v].m
      BY <2>7 DEF Once
    <2>10. \A x \in counted' : ResultEvent(x) \in idem'
      BY <2>1, <2>5 DEF Once
    <2> QED
      BY <2>6, <2>8, <2>9, <2>10 DEF Once
  <1>2. ASSUME NEW w \in Workers, Feedback(w) PROVE Once'
    <2> DEFINE m == wk[w].m
               event == ResultEvent(m)
    <2>1. wk[w].pc = "feedback" /\ wk[w].pc # "idle" /\ idem' = idem \cup {event} /\ UNCHANGED counted
      BY <1>2 DEF Feedback
    <2>2. CASE event \in idem
      <3>1. Ack(w)
        BY <1>2, <2>2 DEF Feedback
      <3> QED
        BY <2>1, <3>1, AckWk, OnceFrame
    <2>3. CASE event \notin idem
      <3>1. Goto(w, "device")
        BY <1>2, <2>3 DEF Feedback
      <3>2. wk'[w].m = m /\ \A v \in Workers \ {w} : wk'[v] = wk[v]
        BY <2>1, <3>1, GotoWk DEF BusyPcs
      <3>3. m \notin counted /\ \A v \in Workers : wk[v].pc \in ClaimPcs => wk[v].m # m
        BY <2>3 DEF Once
      <3> HIDE DEF m
      <3>4. \A v \in Workers : wk'[v].pc \in ClaimPcs =>
              ResultEvent(wk'[v].m) \in idem' /\ wk'[v].m \notin counted'
        BY <2>1, <3>2, <3>3 DEF Once
      <3>5. \A u, v \in Workers : u # v /\ wk'[u].pc \in ClaimPcs /\ wk'[v].pc \in ClaimPcs =>
              wk'[u].m # wk'[v].m
        BY <3>2, <3>3 DEF Once
      <3>6. (\A x \in counted' : ResultEvent(x) \in idem') /\ IsFiniteSet(counted')
        BY <2>1 DEF Once
      <3> QED
        BY <3>4, <3>5, <3>6 DEF Once
    <2> QED
      BY <2>2, <2>3
  <1>3. CASE ~\E w \in Workers : Feedback(w) \/ FeedbackCount(w)
    <2>1. SameClaims /\ idem \subseteq idem'
      BY <1>3, ClaimSteps
    <2>2. UNCHANGED counted
      BY <1>3, StatusSteps DEF StatusStepOf
    <2> QED
      BY <2>1, <2>2, OnceFrame
  <1> QED
    BY <1>1, <1>2, <1>3

\* The results of p with an outcome in O that have been counted.
CountedAs(p, O) == {m \in counted : m.pub = p /\ m.out \in O}
Exact == \A p \in Publishes : status[p] # NoStatus =>
            /\ status[p].succeeded = Cardinality(CountedAs(p, {"accepted"}))
            /\ status[p].failed = Cardinality(CountedAs(p, {"invalid", "rejected"}))

\* A new result adds one to its own sum and nothing to the others.
LEMMA CountOne ==
  ASSUME IsFiniteSet(counted), NEW m, m \notin counted, counted' = counted \cup {m}, NEW p, NEW O
  PROVE  Cardinality(CountedAs(p, O)') =
           Cardinality(CountedAs(p, O)) + IF m.pub = p /\ m.out \in O THEN 1 ELSE 0
  <1> DEFINE S == CountedAs(p, O)
             T == {x \in counted' : x.pub = p /\ x.out \in O}
  <1>1. IsFiniteSet(S) /\ m \notin S
    BY FS_Subset DEF CountedAs
  <1>2. T = IF m.pub = p /\ m.out \in O THEN S \cup {m} ELSE S
    BY DEF CountedAs
  <1>3. CountedAs(p, O)' = T
    BY DEF CountedAs
  <1> HIDE DEF S, T
  <1>4. Cardinality(S) \in Nat /\ Cardinality(S \cup {m}) = Cardinality(S) + 1
    BY <1>1, FS_AddElement, FS_CardinalityType
  <1> QED
    BY <1>2, <1>3, <1>4 DEF S

\* Every step keeps the counters exact.
LEMMA StepExact == Typing /\ Once /\ Exact /\ [Next]_vars => Exact'
  <1> SUFFICES ASSUME Typing, Once, Exact, [Next]_vars PROVE Exact'
    OBVIOUS
  <1>1. status \in [Publishes -> StatusRows \cup {NoStatus}]
    BY DEF Typing
  <1>2. UNCHANGED counted => \A p, O : CountedAs(p, O)' = CountedAs(p, O)
    BY DEF CountedAs
  <1>3. ASSUME NEW r \in Requests, AcceptCreate(r), UNCHANGED counted PROVE Exact'
    <2> DEFINE p == Target[r]
    <2>1. /\ p \in Publishes /\ req[r].row \in NewRows
          /\ status' = [status EXCEPT ![p] = IF status[p] = NoStatus THEN req[r].row ELSE status[p]]
      BY <1>3, PushAssumption DEF AcceptCreate, Typing
    <2>2. req[r].row.succeeded = 0 /\ req[r].row.failed = 0
      BY <2>1, NewRow
    <2>3. status[p] = NoStatus => \A O : CountedAs(p, O) = {}
      <3> SUFFICES ASSUME status[p] = NoStatus, NEW O, NEW m \in counted, m.pub = p PROVE FALSE
        BY DEF CountedAs
      <3>1. m.pub \in Known
        BY MessageFields DEF Typing
      <3> QED
        BY <3>1 DEF Known
    <2> HIDE DEF p
    <2>4. Cardinality({}) = 0
      BY FS_EmptySet
    <2> QED
      BY <1>1, <1>2, <1>3, <2>1, <2>2, <2>3, <2>4 DEF Exact
  <1>4. ASSUME UNCHANGED <<status, counted>> PROVE Exact'
    BY <1>2, <1>4 DEF Exact
  <1>5. ASSUME NEW p \in Known, NEW row \in StatusRows, status' = [status EXCEPT ![p] = row],
               SameOutcomes(status[p], row), UNCHANGED counted
        PROVE  Exact'
    <2>1. p \in Publishes /\ status[p] # NoStatus
      BY DEF Known
    <2> QED
      BY <1>1, <1>2, <1>5, <2>1 DEF Exact, SameOutcomes
  <1>6. ASSUME NEW w \in Workers, FeedbackCount(w) PROVE Exact'
    <2> DEFINE m == wk[w].m
               p == m.pub
    <2>1. /\ p \in Known /\ p \in Publishes /\ counted' = counted \cup {m}
          /\ \E row \in StatusRows :
                /\ status' = [status EXCEPT ![p] = row]
                /\ row.succeeded = status[p].succeeded + (IF m.out = "accepted" THEN 1 ELSE 0)
                /\ row.failed = status[p].failed + (IF m.out \in {"invalid", "rejected"} THEN 1 ELSE 0)
      BY <1>6, CountStep
    <2>2. PICK row \in StatusRows :
                /\ status' = [status EXCEPT ![p] = row]
                /\ row.succeeded = status[p].succeeded + (IF m.out = "accepted" THEN 1 ELSE 0)
                /\ row.failed = status[p].failed + (IF m.out \in {"invalid", "rejected"} THEN 1 ELSE 0)
      BY <2>1
    <2>3. m \notin counted /\ IsFiniteSet(counted)
      <3>1. wk[w].pc \in ClaimPcs
        BY <1>6 DEF FeedbackCount, ClaimPcs
      <3> QED
        BY <3>1 DEF Once
    <2> HIDE DEF m, p
    <2>4. \A q, O : Cardinality(CountedAs(q, O)') =
                      Cardinality(CountedAs(q, O)) + IF m.pub = q /\ m.out \in O THEN 1 ELSE 0
      BY <2>1, <2>3, CountOne
    <2>5. \A q, O : Cardinality(CountedAs(q, O)) \in Nat
      <3>1. \A q, O : IsFiniteSet(CountedAs(q, O))
        BY <2>3, FS_Subset DEF CountedAs
      <3> QED
        BY <3>1, FS_CardinalityType
    <2>6. status[p] # NoStatus
      BY <2>1 DEF Known
    <2> SUFFICES ASSUME NEW q \in Publishes, status'[q] # NoStatus
                 PROVE  /\ status'[q].succeeded = Cardinality(CountedAs(q, {"accepted"})')
                        /\ status'[q].failed = Cardinality(CountedAs(q, {"invalid", "rejected"})')
      BY DEF Exact
    <2>7. CASE q = p
      <3>1. status'[q] = row /\ m.pub = q
        BY <1>1, <2>1, <2>2, <2>7 DEF p
      <3>2. /\ status[q].succeeded = Cardinality(CountedAs(q, {"accepted"}))
            /\ status[q].failed = Cardinality(CountedAs(q, {"invalid", "rejected"}))
        BY <2>6, <2>7 DEF Exact
      <3> QED
        BY <2>2, <2>4, <2>7, <3>1, <3>2
    <2>8. CASE q # p
      <3>1. status'[q] = status[q] /\ m.pub # q
        BY <1>1, <2>1, <2>2, <2>8 DEF p
      <3>2. /\ status[q].succeeded = Cardinality(CountedAs(q, {"accepted"}))
            /\ status[q].failed = Cardinality(CountedAs(q, {"invalid", "rejected"}))
        BY <3>1 DEF Exact
      <3> QED
        BY <2>4, <2>5, <3>1, <3>2
    <2> QED
      BY <2>7, <2>8
  <1> QED
    BY <1>3, <1>4, <1>5, <1>6, StatusSteps DEF StatusStepOf

\* The counters: whatever is redelivered, replayed, reclaimed or interrupted,
\* a publish's success and failure counters are the numbers of its distinct
\* delivery results that were applied.
THEOREM ResultsCountedOnce == Spec => []CountersExact
  <1>1. Init => Once /\ Exact
    <2> SUFFICES ASSUME Init PROVE Once /\ Exact
      OBVIOUS
    <2>1. counted = {} /\ (\A w \in Workers : wk[w].pc = "idle") /\ \A p \in Publishes : status[p] = NoStatus
      BY DEF Init, Idle
    <2>2. IsFiniteSet({})
      BY FS_EmptySet
    <2> QED
      BY <2>1, <2>2 DEF Once, Exact, ClaimPcs
  <1>2. Exact => CountersExact
    <2>1. \A p : CountedAs(p, {"accepted"}) = {m \in counted : m.pub = p /\ m.out = "accepted"}
      BY DEF CountedAs
    <2> QED
      BY <2>1 DEF Exact, CountersExact, CountedAs
  <1> QED
    BY <1>1, <1>2, StepOnce, StepExact, AlwaysTyping, PTL DEF Spec


-----------------------------------------------------------------------------
(* What a call does to the jobs of the workers *)

\* The others go on with what they do; a token may be voided.
Others(w) ==
    \A v \in Workers \ {w} :
       /\ wk'[v].pc = wk[v].pc
       /\ wk[v].pc # "idle" => wk'[v].m = wk[v].m /\ wk'[v].rest = wk[v].rest

\* Goto changes the place and nothing else.
LEMMA GotoJob ==
  ASSUME Typing, NEW w \in Workers, wk[w].pc # "idle", NEW pc, Goto(w, pc)
  PROVE  /\ wk'[w].pc = pc /\ wk'[w].m = wk[w].m /\ wk'[w].token = wk[w].token
         /\ wk'[w].rest = wk[w].rest
         /\ \A v \in Workers \ {w} : wk'[v] = wk[v]
         /\ Others(w)
  <1>1. wk \in [Workers -> Job(Known) \cup {Idle}] /\ wk[w] \in Job(Known)
    BY BusyJob DEF Typing
  <1>2. wk' = [wk EXCEPT ![w] = [wk[w] EXCEPT !.pc = pc]]
    BY <1>1 DEF Goto
  <1>3. /\ [wk[w] EXCEPT !.pc = pc].pc = pc /\ [wk[w] EXCEPT !.pc = pc].m = wk[w].m
        /\ [wk[w] EXCEPT !.pc = pc].token = wk[w].token /\ [wk[w] EXCEPT !.pc = pc].rest = wk[w].rest
    BY <1>1 DEF Job
  <1> QED
    BY <1>1, <1>2, <1>3 DEF Others

\* EmitFrom sets what is left to produce.
LEMMA EmitJob ==
  ASSUME Typing, NEW w \in Workers, wk[w].pc # "idle", NEW rest, EmitFrom(w, rest)
  PROVE  /\ wk'[w].pc = IF rest # <<>> THEN "emit"
                        ELSE IF wk[w].m.stage = "publish" THEN "markDispatching" ELSE "ack"
         /\ wk'[w].m = wk[w].m /\ wk'[w].token = wk[w].token /\ wk'[w].rest = rest
         /\ \A v \in Workers \ {w} : wk'[v] = wk[v]
         /\ Others(w)
  <1> DEFINE pc == IF rest # <<>> THEN "emit"
                   ELSE IF wk[w].m.stage = "publish" THEN "markDispatching" ELSE "ack"
             j == [[wk[w] EXCEPT !.rest = rest] EXCEPT !.pc = pc]
  <1>1. wk \in [Workers -> Job(Known) \cup {Idle}] /\ wk[w] \in Job(Known)
    BY BusyJob DEF Typing
  <1>2. wk' = [wk EXCEPT ![w].rest = rest, ![w].pc = pc]
    BY DEF EmitFrom
  <1> HIDE DEF pc
  <1>3. wk' = [wk EXCEPT ![w] = j]
    BY <1>1, <1>2
  <1>4. j.pc = pc /\ j.m = wk[w].m /\ j.token = wk[w].token /\ j.rest = rest
    BY <1>1 DEF Job
  <1> HIDE DEF j
  <1>5. /\ wk'[w].pc = pc /\ wk'[w].m = wk[w].m /\ wk'[w].token = wk[w].token /\ wk'[w].rest = rest
        /\ \A v \in Workers \ {w} : wk'[v] = wk[v]
    BY <1>1, <1>3, <1>4
  <1> QED
    BY <1>5 DEF Others, pc

\* A worker drops its message.
LEMMA DropJob ==
  ASSUME Typing, NEW w \in Workers, wk' = [wk EXCEPT ![w] = Idle]
  PROVE  /\ wk'[w].pc = "idle" /\ \A v \in Workers \ {w} : wk'[v] = wk[v]
         /\ Others(w)
  BY DEF Typing, Idle, Others

\* An acknowledgement idles the worker; the tokens of the others for the same
\* message become void if it was leased, and nothing else of theirs changes.
LEMMA AckJob ==
  ASSUME Typing, NEW w \in Workers, wk[w].pc # "idle", Ack(w)
  PROVE  /\ wk'[w].pc = "idle" /\ Others(w)
         /\ \A v \in Workers \ {w} :
               wk[v].pc # "idle" /\ (~Leased(w) \/ wk[v].m # wk[w].m) => wk'[v].token = wk[v].token
  <1> DEFINE next == [wk EXCEPT ![w] = Idle]
             m == wk[w].m
  <1>1. wk \in [Workers -> Job(Known) \cup {Idle}]
    BY DEF Typing
  <1>2. /\ next \in [Workers -> Job(Known) \cup {Idle}] /\ next[w] = Idle
        /\ \A v \in Workers \ {w} : next[v] = wk[v]
    BY <1>1
  <1>3. CASE Leased(w)
    <2>1. wk' = Void(next, m)
      BY <1>3 DEF Ack
    <2> HIDE DEF next, m
    <2>2. wk'[w].pc = "idle"
      BY <1>2, <2>1 DEF Void, Idle
    <2>3. ASSUME NEW v \in Workers \ {w}
          PROVE  /\ wk'[v].pc = wk[v].pc
                 /\ wk[v].pc # "idle" => wk'[v].m = wk[v].m /\ wk'[v].rest = wk[v].rest
                 /\ wk[v].pc # "idle" /\ wk[v].m # m => wk'[v].token = wk[v].token
      <3>1. CASE wk[v].pc # "idle" /\ wk[v].m = m
        <4>1. wk'[v] = [wk[v] EXCEPT !.token = FALSE]
          BY <1>2, <2>1, <3>1 DEF Void
        <4>2. wk[v] \in Job(Known)
          BY <1>1, <3>1 DEF Idle
        <4> QED
          BY <3>1, <4>1, <4>2 DEF Job
      <3>2. CASE ~(wk[v].pc # "idle" /\ wk[v].m = m)
        BY <1>2, <2>1, <3>2 DEF Void
      <3> QED
        BY <3>1, <3>2
    <2> QED
      BY <1>3, <2>2, <2>3 DEF Others, m
  <1>4. CASE ~Leased(w)
    <2>1. wk' = next
      BY <1>4 DEF Ack
    <2> QED
      BY <1>2, <2>1 DEF Others, Idle
  <1> QED
    BY <1>3, <1>4

\* A consumed message starts a job.
LEMMA StartJob ==
  ASSUME Typing, NEW w \in Workers, NEW m, NEW pc, wk' = Start(w, m, pc)
  PROVE  /\ wk'[w].pc = pc /\ wk'[w].m = m /\ wk'[w].token /\ wk'[w].rest = <<>>
         /\ \A v \in Workers \ {w} : wk'[v] = wk[v]
         /\ Others(w)
  <1> DEFINE j == [pc |-> pc, m |-> m, token |-> TRUE, rest |-> <<>>]
  <1>1. wk' = [wk EXCEPT ![w] = j] /\ wk \in [Workers -> Job(Known) \cup {Idle}]
    BY DEF Start, Typing
  <1>2. j.pc = pc /\ j.m = m /\ j.token /\ j.rest = <<>>
    OBVIOUS
  <1> HIDE DEF j
  <1> QED
    BY <1>1, <1>2 DEF Others

-----------------------------------------------------------------------------
(* Which handler is where with which message *)

PlanOnlyPcs == {"plan", "recheck", "markPlanning", "markDispatching", "planned"}

\* The places of the handler of each stage.
PcOf(stage, pc) ==
    \/ stage = "publish" /\ pc \in PlanOnlyPcs \cup {"emit"}
    \/ stage = "shard" /\ pc \in {"shard", "emit", "ack"}
    \/ stage = "deliver" /\ pc \in {"preflight", "emit", "ack"}
    \/ stage = "result" /\ pc \in FeedbackPcs
    \/ stage = "retry" /\ pc \in RetryPcs \cup {"retry"}

\* A publish message carries nothing but its publish.
Plain(m) == m.stage = "publish" => m = PublishMsg(m.pub)

\* What a handler of each stage produces.
Products(stage) == IF stage = "deliver" THEN {"result"} ELSE {"shard", "deliver"}

JobShape(j) ==
    /\ PcOf(j.m.stage, j.pc) /\ Plain(j.m)
    /\ j.pc = "emit" => \A i \in DOMAIN j.rest : j.rest[i].stage \in Products(j.m.stage)

\* Each message is handled by the handler of its stage; only results and
\* retries are dead-lettered.
Shape ==
    /\ \A m \in Queued : Plain(m)
    /\ \A m \in dlq : m.stage \in {"result", "retry"}
    /\ \A w \in Workers : wk[w].pc # "idle" => JobShape(wk[w])

\* The place of a handler tells the stage of its message.
LEMMA StageOf ==
  ASSUME Shape, NEW w \in Workers, wk[w].pc # "idle"
  PROVE  /\ wk[w].pc \in PlanOnlyPcs => wk[w].m.stage = "publish"
         /\ wk[w].pc = "shard" => wk[w].m.stage = "shard"
         /\ wk[w].pc = "preflight" => wk[w].m.stage = "deliver"
         /\ wk[w].pc \in FeedbackPcs => wk[w].m.stage = "result"
         /\ wk[w].pc \in RetryPcs \cup {"retry"} => wk[w].m.stage = "retry"
         /\ wk[w].pc = "emit" => wk[w].m.stage \in {"publish", "shard", "deliver"}
         /\ wk[w].pc = "ack" => wk[w].m.stage \in {"shard", "deliver"}
         /\ wk[w].m.stage = "publish" => wk[w].pc \in PlanOnlyPcs \cup {"emit"}
         /\ Plain(wk[w].m)
  BY DEF Shape, JobShape, PcOf, PlanOnlyPcs, FeedbackPcs, RetryPcs

\* The other workers keep their shape.
LEMMA OthersShape ==
  ASSUME Shape, NEW w \in Workers, Others(w), wk'[w].pc # "idle" => JobShape(wk'[w])
  PROVE  \A v \in Workers : wk'[v].pc # "idle" => JobShape(wk'[v])
  BY DEF Shape, Others, JobShape

\* The elements of the sequences the handlers produce.
LEMMA BatchesElements ==
  ASSUME NEW p, NEW prefix, NEW S
  PROVE  \A i \in DOMAIN Batches(p, prefix, S) :
           /\ Batches(p, prefix, S)[i].stage = "deliver" /\ Batches(p, prefix, S)[i].pub = p
           /\ Batches(p, prefix, S)[i].attempt = 1
           /\ Batches(p, prefix, S)[i].devs = {d \in S : (Rank(S, d) - 1) \div BatchSize + 1 = i}
  BY DEF Batches, BatchMsg, Msg

\* What the queue calls add to the queue.
LEMMA QueueAdds ==
  ASSUME TRUE
  PROVE  /\ \A m : Produce(m) /\ UNCHANGED inflight => Queued' \subseteq Queued \cup {m} /\ Queued \subseteq Queued'
         /\ \A w : Ack(w) /\ UNCHANGED ready =>
              /\ Queued' \subseteq Queued
              /\ Queued \ {wk[w].m} \subseteq Queued'
              /\ ~Leased(w) => Queued' = Queued
         /\ \A w : Nack(w) => Queued' = Queued
  <1>1. \A m : Produce(m) /\ UNCHANGED inflight => Queued' \subseteq Queued \cup {m} /\ Queued \subseteq Queued'
    BY DEF Produce, Enqueue, Queued
  <1>2. \A w : Ack(w) /\ UNCHANGED ready =>
              /\ Queued' \subseteq Queued
              /\ Queued \ {wk[w].m} \subseteq Queued'
              /\ ~Leased(w) => Queued' = Queued
    BY DEF Ack, Queued
  <1>3. \A w : Nack(w) => Queued' = Queued
    BY DEF Nack, Queued, Leased
  <1> QED
    BY <1>1, <1>2, <1>3

\* The results of a batch, for some answers.
Results(m, o) ==
    [i \in 1 .. Cardinality(m.devs) |->
        ResultMsg(m.pub, m.batch, Sorted(m.devs)[i], m.attempt, o[Sorted(m.devs)[i]])]

\* What Dispatch does: a request for every job unless the deadline has passed,
\* and one result for each to produce.
LEMMA DispatchStep ==
  ASSUME NEW w, Dispatch(w)
  PROVE  /\ wk[w].pc = "preflight"
         /\ \E o \in [wk[w].m.devs -> Outcomes \cup {"expired"}] : EmitFrom(w, Results(wk[w].m, o))
         /\ \/ deadline[wk[w].m.pub] = "delivery" /\ UNCHANGED sent
            \/ sent' = [x \in DOMAIN sent |->
                            IF x[1] = wk[w].m.pub /\ x[2] \in wk[w].m.devs /\ x[3] = wk[w].m.attempt
                            THEN sent[x] + 1 ELSE sent[x]]
         /\ UNCHANGED <<req, store, queue, repair, deadline, faults>>
  <1>1. /\ wk[w].pc = "preflight" /\ UNCHANGED <<req, store, queue, repair, deadline, faults>>
        /\ \/ deadline[wk[w].m.pub] = "delivery" /\ UNCHANGED sent
           \/ sent' = [x \in DOMAIN sent |->
                            IF x[1] = wk[w].m.pub /\ x[2] \in wk[w].m.devs /\ x[3] = wk[w].m.attempt
                            THEN sent[x] + 1 ELSE sent[x]]
    BY DEF Dispatch
  <1>2. \/ EmitFrom(w, Results(wk[w].m, [d \in wk[w].m.devs |-> "expired"]))
        \/ \E o \in [wk[w].m.devs -> Outcomes] : EmitFrom(w, Results(wk[w].m, o))
    BY DEF Dispatch, Results
  <1> HIDE DEF Results
  <1>3. [d \in wk[w].m.devs |-> "expired"] \in [wk[w].m.devs -> Outcomes \cup {"expired"}]
    OBVIOUS
  <1>4. \A o \in [wk[w].m.devs -> Outcomes] : o \in [wk[w].m.devs -> Outcomes \cup {"expired"}]
    OBVIOUS
  <1>5. \E o \in [wk[w].m.devs -> Outcomes \cup {"expired"}] : EmitFrom(w, Results(wk[w].m, o))
    BY <1>2, <1>3, <1>4
  <1> QED
    BY <1>1, <1>5

\* The steps outside the workers, with respect to queue, jobs and dead letters.
LEMMA OutsideSteps ==
  ASSUME Typing, [Next]_vars,
         ~\E w \in Workers : Consume(w) \/ Handle(w) \/ Defer(w) \/ Crash(w) \/ StoreError(w)
  PROVE  /\ UNCHANGED <<wk, dlq, sent>>
         /\ \/ Queued' = Queued /\ (UNCHANGED <<ready, inflight>> \/ LeaseExpires)
            \/ \E p : Produce(PublishMsg(p)) /\ UNCHANGED <<inflight, faults>>
            \/ \E m \in dlq : Produce(m) /\ UNCHANGED inflight /\ faults > 0 /\ faults' = faults - 1
  <1> USE DEF store, queue
  <1>1. ASSUME NEW r \in Requests, Accept(r) \/ AcceptAbort(r)
        PROVE  /\ UNCHANGED <<wk, dlq, sent>>
               /\ \/ UNCHANGED <<ready, inflight>>
                  \/ \E p : Produce(PublishMsg(p)) /\ UNCHANGED <<inflight, faults>>
    BY <1>1 DEF Accept, AcceptProduce, AcceptLookup, AcceptCreate, AcceptRecord, AcceptAppend, AcceptAbort
  <1>2. ASSUME RepairScan \/ RepairProduce \/ Deadline \/ LockExpires
        PROVE  /\ UNCHANGED <<wk, dlq, sent>>
               /\ \/ UNCHANGED <<ready, inflight>>
                  \/ \E p : Produce(PublishMsg(p)) /\ UNCHANGED <<inflight, faults>>
    BY <1>2 DEF RepairScan, RepairLook, RepairProduce, Deadline, LockExpires
  <1>3. ASSUME Replay
        PROVE  /\ UNCHANGED <<wk, dlq, sent>>
               /\ \E m \in dlq : Produce(m) /\ UNCHANGED inflight /\ faults > 0 /\ faults' = faults - 1
    BY <1>3 DEF Replay
  <1>4. ASSUME LeaseExpires
        PROVE  UNCHANGED <<wk, dlq, sent>> /\ Queued' = Queued
    BY <1>4 DEF LeaseExpires, Queued
  <1>5. UNCHANGED <<ready, inflight>> => Queued' = Queued
    BY DEF Queued
  <1>6. CASE UNCHANGED vars
    BY <1>5, <1>6 DEF vars
  <1> QED
    BY <1>1, <1>2, <1>3, <1>4, <1>5, <1>6 DEF Next

\* Every step keeps the shape.
LEMMA StepShape == Typing /\ Shape /\ [Next]_vars => Shape'
  <1> SUFFICES ASSUME Typing, Shape, [Next]_vars PROVE Shape'
    OBVIOUS
  <1> USE DEF store, queue
  <1> DEFINE QOK == \A m \in Queued' : Plain(m)
             DOK == \A m \in dlq' : m.stage \in {"result", "retry"}
             WOK == \A w \in Workers : wk'[w].pc # "idle" => JobShape(wk'[w])
  <1>1. QOK /\ DOK /\ WOK => Shape'
    BY DEF Shape, Plain, JobShape, PcOf, PublishMsg, Msg
  <1>2. /\ \A m \in Queued : Plain(m)
        /\ \A m \in dlq : m.stage \in {"result", "retry"}
        /\ \A w \in Workers : wk[w].pc # "idle" => JobShape(wk[w])
    BY DEF Shape
  <1>3. /\ Queued' \subseteq Queued => QOK
        /\ \A m : Queued' \subseteq Queued \cup {m} /\ Plain(m) => QOK
        /\ UNCHANGED dlq => DOK
        /\ UNCHANGED <<ready, inflight>> => QOK
    BY <1>2 DEF Queued
  <1>4. \A p : Plain(PublishMsg(p))
    BY DEF Plain, PublishMsg, Msg
  <1>5. \A m : m.stage # "publish" => Plain(m)
    BY DEF Plain
  <1>6. ASSUME NEW w \in Workers, wk[w].pc # "idle", NEW pc, Goto(w, pc), PcOf(wk[w].m.stage, pc), pc # "emit"
        PROVE  WOK
    <2>1. wk'[w].pc = pc /\ wk'[w].m = wk[w].m /\ Others(w)
      BY <1>6, GotoJob
    <2>2. JobShape(wk'[w])
      BY <1>2, <1>6, <2>1 DEF JobShape
    <2> QED
      BY <2>1, <2>2, OthersShape
  <1>7. ASSUME NEW w \in Workers, wk[w].pc # "idle", NEW rest, EmitFrom(w, rest),
               wk[w].m.stage \in {"publish", "shard", "deliver"},
               \A i \in DOMAIN rest : rest[i].stage \in Products(wk[w].m.stage)
        PROVE  WOK
    <2>1. /\ wk'[w].pc = IF rest # <<>> THEN "emit"
                         ELSE IF wk[w].m.stage = "publish" THEN "markDispatching" ELSE "ack"
          /\ wk'[w].m = wk[w].m /\ wk'[w].rest = rest /\ Others(w)
      BY <1>7, EmitJob
    <2>2. PcOf(wk'[w].m.stage, wk'[w].pc)
      BY <1>7, <2>1 DEF PcOf, PlanOnlyPcs
    <2>3. JobShape(wk'[w])
      BY <1>2, <1>7, <2>1, <2>2 DEF JobShape
    <2> QED
      BY <2>1, <2>3, OthersShape
  <1>8. ASSUME NEW w \in Workers, wk[w].pc # "idle", Ack(w) PROVE WOK
    BY <1>8, AckJob, OthersShape
  <1>9. ASSUME NEW w \in Workers, wk' = [wk EXCEPT ![w] = Idle] PROVE WOK
    BY <1>9, DropJob, OthersShape
  <1>10. ASSUME NEW w \in Workers, Consume(w) PROVE QOK /\ DOK /\ WOK
    <2>1. PICK m \in ready : /\ ready' = ready \ {m} /\ inflight' = inflight \cup {m}
                             /\ wk' = Start(w, m, FirstPc[m.stage])
      BY <1>10 DEF Consume
    <2>2. m \in Message(Known) /\ m.stage \in Stages /\ Plain(m)
      BY <1>2, MessageFields DEF Typing, Queued
    <2>3. wk'[w].pc = FirstPc[m.stage] /\ wk'[w].m = m /\ Others(w) /\ wk'[w].rest = <<>>
      <3>1. PICK pc : pc = FirstPc[m.stage]
        OBVIOUS
      <3>2. wk' = Start(w, m, pc)
        BY <2>1, <3>1
      <3> QED
        BY <3>1, <3>2, StartJob
    <2>4. PcOf(m.stage, FirstPc[m.stage]) /\ FirstPc[m.stage] # "emit"
      BY <2>2 DEF Stages, FirstPc, PcOf, PlanOnlyPcs, FeedbackPcs
    <2>5. JobShape(wk'[w])
      BY <2>2, <2>3, <2>4 DEF JobShape
    <2>6. Queued' \subseteq Queued /\ UNCHANGED dlq
      BY <1>10, <2>1 DEF Queued, Consume
    <2> QED
      BY <1>3, <2>3, <2>5, <2>6, OthersShape
  <1>11. ASSUME NEW w \in Workers,
                PlanBegin(w) \/ PlanRecheck(w) \/ PlanFinish(w) \/ PlanUnlock(w)
         PROVE  QOK /\ DOK /\ WOK
    <2>1. wk[w].pc # "idle" /\ wk[w].pc \in PlanOnlyPcs /\ UNCHANGED dlq
      BY <1>11 DEF PlanBegin, PlanRecheck, PlanFinish, PlanUnlock, PlanOnlyPcs
    <2>2. \/ Ack(w) /\ UNCHANGED ready
          \/ Nack(w)
          \/ (\E pc \in {"recheck", "markPlanning", "planned"} : Goto(w, pc)) /\ UNCHANGED <<ready, inflight>>
      BY <1>11 DEF PlanBegin, PlanRecheck, PlanFinish, PlanUnlock
    <2>3. \A pc \in {"recheck", "markPlanning", "planned"} : PcOf(wk[w].m.stage, pc)
      BY <2>1, StageOf DEF PcOf, PlanOnlyPcs
    <2>4. CASE Ack(w) /\ UNCHANGED ready
      BY <1>3, <1>8, <2>1, <2>4, QueueAdds
    <2>5. CASE Nack(w)
      BY <1>3, <1>9, <2>1, <2>5, QueueAdds DEF Nack
    <2>6. CASE (\E pc \in {"recheck", "markPlanning", "planned"} : Goto(w, pc)) /\ UNCHANGED <<ready, inflight>>
      BY <1>3, <1>6, <2>1, <2>3, <2>6
    <2> QED
      BY <2>2, <2>4, <2>5, <2>6
  <1>12. ASSUME NEW w \in Workers, PlanMark(w) PROVE QOK /\ DOK /\ WOK
    <2> DEFINE p == wk[w].m.pub
    <2>1. /\ wk[w].pc # "idle" /\ wk[w].pc \in PlanOnlyPcs /\ EmitFrom(w, PlanOutput(p))
          /\ UNCHANGED <<ready, inflight, dlq>>
      BY <1>12 DEF PlanMark, PlanOnlyPcs
    <2>2. wk[w].m.stage = "publish"
      BY <2>1, StageOf
    <2>3. \A i \in DOMAIN PlanOutput(p) : PlanOutput(p)[i].stage \in {"shard", "deliver"}
      <3>1. <<ShardMsg(p, <<"shard">>, 0)>>[1].stage = "shard"
        BY DEF ShardMsg, Msg
      <3> QED
        BY <3>1, BatchesElements DEF PlanOutput
    <2> HIDE DEF p
    <2>4. WOK
      BY <1>7, <2>1, <2>2, <2>3 DEF Products
    <2> QED
      BY <1>3, <2>1, <2>4
  <1>13. ASSUME NEW w \in Workers, ShardStream(w) PROVE QOK /\ DOK /\ WOK
    <2> DEFINE m == wk[w].m
               S == Recipients(registered, m.attempt, ShardStop(registered, m.attempt))
               next == ShardNext(registered, m.attempt)
               cont == ShardMsg(m.pub, m.batch \o <<"next", Cardinality(S)>>, next)
               more == IF next < Len(Subs) THEN <<cont>> ELSE <<>>
               bs == Batches(m.pub, m.batch, S)
    <2>1. /\ wk[w].pc = "shard" /\ EmitFrom(w, bs \o more) /\ UNCHANGED <<ready, inflight, dlq>>
      BY <1>13 DEF ShardStream
    <2>2. m.stage = "shard"
      BY <2>1, StageOf
    <2>3. cont.stage = "shard"
      BY DEF ShardMsg, Msg
    <2>4. \A i \in DOMAIN bs : bs[i].stage = "deliver"
      BY BatchesElements
    <2>5. m \in Message(Known) /\ S \in SUBSET Devices
      BY <2>1, BusyJob DEF Recipients, Typing
    <2>6. bs \in Seq(Message(Known))
      BY <2>5, MessageFields, BatchesType
    <2> HIDE DEF cont, bs, S, next
    <2>7. bs \o more = [i \in 1 .. Len(bs) + Len(more) |-> IF i <= Len(bs) THEN bs[i] ELSE more[i - Len(bs)]]
      BY DEF \o
    <2>8. Len(bs) \in Nat /\ DOMAIN bs = 1 .. Len(bs) /\ Len(more) \in {0, 1}
          /\ (Len(more) = 1 => more[1] = cont)
      BY <2>6
    <2> HIDE DEF more
    <2>9. \A i \in DOMAIN (bs \o more) : (bs \o more)[i].stage \in {"shard", "deliver"}
      BY <2>3, <2>4, <2>7, <2>8
    <2> HIDE DEF m
    <2>10. WOK
      BY <1>7, <2>1, <2>2, <2>9 DEF Products, m
    <2> QED
      BY <1>3, <2>1, <2>10
  <1>14. ASSUME NEW w \in Workers, Dispatch(w) PROVE QOK /\ DOK /\ WOK
    <2> DEFINE m == wk[w].m
    <2>1. PICK o \in [m.devs -> Outcomes \cup {"expired"}] : EmitFrom(w, Results(m, o))
      BY <1>14, DispatchStep
    <2>2. wk[w].pc = "preflight" /\ UNCHANGED <<ready, inflight, dlq>>
      BY <1>14, DispatchStep
    <2>3. m.stage = "deliver"
      BY <2>2, StageOf
    <2>4. \A i \in DOMAIN Results(m, o) : Results(m, o)[i].stage = "result"
      BY DEF Results, ResultMsg, Msg
    <2> HIDE DEF m
    <2>5. WOK
      BY <1>7, <2>1, <2>2, <2>3, <2>4 DEF Products, m
    <2> QED
      BY <1>3, <2>2, <2>5
  <1>15. ASSUME NEW w \in Workers, Emit(w) PROVE QOK /\ DOK /\ WOK
    <2> DEFINE rest == wk[w].rest
    <2>1. /\ wk[w].pc = "emit" /\ Produce(Head(rest)) /\ EmitFrom(w, Tail(rest))
          /\ UNCHANGED <<inflight, dlq>>
      BY <1>15 DEF Emit
    <2>2. rest \in Seq(Message(Known)) /\ rest # <<>>
      BY <2>1, BusyJob
    <2>3. /\ wk[w].m.stage \in {"publish", "shard", "deliver"}
          /\ \A i \in DOMAIN rest : rest[i].stage \in Products(wk[w].m.stage)
      BY <1>2, <2>1, StageOf DEF JobShape
    <2> HIDE DEF rest
    <2>4. Head(rest) = rest[1] /\ \A i \in DOMAIN Tail(rest) : i + 1 \in DOMAIN rest /\ Tail(rest)[i] = rest[i + 1]
      BY <2>2
    <2>5. Plain(Head(rest))
      BY <1>5, <2>2, <2>3, <2>4 DEF Products
    <2>6. \A i \in DOMAIN Tail(rest) : Tail(rest)[i].stage \in Products(wk[w].m.stage)
      BY <2>3, <2>4
    <2>7. WOK
      BY <1>7, <2>1, <2>3, <2>6
    <2> QED
      BY <1>3, <2>1, <2>5, <2>7, QueueAdds
  <1>16. ASSUME NEW w \in Workers, AckStep(w) \/ FeedbackMark(w) PROVE QOK /\ DOK /\ WOK
    BY <1>3, <1>8, <1>16, QueueAdds DEF AckStep, FeedbackMark
  <1>17. ASSUME NEW w \in Workers, Feedback(w) \/ FeedbackDevice(w) \/ FeedbackUpsert(w) \/ FeedbackCount(w)
         PROVE  QOK /\ DOK /\ WOK
    <2>1. wk[w].pc # "idle" /\ wk[w].pc \in FeedbackPcs /\ UNCHANGED dlq
      BY <1>17 DEF Feedback, FeedbackDevice, FeedbackUpsert, FeedbackCount, FeedbackPcs
    <2>2. \/ Ack(w) /\ UNCHANGED ready
          \/ (\E pc \in {"device", "upsert", "count", "schedule"} : Goto(w, pc)) /\ UNCHANGED <<ready, inflight>>
      BY <1>17 DEF Feedback, FeedbackDevice, FeedbackUpsert, FeedbackCount
    <2>3. \A pc \in {"device", "upsert", "count", "schedule"} : PcOf(wk[w].m.stage, pc)
      BY <2>1, StageOf DEF PcOf, FeedbackPcs
    <2>4. CASE Ack(w) /\ UNCHANGED ready
      BY <1>3, <1>8, <2>1, <2>4, QueueAdds
    <2>5. CASE (\E pc \in {"device", "upsert", "count", "schedule"} : Goto(w, pc)) /\ UNCHANGED <<ready, inflight>>
      BY <1>3, <1>6, <2>1, <2>3, <2>5
    <2> QED
      BY <2>2, <2>4, <2>5
  <1>18. ASSUME NEW w \in Workers, FeedbackSchedule(w) PROVE QOK /\ DOK /\ WOK
    <2> DEFINE x == RetryMsg(wk[w].m.pub, wk[w].m.batch, Device(wk[w].m), wk[w].m.attempt + 1)
    <2>1. /\ wk[w].pc = "schedule" /\ Produce(x) /\ Goto(w, "markScheduled") /\ UNCHANGED <<inflight, dlq>>
      BY <1>18 DEF FeedbackSchedule
    <2>2. Plain(x)
      BY DEF Plain, RetryMsg, Msg
    <2>3. PcOf(wk[w].m.stage, "markScheduled")
      BY <2>1, StageOf DEF PcOf, FeedbackPcs
    <2> HIDE DEF x
    <2> QED
      BY <1>3, <1>6, <2>1, <2>2, <2>3, QueueAdds
  <1>19. ASSUME NEW w \in Workers,
                RetryBegin(w) \/ RetryLock(w) \/ RetryTerminal(w) \/ RetryRecord(w) \/ RetryCount(w)
         PROVE  QOK /\ DOK /\ WOK
    <2>1. wk[w].pc # "idle" /\ wk[w].pc \in RetryPcs \cup {"retry"} /\ UNCHANGED dlq
      BY <1>19 DEF RetryBegin, RetryLock, RetryTerminal, RetryRecord, RetryCount, RetryPcs
    <2>2. \/ Ack(w) /\ UNCHANGED ready
          \/ Nack(w)
          \/ (\E pc \in RetryPcs : Goto(w, pc)) /\ UNCHANGED <<ready, inflight>>
      <3>1. RetryRoute(wk[w].m) \in RetryPcs
        BY DEF RetryRoute, RetryPcs
      <3> QED
        BY <1>19, <3>1 DEF RetryBegin, RetryLock, RetryTerminal, RetryRecord, RetryCount, RetryPcs
    <2>3. \A pc \in RetryPcs : PcOf(wk[w].m.stage, pc) /\ pc # "emit"
      BY <2>1, StageOf DEF PcOf, RetryPcs
    <2>4. CASE Ack(w) /\ UNCHANGED ready
      BY <1>3, <1>8, <2>1, <2>4, QueueAdds
    <2>5. CASE Nack(w)
      BY <1>3, <1>9, <2>1, <2>5, QueueAdds DEF Nack
    <2>6. CASE (\E pc \in RetryPcs : Goto(w, pc)) /\ UNCHANGED <<ready, inflight>>
      BY <1>3, <1>6, <2>1, <2>3, <2>6
    <2> QED
      BY <2>2, <2>4, <2>5, <2>6
  <1>20. ASSUME NEW w \in Workers, RetryProduce(w) PROVE QOK /\ DOK /\ WOK
    <2>1. /\ wk[w].pc = "successor" /\ Produce(Successor(wk[w].m)) /\ Goto(w, "record")
          /\ UNCHANGED <<inflight, dlq>>
      BY <1>20 DEF RetryProduce
    <2>2. Plain(Successor(wk[w].m))
      BY DEF Plain, Successor, BatchMsg, Msg
    <2>3. PcOf(wk[w].m.stage, "record")
      BY <2>1, StageOf DEF PcOf, RetryPcs
    <2> QED
      BY <1>3, <1>6, <2>1, <2>2, <2>3, QueueAdds
  <1>21. ASSUME NEW w \in Workers, RetryFinish(w) \/ StoreError(w) PROVE QOK /\ DOK /\ WOK
    <2>1. wk[w].pc # "idle" /\ UNCHANGED ready
      BY <1>21 DEF RetryFinish, StoreError, Busy
    <2>2. \/ Ack(w) /\ UNCHANGED dlq
          \/ wk' = [wk EXCEPT ![w] = Idle] /\ UNCHANGED <<dlq, inflight>>
          \/ DeadLetter(w) /\ wk[w].pc \in FeedbackPcs \cup RetryPcs
      BY <1>21 DEF RetryFinish, StoreError, RetryPcs
    <2>3. CASE Ack(w) /\ UNCHANGED dlq
      BY <1>3, <1>8, <2>1, <2>3, QueueAdds
    <2>4. CASE wk' = [wk EXCEPT ![w] = Idle] /\ UNCHANGED <<dlq, inflight>>
      BY <1>3, <1>9, <2>1, <2>4
    <2>5. CASE DeadLetter(w) /\ wk[w].pc \in FeedbackPcs \cup RetryPcs
      <3>1. wk[w].m.stage \in {"result", "retry"}
        BY <2>1, <2>5, StageOf
      <3>2. Ack(w) /\ dlq' \subseteq dlq \cup {wk[w].m}
        BY <2>5 DEF DeadLetter
      <3>3. DOK
        BY <1>2, <3>1, <3>2
      <3> QED
        BY <1>3, <1>8, <2>1, <3>2, <3>3, QueueAdds
    <2> QED
      BY <2>2, <2>3, <2>4, <2>5
  <1>22. ASSUME NEW w \in Workers, Defer(w) PROVE QOK /\ DOK /\ WOK
    BY <1>3, <1>9, <1>22, QueueAdds DEF Defer, Nack
  <1>23. ASSUME NEW w \in Workers, Crash(w) PROVE QOK /\ DOK /\ WOK
    BY <1>3, <1>9, <1>23 DEF Crash
  <1>24. CASE ~\E w \in Workers : Consume(w) \/ Handle(w) \/ Defer(w) \/ Crash(w) \/ StoreError(w)
    <2>1. UNCHANGED <<wk, dlq>>
      BY <1>24, OutsideSteps
    <2>2. \/ Queued' \subseteq Queued
          \/ \E p : Queued' \subseteq Queued \cup {PublishMsg(p)}
          \/ \E m \in dlq : Queued' \subseteq Queued \cup {m}
      BY <1>24, OutsideSteps, QueueAdds
    <2>3. QOK
      BY <1>2, <1>3, <1>4, <1>5, <2>2
    <2>4. WOK
      BY <1>2, <2>1
    <2> QED
      BY <1>1, <1>3, <2>1, <2>3, <2>4
  <1> HIDE DEF QOK, DOK, WOK
  <1> QED
    BY <1>1, <1>10, <1>11, <1>12, <1>13, <1>14, <1>15, <1>16, <1>17, <1>18, <1>19, <1>20, <1>21, <1>22,
       <1>23, <1>24 DEF Handle

-----------------------------------------------------------------------------
(* Planning *)

\* What a step does to the state of p's row.
StateMoves(p) ==
    \/ status'[p].state = status[p].state
    \/ status'[p].state \in TerminalStates
    \/ status[p].state = "none" /\ status'[p].state = "queued"
    \/ \E w \in Workers : /\ PlanMark(w) /\ wk[w].m.pub = p
                          /\ status[p].state = "queued" /\ status'[p].state = "planning"
    \/ \E w \in Workers : /\ PlanFinish(w) \/ RetryCount(w)
                          /\ wk[w].m.pub = p
                          /\ status[p].state \in {"queued", "planning"} /\ status'[p].state = "dispatching"

\* Every step moves the rows in one of these ways.
LEMMA StateSteps ==
  ASSUME Typing, [Next]_vars, NEW p \in Publishes
  PROVE  StateMoves(p)
  <1> USE DEF store, queue
  <1>1. status \in [Publishes -> StatusRows \cup {NoStatus}]
    BY DEF Typing
  <1>2. ASSUME NEW w \in Workers, wk[w].pc # "idle"
        PROVE  wk[w].m.pub \in Known /\ wk[w].m.pub \in Publishes /\ status[wk[w].m.pub] \in StatusRows
    BY <1>2, BusyJob, MessageFields, KnownRow
  <1>3. UNCHANGED status => StateMoves(p)
    BY DEF StateMoves
  <1>4. ASSUME NEW q \in Publishes, NEW row, status' = [status EXCEPT ![q] = row],
               row.state \in TerminalStates \cup {status[q].state}
        PROVE  StateMoves(p)
    <2>1. p # q => status'[p] = status[p]
      BY <1>1, <1>4
    <2>2. p = q => status'[p] = row
      BY <1>1, <1>4
    <2> QED
      BY <1>4, <2>1, <2>2 DEF StateMoves
  <1>5. ASSUME NEW r \in Requests, AcceptCreate(r) PROVE StateMoves(p)
    <2> DEFINE q == Target[r]
    <2>1. status' = [status EXCEPT ![q] = IF status[q] = NoStatus THEN req[r].row ELSE status[q]]
      BY <1>5 DEF AcceptCreate
    <2>2. q \in Publishes /\ req[r].row \in NewRows
      BY <1>5, PushAssumption DEF AcceptCreate, Typing
    <2>3. req[r].row.state \in {"queued", "quotaExceeded"}
      BY <2>2 DEF NewRows, NewStatus
    <2> HIDE DEF q
    <2>4. CASE status[q] = NoStatus /\ p = q
      <3>1. status[p].state = "none" /\ status'[p] = req[r].row
        BY <1>1, <2>1, <2>4 DEF NoStatus
      <3> QED
        BY <2>3, <3>1 DEF StateMoves, TerminalStates
    <2>5. CASE ~(status[q] = NoStatus /\ p = q)
      <3>1. status'[p] = status[p]
        BY <1>1, <2>1, <2>5
      <3> QED
        BY <3>1 DEF StateMoves
    <2> QED
      BY <2>4, <2>5
  <1>6. ASSUME NEW r \in Requests, Accept(r) \/ AcceptAbort(r) PROVE StateMoves(p)
    <2>1. CASE AcceptCreate(r)
      BY <1>5, <2>1
    <2>2. CASE AcceptLookup(r) \/ AcceptRecord(r) \/ AcceptAppend(r) \/ AcceptProduce(r) \/ AcceptAbort(r)
      <3>1. UNCHANGED status
        BY <2>2 DEF AcceptProduce, AcceptLookup, AcceptRecord, AcceptAppend, AcceptAbort
      <3> QED
        BY <1>3, <3>1
    <2> QED
      BY <1>6, <2>1, <2>2 DEF Accept
  <1>7. ASSUME NEW w \in Workers, NEW to \in {"planning", "dispatching"}, wk[w].pc # "idle",
               MarkState(wk[w].m.pub, to),
               to = "planning" => PlanMark(w), to = "dispatching" => PlanFinish(w)
        PROVE  StateMoves(p)
    <2> DEFINE q == wk[w].m.pub
    <2>1. q \in Publishes /\ status[q] \in StatusRows
      BY <1>2, <1>7
    <2>2. CASE CanTransition(status[q].state, to)
      <3>1. status' = [status EXCEPT ![q] = [status[q] EXCEPT !.state = to]]
        BY <1>1, <1>7, <2>1, <2>2 DEF MarkState
      <3>2. [status[q] EXCEPT !.state = to].state = to
        BY <2>1 DEF StatusRows
      <3>3. status[q].state = to \/ status[q].state \in {"queued", "planning"}
        BY <2>1, <2>2 DEF CanTransition, StatusRows
      <3>4. to = "planning" => status[q].state \in {"queued", "planning"}
        BY <2>1, <2>2 DEF CanTransition, StatusRows
      <3> HIDE DEF q
      <3>5. CASE p # q
        <4>1. status'[p] = status[p]
          BY <1>1, <3>1, <3>5
        <4> QED
          BY <4>1 DEF StateMoves
      <3>6. CASE p = q
        <4>1. status'[p].state = to
          BY <1>1, <3>1, <3>2, <3>6
        <4> QED
          BY <1>7, <3>3, <3>4, <3>6, <4>1 DEF StateMoves, q
      <3> QED
        BY <3>5, <3>6
    <2>3. CASE ~CanTransition(status[q].state, to)
      BY <1>3, <1>7, <2>3 DEF MarkState
    <2> QED
      BY <2>2, <2>3
  <1>8. ASSUME NEW w \in Workers, PlanMark(w) \/ PlanFinish(w) PROVE StateMoves(p)
    <2>1. CASE PlanMark(w)
      <3>1. wk[w].pc # "idle" /\ MarkState(wk[w].m.pub, "planning")
        BY <2>1 DEF PlanMark
      <3> QED
        BY <1>7, <2>1, <3>1
    <2>2. CASE PlanFinish(w)
      <3>1. wk[w].pc # "idle" /\ MarkState(wk[w].m.pub, "dispatching")
        BY <2>2 DEF PlanFinish
      <3> QED
        BY <1>7, <2>2, <3>1
    <2> QED
      BY <1>8, <2>1, <2>2
  <1>9. ASSUME NEW w \in Workers, FeedbackMark(w) PROVE StateMoves(p)
    <2> DEFINE q == wk[w].m.pub
               row == [status[q] EXCEPT !.scheduled = status[q].scheduled + 1]
    <2>1. q \in Publishes /\ status[q] \in StatusRows
      BY <1>2, <1>9 DEF FeedbackMark
    <2>2. status' = [status EXCEPT ![q] = row]
      BY <1>1, <1>9, <2>1 DEF FeedbackMark
    <2>3. row.state = status[q].state
      BY <2>1 DEF StatusRows
    <2> HIDE DEF q, row
    <2> QED
      BY <1>4, <2>1, <2>2, <2>3
  <1>10. ASSUME NEW w \in Workers, RetryTerminal(w) PROVE StateMoves(p)
    <2> DEFINE q == wk[w].m.pub
               f == IF wk[w].pc = "terminalExpired" THEN "expired" ELSE "dead"
               row == Count(status[q], f)
    <2>1. q \in Publishes /\ status[q] \in StatusRows
      BY <1>2, <1>10 DEF RetryTerminal
    <2>2. status' = [status EXCEPT ![q] = row]
      BY <1>1, <1>10, <2>1 DEF RetryTerminal
    <2>3. row.state \in TerminalStates \cup {status[q].state}
      BY <2>1, CountRow
    <2> HIDE DEF q, row
    <2> QED
      BY <1>4, <2>1, <2>2, <2>3
  <1>11. ASSUME NEW w \in Workers, FeedbackCount(w) PROVE StateMoves(p)
    <2> DEFINE q == wk[w].m.pub
    <2>1. q \in Publishes
      BY <1>11, CountStep
    <2>2. \E row \in StatusRows : /\ status' = [status EXCEPT ![q] = row]
                                  /\ row.state \in TerminalStates \cup {status[q].state}
      BY <1>11, CountStep
    <2> HIDE DEF q
    <2> QED
      BY <1>4, <2>1, <2>2
  <1>12. ASSUME NEW w \in Workers, RetryCount(w) PROVE StateMoves(p)
    <2> DEFINE q == wk[w].m.pub
               one == [status[q] EXCEPT !.attempted = status[q].attempted + 1]
               two == [one EXCEPT !.state = "dispatching"]
    <2>1. q \in Publishes /\ status[q] \in StatusRows
      BY <1>2, <1>12 DEF RetryCount
    <2>2. \/ status' = [status EXCEPT ![q] = one]
          \/ status' = [status EXCEPT ![q] = two] /\ CanTransition(status[q].state, "dispatching")
          \/ status' = status
      <3>1. two = [status[q] EXCEPT !.attempted = status[q].attempted + 1, !.state = "dispatching"]
        BY <2>1 DEF StatusRows
      <3> QED
        BY <1>1, <1>12, <2>1, <3>1 DEF RetryCount
    <2>3. one \in StatusRows /\ one.state = status[q].state
      BY <2>1 DEF StatusRows
    <2> HIDE DEF one
    <2>4. two.state = "dispatching"
      BY <2>3 DEF StatusRows
    <2> HIDE DEF two
    <2>5. CanTransition(status[q].state, "dispatching") =>
            status[q].state \in {"queued", "planning", "dispatching"}
      BY <2>1 DEF CanTransition, StatusRows
    <2> HIDE DEF q
    <2>6. CASE status' = [status EXCEPT ![q] = two] /\ CanTransition(status[q].state, "dispatching")
      <3>1. p # q => status'[p] = status[p]
        BY <1>1, <2>6
      <3>2. p = q => status'[p].state = "dispatching"
        BY <1>1, <2>4, <2>6
      <3> QED
        BY <1>12, <2>5, <2>6, <3>1, <3>2 DEF StateMoves, q
    <2> QED
      BY <1>3, <1>4, <2>1, <2>2, <2>3, <2>6
  <1>13. ASSUME NEW w \in Workers, Handle(w) PROVE StateMoves(p)
    <2>1. CASE PlanBegin(w) \/ PlanRecheck(w) \/ PlanUnlock(w) \/ ShardStream(w) \/ Dispatch(w)
               \/ Emit(w) \/ AckStep(w)
      <3>1. UNCHANGED status
        BY <2>1 DEF PlanBegin, PlanRecheck, PlanUnlock, ShardStream, Dispatch, Emit, AckStep
      <3> QED
        BY <1>3, <3>1
    <2>2. CASE Feedback(w) \/ FeedbackDevice(w) \/ FeedbackUpsert(w) \/ FeedbackSchedule(w)
               \/ RetryBegin(w) \/ RetryLock(w) \/ RetryProduce(w) \/ RetryRecord(w) \/ RetryFinish(w)
      <3>1. UNCHANGED status
        BY <2>2 DEF Feedback, FeedbackDevice, FeedbackUpsert, FeedbackSchedule, RetryBegin, RetryLock,
                    RetryProduce, RetryRecord, RetryFinish
      <3> QED
        BY <1>3, <3>1
    <2> QED
      BY <1>8, <1>9, <1>10, <1>11, <1>12, <1>13, <2>1, <2>2 DEF Handle
  <1>14. ASSUME NEW w \in Workers, Consume(w) \/ Defer(w) \/ Crash(w) \/ StoreError(w) PROVE StateMoves(p)
    <2>1. UNCHANGED status
      BY <1>14 DEF Consume, Defer, Crash, StoreError
    <2> QED
      BY <1>3, <2>1
  <1>15. ASSUME RepairScan \/ RepairProduce \/ Replay \/ Deadline \/ LeaseExpires \/ LockExpires \/ UNCHANGED vars
         PROVE  StateMoves(p)
    <2>1. UNCHANGED status
      BY <1>15 DEF RepairScan, RepairLook, RepairProduce, Replay, Deadline, LeaseExpires, LockExpires, vars
    <2> QED
      BY <1>3, <2>1
  <1> QED
    BY <1>6, <1>13, <1>14, <1>15 DEF Next

\* A publish that cannot be planned never can be again.
LEMMA PlanOnce ==
  ASSUME Typing, [Next]_vars, NEW p \in Known, CanBePlanned(p)'
  PROVE  CanBePlanned(p)
  <1>1. p \in Publishes /\ status[p].state # "none"
    BY KnownRow, RowIsStatus
  <1>2. StateMoves(p)
    BY <1>1, StateSteps
  <1> QED
    BY <1>1, <1>2 DEF StateMoves, CanBePlanned, TerminalStates

\* What a handler's step does to its own job.
LEMMA HandleJob ==
  ASSUME Typing, NEW w \in Workers, Handle(w)
  PROVE  /\ wk[w].pc # "idle" /\ Others(w)
         /\ wk'[w].pc = "idle" \/ wk'[w].m = wk[w].m
         /\ wk'[w].pc = "planned" => PlanFinish(w)
  <1> USE DEF store, queue
  <1> DEFINE Goal == /\ Others(w)
                     /\ wk'[w].pc = "idle" \/ wk'[w].m = wk[w].m
                     /\ wk'[w].pc = "planned" => PlanFinish(w)
  <1>1. wk[w].pc # "idle"
    <2>1. CASE PlanBegin(w) \/ PlanRecheck(w) \/ PlanMark(w) \/ PlanFinish(w) \/ PlanUnlock(w)
      BY <2>1 DEF PlanBegin, PlanRecheck, PlanMark, PlanFinish, PlanUnlock
    <2>2. CASE ShardStream(w) \/ Dispatch(w) \/ Emit(w) \/ AckStep(w)
      BY <2>2, DispatchStep DEF ShardStream, Emit, AckStep
    <2>3. CASE Feedback(w) \/ FeedbackDevice(w) \/ FeedbackUpsert(w) \/ FeedbackCount(w)
               \/ FeedbackSchedule(w) \/ FeedbackMark(w)
      BY <2>3 DEF Feedback, FeedbackDevice, FeedbackUpsert, FeedbackCount, FeedbackSchedule, FeedbackMark
    <2>4. CASE RetryBegin(w) \/ RetryLock(w) \/ RetryProduce(w) \/ RetryTerminal(w) \/ RetryRecord(w)
               \/ RetryCount(w) \/ RetryFinish(w)
      BY <2>4 DEF RetryBegin, RetryLock, RetryProduce, RetryTerminal, RetryRecord, RetryCount, RetryFinish
    <2> QED
      BY <2>1, <2>2, <2>3, <2>4 DEF Handle
  <1>2. ASSUME NEW pc, Goto(w, pc), pc = "planned" => PlanFinish(w) PROVE Goal
    BY <1>1, <1>2, GotoJob
  <1>3. ASSUME NEW rest, EmitFrom(w, rest) PROVE Goal
    BY <1>1, <1>3, EmitJob
  <1>4. ASSUME Ack(w) PROVE Goal
    BY <1>1, <1>4, AckJob
  <1>5. ASSUME Nack(w) PROVE Goal
    BY <1>5, DropJob DEF Nack
  <1>6. CASE PlanFinish(w)
    BY <1>1, <1>2, <1>6 DEF PlanFinish
  <1>7. CASE PlanBegin(w) \/ PlanRecheck(w) \/ PlanMark(w) \/ PlanUnlock(w) \/ ShardStream(w) \/ Emit(w)
             \/ AckStep(w)
    <2>1. \/ Ack(w) \/ Nack(w) \/ (\E rest : EmitFrom(w, rest))
          \/ Goto(w, "recheck") \/ Goto(w, "markPlanning")
      BY <1>7 DEF PlanBegin, PlanRecheck, PlanMark, PlanUnlock, ShardStream, Emit, AckStep
    <2> HIDE DEF Goal
    <2>2. Goal
      BY <1>2, <1>3, <1>4, <1>5, <2>1
    <2> QED
      BY <1>1, <2>2 DEF Goal
  <1>8. CASE Dispatch(w)
    <2>1. \E rest : EmitFrom(w, rest)
      BY <1>8, DispatchStep
    <2> HIDE DEF Goal
    <2>2. Goal
      BY <1>3, <2>1
    <2> QED
      BY <1>1, <2>2 DEF Goal
  <1>9. CASE Feedback(w) \/ FeedbackDevice(w) \/ FeedbackUpsert(w) \/ FeedbackCount(w)
             \/ FeedbackSchedule(w) \/ FeedbackMark(w)
    <2>1. Ack(w) \/ \E pc \in FeedbackPcs : Goto(w, pc)
      BY <1>9 DEF Feedback, FeedbackDevice, FeedbackUpsert, FeedbackCount, FeedbackSchedule, FeedbackMark,
                  FeedbackPcs
    <2>2. "planned" \notin FeedbackPcs
      BY DEF FeedbackPcs
    <2> HIDE DEF Goal
    <2>3. Goal
      BY <1>2, <1>4, <2>1, <2>2
    <2> QED
      BY <1>1, <2>3 DEF Goal
  <1>10. CASE RetryBegin(w) \/ RetryLock(w) \/ RetryProduce(w) \/ RetryTerminal(w) \/ RetryRecord(w)
              \/ RetryCount(w) \/ RetryFinish(w)
    <2>1. RetryRoute(wk[w].m) \in RetryPcs
      BY DEF RetryRoute, RetryPcs
    <2>2. Ack(w) \/ Nack(w) \/ \E pc \in RetryPcs : Goto(w, pc)
      BY <1>10, <2>1 DEF RetryBegin, RetryLock, RetryProduce, RetryTerminal, RetryRecord, RetryCount,
                         RetryFinish, DeadLetter, RetryPcs
    <2>3. "planned" \notin RetryPcs
      BY DEF RetryPcs
    <2> HIDE DEF Goal
    <2>4. Goal
      BY <1>2, <1>4, <1>5, <2>2, <2>3
    <2> QED
      BY <1>1, <2>4 DEF Goal
  <1> QED
    BY <1>6, <1>7, <1>8, <1>9, <1>10 DEF Handle

\* The message of a publish is in the queue as long as it can still be
\* planned, once its planning has begun or someone handles it.
PlanOK ==
    /\ \A p \in Publishes : status[p].state = "planning" => PublishMsg(p) \in Queued
    /\ \A w \in Workers : wk[w].pc # "idle" /\ wk[w].m.stage = "publish" =>
          /\ CanBePlanned(wk[w].m.pub) => wk[w].m \in Queued
          /\ wk[w].pc = "planned" => ~CanBePlanned(wk[w].m.pub)

\* Who takes a message out of the queue.
LEMMA Leaves ==
  ASSUME Typing, Shape, [Next]_vars, NEW x \in Queued, x \notin Queued'
  PROVE  \E w \in Workers :
            /\ wk[w].pc # "idle" /\ wk[w].m = x /\ Ack(w) /\ Leased(w) /\ UNCHANGED ready
            /\ \/ (PlanBegin(w) \/ PlanRecheck(w)) /\ ~CanBePlanned(x.pub) /\ x.stage = "publish"
               \/ PlanUnlock(w) /\ x.stage = "publish"
               \/ AckStep(w) /\ x.stage \in {"shard", "deliver"}
               \/ x.stage \in {"result", "retry"}
  <1> USE DEF store, queue
  <1> DEFINE Goal(w) == /\ wk[w].pc # "idle" /\ wk[w].m = x /\ Ack(w) /\ Leased(w) /\ UNCHANGED ready
                        /\ \/ (PlanBegin(w) \/ PlanRecheck(w)) /\ ~CanBePlanned(x.pub) /\ x.stage = "publish"
                           \/ PlanUnlock(w) /\ x.stage = "publish"
                           \/ AckStep(w) /\ x.stage \in {"shard", "deliver"}
                           \/ x.stage \in {"result", "retry"}
  <1>1. ~(Queued \subseteq Queued')
    OBVIOUS
  <1>2. ASSUME NEW w \in Workers, Ack(w), UNCHANGED ready PROVE wk[w].m = x /\ Leased(w)
    BY <1>2, QueueAdds
  <1>3. UNCHANGED <<ready, inflight>> => FALSE
    BY <1>1 DEF Queued
  <1>4. ASSUME NEW w, Nack(w) PROVE FALSE
    BY <1>1, <1>4, QueueAdds
  <1>5. ASSUME NEW m, Produce(m), UNCHANGED inflight PROVE FALSE
    BY <1>1, <1>5, QueueAdds
  <1>6. ASSUME NEW w \in Workers, Consume(w) PROVE FALSE
    BY <1>1, <1>6 DEF Consume, Queued
  <1>7. ASSUME NEW w \in Workers, PlanBegin(w) \/ PlanRecheck(w) PROVE Goal(w)
    <2>1. wk[w].pc # "idle" /\ wk[w].pc \in PlanOnlyPcs
      BY <1>7 DEF PlanBegin, PlanRecheck, PlanOnlyPcs
    <2>2. wk[w].m.stage = "publish"
      BY <2>1, StageOf
    <2>3. Ack(w) /\ UNCHANGED ready /\ ~CanBePlanned(wk[w].m.pub)
      BY <1>3, <1>4, <1>7 DEF PlanBegin, PlanRecheck
    <2> QED
      BY <1>2, <1>7, <2>1, <2>2, <2>3
  <1>8. ASSUME NEW w \in Workers, PlanUnlock(w) PROVE Goal(w)
    <2>1. wk[w].pc # "idle" /\ wk[w].pc \in PlanOnlyPcs /\ Ack(w) /\ UNCHANGED ready
      BY <1>8 DEF PlanUnlock, PlanOnlyPcs
    <2>2. wk[w].m.stage = "publish"
      BY <2>1, StageOf
    <2> QED
      BY <1>2, <1>8, <2>1, <2>2
  <1>9. ASSUME NEW w \in Workers, AckStep(w) PROVE Goal(w)
    <2>1. wk[w].pc = "ack" /\ Ack(w) /\ UNCHANGED ready
      BY <1>9 DEF AckStep
    <2>2. wk[w].m.stage \in {"shard", "deliver"}
      BY <2>1, StageOf
    <2> QED
      BY <1>2, <1>9, <2>1, <2>2
  <1>10. ASSUME NEW w \in Workers,
               \/ Feedback(w) \/ FeedbackCount(w) \/ FeedbackMark(w) \/ RetryBegin(w) \/ RetryLock(w)
               \/ RetryFinish(w) \/ StoreError(w)
        PROVE  Goal(w)
    <2>1. /\ wk[w].pc # "idle" /\ Ack(w) /\ UNCHANGED ready
          /\ wk[w].pc \in FeedbackPcs \cup RetryPcs \cup {"retry"}
      <3>1. CASE Feedback(w) \/ FeedbackCount(w) \/ FeedbackMark(w)
        BY <1>3, <3>1 DEF Feedback, FeedbackCount, FeedbackMark, FeedbackPcs
      <3>2. CASE RetryBegin(w) \/ RetryLock(w) \/ RetryFinish(w)
        BY <1>3, <1>4, <3>2 DEF RetryBegin, RetryLock, RetryFinish, DeadLetter, RetryPcs
      <3>3. CASE StoreError(w)
        BY <1>3, <3>3 DEF StoreError, DeadLetter, Busy
      <3> QED
        BY <1>10, <3>1, <3>2, <3>3
    <2>2. wk[w].m.stage \in {"result", "retry"}
      BY <2>1, StageOf
    <2> QED
      BY <1>2, <2>1, <2>2
  <1>11. ASSUME NEW w \in Workers, PlanMark(w) \/ PlanFinish(w) \/ ShardStream(w) \/ FeedbackDevice(w)
               \/ FeedbackUpsert(w) \/ RetryTerminal(w) \/ RetryRecord(w) \/ RetryCount(w) \/ Crash(w)
         PROVE  FALSE
    BY <1>3, <1>11 DEF PlanMark, PlanFinish, ShardStream, FeedbackDevice, FeedbackUpsert,
                  RetryTerminal, RetryRecord, RetryCount, Crash
  <1>12. ASSUME NEW w \in Workers, Dispatch(w) PROVE FALSE
    BY <1>3, <1>12, DispatchStep
  <1>13. ASSUME NEW w \in Workers, Emit(w) \/ FeedbackSchedule(w) \/ RetryProduce(w) PROVE FALSE
    BY <1>5, <1>13 DEF Emit, FeedbackSchedule, RetryProduce
  <1>14. ASSUME NEW w \in Workers, Defer(w) PROVE FALSE
    BY <1>4, <1>14 DEF Defer
  <1>15. ASSUME ~\E w \in Workers : Consume(w) \/ Handle(w) \/ Defer(w) \/ Crash(w) \/ StoreError(w)
         PROVE  FALSE
    BY <1>1, <1>5, <1>15, OutsideSteps
  <1> HIDE DEF Goal
  <1>16. \E w \in Workers : Goal(w)
    BY <1>6, <1>7, <1>8, <1>9, <1>10, <1>11, <1>12, <1>13, <1>14, <1>15 DEF Handle
  <1> QED
    BY <1>16 DEF Goal

\* A publish message leaves the queue only when it cannot be planned any more.
LEMMA PublishStays ==
  ASSUME Typing, Shape, PlanOK, [Next]_vars, NEW p \in Known, PublishMsg(p) \in Queued, CanBePlanned(p)
  PROVE  PublishMsg(p) \in Queued'
  <1> DEFINE x == PublishMsg(p)
  <1>1. x.stage = "publish" /\ x.pub = p
    BY DEF PublishMsg, Msg
  <1> HIDE DEF x
  <1>2. SUFFICES ASSUME x \in Queued, x \notin Queued' PROVE FALSE
    BY DEF x
  <1>3. PICK w \in Workers :
            /\ wk[w].pc # "idle" /\ wk[w].m = x
            /\ \/ (PlanBegin(w) \/ PlanRecheck(w)) /\ ~CanBePlanned(x.pub) /\ x.stage = "publish"
               \/ PlanUnlock(w) /\ x.stage = "publish"
               \/ AckStep(w) /\ x.stage \in {"shard", "deliver"}
               \/ x.stage \in {"result", "retry"}
    BY <1>2, Leaves
  <1>4. PlanUnlock(w)
    BY <1>1, <1>3
  <1>5. wk[w].pc = "planned"
    BY <1>4 DEF PlanUnlock
  <1> QED
    BY <1>1, <1>3, <1>5 DEF PlanOK

\* What a worker handles after a step it handled before, or it was ready.
LEMMA JobSteps ==
  ASSUME Typing, [Next]_vars, NEW v \in Workers, wk'[v].pc # "idle"
  PROVE  \/ wk[v].pc # "idle" /\ wk'[v].m = wk[v].m /\ wk'[v].pc = wk[v].pc /\ wk'[v].rest = wk[v].rest
         \/ Consume(v) /\ wk'[v].m \in ready
         \/ Handle(v) /\ wk[v].pc # "idle" /\ wk'[v].m = wk[v].m
  <1>1. ASSUME NEW w \in Workers, Handle(w) PROVE wk[w].pc # "idle" /\ Others(w) /\ (wk'[w].pc = "idle" \/ wk'[w].m = wk[w].m)
    BY <1>1, HandleJob
  <1>2. ASSUME NEW w \in Workers, Consume(w) PROVE Others(w) /\ wk'[w].m \in ready
    <2>1. PICK m \in ready : wk' = Start(w, m, FirstPc[m.stage])
      BY <1>2 DEF Consume
    <2>2. PICK pc : pc = FirstPc[m.stage]
      OBVIOUS
    <2>3. wk' = Start(w, m, pc)
      BY <2>1, <2>2
    <2>4. Others(w) /\ wk'[w].m = m
      BY <2>3, StartJob
    <2> QED
      BY <2>4
  <1>3. ASSUME NEW w \in Workers, Defer(w) \/ Crash(w) \/ StoreError(w) PROVE Others(w) /\ wk'[w].pc = "idle"
    <2>1. wk[w].pc # "idle" /\ (wk' = [wk EXCEPT ![w] = Idle] \/ Ack(w))
      BY <1>3 DEF Defer, Nack, Crash, StoreError, Busy, DeadLetter
    <2> QED
      BY <2>1, AckJob, DropJob
  <1>4. ASSUME ~\E w \in Workers : Consume(w) \/ Handle(w) \/ Defer(w) \/ Crash(w) \/ StoreError(w)
        PROVE  UNCHANGED wk
    BY <1>4, OutsideSteps
  <1> QED
    BY <1>1, <1>2, <1>3, <1>4 DEF Others

\* Every step keeps PlanOK.
LEMMA StepPlanOK == Typing /\ Shape /\ PlanOK /\ [Next]_vars => PlanOK'
  <1> SUFFICES ASSUME Typing, Shape, PlanOK, [Next]_vars PROVE PlanOK'
    OBVIOUS
  <1>1. Shape' /\ Typing'
    BY StepShape, StepTyping
  <1>2. ASSUME NEW p \in Publishes, status'[p].state = "planning" PROVE PublishMsg(p) \in Queued'
    <2>1. StateMoves(p)
      BY StateSteps
    <2>2. CASE status[p].state = "planning"
      <3>1. p \in Known /\ CanBePlanned(p) /\ PublishMsg(p) \in Queued
        BY <2>2 DEF Known, NoStatus, CanBePlanned, PlanOK
      <3> QED
        BY <3>1, PublishStays
    <2>3. CASE \E w \in Workers : PlanMark(w) /\ wk[w].m.pub = p /\ status[p].state = "queued"
      <3>1. PICK w \in Workers : PlanMark(w) /\ wk[w].m.pub = p /\ status[p].state = "queued"
        BY <2>3
      <3>2. wk[w].pc = "markPlanning" /\ UNCHANGED <<ready, inflight>>
        BY <3>1 DEF PlanMark, queue
      <3>3. wk[w].m.stage = "publish" /\ Plain(wk[w].m)
        BY <3>2, StageOf DEF PlanOnlyPcs
      <3>4. wk[w].m = PublishMsg(p) /\ CanBePlanned(p)
        BY <3>1, <3>3 DEF Plain, CanBePlanned
      <3>5. PublishMsg(p) \in Queued
        BY <3>1, <3>2, <3>3, <3>4 DEF PlanOK
      <3> QED
        BY <3>2, <3>5 DEF Queued
    <2> QED
      BY <1>2, <2>1, <2>2, <2>3 DEF StateMoves, TerminalStates
  <1>3. ASSUME NEW v \in Workers, wk'[v].pc # "idle", wk'[v].m.stage = "publish",
               status'[wk'[v].m.pub].state \in {"queued", "planning"}
        PROVE  wk'[v].m \in Queued'
    <2>1. PICK m : m = wk'[v].m
      OBVIOUS
    <2>2. m \in Queued \/ (wk[v].pc # "idle" /\ wk[v].m = m)
      BY <1>3, <2>1, JobSteps DEF Queued
    <2>3. m.pub \in Known
      BY <2>2, BusyJob, MessageFields DEF Typing, Queued
    <2>4. CanBePlanned(m.pub)
      <3>1. PICK p : p = m.pub
        OBVIOUS
      <3>2. CanBePlanned(p)'
        BY <1>3, <2>1, <3>1 DEF CanBePlanned
      <3> QED
        BY <2>3, <3>1, <3>2, PlanOnce
    <2>5. m \in Queued
      BY <1>3, <2>1, <2>2, <2>4 DEF PlanOK
    <2>6. m = PublishMsg(m.pub)
      BY <1>3, <2>1, <2>5 DEF Shape, Plain
    <2> QED
      BY <2>1, <2>3, <2>4, <2>5, <2>6, PublishStays
  <1>4. ASSUME NEW v \in Workers, wk'[v].pc = "planned", wk'[v].m.stage = "publish"
        PROVE  status'[wk'[v].m.pub].state \notin {"queued", "planning"}
    <2>1. CASE wk[v].pc = "planned" /\ wk'[v].m = wk[v].m
      <3>1. wk[v].m.pub \in Known /\ ~CanBePlanned(wk[v].m.pub)
        BY <1>4, <2>1, BusyJob, MessageFields DEF PlanOK
      <3>2. PICK p : p = wk[v].m.pub
        OBVIOUS
      <3>3. ~CanBePlanned(p)'
        BY <3>1, <3>2, PlanOnce
      <3> QED
        BY <2>1, <3>2, <3>3 DEF CanBePlanned
    <2>2. CASE PlanFinish(v) /\ wk'[v].m = wk[v].m
      <3>1. PICK p : p = wk[v].m.pub
        OBVIOUS
      <3>2. wk[v].pc # "idle" /\ MarkState(p, "dispatching")
        BY <2>2, <3>1 DEF PlanFinish
      <3>3. p \in Publishes /\ status[p] \in StatusRows
        BY <3>1, <3>2, BusyJob, MessageFields, KnownRow
      <3>4. status'[p].state \notin {"queued", "planning"}
        <4>1. CASE CanTransition(status[p].state, "dispatching")
          <5>1. status' = [status EXCEPT ![p] = [status[p] EXCEPT !.state = "dispatching"]]
            BY <3>2, <3>3, <4>1 DEF MarkState, Typing
          <5>2. [status[p] EXCEPT !.state = "dispatching"].state = "dispatching"
            BY <3>3 DEF StatusRows
          <5>3. status'[p].state = "dispatching"
            BY <3>3, <5>1, <5>2 DEF Typing
          <5> QED
            BY <5>3
        <4>2. CASE ~CanTransition(status[p].state, "dispatching")
          <5>1. status' = status
            BY <3>2, <4>2 DEF MarkState
          <5>2. status[p].state \notin {"queued", "planning"}
            BY <4>2 DEF CanTransition, TerminalStates
          <5> QED
            BY <5>1, <5>2
        <4> QED
          BY <4>1, <4>2
      <3> QED
        BY <2>2, <3>1, <3>4 DEF CanBePlanned
    <2>3. \/ wk[v].pc = "planned" /\ wk'[v].m = wk[v].m
          \/ PlanFinish(v) /\ wk'[v].m = wk[v].m
          \/ Consume(v)
      BY <1>4, JobSteps, HandleJob
    <2>4. CASE Consume(v)
      <3>1. PICK m \in ready : wk' = Start(v, m, FirstPc[m.stage])
        BY <2>4 DEF Consume
      <3>2. PICK pc : pc = FirstPc[m.stage]
        OBVIOUS
      <3>3. wk' = Start(v, m, pc)
        BY <3>1, <3>2
      <3>4. m.stage \in Stages
        BY MessageFields DEF Typing
      <3>5. wk'[v].pc = pc
        BY <3>3, StartJob
      <3>6. pc # "planned"
        BY <3>2, <3>4 DEF Stages, FirstPc
      <3> QED
        BY <1>4, <3>5, <3>6
    <2> QED
      BY <2>1, <2>2, <2>3, <2>4
  <1> QED
    BY <1>2, <1>3, <1>4 DEF PlanOK, CanBePlanned

\* Shape and planning facts of every reachable state.
LEMMA AlwaysPlanned == Spec => [](Typing /\ Shape /\ PlanOK)
  <1>1. Init => Shape /\ PlanOK
    <2> SUFFICES ASSUME Init PROVE Shape /\ PlanOK
      OBVIOUS
    <2>1. /\ \A w \in Workers : wk[w].pc = "idle"
          /\ Queued = {} /\ dlq = {}
          /\ \A p \in Publishes : status[p].state = "none"
      BY DEF Init, Idle, Queued, NoStatus
    <2> QED
      BY <2>1 DEF Shape, PlanOK
  <1> QED
    BY <1>1, InitTyping, StepTyping, StepShape, StepPlanOK, PTL DEF Spec

-----------------------------------------------------------------------------
(* The budget of provider requests *)

\* A subscription after the cursor c names the device d.
Names(d, c) == \E k \in c + 1 .. Len(Subs) : d \in Subs[k]

\* Handling m can lead to the request x, a publish, a device and an attempt;
\* row is the status row of the publish.
Leads(x, m, row) ==
    /\ m.pub = x[1]
    /\ \/ m.stage = "publish" /\ row.state \in {"queued", "planning"}
       \/ m.stage = "shard" /\ Names(x[2], m.attempt)
       \/ m.stage \in {"deliver", "retry"} /\ x[2] \in m.devs /\ m.attempt <= x[3]
       \/ m.stage = "result" /\ x[2] \in m.devs /\ m.attempt < x[3]

\* Where a handler has done nothing yet of what its message leads to.
FreshPcs == {"plan", "recheck", "shard", "preflight", "feedback", "device", "upsert", "count",
             "schedule", "retry", "retryLock", "successor"}

\* The job j still has to do what leads to the request x.
Owes(x, j, row) ==
    \/ j.pc \in FreshPcs /\ Leads(x, j.m, row)
    \/ j.pc = "markPlanning" /\ j.m.pub = x[1]
    \/ j.pc = "emit" /\ \E i \in DOMAIN j.rest : Leads(x, j.rest[i], row)

\* The queued messages that lead to x and that nobody handles, the workers
\* that still owe x, and the publish whose message is not in the queue but may
\* yet be produced.
Waiting(x) == {m \in Queued : Leads(x, m, status[x[1]]) /\ (m \in ready \/ ~Handled(m))}
Owing(x) == {w \in Workers : Owes(x, wk[w], status[x[1]])}
Unplanned(p) == status[p].state \in {"none", "queued", "planning"} /\ PublishMsg(p) \notin Queued

\* Requests made and requests to come fit the first one and the faults used.
Cost(x) == sent[x] + Cardinality(Waiting(x)) + Cardinality(Owing(x))
           + (IF Unplanned(x[1]) THEN 1 ELSE 0)
Budget ==
    \A x \in DOMAIN sent : /\ IsFiniteSet(Waiting(x)) /\ IsFiniteSet(Owing(x))
                           /\ Cost(x) <= 1 + MaxFaults - faults

\* What a handler is about to produce leads to a request through one message.
OneEach(x, j) ==
    j.pc = "emit" => \A i, k \in DOMAIN j.rest :
        \A row : Leads(x, j.rest[i], row) /\ Leads(x, j.rest[k], row) => i = k
Singles == \A x \in DOMAIN sent, w \in Workers : OneEach(x, wk[w])

\* What a step does to the budget of x: nothing, a fault, the message of the
\* publish is produced, a worker produces, a worker consumes, a request.
Moves(x) ==
    \/ /\ sent'[x] = sent[x] /\ Waiting(x)' \subseteq Waiting(x) /\ Owing(x)' \subseteq Owing(x)
    \/ /\ sent'[x] = sent[x] /\ faults' < faults
       /\ (\E m : Waiting(x)' \subseteq Waiting(x) \cup {m}) /\ Owing(x)' \subseteq Owing(x)
    \/ /\ sent'[x] = sent[x] /\ Unplanned(x[1]) /\ ~Unplanned(x[1])'
       /\ (\E m : Waiting(x)' \subseteq Waiting(x) \cup {m}) /\ Owing(x)' \subseteq Owing(x)
    \/ /\ sent'[x] = sent[x] /\ \E m : Waiting(x)' \subseteq Waiting(x) \cup {m}
       /\ \E w \in Owing(x) : Owing(x)' \subseteq Owing(x) \ {w}
    \/ /\ sent'[x] = sent[x] /\ \E m \in Waiting(x) : Waiting(x)' \subseteq Waiting(x) \ {m}
       /\ \E w : Owing(x)' \subseteq Owing(x) \cup {w}
    \/ /\ sent'[x] = sent[x] + 1 /\ Waiting(x)' \subseteq Waiting(x)
       /\ \E w \in Owing(x) : Owing(x)' \subseteq Owing(x) \ {w}

\* One element more or less.
LEMMA OneMore ==
  ASSUME NEW S, IsFiniteSet(S), NEW T
  PROVE  /\ Cardinality(S) \in Nat
         /\ T \subseteq S => IsFiniteSet(T) /\ Cardinality(T) \in Nat /\ Cardinality(T) <= Cardinality(S)
         /\ \A a : T \subseteq S \cup {a} =>
              IsFiniteSet(T) /\ Cardinality(T) \in Nat /\ Cardinality(T) <= Cardinality(S) + 1
         /\ \A a \in S : T \subseteq S \ {a} =>
              IsFiniteSet(T) /\ Cardinality(T) \in Nat /\ Cardinality(T) + 1 <= Cardinality(S)
  <1>1. Cardinality(S) \in Nat
    BY FS_CardinalityType
  <1>2. ASSUME NEW U, IsFiniteSet(U), T \subseteq U
        PROVE  IsFiniteSet(T) /\ Cardinality(T) \in Nat /\ Cardinality(T) <= Cardinality(U)
    BY <1>2, FS_Subset, FS_CardinalityType
  <1>3. ASSUME NEW a, T \subseteq S \cup {a}
        PROVE  IsFiniteSet(T) /\ Cardinality(T) \in Nat /\ Cardinality(T) <= Cardinality(S) + 1
    <2>1. /\ IsFiniteSet(S \cup {a})
          /\ Cardinality(S \cup {a}) = IF a \in S THEN Cardinality(S) ELSE Cardinality(S) + 1
      BY FS_AddElement
    <2>2. IsFiniteSet(T) /\ Cardinality(T) \in Nat /\ Cardinality(T) <= Cardinality(S \cup {a})
      BY <1>2, <1>3, <2>1
    <2> QED
      BY <1>1, <2>1, <2>2
  <1>4. ASSUME NEW a \in S, T \subseteq S \ {a}
        PROVE  IsFiniteSet(T) /\ Cardinality(T) \in Nat /\ Cardinality(T) + 1 <= Cardinality(S)
    <2>1. /\ IsFiniteSet(S \ {a})
          /\ Cardinality(S \ {a}) = IF a \in S THEN Cardinality(S) - 1 ELSE Cardinality(S)
      BY FS_RemoveElement
    <2>2. IsFiniteSet(T) /\ Cardinality(T) \in Nat /\ Cardinality(T) <= Cardinality(S \ {a})
      BY <1>2, <1>4, <2>1
    <2> QED
      BY <1>1, <2>1, <2>2
  <1> QED
    BY <1>1, <1>2, <1>3, <1>4

\* A step that moves the budget of x in one of these ways keeps it.
LEMMA Balance ==
  ASSUME Typing, Typing', Budget, NEW x \in DOMAIN sent, Moves(x),
         Unplanned(x[1])' => Unplanned(x[1]), faults' <= faults, DOMAIN sent' = DOMAIN sent
  PROVE  IsFiniteSet(Waiting(x))' /\ IsFiniteSet(Owing(x))' /\ Cost(x)' <= 1 + MaxFaults - faults'
  <1> DEFINE a == Cardinality(Waiting(x))
             b == Cardinality(Owing(x))
             a2 == Cardinality(Waiting(x)')
             b2 == Cardinality(Owing(x)')
             u == IF Unplanned(x[1]) THEN 1 ELSE 0
             u2 == IF Unplanned(x[1])' THEN 1 ELSE 0
  <1>1. /\ faults \in Nat /\ faults' \in Nat /\ MaxFaults \in Nat
        /\ sent[x] \in Nat /\ sent'[x] \in Nat
    BY PushAssumption DEF Typing
  <1>2. IsFiniteSet(Waiting(x)) /\ IsFiniteSet(Owing(x)) /\ sent[x] + a + b + u <= 1 + MaxFaults - faults
    BY DEF Budget, Cost
  <1>3. u \in {0, 1} /\ u2 \in {0, 1} /\ u2 <= u
    OBVIOUS
  <1>4. Unplanned(x[1]) /\ ~Unplanned(x[1])' => u = 1 /\ u2 = 0
    OBVIOUS
  <1> DEFINE FinW == IsFiniteSet(Waiting(x)')
             FinO == IsFiniteSet(Owing(x)')
  <1>5. /\ a \in Nat /\ b \in Nat
        /\ Waiting(x)' \subseteq Waiting(x) => FinW /\ a2 \in Nat /\ a2 <= a
        /\ \A m : Waiting(x)' \subseteq Waiting(x) \cup {m} => FinW /\ a2 \in Nat /\ a2 <= a + 1
        /\ \A m \in Waiting(x) : Waiting(x)' \subseteq Waiting(x) \ {m} => FinW /\ a2 \in Nat /\ a2 + 1 <= a
    BY <1>2, OneMore
  <1>6. /\ Owing(x)' \subseteq Owing(x) => FinO /\ b2 \in Nat /\ b2 <= b
        /\ \A w : Owing(x)' \subseteq Owing(x) \cup {w} => FinO /\ b2 \in Nat /\ b2 <= b + 1
        /\ \A w \in Owing(x) : Owing(x)' \subseteq Owing(x) \ {w} => FinO /\ b2 \in Nat /\ b2 + 1 <= b
    BY <1>2, OneMore
  <1> HIDE DEF a, b, a2, b2, u, u2, FinW, FinO
  <1>7. \/ /\ sent'[x] = sent[x] /\ FinW /\ FinO /\ a2 \in Nat /\ b2 \in Nat /\ a2 <= a /\ b2 <= b
        \/ /\ sent'[x] = sent[x] /\ FinW /\ FinO /\ a2 \in Nat /\ b2 \in Nat /\ a2 <= a + 1 /\ b2 <= b
           /\ faults' < faults \/ (u = 1 /\ u2 = 0)
        \/ /\ sent'[x] = sent[x] /\ FinW /\ FinO /\ a2 \in Nat /\ b2 \in Nat /\ a2 <= a + 1 /\ b2 + 1 <= b
        \/ /\ sent'[x] = sent[x] /\ FinW /\ FinO /\ a2 \in Nat /\ b2 \in Nat /\ a2 + 1 <= a /\ b2 <= b + 1
        \/ /\ sent'[x] = sent[x] + 1 /\ FinW /\ FinO /\ a2 \in Nat /\ b2 \in Nat /\ a2 <= a /\ b2 + 1 <= b
    BY <1>4, <1>5, <1>6 DEF Moves
  <1>8. sent'[x] + a2 + b2 + u2 <= 1 + MaxFaults - faults' /\ FinW /\ FinO
    BY <1>1, <1>2, <1>3, <1>5, <1>7
  <1> QED
    BY <1>8 DEF Cost, a2, b2, u2, FinW, FinO

\* What leads to a request after a step led to it before.
LEMMA LeadsPast ==
  ASSUME Typing, [Next]_vars, NEW x, NEW m, m.pub \in Known, Leads(x, m, status'[x[1]])
  PROVE  Leads(x, m, status[x[1]])
  <1>1. PICK p : p = x[1]
    OBVIOUS
  <1>2. CASE m.stage = "publish"
    <2>1. p \in Known /\ status'[p].state \in {"queued", "planning"}
      BY <1>1, <1>2 DEF Leads
    <2>2. CanBePlanned(p)
      BY <2>1, PlanOnce DEF CanBePlanned
    <2> QED
      BY <1>1, <1>2, <2>2 DEF Leads, CanBePlanned
  <1>3. CASE m.stage # "publish"
    BY <1>3 DEF Leads
  <1> QED
    BY <1>2, <1>3

\* Workers that go on owe no more than before.
LEMMA OwingFrame ==
  ASSUME Typing, [Next]_vars, NEW x, NEW w \in Workers, Others(w)
  PROVE  /\ Owing(x)' \subseteq Owing(x) \cup {w}
         /\ ~Owes(x, wk'[w], status'[x[1]]) => Owing(x)' \subseteq Owing(x) \ {w}
         /\ (Owes(x, wk'[w], status'[x[1]]) => Owes(x, wk[w], status[x[1]])) => Owing(x)' \subseteq Owing(x)
  <1>1. ASSUME NEW v \in Workers, v # w, Owes(x, wk'[v], status'[x[1]])
        PROVE  Owes(x, wk[v], status[x[1]])
    <2>1. wk'[v].pc = wk[v].pc /\ wk[v].pc # "idle"
      BY <1>1 DEF Owes, Others, FreshPcs
    <2>2. wk'[v].m = wk[v].m /\ wk'[v].rest = wk[v].rest
      BY <1>1, <2>1 DEF Others
    <2>3. wk[v].m.pub \in Known /\ \A i \in DOMAIN wk[v].rest : wk[v].rest[i].pub \in Known
      BY <2>1, BusyJob, MessageFields DEF Job
    <2>4. Leads(x, wk[v].m, status'[x[1]]) => Leads(x, wk[v].m, status[x[1]])
      <3>1. PICK m : m = wk[v].m
        OBVIOUS
      <3> QED
        BY <2>3, <3>1, LeadsPast
    <2>5. ASSUME NEW i \in DOMAIN wk[v].rest, Leads(x, wk[v].rest[i], status'[x[1]])
          PROVE  Leads(x, wk[v].rest[i], status[x[1]])
      <3>1. PICK m : m = wk[v].rest[i]
        OBVIOUS
      <3> QED
        BY <2>3, <2>5, <3>1, LeadsPast
    <2> QED
      BY <1>1, <2>1, <2>2, <2>4, <2>5 DEF Owes
  <1>2. \A v \in Workers : v \in Owing(x)' <=> Owes(x, wk'[v], status'[x[1]])
    BY DEF Owing
  <1>3. \A v \in Workers : v \in Owing(x) <=> Owes(x, wk[v], status[x[1]])
    BY DEF Owing
  <1>4. Owing(x) \subseteq Workers /\ Owing(x)' \subseteq Workers
    BY DEF Owing
  <1> QED
    BY <1>1, <1>2, <1>3, <1>4

\* Messages that stay where they are and are handled as before wait as before.
LEMMA WaitingFrame ==
  ASSUME Typing, [Next]_vars, NEW x, NEW A,
         \A m \in Queued' : \/ m \in A
                            \/ /\ m \in Queued
                               /\ m \in ready' \/ ~Handled(m)' => m \in ready \/ ~Handled(m)
  PROVE  Waiting(x)' \subseteq Waiting(x) \cup A
  <1>1. ASSUME NEW m \in Waiting(x)', m \notin A PROVE m \in Waiting(x)
    <2>1. m \in Queued' /\ Leads(x, m, status'[x[1]]) /\ (m \in ready' \/ ~Handled(m)')
      BY <1>1 DEF Waiting
    <2>2. m \in Queued /\ (m \in ready \/ ~Handled(m))
      BY <1>1, <2>1
    <2>3. m.pub \in Known
      BY <2>2, MessageFields DEF Typing, Queued
    <2>4. Leads(x, m, status[x[1]])
      BY <2>1, <2>3, LeadsPast
    <2> QED
      BY <2>2, <2>4 DEF Waiting
  <1> QED
    BY <1>1

\* A publish that has yet to be planned or is out of the queue was so before.
LEMMA UnplannedStep ==
  ASSUME Typing, Shape, PlanOK, [Next]_vars, NEW p \in Publishes, Unplanned(p)'
  PROVE  Unplanned(p)
  <1>1. CASE p \notin Known
    <2>1. status[p].state = "none"
      BY <1>1 DEF Known, NoStatus
    <2>2. PublishMsg(p).pub = p
      BY DEF PublishMsg, Msg
    <2>3. PublishMsg(p) \notin Queued
      BY <1>1, <2>2, MessageFields DEF Typing, Queued
    <2> QED
      BY <2>1, <2>3 DEF Unplanned
  <1>2. CASE p \in Known
    <2>1. StateMoves(p) /\ status[p].state # "none"
      BY <1>2, StateSteps, KnownRow, RowIsStatus
    <2>2. status'[p].state \in {"none", "queued", "planning"} /\ PublishMsg(p) \notin Queued'
      BY DEF Unplanned
    <2>3. CanBePlanned(p)
      BY <2>1, <2>2 DEF StateMoves, TerminalStates, CanBePlanned
    <2>4. PublishMsg(p) \notin Queued
      BY <1>2, <2>2, <2>3, PublishStays
    <2> QED
      BY <2>3, <2>4 DEF Unplanned, CanBePlanned
  <1> QED
    BY <1>1, <1>2

\* A worker that goes on with its message: what waits is what it produces.
LEMMA StayFrame ==
  ASSUME Typing, [Next]_vars, NEW x, NEW w \in Workers, wk[w].pc # "idle", wk'[w].pc # "idle",
         wk'[w].m = wk[w].m, wk'[w].token = wk[w].token, \A v \in Workers \ {w} : wk'[v] = wk[v]
  PROVE  /\ UNCHANGED <<ready, inflight>> => Waiting(x)' \subseteq Waiting(x)
         /\ \A m : Produce(m) /\ UNCHANGED inflight =>
               /\ Waiting(x)' \subseteq Waiting(x) \cup {m}
               /\ ~Leads(x, m, status'[x[1]]) => Waiting(x)' \subseteq Waiting(x)
  <1>1. \A m : Handled(m)' <=> Handled(m)
    BY DEF Handled, Busy
  <1>2. ASSUME UNCHANGED <<ready, inflight>> PROVE Waiting(x)' \subseteq Waiting(x)
    <2>1. Waiting(x)' \subseteq Waiting(x) \cup {}
      BY <1>1, <1>2, WaitingFrame DEF Queued
    <2> QED
      BY <2>1
  <1>3. ASSUME NEW m, Produce(m), UNCHANGED inflight PROVE Waiting(x)' \subseteq Waiting(x) \cup {m}
    <2>1. \A y \in ready' : y = m \/ y \in ready
      BY <1>3 DEF Produce, Enqueue
    <2> QED
      BY <1>1, <1>3, <2>1, WaitingFrame DEF Queued
  <1>4. \A m \in Waiting(x)' : Leads(x, m, status'[x[1]])
    BY DEF Waiting
  <1> QED
    BY <1>2, <1>3, <1>4

\* An acknowledgement leaves nothing more to wait for.
LEMMA AckFrame ==
  ASSUME Typing, [Next]_vars, NEW x, NEW w \in Workers, wk[w].pc # "idle", Ack(w), UNCHANGED ready
  PROVE  /\ Waiting(x)' \subseteq Waiting(x) /\ Owing(x)' \subseteq Owing(x) \ {w}
         /\ Owing(x)' \subseteq Owing(x)
  <1>1. /\ wk'[w].pc = "idle" /\ Others(w)
        /\ \A v \in Workers \ {w} :
              wk[v].pc # "idle" /\ (~Leased(w) \/ wk[v].m # wk[w].m) => wk'[v].token = wk[v].token
    BY AckJob
  <1>2. ~Owes(x, wk'[w], status'[x[1]])
    BY <1>1 DEF Owes, FreshPcs
  <1>3. Owing(x)' \subseteq Owing(x) \ {w}
    BY <1>1, <1>2, OwingFrame
  <1>4. ASSUME NEW y \in Queued', y \notin ready, Handled(y) PROVE Handled(y)' /\ y \in Queued
    <2>1. y \in inflight /\ y \in inflight'
      BY <1>4 DEF Queued, Ack
    <2>2. PICK v \in Workers : wk[v].pc # "idle" /\ wk[v].m = y /\ wk[v].token
      BY <1>4 DEF Handled, Busy
    <2>3. Leased(w) => y # wk[w].m
      BY <2>1 DEF Ack
    <2>4. v # w
      BY <2>1, <2>2, <2>3 DEF Leased
    <2>5. wk'[v].pc # "idle" /\ wk'[v].m = y /\ wk'[v].token
      BY <1>1, <2>2, <2>3, <2>4 DEF Others
    <2> QED
      BY <2>1, <2>5 DEF Handled, Busy, Queued
  <1>5. Queued' \subseteq Queued
    BY QueueAdds
  <1>6. Waiting(x)' \subseteq Waiting(x) \cup {}
    BY <1>4, <1>5, WaitingFrame
  <1> QED
    BY <1>3, <1>6

\* A message that is given back, or left behind, is the only one more to wait
\* for; nobody waits for it if its worker had lost the lease.
LEMMA DropFrame ==
  ASSUME Typing, [Next]_vars, NEW x, NEW w \in Workers, wk[w].pc # "idle",
         wk' = [wk EXCEPT ![w] = Idle], Nack(w) \/ UNCHANGED <<ready, inflight>>
  PROVE  /\ Waiting(x)' \subseteq Waiting(x) \cup {wk[w].m}
         /\ ~Leads(x, wk[w].m, status'[x[1]]) => Waiting(x)' \subseteq Waiting(x)
         /\ Owing(x)' \subseteq Owing(x) \ {w} /\ Owing(x)' \subseteq Owing(x)
  <1>1. wk'[w].pc = "idle" /\ Others(w) /\ \A v \in Workers \ {w} : wk'[v] = wk[v]
    BY DropJob
  <1>2. ~Owes(x, wk'[w], status'[x[1]])
    BY <1>1 DEF Owes, FreshPcs
  <1>3. Owing(x)' \subseteq Owing(x) \ {w}
    BY <1>1, <1>2, OwingFrame
  <1>4. Queued' \subseteq Queued /\ \A y \in ready' : y = wk[w].m \/ y \in ready
    BY QueueAdds DEF Nack, Queued
  <1>5. ASSUME NEW y, Handled(y), y # wk[w].m PROVE Handled(y)'
    BY <1>1, <1>5 DEF Handled, Busy
  <1>6. Waiting(x)' \subseteq Waiting(x) \cup {wk[w].m}
    <2>1. PICK m : m = wk[w].m
      OBVIOUS
    <2>2. Waiting(x)' \subseteq Waiting(x) \cup {m}
      BY <1>4, <1>5, <2>1, WaitingFrame
    <2> QED
      BY <2>1, <2>2
  <1>7. \A m \in Waiting(x)' : Leads(x, m, status'[x[1]])
    BY DEF Waiting
  <1> QED
    BY <1>3, <1>6, <1>7

\* A step to another place that owes no more than this one.
LEMMA GotoMoves ==
  ASSUME Typing, [Next]_vars, NEW x, NEW w \in Workers, wk[w].pc # "idle", NEW pc, pc # "idle",
         Goto(w, pc), UNCHANGED <<ready, inflight, sent>>,
         \/ pc \notin FreshPcs \cup {"markPlanning", "emit"}
         \/ pc \in FreshPcs /\ wk[w].pc \in FreshPcs
         \/ pc = "markPlanning" /\ wk[w].pc \in FreshPcs /\ CanBePlanned(wk[w].m.pub)
            /\ wk[w].m.stage = "publish"
  PROVE  Moves(x)
  <1>1. /\ wk'[w].pc = pc /\ wk'[w].m = wk[w].m /\ wk'[w].token = wk[w].token
        /\ \A v \in Workers \ {w} : wk'[v] = wk[v]
        /\ Others(w)
    BY GotoJob
  <1>2. Waiting(x)' \subseteq Waiting(x)
    BY <1>1, StayFrame
  <1>3. Owes(x, wk'[w], status'[x[1]]) => Owes(x, wk[w], status[x[1]])
    <2>1. PICK m : m = wk[w].m
      OBVIOUS
    <2>2. m.pub \in Known
      BY <2>1, BusyJob, MessageFields
    <2>3. Leads(x, m, status'[x[1]]) => Leads(x, m, status[x[1]])
      BY <2>2, LeadsPast
    <2>4. CASE pc \notin FreshPcs \cup {"markPlanning", "emit"}
      BY <1>1, <2>4 DEF Owes
    <2>5. CASE pc \in FreshPcs /\ wk[w].pc \in FreshPcs
      BY <1>1, <2>1, <2>3, <2>5 DEF Owes, FreshPcs
    <2>6. CASE pc = "markPlanning" /\ wk[w].pc \in FreshPcs /\ CanBePlanned(wk[w].m.pub)
               /\ wk[w].m.stage = "publish"
      BY <1>1, <2>6 DEF Owes, FreshPcs, Leads, CanBePlanned
    <2> QED
      BY <2>4, <2>5, <2>6
  <1>4. Owing(x)' \subseteq Owing(x)
    BY <1>1, <1>3, OwingFrame
  <1> QED
    BY <1>2, <1>4 DEF Moves

\* A worker that acknowledges its message.
LEMMA AckMoves ==
  ASSUME Typing, [Next]_vars, NEW x, NEW w \in Workers, wk[w].pc # "idle", Ack(w), UNCHANGED <<ready, sent>>
  PROVE  Moves(x)
  BY AckFrame DEF Moves

\* A worker that gives its message back where it had done nothing with it.
LEMMA NackMoves ==
  ASSUME Typing, [Next]_vars, NEW x, NEW w \in Workers, wk[w].pc \in FreshPcs, Nack(w), UNCHANGED sent
  PROVE  Moves(x)
  <1>1. wk[w].pc # "idle" /\ wk' = [wk EXCEPT ![w] = Idle]
    BY DEF FreshPcs, Nack
  <1>2. /\ Waiting(x)' \subseteq Waiting(x) \cup {wk[w].m}
        /\ ~Leads(x, wk[w].m, status'[x[1]]) => Waiting(x)' \subseteq Waiting(x)
        /\ Owing(x)' \subseteq Owing(x) \ {w} /\ Owing(x)' \subseteq Owing(x)
    BY <1>1, DropFrame
  <1>3. CASE Leads(x, wk[w].m, status'[x[1]])
    <2>1. PICK m : m = wk[w].m
      OBVIOUS
    <2>2. m.pub \in Known
      BY <1>1, <2>1, BusyJob, MessageFields
    <2>3. Leads(x, m, status[x[1]])
      BY <1>3, <2>1, <2>2, LeadsPast
    <2>4. w \in Owing(x)
      BY <2>1, <2>3 DEF Owing, Owes
    <2> QED
      BY <1>2, <2>4 DEF Moves
  <1>4. CASE ~Leads(x, wk[w].m, status'[x[1]])
    BY <1>2, <1>4 DEF Moves
  <1> QED
    BY <1>3, <1>4

\* A worker that stops with a fault.
LEMMA CrashMoves ==
  ASSUME Typing, [Next]_vars, NEW x, NEW w \in Workers, wk[w].pc # "idle",
         wk' = [wk EXCEPT ![w] = Idle], Nack(w) \/ UNCHANGED <<ready, inflight>>,
         UNCHANGED sent, faults' < faults
  PROVE  Moves(x)
  BY DropFrame DEF Moves

\* A worker that produces the last message its own leads to.
LEMMA ProduceMoves ==
  ASSUME Typing, [Next]_vars, NEW x, NEW w \in Workers, wk[w].pc # "idle", wk'[w].pc # "idle",
         wk'[w].m = wk[w].m, wk'[w].token = wk[w].token, \A v \in Workers \ {w} : wk'[v] = wk[v],
         NEW m, Produce(m), UNCHANGED <<inflight, sent>>,
         Leads(x, m, status'[x[1]]) => /\ Owes(x, wk[w], status[x[1]])
                                       /\ ~Owes(x, wk'[w], status'[x[1]]),
         Owes(x, wk'[w], status'[x[1]]) => Owes(x, wk[w], status[x[1]])
  PROVE  Moves(x)
  <1>1. Others(w)
    BY DEF Others
  <1>2. /\ Waiting(x)' \subseteq Waiting(x) \cup {m}
        /\ ~Leads(x, m, status'[x[1]]) => Waiting(x)' \subseteq Waiting(x)
    BY StayFrame
  <1>3. /\ ~Owes(x, wk'[w], status'[x[1]]) => Owing(x)' \subseteq Owing(x) \ {w}
        /\ Owing(x)' \subseteq Owing(x)
    BY <1>1, OwingFrame
  <1>4. CASE Leads(x, m, status'[x[1]])
    <2>1. w \in Owing(x)
      BY <1>4 DEF Owing
    <2> QED
      BY <1>2, <1>3, <1>4, <2>1 DEF Moves
  <1>5. CASE ~Leads(x, m, status'[x[1]])
    BY <1>2, <1>3, <1>5 DEF Moves
  <1> QED
    BY <1>4, <1>5

\* No device has two subscriptions to the channel.
DisjointSubs == \A i, j \in DOMAIN Subs : i # j => Subs[i] \cap Subs[j] = {}

\* A device is in at most one batch, and it is one of the recipients.
LEMMA BatchOne ==
  ASSUME NEW p, NEW prefix, NEW S
  PROVE  /\ \A i \in DOMAIN Batches(p, prefix, S) : Batches(p, prefix, S)[i].devs \subseteq S
         /\ \A i, k \in DOMAIN Batches(p, prefix, S) :
              Batches(p, prefix, S)[i].devs \cap Batches(p, prefix, S)[k].devs # {} => i = k
  BY BatchesElements

\* Where a shard stops and where it goes on.
LEMMA ShardBounds ==
  ASSUME NEW R, NEW c \in Nat
  PROVE  /\ ShardStop(R, c) \in Nat /\ ShardStop(R, c) <= Len(Subs)
         /\ ShardStop(R, c) = Len(Subs) \/ ShardStop(R, c) > c
         /\ ShardNext(R, c) \in Nat /\ ShardStop(R, c) <= ShardNext(R, c) /\ ShardNext(R, c) <= Len(Subs)
  <1> DEFINE A == {Len(Subs)} \cup {k \in c + 1 .. Len(Subs) : Cardinality(Recipients(R, c, k)) >= ShardSize}
             B == {Len(Subs)} \cup {b \in Boundary(R, c) : b >= ShardStop(R, c)}
  <1>1. Len(Subs) \in Nat
    BY PushAssumption
  <1>2. ShardStop(R, c) \in A
    <2>1. A \in SUBSET Nat /\ A # {}
      BY <1>1
    <2>2. ShardStop(R, c) = Min(A)
      BY DEF ShardStop
    <2> HIDE DEF A
    <2> QED
      BY <2>1, <2>2, MinIn
  <1>3. ShardNext(R, c) \in B
    <2>1. B \in SUBSET Nat /\ B # {}
      BY <1>1 DEF Boundary
    <2>2. ShardNext(R, c) = Min(B)
      BY DEF ShardNext
    <2> HIDE DEF B
    <2> QED
      BY <2>1, <2>2, MinIn
  <1>4. /\ ShardStop(R, c) \in Nat /\ ShardStop(R, c) <= Len(Subs)
        /\ ShardStop(R, c) = Len(Subs) \/ ShardStop(R, c) > c
    BY <1>1, <1>2
  <1>5. /\ ShardNext(R, c) \in Nat /\ ShardNext(R, c) <= Len(Subs)
        /\ ShardNext(R, c) = Len(Subs) \/ ShardNext(R, c) >= ShardStop(R, c)
    BY <1>1, <1>3 DEF Boundary
  <1> QED
    BY <1>1, <1>4, <1>5

\* What stream_shard produces for a shard job.
ShardOutput(m, R) ==
    LET S == Recipients(R, m.attempt, ShardStop(R, m.attempt))
        next == ShardNext(R, m.attempt)
    IN  Batches(m.pub, m.batch, S)
        \o (IF next < Len(Subs)
            THEN <<ShardMsg(m.pub, m.batch \o <<"next", Cardinality(S)>>, next)>> ELSE <<>>)

\* Its parts: the batches, and after them the continuation, if there is one.
LEMMA ShardParts ==
  ASSUME NEW m, NEW R \in SUBSET Devices
  PROVE  LET S == Recipients(R, m.attempt, ShardStop(R, m.attempt))
             B == Batches(m.pub, m.batch, S)
             next == ShardNext(R, m.attempt)
             out == ShardOutput(m, R)
         IN  /\ Len(B) \in Nat /\ DOMAIN B = 1 .. Len(B)
             /\ \A i \in DOMAIN B : i \in DOMAIN out /\ out[i] = B[i]
             /\ next < Len(Subs) =>
                  /\ Len(B) + 1 \in DOMAIN out
                  /\ out[Len(B) + 1] = ShardMsg(m.pub, m.batch \o <<"next", Cardinality(S)>>, next)
             /\ \A i \in DOMAIN out : i \in DOMAIN B \/ (next < Len(Subs) /\ i = Len(B) + 1)
  <1> DEFINE S == Recipients(R, m.attempt, ShardStop(R, m.attempt))
             B == Batches(m.pub, m.batch, S)
             next == ShardNext(R, m.attempt)
             c == ShardMsg(m.pub, m.batch \o <<"next", Cardinality(S)>>, next)
             C == IF next < Len(Subs) THEN <<c>> ELSE <<>>
             n == (Cardinality(S) + BatchSize - 1) \div BatchSize
             T == {B[k] : k \in 1 .. n} \cup {c}
  <1>1. S \subseteq Devices /\ IsFiniteSet(S)
    BY DevicesFinite, FS_Subset DEF Recipients
  <1>2. Cardinality(S) \in Nat /\ BatchSize \in Nat \ {0}
    BY <1>1, FS_CardinalityType, PushAssumption
  <1>3. B = [k \in 1 .. n |-> B[k]] /\ n \in Nat
    BY <1>2 DEF Batches
  <1>4. ShardOutput(m, R) = B \o C
    BY DEF ShardOutput
  <1> HIDE DEF B, c, S, next, n
  <1>5. B \in Seq(T) /\ Len(B) = n /\ DOMAIN B = 1 .. n
    <2>1. B \in [1 .. n -> T]
      BY <1>3
    <2> HIDE DEF T
    <2> QED
      BY <1>3, <2>1
  <1>6. C \in Seq(T)
    <2>1. CASE next < Len(Subs)
      BY <2>1
    <2>2. CASE ~(next < Len(Subs))
      BY <2>2
    <2> QED
      BY <2>1, <2>2
  <1>7. /\ next < Len(Subs) => Len(C) = 1 /\ C[1] = c
        /\ ~(next < Len(Subs)) => Len(C) = 0
    OBVIOUS
  <1> HIDE DEF C, T
  <1>8. /\ DOMAIN (B \o C) = 1 .. Len(B) + Len(C)
        /\ \A i \in 1 .. Len(B) + Len(C) : (B \o C)[i] = IF i <= Len(B) THEN B[i] ELSE C[i - Len(B)]
    BY <1>5, <1>6
  <1>9. PICK k : k = Len(C)
    OBVIOUS
  <1>10. k \in {0, 1} /\ (k = 1 <=> next < Len(Subs))
    BY <1>7, <1>9
  <1>11. /\ DOMAIN (B \o C) = 1 .. n + k
         /\ \A i \in 1 .. n + k : (B \o C)[i] = IF i <= n THEN B[i] ELSE C[i - n]
    BY <1>5, <1>8, <1>9
  <1>12. \A i \in 1 .. n : i \in DOMAIN (B \o C) /\ (B \o C)[i] = B[i]
    <2>1. \A i \in 1 .. n : i \in 1 .. n + k /\ i <= n
      BY <1>3, <1>10
    <2> QED
      BY <1>11, <2>1
  <1>13. next < Len(Subs) => n + 1 \in DOMAIN (B \o C) /\ (B \o C)[n + 1] = c
    <2> SUFFICES ASSUME next < Len(Subs) PROVE n + 1 \in DOMAIN (B \o C) /\ (B \o C)[n + 1] = c
      OBVIOUS
    <2>1. PICK i : i = n + 1
      OBVIOUS
    <2>2. i \in 1 .. n + k /\ ~(i <= n) /\ i - n = 1
      BY <1>3, <1>10, <2>1
    <2>3. i \in DOMAIN (B \o C) /\ (B \o C)[i] = C[1]
      BY <1>11, <2>2
    <2> QED
      BY <1>7, <2>1, <2>3
  <1>14. \A i \in DOMAIN (B \o C) : i \in 1 .. n \/ (next < Len(Subs) /\ i = n + 1)
    <2>1. \A i \in 1 .. n + k : i \in 1 .. n \/ (k = 1 /\ i = n + 1)
      BY <1>3, <1>10
    <2> QED
      BY <1>10, <1>11, <2>1
  <1> QED
    BY <1>3, <1>4, <1>5, <1>12, <1>13, <1>14 DEF B, c, S, next

\* Its elements: the batches, and the continuation at the end.
LEMMA ShardElements ==
  ASSUME NEW m, m.attempt \in Nat, NEW R \in SUBSET Devices, NEW i \in DOMAIN ShardOutput(m, R)
  PROVE  LET S == Recipients(R, m.attempt, ShardStop(R, m.attempt))
             B == Batches(m.pub, m.batch, S)
             next == ShardNext(R, m.attempt)
             x == ShardOutput(m, R)[i]
         IN  \/ i \in DOMAIN B /\ x = B[i] /\ x.stage = "deliver" /\ x.pub = m.pub /\ x.attempt = 1
                /\ x.devs \subseteq S
             \/ /\ i = Len(B) + 1 /\ next < Len(Subs) /\ x.stage = "shard" /\ x.pub = m.pub
                /\ x.attempt = next
  <1> DEFINE S == Recipients(R, m.attempt, ShardStop(R, m.attempt))
             B == Batches(m.pub, m.batch, S)
             next == ShardNext(R, m.attempt)
             c == ShardMsg(m.pub, m.batch \o <<"next", Cardinality(S)>>, next)
             out == ShardOutput(m, R)
  <1>1. \A k \in DOMAIN B : /\ B[k].stage = "deliver" /\ B[k].pub = m.pub /\ B[k].attempt = 1
                            /\ B[k].devs \subseteq S
    BY BatchesElements
  <1>2. c.stage = "shard" /\ c.pub = m.pub /\ c.attempt = next
    BY DEF ShardMsg, Msg
  <1>3. /\ \A k \in DOMAIN B : out[k] = B[k]
        /\ next < Len(Subs) => out[Len(B) + 1] = c
        /\ \A k \in DOMAIN out : k \in DOMAIN B \/ (next < Len(Subs) /\ k = Len(B) + 1)
    BY ShardParts
  <1> HIDE DEF S, B, next, c, out
  <1>4. i \in DOMAIN out
    BY DEF out
  <1>5. \/ i \in DOMAIN B /\ out[i] = B[i] /\ out[i].stage = "deliver" /\ out[i].pub = m.pub
           /\ out[i].attempt = 1 /\ out[i].devs \subseteq S
        \/ /\ i = Len(B) + 1 /\ next < Len(Subs) /\ out[i].stage = "shard" /\ out[i].pub = m.pub
           /\ out[i].attempt = next
    BY <1>1, <1>2, <1>3, <1>4
  <1> QED
    BY <1>5 DEF S, B, next, out

\* The shard's output leads to a request through one message, and only if the
\* shard did.
LEMMA ShardLeads ==
  ASSUME NEW m, m.attempt \in Nat, m.stage = "shard", NEW R \in SUBSET Devices, NEW x,
         NEW i \in DOMAIN ShardOutput(m, R), NEW row, Leads(x, ShardOutput(m, R)[i], row)
  PROVE  /\ m.pub = x[1] /\ Names(x[2], m.attempt)
         /\ DisjointSubs => \A k \in DOMAIN ShardOutput(m, R) :
                               Leads(x, ShardOutput(m, R)[k], row) => i = k
  <1> DEFINE c == m.attempt
             stop == ShardStop(R, c)
             next == ShardNext(R, c)
             S == Recipients(R, c, stop)
             B == Batches(m.pub, m.batch, S)
             out == ShardOutput(m, R)
  <1>1. /\ stop \in Nat /\ stop <= Len(Subs) /\ (stop = Len(Subs) \/ stop > c)
        /\ next \in Nat /\ stop <= next /\ next <= Len(Subs) /\ Len(Subs) \in Nat /\ c \in Nat
    BY ShardBounds, PushAssumption
  <1>2. \A k \in DOMAIN out :
           \/ k \in DOMAIN B /\ out[k] = B[k] /\ out[k].stage = "deliver" /\ out[k].pub = m.pub
              /\ out[k].devs \subseteq S
           \/ k = Len(B) + 1 /\ next < Len(Subs) /\ out[k].stage = "shard" /\ out[k].pub = m.pub
              /\ out[k].attempt = next
    BY ShardElements
  <1>3. \A k, l \in DOMAIN B : B[k].devs \cap B[l].devs # {} => k = l
    BY BatchOne
  <1>4. \A d \in S : \E k \in c + 1 .. stop : d \in Subs[k]
    BY DEF Recipients
  <1>5. DOMAIN Subs = 1 .. Len(Subs)
    BY PushAssumption
  <1> HIDE DEF S, B, stop, next, out, c
  <1>6. \A k \in DOMAIN out : Leads(x, out[k], row) =>
           \/ k \in DOMAIN B /\ out[k] = B[k] /\ x[2] \in B[k].devs /\ x[2] \in S
           \/ k = Len(B) + 1 /\ next < Len(Subs) /\ Names(x[2], next)
    BY <1>2 DEF Leads
  <1>7. m.pub = x[1] /\ i \in DOMAIN out /\ Leads(x, out[i], row)
    BY <1>2 DEF Leads, out
  <1>8. (x[2] \in S => Names(x[2], c)) /\ (Names(x[2], next) /\ next < Len(Subs) => Names(x[2], c))
    BY <1>1, <1>4 DEF Names
  <1>9. DisjointSubs => ~(x[2] \in S /\ Names(x[2], next))
    <2>1. SUFFICES ASSUME DisjointSubs, x[2] \in S, Names(x[2], next) PROVE FALSE
      OBVIOUS
    <2>2. PICK k \in c + 1 .. stop : x[2] \in Subs[k]
      BY <1>4, <2>1
    <2>3. PICK l \in next + 1 .. Len(Subs) : x[2] \in Subs[l]
      BY <2>1 DEF Names
    <2>4. k \in 1 .. Len(Subs) /\ l \in 1 .. Len(Subs) /\ k # l
      BY <1>1
    <2> QED
      BY <1>5, <2>1, <2>2, <2>3, <2>4 DEF DisjointSubs
  <1>10. Names(x[2], c)
    BY <1>6, <1>7, <1>8
  <1>11. ASSUME DisjointSubs, NEW k \in DOMAIN out, Leads(x, out[k], row) PROVE i = k
    BY <1>3, <1>6, <1>7, <1>9, <1>11
  <1> QED
    BY <1>7, <1>10, <1>11 DEF out, c

\* A request is a publish, a device and an attempt.
LEMMA RequestFields ==
  ASSUME Typing, NEW x \in DOMAIN sent
  PROVE  x[1] \in Publishes /\ x[2] \in Devices /\ x[3] \in Nat
  <1>1. DOMAIN sent = Publishes \X Devices \X (1 .. MaxAttempts) /\ MaxAttempts \in Nat
    BY PushAssumption DEF Typing
  <1> QED
    BY <1>1

\* The results of a batch are about different devices of it.
LEMMA ResultOne ==
  ASSUME NEW P, NEW m \in Message(P), NEW o, NEW i \in DOMAIN Results(m, o)
  PROVE  /\ Results(m, o)[i].stage = "result" /\ Results(m, o)[i].pub = m.pub
         /\ Results(m, o)[i].attempt = m.attempt /\ Results(m, o)[i].devs \subseteq m.devs
         /\ \A k \in DOMAIN Results(m, o) :
              Results(m, o)[i].devs \cap Results(m, o)[k].devs # {} => i = k
  <1> DEFINE S == m.devs
  <1>1. S \in SUBSET Nat /\ IsFiniteSet(S)
    BY MessageFields, DevicesFinite, FS_Subset
  <1>2. \A k \in 1 .. Cardinality(S) : Sorted(S)[k] \in S /\ Rank(S, Sorted(S)[k]) = k
    <2> SUFFICES ASSUME NEW k \in 1 .. Cardinality(S) PROVE Sorted(S)[k] \in S /\ Rank(S, Sorted(S)[k]) = k
      OBVIOUS
    <2>1. Sorted(S)[k] = CHOOSE d \in S : Rank(S, d) = k
      BY DEF Sorted
    <2>2. \E d \in S : Rank(S, d) = k
      BY <1>1, RankOnto
    <2> HIDE DEF S
    <2> QED
      BY <2>1, <2>2
  <1>3. DOMAIN Results(m, o) = 1 .. Cardinality(S)
    BY DEF Results
  <1>4. \A k \in 1 .. Cardinality(S) :
           Results(m, o)[k] = ResultMsg(m.pub, m.batch, Sorted(S)[k], m.attempt, o[Sorted(S)[k]])
    BY DEF Results
  <1> HIDE DEF S, Results, Sorted
  <1>5. \A k \in 1 .. Cardinality(S) :
           /\ Results(m, o)[k].stage = "result" /\ Results(m, o)[k].pub = m.pub
           /\ Results(m, o)[k].attempt = m.attempt /\ Results(m, o)[k].devs = {Sorted(S)[k]}
    <2>1. \A p, b, d, n, a : /\ ResultMsg(p, b, d, n, a).stage = "result" /\ ResultMsg(p, b, d, n, a).pub = p
                             /\ ResultMsg(p, b, d, n, a).attempt = n /\ ResultMsg(p, b, d, n, a).devs = {d}
      BY DEF ResultMsg, Msg
    <2> QED
      BY <1>4, <2>1
  <1>6. \A k \in 1 .. Cardinality(S) : Sorted(S)[i] = Sorted(S)[k] => i = k
    BY <1>2, <1>3
  <1> QED
    BY <1>2, <1>3, <1>5, <1>6 DEF S

\* The output of a plan leads to a request through one message.
LEMMA PlanLeads ==
  ASSUME NEW p, NEW x, NEW i \in DOMAIN PlanOutput(p), NEW row, Leads(x, PlanOutput(p)[i], row)
  PROVE  /\ p = x[1]
         /\ \A k \in DOMAIN PlanOutput(p) : Leads(x, PlanOutput(p)[k], row) => i = k
  <1>1. CASE regime[p] = "fast"
    <2> DEFINE B == Batches(p, <<"fast">>, FastAudience)
    <2>1. PlanOutput(p) = B
      BY <1>1 DEF PlanOutput
    <2>2. \A k \in DOMAIN B : B[k].stage = "deliver" /\ B[k].pub = p
      BY BatchesElements
    <2>3. \A k, l \in DOMAIN B : B[k].devs \cap B[l].devs # {} => k = l
      BY BatchOne
    <2> HIDE DEF B
    <2> QED
      BY <2>1, <2>2, <2>3 DEF Leads
  <1>2. CASE regime[p] # "fast"
    <2>1. PlanOutput(p) = <<ShardMsg(p, <<"shard">>, 0)>>
      BY <1>2 DEF PlanOutput
    <2>2. DOMAIN PlanOutput(p) = {1} /\ PlanOutput(p)[1] = ShardMsg(p, <<"shard">>, 0)
      BY <2>1
    <2>3. ShardMsg(p, <<"shard">>, 0).pub = p
      BY DEF ShardMsg, Msg
    <2> QED
      BY <2>2, <2>3 DEF Leads
  <1> QED
    BY <1>1, <1>2

\* What Emit has left.
LEMMA EmitRest ==
  ASSUME Typing, NEW w \in Workers, Emit(w)
  PROVE  /\ wk[w].pc = "emit" /\ 1 \in DOMAIN wk[w].rest /\ Head(wk[w].rest) = wk[w].rest[1]
         /\ \A i \in DOMAIN Tail(wk[w].rest) :
               /\ i + 1 \in DOMAIN wk[w].rest /\ i + 1 # 1
               /\ Tail(wk[w].rest)[i] = wk[w].rest[i + 1]
         /\ \A i, k \in DOMAIN Tail(wk[w].rest) : i + 1 = k + 1 => i = k
         /\ \A i \in DOMAIN wk[w].rest : wk[w].rest[i].pub \in Known
  <1>1. wk[w].pc = "emit"
    BY DEF Emit
  <1>2. wk[w].rest \in Seq(Message(Known)) /\ wk[w].rest # <<>>
    BY <1>1, BusyJob
  <1>3. PICK r \in Seq(Message(Known)) : r = wk[w].rest
    BY <1>2
  <1>4. \A i \in DOMAIN r : r[i] \in Message(Known)
    OBVIOUS
  <1>5. \A i \in DOMAIN r : r[i].pub \in Known
    BY <1>4, MessageFields
  <1>6. r # <<>>
    BY <1>2, <1>3
  <1>7. 1 \in DOMAIN r /\ Head(r) = r[1]
    BY <1>6
  <1>8. \A i \in DOMAIN Tail(r) : i + 1 \in DOMAIN r /\ i + 1 # 1 /\ Tail(r)[i] = r[i + 1]
    BY <1>6
  <1>9. \A i, k \in DOMAIN Tail(r) : i + 1 = k + 1 => i = k
    BY <1>6
  <1> QED
    BY <1>1, <1>3, <1>5, <1>7, <1>8, <1>9

\* A handler that sets out to produce what leads to x owed x.
LEMMA EmitMoves ==
  ASSUME Typing, [Next]_vars, NEW x, NEW w \in Workers, wk[w].pc # "idle", NEW rest, EmitFrom(w, rest),
         UNCHANGED <<ready, inflight, sent>>,
         \A i \in DOMAIN rest : Leads(x, rest[i], status'[x[1]]) => Owes(x, wk[w], status[x[1]])
  PROVE  Moves(x)
  <1>1. /\ wk'[w].pc = IF rest # <<>> THEN "emit"
                       ELSE IF wk[w].m.stage = "publish" THEN "markDispatching" ELSE "ack"
        /\ wk'[w].m = wk[w].m /\ wk'[w].token = wk[w].token /\ wk'[w].rest = rest
        /\ \A v \in Workers \ {w} : wk'[v] = wk[v]
        /\ Others(w)
    BY EmitJob
  <1>2. wk'[w].pc \in {"emit", "markDispatching", "ack"}
    BY <1>1
  <1>3. Waiting(x)' \subseteq Waiting(x)
    BY <1>1, <1>2, StayFrame
  <1>4. Owes(x, wk'[w], status'[x[1]]) => Owes(x, wk[w], status[x[1]])
    BY <1>1, <1>2 DEF Owes, FreshPcs
  <1>5. Owing(x)' \subseteq Owing(x)
    BY <1>1, <1>4, OwingFrame
  <1> QED
    BY <1>3, <1>5 DEF Moves

\* Steps of the planner.
LEMMA PlanMoves ==
  ASSUME Typing, Shape, [Next]_vars, NEW x, NEW w \in Workers,
         PlanBegin(w) \/ PlanRecheck(w) \/ PlanMark(w) \/ PlanFinish(w) \/ PlanUnlock(w)
  PROVE  Moves(x)
  <1> USE DEF store, queue
  <1>1. wk[w].pc \in PlanOnlyPcs /\ wk[w].pc # "idle"
    BY DEF PlanBegin, PlanRecheck, PlanMark, PlanFinish, PlanUnlock, PlanOnlyPcs
  <1>2. wk[w].m.stage = "publish"
    BY <1>1, StageOf
  <1>3. CASE PlanBegin(w)
    <2>1. UNCHANGED sent /\ wk[w].pc \in FreshPcs
      BY <1>3 DEF PlanBegin, FreshPcs
    <2>2. CASE Ack(w) /\ UNCHANGED ready
      BY <1>1, <2>1, <2>2, AckMoves
    <2>3. CASE Nack(w)
      BY <2>1, <2>3, NackMoves
    <2>4. CASE Goto(w, "recheck") /\ UNCHANGED <<ready, inflight>>
      BY <1>1, <2>1, <2>4, GotoMoves DEF FreshPcs
    <2> QED
      BY <1>3, <2>2, <2>3, <2>4 DEF PlanBegin
  <1>4. CASE PlanRecheck(w)
    <2>1. UNCHANGED <<ready, sent>> /\ wk[w].pc = "recheck"
      BY <1>4 DEF PlanRecheck
    <2>2. CASE Ack(w)
      BY <1>1, <2>1, <2>2, AckMoves
    <2>3. CASE CanBePlanned(wk[w].m.pub) /\ Goto(w, "markPlanning") /\ UNCHANGED inflight
      BY <1>1, <1>2, <2>1, <2>3, GotoMoves DEF FreshPcs
    <2> QED
      BY <1>4, <2>2, <2>3 DEF PlanRecheck
  <1>5. CASE PlanMark(w)
    <2>1. wk[w].pc = "markPlanning" /\ EmitFrom(w, PlanOutput(wk[w].m.pub)) /\ UNCHANGED <<ready, inflight, sent>>
      BY <1>5 DEF PlanMark
    <2>2. PICK rest : rest = PlanOutput(wk[w].m.pub)
      OBVIOUS
    <2>3. \A i \in DOMAIN rest : Leads(x, rest[i], status'[x[1]]) => Owes(x, wk[w], status[x[1]])
      BY <2>1, <2>2, PlanLeads DEF Owes
    <2>4. EmitFrom(w, rest)
      BY <2>1, <2>2
    <2> QED
      BY <1>1, <2>1, <2>3, <2>4, EmitMoves
  <1>6. CASE PlanFinish(w)
    BY <1>1, <1>6, GotoMoves DEF PlanFinish, FreshPcs
  <1>7. CASE PlanUnlock(w)
    BY <1>1, <1>7, AckMoves DEF PlanUnlock
  <1> QED
    BY <1>3, <1>4, <1>5, <1>6, <1>7

\* Steps of the feedback processor.
LEMMA FeedbackMoves ==
  ASSUME Typing, Shape, [Next]_vars, NEW x \in DOMAIN sent, NEW w \in Workers,
         \/ Feedback(w) \/ FeedbackDevice(w) \/ FeedbackUpsert(w) \/ FeedbackCount(w)
         \/ FeedbackSchedule(w) \/ FeedbackMark(w)
  PROVE  Moves(x)
  <1> USE DEF store, queue
  <1>1. wk[w].pc \in FeedbackPcs /\ wk[w].pc # "idle"
    BY DEF Feedback, FeedbackDevice, FeedbackUpsert, FeedbackCount, FeedbackSchedule, FeedbackMark, FeedbackPcs
  <1>2. wk[w].m.stage = "result"
    BY <1>1, StageOf
  <1>3. CASE Feedback(w) \/ FeedbackDevice(w) \/ FeedbackUpsert(w) \/ FeedbackCount(w) \/ FeedbackMark(w)
    <2>1. /\ UNCHANGED <<ready, sent>>
          /\ \/ Ack(w)
             \/ /\ wk[w].pc \in FreshPcs /\ UNCHANGED inflight
                /\ Goto(w, "device") \/ Goto(w, "upsert") \/ Goto(w, "count") \/ Goto(w, "schedule")
      BY <1>3 DEF Feedback, FeedbackDevice, FeedbackUpsert, FeedbackCount, FeedbackMark, FreshPcs
    <2>2. CASE Ack(w)
      BY <1>1, <2>1, <2>2, AckMoves
    <2>3. ASSUME NEW pc \in {"device", "upsert", "count", "schedule"}, Goto(w, pc), wk[w].pc \in FreshPcs,
                 UNCHANGED inflight
          PROVE  Moves(x)
      <3>1. pc \in FreshPcs /\ pc # "idle"
        BY DEF FreshPcs
      <3> QED
        BY <1>1, <2>1, <2>3, <3>1, GotoMoves
    <2> QED
      BY <2>1, <2>2, <2>3
  <1>4. CASE FeedbackSchedule(w)
    <2> DEFINE m == wk[w].m
               r == RetryMsg(m.pub, m.batch, Device(m), m.attempt + 1)
    <2>1. wk[w].pc = "schedule" /\ Produce(r) /\ Goto(w, "markScheduled") /\ UNCHANGED <<inflight, sent>>
      BY <1>4 DEF FeedbackSchedule
    <2>2. /\ wk'[w].pc = "markScheduled" /\ wk'[w].m = wk[w].m /\ wk'[w].token = wk[w].token
          /\ \A v \in Workers \ {w} : wk'[v] = wk[v]
      BY <1>1, <2>1, GotoJob
    <2>3. m.devs # {} /\ m.attempt \in Nat
      BY <1>1, <2>1, BusyJob, MessageFields
    <2>4. Device(m) \in m.devs
      BY <2>3 DEF Device
    <2>5. r.stage = "retry" /\ r.pub = m.pub /\ r.devs = {Device(m)} /\ r.attempt = m.attempt + 1
      BY DEF RetryMsg, Msg
    <2> HIDE DEF r, m
    <2>6. ASSUME Leads(x, r, status'[x[1]]) PROVE Leads(x, m, status[x[1]])
      <3>1. r.pub = x[1] /\ x[2] \in r.devs /\ r.attempt <= x[3]
        BY <2>5, <2>6 DEF Leads
      <3>2. m.pub = x[1] /\ x[2] \in m.devs /\ m.attempt + 1 <= x[3]
        BY <2>4, <2>5, <3>1
      <3>3. x[3] \in Nat
        BY RequestFields
      <3>4. m.attempt < x[3]
        BY <2>3, <3>2, <3>3
      <3> QED
        BY <1>2, <3>2, <3>4 DEF Leads, m
    <2>7. ~Owes(x, wk'[w], status'[x[1]])
      BY <2>2 DEF Owes, FreshPcs
    <2>8. Leads(x, m, status[x[1]]) => Owes(x, wk[w], status[x[1]])
      BY <2>1 DEF Owes, FreshPcs, m
    <2> QED
      <3>1. PICK y : y = r
        OBVIOUS
      <3>2. Produce(y) /\ (Leads(x, y, status'[x[1]]) => Owes(x, wk[w], status[x[1]]))
        BY <2>1, <2>6, <2>8, <3>1
      <3>3. wk'[w].pc # "idle"
        BY <2>2
      <3> QED
        BY <1>1, <2>1, <2>2, <2>7, <3>2, <3>3, ProduceMoves
  <1> QED
    BY <1>3, <1>4

\* Steps of the retry scheduler.
LEMMA RetryMoves ==
  ASSUME Typing, Shape, [Next]_vars, NEW x \in DOMAIN sent, NEW w \in Workers,
         \/ RetryBegin(w) \/ RetryLock(w) \/ RetryProduce(w) \/ RetryTerminal(w)
         \/ RetryRecord(w) \/ RetryCount(w) \/ RetryFinish(w)
  PROVE  Moves(x)
  <1> USE DEF store, queue
  <1>1. wk[w].pc \in RetryPcs \cup {"retry"} /\ wk[w].pc # "idle"
    BY DEF RetryBegin, RetryLock, RetryProduce, RetryTerminal, RetryRecord, RetryCount, RetryFinish,
           RetryPcs
  <1>2. wk[w].m.stage = "retry"
    BY <1>1, StageOf
  <1>3. ASSUME NEW pc \in RetryPcs, Goto(w, pc), UNCHANGED <<ready, inflight, sent>>,
               pc \in {"retryLock", "successor"} => wk[w].pc \in FreshPcs
        PROVE  Moves(x)
    <2>1. /\ pc # "idle" /\ pc # "markPlanning" /\ pc # "emit"
          /\ pc \in FreshPcs => pc \in {"retryLock", "successor"}
      BY DEF RetryPcs, FreshPcs
    <2> QED
      BY <1>1, <1>3, <2>1, GotoMoves
  <1>4. CASE RetryBegin(w) \/ RetryLock(w)
    <2>1. UNCHANGED sent /\ wk[w].pc \in FreshPcs
      BY <1>4 DEF RetryBegin, RetryLock, FreshPcs
    <2>2. CASE Ack(w) /\ UNCHANGED ready
      BY <1>1, <2>1, <2>2, AckMoves
    <2>3. CASE Nack(w)
      BY <2>1, <2>3, NackMoves
    <2>4. CASE Goto(w, RetryRoute(wk[w].m)) /\ UNCHANGED <<ready, inflight>>
      <3>1. PICK pc : pc = RetryRoute(wk[w].m)
        OBVIOUS
      <3>2. pc \in RetryPcs
        BY <3>1 DEF RetryRoute, RetryPcs
      <3>3. Goto(w, pc)
        BY <2>4, <3>1
      <3> QED
        BY <1>3, <2>1, <2>4, <3>2, <3>3
    <2>5. CASE Goto(w, "retryLock") /\ UNCHANGED <<ready, inflight>>
      <3>1. "retryLock" \in RetryPcs
        BY DEF RetryPcs
      <3> QED
        BY <1>3, <2>1, <2>5, <3>1
    <2> QED
      BY <1>4, <2>2, <2>3, <2>4, <2>5 DEF RetryBegin, RetryLock
  <1>5. CASE RetryProduce(w)
    <2> DEFINE m == wk[w].m
               r == Successor(m)
    <2>1. wk[w].pc = "successor" /\ Produce(r) /\ Goto(w, "record") /\ UNCHANGED <<inflight, sent>>
      BY <1>5 DEF RetryProduce
    <2>2. /\ wk'[w].pc = "record" /\ wk'[w].m = wk[w].m /\ wk'[w].token = wk[w].token
          /\ \A v \in Workers \ {w} : wk'[v] = wk[v]
      BY <1>1, <2>1, GotoJob
    <2>3. r.stage = "deliver" /\ r.pub = m.pub /\ r.devs = m.devs /\ r.attempt = m.attempt
      BY DEF Successor, BatchMsg, Msg
    <2> HIDE DEF r
    <2>4. Leads(x, r, status'[x[1]]) => Leads(x, m, status[x[1]])
      BY <1>2, <2>3 DEF Leads
    <2>5. ~Owes(x, wk'[w], status'[x[1]])
      BY <2>2 DEF Owes, FreshPcs
    <2>6. Leads(x, m, status[x[1]]) => Owes(x, wk[w], status[x[1]])
      BY <2>1 DEF Owes, FreshPcs
    <2>7. PICK y : y = r
      OBVIOUS
    <2>8. Produce(y) /\ (Leads(x, y, status'[x[1]]) => Owes(x, wk[w], status[x[1]]))
      BY <2>1, <2>4, <2>6, <2>7
    <2>9. wk'[w].pc # "idle"
      BY <2>2
    <2> QED
      BY <1>1, <2>1, <2>2, <2>5, <2>8, <2>9, ProduceMoves
  <1>6. CASE RetryTerminal(w) \/ RetryRecord(w) \/ RetryCount(w)
    <2>1. /\ UNCHANGED <<ready, inflight, sent>>
          /\ Goto(w, "terminal") \/ Goto(w, "attempted") \/ Goto(w, "retryAck") \/ Goto(w, "retryDead")
      BY <1>6 DEF RetryTerminal, RetryRecord, RetryCount
    <2>2. {"terminal", "attempted", "retryAck", "retryDead"} \subseteq RetryPcs \ {"retryLock", "successor"}
      BY DEF RetryPcs
    <2> QED
      BY <1>3, <2>1, <2>2
  <1>7. CASE RetryFinish(w)
    <2>1. Ack(w) /\ UNCHANGED <<ready, sent>>
      BY <1>7 DEF RetryFinish, DeadLetter
    <2> QED
      BY <1>1, <2>1, AckMoves
  <1> QED
    BY <1>4, <1>5, <1>6, <1>7

\* Steps of the shard and the provider worker, and the produces of a handler.
LEMMA ShardMoves ==
  ASSUME Typing, Shape, [Next]_vars, NEW x \in DOMAIN sent, NEW w \in Workers, ShardStream(w)
  PROVE  Moves(x)
  <1>1. /\ wk[w].pc = "shard" /\ wk[w].pc # "idle" /\ EmitFrom(w, ShardOutput(wk[w].m, registered))
        /\ UNCHANGED <<ready, inflight, sent>>
    BY DEF ShardStream, ShardOutput, queue
  <1>2. wk[w].m.stage = "shard" /\ wk[w].m.attempt \in Nat /\ registered \in SUBSET Devices
    BY <1>1, StageOf, BusyJob, MessageFields DEF Typing
  <1>3. PICK m : m = wk[w].m
    OBVIOUS
  <1>4. PICK rest : rest = ShardOutput(m, registered)
    OBVIOUS
  <1>5. ASSUME NEW i \in DOMAIN rest, Leads(x, rest[i], status'[x[1]]) PROVE Owes(x, wk[w], status[x[1]])
    <2>1. m.pub = x[1] /\ Names(x[2], m.attempt)
      BY <1>2, <1>3, <1>4, <1>5, ShardLeads
    <2> QED
      BY <1>1, <1>2, <1>3, <2>1 DEF Owes, Leads, FreshPcs
  <1>6. EmitFrom(w, rest)
    BY <1>1, <1>3, <1>4
  <1> QED
    BY <1>1, <1>5, <1>6, EmitMoves

\* The request of a dispatch is the one its worker owed.
LEMMA DispatchMoves ==
  ASSUME Typing, Shape, [Next]_vars, NEW x \in DOMAIN sent, NEW w \in Workers, Dispatch(w)
  PROVE  Moves(x)
  <1>1. wk[w].pc = "preflight" /\ wk[w].pc # "idle" /\ UNCHANGED <<ready, inflight>>
    BY DispatchStep DEF queue
  <1>2. wk[w].m.stage = "deliver" /\ wk[w].m \in Message(Known)
    BY <1>1, StageOf, BusyJob
  <1>3. PICK m : m = wk[w].m
    OBVIOUS
  <1>4. PICK o : EmitFrom(w, Results(m, o))
    BY <1>3, DispatchStep
  <1>5. PICK rest : rest = Results(m, o)
    OBVIOUS
  <1>6. EmitFrom(w, rest)
    BY <1>4, <1>5
  <1>7. m.attempt \in Nat /\ x[3] \in Nat
    BY <1>2, <1>3, MessageFields, RequestFields
  <1>8. \A i \in DOMAIN rest : rest[i].stage = "result" /\ rest[i].pub = m.pub /\ rest[i].attempt = m.attempt
                               /\ rest[i].devs \subseteq m.devs
    BY <1>2, <1>3, <1>5, ResultOne
  <1>9. \A i \in DOMAIN rest : Leads(x, rest[i], status'[x[1]]) =>
           m.pub = x[1] /\ x[2] \in m.devs /\ m.attempt < x[3]
    BY <1>8 DEF Leads
  <1>10. m.pub = x[1] /\ x[2] \in m.devs /\ m.attempt <= x[3] => Owes(x, wk[w], status[x[1]])
    BY <1>1, <1>2, <1>3 DEF Owes, Leads, FreshPcs
  <1>11. \A i \in DOMAIN rest : Leads(x, rest[i], status'[x[1]]) => Owes(x, wk[w], status[x[1]])
    BY <1>7, <1>9, <1>10
  <1>12. CASE x[1] = m.pub /\ x[2] \in m.devs /\ x[3] = m.attempt
    <2>1. /\ wk'[w].pc = IF rest # <<>> THEN "emit"
                         ELSE IF wk[w].m.stage = "publish" THEN "markDispatching" ELSE "ack"
          /\ wk'[w].m = wk[w].m /\ wk'[w].token = wk[w].token /\ wk'[w].rest = rest
          /\ \A v \in Workers \ {w} : wk'[v] = wk[v]
          /\ Others(w)
      BY <1>1, <1>6, EmitJob
    <2>2. wk'[w].pc \in {"emit", "markDispatching", "ack"}
      BY <2>1
    <2>3. \A i \in DOMAIN rest : ~Leads(x, rest[i], status'[x[1]])
      BY <1>7, <1>9, <1>12
    <2>4. ~Owes(x, wk'[w], status'[x[1]])
      BY <2>1, <2>2, <2>3 DEF Owes, FreshPcs
    <2>5. w \in Owing(x) /\ Owing(x)' \subseteq Owing(x) \ {w} /\ Owing(x)' \subseteq Owing(x)
      BY <1>7, <1>10, <1>12, <2>1, <2>4, OwingFrame DEF Owing
    <2>6. Waiting(x)' \subseteq Waiting(x)
      BY <1>1, <2>1, <2>2, StayFrame
    <2>7. sent'[x] = sent[x] \/ sent'[x] = sent[x] + 1
      BY DispatchStep
    <2> QED
      BY <2>5, <2>6, <2>7 DEF Moves
  <1>13. CASE ~(x[1] = m.pub /\ x[2] \in m.devs /\ x[3] = m.attempt)
    <2>1. sent'[x] = sent[x]
      BY <1>3, <1>13, DispatchStep
    <2>2. /\ wk'[w].pc = IF rest # <<>> THEN "emit"
                         ELSE IF wk[w].m.stage = "publish" THEN "markDispatching" ELSE "ack"
          /\ wk'[w].m = wk[w].m /\ wk'[w].token = wk[w].token /\ wk'[w].rest = rest
          /\ \A v \in Workers \ {w} : wk'[v] = wk[v]
          /\ Others(w)
      BY <1>1, <1>6, EmitJob
    <2>3. wk'[w].pc \in {"emit", "markDispatching", "ack"}
      BY <2>2
    <2>4. Owes(x, wk'[w], status'[x[1]]) => Owes(x, wk[w], status[x[1]])
      BY <1>11, <2>2, <2>3 DEF Owes, FreshPcs
    <2>5. Owing(x)' \subseteq Owing(x)
      BY <2>2, <2>4, OwingFrame
    <2>6. Waiting(x)' \subseteq Waiting(x)
      BY <1>1, <2>2, <2>3, StayFrame
    <2> QED
      BY <2>1, <2>5, <2>6 DEF Moves
  <1> QED
    BY <1>12, <1>13

\* A produce of a handler hands what it owed to the message.
LEMMA EmitStepMoves ==
  ASSUME Typing, Singles, [Next]_vars, NEW x \in DOMAIN sent, NEW w \in Workers, Emit(w)
  PROVE  Moves(x)
  <1> DEFINE r == wk[w].rest
  <1>1. /\ wk[w].pc = "emit" /\ wk[w].pc # "idle" /\ Produce(r[1]) /\ EmitFrom(w, Tail(r))
        /\ UNCHANGED <<inflight, sent>>
    BY EmitRest DEF Emit
  <1>2. /\ 1 \in DOMAIN r
        /\ \A i \in DOMAIN Tail(r) : i + 1 \in DOMAIN r /\ i + 1 # 1 /\ Tail(r)[i] = r[i + 1]
        /\ \A i \in DOMAIN r : r[i].pub \in Known
    BY EmitRest
  <1>3. \A i \in DOMAIN r : Leads(x, r[i], status'[x[1]]) => Leads(x, r[i], status[x[1]])
    <2> SUFFICES ASSUME NEW i \in DOMAIN r, Leads(x, r[i], status'[x[1]]) PROVE Leads(x, r[i], status[x[1]])
      OBVIOUS
    <2>1. PICK m : m = r[i]
      OBVIOUS
    <2> QED
      BY <1>2, <2>1, LeadsPast
  <1>4. \A i, k \in DOMAIN r : Leads(x, r[i], status[x[1]]) /\ Leads(x, r[k], status[x[1]]) => i = k
    BY <1>1 DEF Singles, OneEach
  <1>5. PICK rest : rest = Tail(r)
    OBVIOUS
  <1>6. /\ wk'[w].pc = IF rest # <<>> THEN "emit"
                       ELSE IF wk[w].m.stage = "publish" THEN "markDispatching" ELSE "ack"
        /\ wk'[w].m = wk[w].m /\ wk'[w].token = wk[w].token /\ wk'[w].rest = rest
        /\ \A v \in Workers \ {w} : wk'[v] = wk[v]
        /\ Others(w)
    <2>1. EmitFrom(w, rest)
      BY <1>1, <1>5
    <2> QED
      BY <1>1, <2>1, EmitJob
  <1>7. wk'[w].pc \in {"emit", "markDispatching", "ack"}
    BY <1>6
  <1>8. (\E i \in DOMAIN r : Leads(x, r[i], status[x[1]])) => Owes(x, wk[w], status[x[1]])
    BY <1>1 DEF Owes
  <1>9. ASSUME Owes(x, wk'[w], status'[x[1]])
        PROVE  \E i \in DOMAIN r : i # 1 /\ Leads(x, r[i], status[x[1]])
    <2>1. PICK i \in DOMAIN rest : Leads(x, rest[i], status'[x[1]])
      BY <1>6, <1>7, <1>9 DEF Owes, FreshPcs
    <2>2. i + 1 \in DOMAIN r /\ i + 1 # 1 /\ rest[i] = r[i + 1]
      BY <1>2, <1>5
    <2>3. Leads(x, r[i + 1], status[x[1]])
      BY <1>3, <2>1, <2>2
    <2> QED
      BY <2>2, <2>3
  <1>10. PICK m : m = r[1]
    OBVIOUS
  <1>11. Leads(x, m, status'[x[1]]) => /\ Owes(x, wk[w], status[x[1]])
                                       /\ ~Owes(x, wk'[w], status'[x[1]])
    BY <1>2, <1>3, <1>4, <1>8, <1>9, <1>10
  <1>12. Owes(x, wk'[w], status'[x[1]]) => Owes(x, wk[w], status[x[1]])
    BY <1>8, <1>9
  <1>13. Produce(m) /\ wk'[w].pc # "idle"
    BY <1>1, <1>7, <1>10
  <1> HIDE DEF r
  <1> QED
    BY <1>1, <1>6, <1>11, <1>12, <1>13, ProduceMoves

\* A consumed message stops waiting and its worker starts to owe.
LEMMA ConsumeMoves ==
  ASSUME Typing, [Next]_vars, NEW x \in DOMAIN sent, NEW w \in Workers, Consume(w)
  PROVE  Moves(x)
  <1>1. PICK m \in ready : /\ ready' = ready \ {m} /\ inflight' = inflight \cup {m}
                           /\ wk' = Start(w, m, FirstPc[m.stage])
    BY DEF Consume
  <1>2. PICK pc : pc = FirstPc[m.stage]
    OBVIOUS
  <1>3. wk[w].pc = "idle" /\ UNCHANGED sent /\ wk' = Start(w, m, pc)
    BY <1>1, <1>2 DEF Consume, Busy
  <1>4. /\ wk'[w].pc = pc /\ wk'[w].m = m /\ wk'[w].token
        /\ \A v \in Workers \ {w} : wk'[v] = wk[v]
        /\ Others(w)
    BY <1>3, StartJob
  <1>5. m.stage \in Stages /\ m.pub \in Known
    BY MessageFields DEF Typing
  <1>6. pc \in {"plan", "shard", "preflight", "feedback", "retry"}
    BY <1>2, <1>5 DEF Stages, FirstPc
  <1>7. Handled(m)' /\ m \notin ready'
    BY <1>1, <1>4, <1>6 DEF Handled, Busy
  <1>8. \A y : Handled(y) => Handled(y)'
    BY <1>3, <1>4 DEF Handled, Busy
  <1>9. m \notin Waiting(x)'
    BY <1>7 DEF Waiting
  <1>10. Waiting(x)' \subseteq Waiting(x) \cup {}
    <2>1. \A y \in Queued' : /\ y \in Queued
                             /\ y \in ready' \/ ~Handled(y)' => y \in ready \/ ~Handled(y)
      BY <1>1, <1>8 DEF Queued
    <2> QED
      BY <2>1, WaitingFrame
  <1>11. Waiting(x)' \subseteq Waiting(x) \ {m}
    BY <1>9, <1>10
  <1>12. /\ Owing(x)' \subseteq Owing(x) \cup {w}
         /\ ~Owes(x, wk'[w], status'[x[1]]) => Owing(x)' \subseteq Owing(x) \ {w}
    BY <1>4, OwingFrame
  <1>13. CASE Owes(x, wk'[w], status'[x[1]])
    <2>1. Leads(x, m, status'[x[1]])
      BY <1>4, <1>6, <1>13 DEF Owes
    <2>2. m \in Waiting(x)
      BY <1>5, <2>1, LeadsPast DEF Waiting, Queued
    <2> QED
      BY <1>3, <1>11, <1>12, <2>2 DEF Moves
  <1>14. CASE ~Owes(x, wk'[w], status'[x[1]])
    <2>1. Owing(x)' \subseteq Owing(x) /\ Waiting(x)' \subseteq Waiting(x) /\ sent'[x] = sent[x]
      BY <1>3, <1>10, <1>12, <1>14
    <2> QED
      BY <2>1 DEF Moves
  <1> QED
    BY <1>13, <1>14

\* The faults still to come never grow.
LEMMA FaultsDown == Typing /\ [Next]_vars => faults' <= faults
  <1> SUFFICES ASSUME Typing, [Next]_vars PROVE faults' <= faults
    OBVIOUS
  <1> USE DEF store, queue
  <1>1. faults \in Nat
    BY PushAssumption DEF Typing
  <1>2. UNCHANGED faults => faults' <= faults
    BY <1>1
  <1>3. faults' = faults - 1 => faults' <= faults
    BY <1>1
  <1>4. ASSUME NEW r \in Requests, Accept(r) \/ AcceptAbort(r) PROVE UNCHANGED faults \/ faults' = faults - 1
    BY <1>4 DEF Accept, AcceptLookup, AcceptCreate, AcceptRecord, AcceptAppend, AcceptProduce, AcceptAbort
  <1>5. ASSUME NEW w \in Workers, Handle(w) PROVE UNCHANGED faults
    <2>1. CASE PlanBegin(w) \/ PlanRecheck(w) \/ PlanMark(w) \/ PlanFinish(w) \/ PlanUnlock(w)
      BY <2>1 DEF PlanBegin, PlanRecheck, PlanMark, PlanFinish, PlanUnlock
    <2>2. CASE ShardStream(w) \/ Dispatch(w) \/ Emit(w) \/ AckStep(w)
      BY <2>2, DispatchStep DEF ShardStream, Emit, AckStep
    <2>3. CASE Feedback(w) \/ FeedbackDevice(w) \/ FeedbackUpsert(w) \/ FeedbackCount(w)
               \/ FeedbackSchedule(w) \/ FeedbackMark(w)
      BY <2>3 DEF Feedback, FeedbackDevice, FeedbackUpsert, FeedbackCount, FeedbackSchedule, FeedbackMark
    <2>4. CASE RetryBegin(w) \/ RetryLock(w) \/ RetryProduce(w) \/ RetryTerminal(w) \/ RetryRecord(w)
               \/ RetryCount(w) \/ RetryFinish(w)
      BY <2>4 DEF RetryBegin, RetryLock, RetryProduce, RetryTerminal, RetryRecord, RetryCount, RetryFinish
    <2> QED
      BY <1>5, <2>1, <2>2, <2>3, <2>4 DEF Handle
  <1>6. ASSUME NEW w \in Workers, Consume(w) \/ Defer(w) \/ Crash(w) \/ StoreError(w)
        PROVE  UNCHANGED faults \/ faults' = faults - 1
    BY <1>6 DEF Consume, Defer, Crash, StoreError
  <1>7. ASSUME RepairScan \/ RepairProduce \/ LeaseExpires \/ LockExpires \/ Replay \/ Deadline
        PROVE  UNCHANGED faults \/ faults' = faults - 1
    BY <1>7 DEF RepairScan, RepairLook, RepairProduce, LeaseExpires, LockExpires, Replay, Deadline
  <1> QED
    BY <1>2, <1>3, <1>4, <1>5, <1>6, <1>7 DEF Next, vars

\* A fault.
LEMMA FaultMoves ==
  ASSUME Typing, [Next]_vars, NEW x, NEW w \in Workers, Defer(w) \/ Crash(w) \/ StoreError(w)
  PROVE  Moves(x)
  <1> USE DEF store, queue
  <1>1. wk[w].pc # "idle" /\ UNCHANGED sent /\ faults' < faults
    BY DEF Defer, Crash, StoreError, Busy, Typing
  <1>2. CASE Defer(w)
    <2>1. Nack(w) /\ wk' = [wk EXCEPT ![w] = Idle]
      BY <1>2 DEF Defer, Nack
    <2> QED
      BY <1>1, <2>1, CrashMoves
  <1>3. CASE Crash(w)
    <2>1. UNCHANGED <<ready, inflight>> /\ wk' = [wk EXCEPT ![w] = Idle]
      BY <1>3 DEF Crash
    <2> QED
      BY <1>1, <2>1, CrashMoves
  <1>4. CASE StoreError(w)
    <2>1. /\ UNCHANGED ready
          /\ Ack(w) \/ (UNCHANGED inflight /\ wk' = [wk EXCEPT ![w] = Idle])
      BY <1>4 DEF StoreError, DeadLetter
    <2> QED
      BY <1>1, <2>1, AckMoves, CrashMoves
  <1> QED
    BY <1>2, <1>3, <1>4

\* Steps outside the workers.
LEMMA OutsideMoves ==
  ASSUME Typing, Typing', [Next]_vars, NEW x \in DOMAIN sent,
         ~\E w \in Workers : Consume(w) \/ Handle(w) \/ Defer(w) \/ Crash(w) \/ StoreError(w)
  PROVE  Moves(x)
  <1>1. /\ UNCHANGED <<wk, dlq, sent>>
        /\ \/ Queued' = Queued /\ (UNCHANGED <<ready, inflight>> \/ LeaseExpires)
           \/ \E p : Produce(PublishMsg(p)) /\ UNCHANGED <<inflight, faults>>
           \/ \E m \in dlq : Produce(m) /\ UNCHANGED inflight /\ faults > 0 /\ faults' = faults - 1
    BY OutsideSteps
  <1>2. Owing(x)' \subseteq Owing(x)
    <2>1. ASSUME NEW w \in Workers, w \in Owing(x)' PROVE w \in Owing(x)
      <3>1. Others(w) /\ wk' = wk
        BY <1>1 DEF Others
      <3>2. Owes(x, wk[w], status'[x[1]]) => Owes(x, wk[w], status[x[1]])
        <4>1. ASSUME NEW m, m.pub \in Known, Leads(x, m, status'[x[1]]) PROVE Leads(x, m, status[x[1]])
          BY <4>1, LeadsPast
        <4>2. wk[w].pc # "idle" => /\ wk[w].m.pub \in Known
                                   /\ \A i \in DOMAIN wk[w].rest : wk[w].rest[i].pub \in Known
          BY BusyJob, MessageFields DEF Job
        <4> QED
          BY <4>1, <4>2 DEF Owes, FreshPcs
      <3>3. (Owes(x, wk'[w], status'[x[1]]) => Owes(x, wk[w], status[x[1]])) => Owing(x)' \subseteq Owing(x)
        BY <3>1, OwingFrame
      <3> QED
        BY <2>1, <3>1, <3>2, <3>3
    <2> QED
      BY <2>1 DEF Owing
  <1>3. \A m : Handled(m)' <=> Handled(m)
    BY <1>1 DEF Handled, Busy
  <1>4. ASSUME NEW m, Produce(m), UNCHANGED inflight
        PROVE  Waiting(x)' \subseteq Waiting(x) \cup {m} /\ \A y \in Queued' : y \in Queued \/ y = m
    <2>1. \A y \in ready' : y = m \/ y \in ready
      BY <1>4 DEF Produce, Enqueue
    <2>2. Waiting(x)' \subseteq Waiting(x) \cup {m}
      BY <1>3, <1>4, <2>1, WaitingFrame DEF Queued
    <2> QED
      BY <1>4, <2>1, <2>2 DEF Queued
  <1>5. CASE UNCHANGED <<ready, inflight>>
    <2>1. Waiting(x)' \subseteq Waiting(x) \cup {}
      BY <1>3, <1>5, WaitingFrame DEF Queued
    <2> QED
      BY <1>1, <1>2, <2>1 DEF Moves
  <1>6. CASE LeaseExpires
    <2>1. PICK m \in inflight : /\ Handled(m) => faults > 0
                                /\ inflight' = inflight \ {m} /\ ready' = ready \cup {m}
                                /\ faults' = IF Handled(m) THEN faults - 1 ELSE faults
      BY <1>6 DEF LeaseExpires
    <2>2. CASE Handled(m)
      <3>1. Waiting(x)' \subseteq Waiting(x) \cup {m}
        BY <1>3, <2>1, WaitingFrame DEF Queued
      <3>2. faults' < faults
        BY <2>1, <2>2 DEF Typing
      <3> QED
        BY <1>1, <1>2, <3>1, <3>2 DEF Moves
    <2>3. CASE ~Handled(m)
      <3>1. Waiting(x)' \subseteq Waiting(x) \cup {}
        BY <1>3, <2>1, <2>3, WaitingFrame DEF Queued
      <3> QED
        BY <1>1, <1>2, <3>1 DEF Moves
    <2> QED
      BY <2>2, <2>3
  <1>7. ASSUME NEW p, Produce(PublishMsg(p)), UNCHANGED <<inflight, faults>> PROVE Moves(x)
    <2>1. PICK m : m = PublishMsg(p)
      OBVIOUS
    <2>2. m.stage = "publish" /\ m.pub = p
      BY <2>1 DEF PublishMsg, Msg
    <2>3. Waiting(x)' \subseteq Waiting(x) \cup {m}
      BY <1>4, <1>7, <2>1
    <2>4. CASE m \notin Waiting(x)' \/ m \in Waiting(x)
      <3>1. Waiting(x)' \subseteq Waiting(x)
        BY <2>3, <2>4
      <3> QED
        BY <1>1, <1>2, <3>1 DEF Moves
    <2>5. CASE m \in Waiting(x)' /\ m \notin Waiting(x)
      <3>1. m \in Queued' /\ Leads(x, m, status'[x[1]]) /\ (m \in ready' \/ ~Handled(m)')
        BY <2>5 DEF Waiting
      <3>2. p = x[1] /\ status'[p].state \in {"queued", "planning"}
        BY <2>2, <3>1 DEF Leads
      <3>3. p \in Publishes /\ StateMoves(p)
        BY <3>2, RequestFields, StateSteps
      <3>4. status[p].state \in {"none", "queued", "planning"}
        BY <3>2, <3>3 DEF StateMoves, TerminalStates
      <3>5. m \notin Queued
        <4>1. SUFFICES ASSUME m \in Queued PROVE FALSE
          OBVIOUS
        <4>2. UNCHANGED ready
          BY <1>7, <2>1, <4>1 DEF Produce, Enqueue, Queued
        <4>3. m.pub \in Known
          BY <4>1, MessageFields DEF Typing, Queued
        <4>4. Leads(x, m, status[x[1]])
          BY <3>1, <4>3, LeadsPast
        <4> QED
          BY <1>3, <2>5, <3>1, <4>1, <4>2, <4>4 DEF Waiting
      <3>6. Unplanned(p) /\ ~Unplanned(p)'
        BY <2>1, <3>1, <3>4, <3>5 DEF Unplanned
      <3> QED
        BY <1>1, <1>2, <2>3, <3>2, <3>6 DEF Moves
    <2> QED
      BY <2>4, <2>5
  <1>8. ASSUME NEW m, Produce(m), UNCHANGED inflight, faults > 0, faults' = faults - 1 PROVE Moves(x)
    <2>1. faults' < faults
      BY <1>8 DEF Typing
    <2> QED
      BY <1>1, <1>2, <1>4, <1>8, <2>1 DEF Moves
  <1> QED
    BY <1>1, <1>5, <1>6, <1>7, <1>8

\* Every step keeps the budget.
LEMMA StepBudget == Typing /\ Shape /\ PlanOK /\ Singles /\ Budget /\ [Next]_vars => Budget'
  <1> SUFFICES ASSUME Typing, Shape, PlanOK, Singles, Budget, [Next]_vars PROVE Budget'
    OBVIOUS
  <1>1. Typing'
    BY StepTyping
  <1>2. DOMAIN sent' = DOMAIN sent
    BY <1>1 DEF Typing
  <1>3. faults' <= faults
    BY FaultsDown
  <1>4. ASSUME NEW x \in DOMAIN sent PROVE Moves(x)
    <2>1. CASE \E w \in Workers : Consume(w)
      BY <2>1, ConsumeMoves
    <2>2. CASE \E w \in Workers : Defer(w) \/ Crash(w) \/ StoreError(w)
      BY <2>2, FaultMoves
    <2>3. CASE \E w \in Workers : Handle(w)
      <3>1. PICK w \in Workers : Handle(w)
        BY <2>3
      <3>2. CASE PlanBegin(w) \/ PlanRecheck(w) \/ PlanMark(w) \/ PlanFinish(w) \/ PlanUnlock(w)
        BY <3>2, PlanMoves
      <3>3. CASE ShardStream(w) \/ Dispatch(w) \/ Emit(w)
        BY <3>3, ShardMoves, DispatchMoves, EmitStepMoves
      <3>4. CASE AckStep(w)
        BY <3>4, AckMoves DEF AckStep
      <3>5. CASE \/ Feedback(w) \/ FeedbackDevice(w) \/ FeedbackUpsert(w) \/ FeedbackCount(w)
                 \/ FeedbackSchedule(w) \/ FeedbackMark(w)
        BY <3>5, FeedbackMoves
      <3>6. CASE \/ RetryBegin(w) \/ RetryLock(w) \/ RetryProduce(w) \/ RetryTerminal(w)
                 \/ RetryRecord(w) \/ RetryCount(w) \/ RetryFinish(w)
        BY <3>6, RetryMoves
      <3> QED
        BY <3>1, <3>2, <3>3, <3>4, <3>5, <3>6 DEF Handle
    <2>4. CASE ~\E w \in Workers : Consume(w) \/ Handle(w) \/ Defer(w) \/ Crash(w) \/ StoreError(w)
      BY <1>1, <2>4, OutsideMoves
    <2> QED
      BY <2>1, <2>2, <2>3, <2>4
  <1>5. ASSUME NEW x \in DOMAIN sent
        PROVE  IsFiniteSet(Waiting(x))' /\ IsFiniteSet(Owing(x))' /\ Cost(x)' <= 1 + MaxFaults - faults'
    <2>1. PICK p \in Publishes : p = x[1]
      BY RequestFields
    <2>2. Unplanned(x[1])' => Unplanned(x[1])
      BY <2>1, UnplannedStep
    <2> QED
      BY <1>1, <1>2, <1>3, <1>4, <2>2, Balance
  <1> QED
    BY <1>2, <1>5 DEF Budget

\* Every step keeps what a handler is about to produce apart.
LEMMA StepSingles == DisjointSubs /\ Typing /\ Shape /\ Singles /\ [Next]_vars => Singles'
  <1> SUFFICES ASSUME DisjointSubs, Typing, Shape, Singles, [Next]_vars PROVE Singles'
    OBVIOUS
  <1>1. Typing' /\ DOMAIN sent' = DOMAIN sent
    BY StepTyping DEF Typing
  <1>2. SUFFICES ASSUME NEW x \in DOMAIN sent, NEW v \in Workers, wk'[v].pc = "emit" PROVE OneEach(x, wk'[v])
    BY <1>1 DEF Singles, OneEach
  <1>3. ASSUME NEW w \in Workers, wk[w].pc # "idle", NEW rest, EmitFrom(w, rest), w = v,
               \A i, k \in DOMAIN rest : \A row : Leads(x, rest[i], row) /\ Leads(x, rest[k], row) => i = k
        PROVE  OneEach(x, wk'[v])
    <2>1. wk'[w].rest = rest
      BY <1>3, EmitJob
    <2> QED
      BY <1>3, <2>1 DEF OneEach
  <1>4. CASE wk[v].pc = "emit" /\ wk'[v].rest = wk[v].rest
    BY <1>4 DEF Singles, OneEach
  <1>5. CASE Handle(v) /\ wk[v].pc # "idle"
    <2>1. ASSUME NEW pc, Goto(v, pc), pc # "emit" PROVE FALSE
      BY <1>2, <1>5, <2>1, GotoJob
    <2>2. ASSUME Ack(v) \/ Nack(v) PROVE FALSE
      BY <1>2, <1>5, <2>2, AckJob, DropJob DEF Nack
    <2>3. CASE PlanBegin(v) \/ PlanRecheck(v) \/ PlanFinish(v) \/ PlanUnlock(v) \/ AckStep(v)
      BY <2>1, <2>2, <2>3 DEF PlanBegin, PlanRecheck, PlanFinish, PlanUnlock, AckStep
    <2>4. CASE PlanMark(v)
      <3>1. PICK rest : rest = PlanOutput(wk[v].m.pub)
        OBVIOUS
      <3>2. EmitFrom(v, rest)
        BY <2>4, <3>1 DEF PlanMark
      <3>3. \A i, k \in DOMAIN rest : \A row : Leads(x, rest[i], row) /\ Leads(x, rest[k], row) => i = k
        BY <3>1, PlanLeads
      <3> QED
        BY <1>3, <1>5, <3>2, <3>3
    <2>5. CASE ShardStream(v)
      <3>1. EmitFrom(v, ShardOutput(wk[v].m, registered)) /\ wk[v].pc = "shard"
        BY <2>5 DEF ShardStream, ShardOutput
      <3>2. wk[v].m.stage = "shard" /\ wk[v].m.attempt \in Nat /\ registered \in SUBSET Devices
        BY <3>1, <1>5, StageOf, BusyJob, MessageFields DEF Typing
      <3>3. PICK m : m = wk[v].m
        OBVIOUS
      <3>4. PICK rest : rest = ShardOutput(m, registered)
        OBVIOUS
      <3>5. \A i, k \in DOMAIN rest : \A row : Leads(x, rest[i], row) /\ Leads(x, rest[k], row) => i = k
        <4> SUFFICES ASSUME NEW i \in DOMAIN rest, NEW k \in DOMAIN rest, NEW row,
                            Leads(x, rest[i], row), Leads(x, rest[k], row)
                     PROVE  i = k
          OBVIOUS
        <4>1. PICK R \in SUBSET Devices : R = registered
          BY <3>2
        <4>2. m.attempt \in Nat /\ m.stage = "shard" /\ rest = ShardOutput(m, R)
          BY <3>2, <3>3, <3>4, <4>1
        <4>3. \A l \in DOMAIN ShardOutput(m, R) : Leads(x, ShardOutput(m, R)[l], row) => i = l
          BY <4>2, ShardLeads
        <4> QED
          BY <4>2, <4>3
      <3>6. EmitFrom(v, rest)
        BY <3>1, <3>3, <3>4
      <3> QED
        BY <1>3, <1>5, <3>5, <3>6
    <2>6. CASE Dispatch(v)
      <3>1. PICK m : m = wk[v].m
        OBVIOUS
      <3>2. PICK o : EmitFrom(v, Results(m, o))
        BY <2>6, <3>1, DispatchStep
      <3>3. m \in Message(Known)
        BY <1>5, <3>1, BusyJob
      <3>4. PICK rest : rest = Results(m, o)
        OBVIOUS
      <3>5. \A i, k \in DOMAIN rest : /\ rest[i].stage = "result"
                                      /\ rest[i].devs \cap rest[k].devs # {} => i = k
        BY <3>3, <3>4, ResultOne
      <3>6. \A i, k \in DOMAIN rest : \A row : Leads(x, rest[i], row) /\ Leads(x, rest[k], row) => i = k
        BY <3>5 DEF Leads
      <3>7. EmitFrom(v, rest)
        BY <3>2, <3>4
      <3> QED
        BY <1>3, <1>5, <3>6, <3>7
    <2>7. CASE Emit(v)
      <3> DEFINE r == wk[v].rest
      <3>1. PICK rest : rest = Tail(r)
        OBVIOUS
      <3>2. EmitFrom(v, rest) /\ wk[v].pc = "emit"
        BY <2>7, <3>1 DEF Emit
      <3>3. \A i \in DOMAIN rest : i + 1 \in DOMAIN r /\ rest[i] = r[i + 1]
        BY <2>7, <3>1, EmitRest
      <3>4. \A i, k \in DOMAIN rest : i + 1 = k + 1 => i = k
        BY <2>7, <3>1, EmitRest
      <3>5. \A i, k \in DOMAIN r : \A row : Leads(x, r[i], row) /\ Leads(x, r[k], row) => i = k
        BY <3>2 DEF Singles, OneEach
      <3> HIDE DEF r
      <3>6. \A i, k \in DOMAIN rest : \A row : Leads(x, rest[i], row) /\ Leads(x, rest[k], row) => i = k
        BY <3>3, <3>4, <3>5
      <3> QED
        BY <1>3, <1>5, <3>2, <3>6
    <2>8. CASE \/ Feedback(v) \/ FeedbackDevice(v) \/ FeedbackUpsert(v) \/ FeedbackCount(v)
               \/ FeedbackSchedule(v) \/ FeedbackMark(v)
      <3>1. Ack(v) \/ \E pc \in FeedbackPcs : Goto(v, pc)
        BY <2>8 DEF Feedback, FeedbackDevice, FeedbackUpsert, FeedbackCount, FeedbackSchedule, FeedbackMark,
                    FeedbackPcs
      <3>2. "emit" \notin FeedbackPcs
        BY DEF FeedbackPcs
      <3> QED
        BY <2>1, <2>2, <3>1, <3>2
    <2>9. CASE \/ RetryBegin(v) \/ RetryLock(v) \/ RetryProduce(v) \/ RetryTerminal(v)
               \/ RetryRecord(v) \/ RetryCount(v) \/ RetryFinish(v)
      <3>1. RetryRoute(wk[v].m) \in RetryPcs
        BY DEF RetryRoute, RetryPcs
      <3>2. Ack(v) \/ Nack(v) \/ \E pc \in RetryPcs : Goto(v, pc)
        BY <2>9, <3>1 DEF RetryBegin, RetryLock, RetryProduce, RetryTerminal, RetryRecord, RetryCount,
                          RetryFinish, DeadLetter, RetryPcs
      <3>3. "emit" \notin RetryPcs
        BY DEF RetryPcs
      <3> QED
        BY <2>1, <2>2, <3>2, <3>3
    <2> QED
      BY <1>5, <2>3, <2>4, <2>5, <2>6, <2>7, <2>8, <2>9 DEF Handle
  <1>6. CASE Consume(v)
    <2>1. PICK m \in ready : wk' = Start(v, m, FirstPc[m.stage])
      BY <1>6 DEF Consume
    <2>2. PICK pc : pc = FirstPc[m.stage]
      OBVIOUS
    <2>3. wk' = Start(v, m, pc)
      BY <2>1, <2>2
    <2>4. m.stage \in Stages
      BY MessageFields DEF Typing
    <2>5. wk'[v].pc = pc
      BY <2>3, StartJob
    <2>6. pc # "emit"
      BY <2>2, <2>4 DEF Stages, FirstPc
    <2> QED
      BY <1>2, <2>5, <2>6
  <1> QED
    BY <1>2, <1>4, <1>5, <1>6, JobSteps

\* The provider gets a request again only when something failed: if no device
\* has two subscriptions to the channel, then in every reachable state, for
\* every number of workers, publishes and devices, each attempt of a delivery
\* was requested at most once more than there were faults.  A unit of the
\* budget is the publish while its message can still be produced, a queued
\* message that leads to the request, a worker that still has to do what
\* leads to it, or the request.  Consume, the produces, Nack and Dispatch
\* turn one unit into another; only a fault makes one.
THEOREM RequestsBounded == DisjointSubs /\ Spec => []DuplicatesBounded
  <1>1. Init => Singles /\ Budget
    <2> SUFFICES ASSUME Init PROVE Singles /\ Budget
      OBVIOUS
    <2>1. /\ \A w \in Workers : wk[w].pc = "idle"
          /\ Queued = {} /\ faults = MaxFaults /\ MaxFaults \in Nat
          /\ \A x \in DOMAIN sent : sent[x] = 0
      BY PushAssumption DEF Init, Idle, Queued
    <2>2. \A x : Waiting(x) = {} /\ Owing(x) = {}
      BY <2>1 DEF Waiting, Owing, Owes, FreshPcs
    <2>3. IsFiniteSet({}) /\ Cardinality({}) = 0
      BY FS_EmptySet
    <2>4. Budget
      BY <2>1, <2>2, <2>3 DEF Budget, Cost
    <2> QED
      BY <2>1, <2>4 DEF Singles, OneEach
  <1>2. Typing /\ Budget => DuplicatesBounded
    <2> SUFFICES ASSUME Typing, Budget, NEW x \in DOMAIN sent PROVE sent[x] <= 1 + MaxFaults - faults
      BY DEF DuplicatesBounded
    <2> DEFINE a == Cardinality(Waiting(x))
               b == Cardinality(Owing(x))
               u == IF Unplanned(x[1]) THEN 1 ELSE 0
    <2>1. a \in Nat /\ b \in Nat
      BY FS_CardinalityType DEF Budget
    <2>2. sent[x] + a + b + u <= 1 + MaxFaults - faults
      BY DEF Budget, Cost
    <2>3. u \in {0, 1} /\ sent[x] \in Nat /\ faults \in Nat /\ MaxFaults \in Nat
      BY PushAssumption DEF Typing
    <2> HIDE DEF a, b, u
    <2> QED
      BY <2>1, <2>2, <2>3
  <1>3. DisjointSubs => DisjointSubs'
    BY DEF DisjointSubs
  <1> QED
    BY <1>1, <1>2, <1>3, AlwaysPlanned, StepSingles, StepBudget, PTL DEF Spec

-----------------------------------------------------------------------------
(* Where the pages of a shard end *)

\* The end of the page that starts after subscription v.
PageStep(R, c, v) ==
    Min({Len(Subs), v + Min({PageSize, Max({1, ShardSize - Cardinality(Recipients(R, c, v))})})})
Pages(R, c, f) == f = [t \in 0 .. Len(Subs) |-> IF t = 0 THEN c ELSE PageStep(R, c, f[t - 1])]

\* Every subscription is device-scoped: it names one device at most.
DeviceSubs == \A i \in DOMAIN Subs : \A d, e \in Subs[i] : d = e

\* The smaller and the larger of two numbers.
LEMMA TwoNumbers ==
  ASSUME NEW a \in Int, NEW b \in Int
  PROVE  Min({a, b}) = (IF a <= b THEN a ELSE b) /\ Max({a, b}) = (IF a >= b THEN a ELSE b)
  <1>1. PICK x \in {a, b} : \A y \in {a, b} : x <= y
    <2>1. CASE a <= b
      BY <2>1
    <2>2. CASE ~(a <= b)
      BY <2>2
    <2> QED
      BY <2>1, <2>2
  <1>2. PICK z \in {a, b} : \A y \in {a, b} : z >= y
    <2>1. CASE a <= b
      BY <2>1
    <2>2. CASE ~(a <= b)
      BY <2>2
    <2> QED
      BY <2>1, <2>2
  <1>3. Min({a, b}) \in {a, b} /\ \A y \in {a, b} : Min({a, b}) <= y
    BY <1>1 DEF Min
  <1>4. Max({a, b}) \in {a, b} /\ \A y \in {a, b} : Max({a, b}) >= y
    BY <1>2 DEF Max
  <1> QED
    BY <1>3, <1>4

\* The recipients are finitely many.
LEMMA RecipientsFinite ==
  ASSUME NEW R \in SUBSET Devices, NEW i, NEW j
  PROVE  /\ IsFiniteSet(Recipients(R, i, j)) /\ Cardinality(Recipients(R, i, j)) \in Nat
         /\ Recipients(R, i, j) \subseteq Devices /\ Recipients(R, i, j) \subseteq R
  <1>1. Recipients(R, i, j) \subseteq Devices /\ Recipients(R, i, j) \subseteq R
    BY DEF Recipients
  <1> QED
    BY <1>1, DevicesFinite, FS_Subset, FS_CardinalityType

\* A page has at least one subscription and no more than the shard has
\* recipients left.
LEMMA PageStepBounds ==
  ASSUME NEW R \in SUBSET Devices, NEW c, NEW v \in 0 .. Len(Subs)
  PROVE  /\ PageStep(R, c, v) \in 0 .. Len(Subs)
         /\ v < Len(Subs) => PageStep(R, c, v) > v
         /\ PageStep(R, c, v) <= v + 1
            \/ PageStep(R, c, v) <= v + ShardSize - Cardinality(Recipients(R, c, v))
  <1> DEFINE n == Cardinality(Recipients(R, c, v))
             a == Max({1, ShardSize - n})
             b == Min({PageSize, a})
  <1>0. n \in Nat
    BY RecipientsFinite
  <1>1. n \in Nat /\ ShardSize \in Nat /\ PageSize \in Nat \ {0} /\ Len(Subs) \in Nat
    BY <1>0, PushAssumption
  <1> HIDE DEF n
  <1>2. a = IF 1 >= ShardSize - n THEN 1 ELSE ShardSize - n
    <2>1. PICK k \in Int : k = ShardSize - n
      BY <1>1
    <2>2. PICK j \in Int : j = 1
      OBVIOUS
    <2>3. Max({j, k}) = IF j >= k THEN j ELSE k
      BY TwoNumbers
    <2> QED
      BY <2>1, <2>2, <2>3
  <1>3. a \in Nat \ {0} /\ (a = 1 \/ a = ShardSize - n)
    BY <1>1, <1>2
  <1> HIDE DEF a
  <1>4. b = IF PageSize <= a THEN PageSize ELSE a
    BY <1>1, <1>3, TwoNumbers
  <1>5. b \in Nat \ {0} /\ b <= a
    BY <1>1, <1>3, <1>4
  <1>6. PageStep(R, c, v) = Min({Len(Subs), v + b})
    BY DEF PageStep, a, b, n
  <1> HIDE DEF b
  <1>7. PageStep(R, c, v) = IF Len(Subs) <= v + b THEN Len(Subs) ELSE v + b
    BY <1>1, <1>5, <1>6, TwoNumbers
  <1>8. PageStep(R, c, v) \in 0 .. Len(Subs) /\ (v < Len(Subs) => PageStep(R, c, v) > v)
        /\ PageStep(R, c, v) <= v + a
    BY <1>1, <1>3, <1>5, <1>7
  <1>9. PageStep(R, c, v) <= v + 1 \/ PageStep(R, c, v) <= v + ShardSize - n
    BY <1>1, <1>3, <1>8
  <1> QED
    BY <1>8, <1>9 DEF n

\* The recursion of the pages has a solution: the longest partial one is
\* complete.
LEMMA PagesExist ==
  ASSUME NEW R \in SUBSET Devices, NEW c \in 0 .. Len(Subs)
  PROVE  /\ Pages(R, c, PageEnds(R, c)) /\ PageEnds(R, c) \in [0 .. Len(Subs) -> 0 .. Len(Subs)]
         /\ PageEnds(R, c)[0] = c
         /\ \A t \in 1 .. Len(Subs) : PageEnds(R, c)[t] = PageStep(R, c, PageEnds(R, c)[t - 1])
  <1> DEFINE n == Len(Subs)
             Part(k) == \E g \in [0 .. k -> 0 .. n] :
                           g[0] = c /\ \A t \in 1 .. k : g[t] = PageStep(R, c, g[t - 1])
             Bad == {k \in 0 .. n : ~Part(k)}
  <1>1. n \in Nat
    BY PushAssumption
  <1>2. Bad = {}
    <2> SUFFICES ASSUME Bad # {} PROVE FALSE
      OBVIOUS
    <2>1. Bad \in SUBSET Nat
      OBVIOUS
    <2> HIDE DEF Bad
    <2>2. PICK k \in Bad : \A j \in Bad : k <= j
      BY <2>1, Least
    <2>3. k \in 0 .. n /\ ~Part(k)
      BY DEF Bad
    <2>4. k # 0
      <3>1. [t \in 0 .. 0 |-> c] \in [0 .. 0 -> 0 .. n] /\ [t \in 0 .. 0 |-> c][0] = c
        OBVIOUS
      <3>3. PICK g \in [0 .. 0 -> 0 .. n] : g[0] = c
        BY <3>1
      <3>4. \A t \in 1 .. 0 : g[t] = PageStep(R, c, g[t - 1])
        OBVIOUS
      <3>2. Part(0)
        BY <3>3, <3>4
      <3> QED
        BY <2>3, <3>2
    <2>5. k - 1 \in 0 .. n /\ k - 1 \notin Bad
      BY <1>1, <2>1, <2>2, <2>3, <2>4
    <2>6. Part(k - 1)
      BY <2>5 DEF Bad
    <2>7. PICK g \in [0 .. k - 1 -> 0 .. n] :
             g[0] = c /\ \A t \in 1 .. k - 1 : g[t] = PageStep(R, c, g[t - 1])
      BY <2>6
    <2> DEFINE e == PageStep(R, c, g[k - 1])
               h == [t \in 0 .. k |-> IF t = k THEN e ELSE g[t]]
    <2>8. k - 1 \in 0 .. k - 1 /\ g[k - 1] \in 0 .. n
      BY <2>3, <2>4
    <2>9. e \in 0 .. n
      BY <2>8, PageStepBounds
    <2> HIDE DEF e
    <2>10. h \in [0 .. k -> 0 .. n]
      BY <2>3, <2>7, <2>9
    <2>11. h[0] = c /\ h[k] = e /\ \A t \in 0 .. k - 1 : h[t] = g[t]
      BY <2>3, <2>4, <2>7
    <2> HIDE DEF h
    <2>12. \A t \in 1 .. k : h[t] = PageStep(R, c, h[t - 1])
      <3> SUFFICES ASSUME NEW t \in 1 .. k PROVE h[t] = PageStep(R, c, h[t - 1])
        OBVIOUS
      <3>1. t - 1 \in 0 .. k - 1 /\ h[t - 1] = g[t - 1]
        BY <2>3, <2>11
      <3>2. CASE t = k
        BY <2>11, <3>1, <3>2 DEF e
      <3>3. CASE t # k
        <4>1. t \in 1 .. k - 1 /\ t \in 0 .. k - 1
          BY <2>3, <3>3
        <4> QED
          BY <2>7, <2>11, <3>1, <4>1
      <3> QED
        BY <3>2, <3>3
    <2>13. Part(k)
      BY <2>10, <2>11, <2>12
    <2> QED
      BY <2>3, <2>13
  <1>3. Part(n)
    <2> HIDE DEF Part
    <2>1. n \in 0 .. n /\ n \notin Bad
      BY <1>1, <1>2
    <2> QED
      BY <2>1
  <1>4. PICK g \in [0 .. n -> 0 .. n] : g[0] = c /\ \A t \in 1 .. n : g[t] = PageStep(R, c, g[t - 1])
    BY <1>3
  <1>5. Pages(R, c, g)
    <2>1. \A t \in 0 .. n : t # 0 => t \in 1 .. n
      BY <1>1
    <2>2. \A t \in 0 .. n : g[t] = IF t = 0 THEN c ELSE PageStep(R, c, g[t - 1])
      BY <1>4, <2>1
    <2> QED
      BY <1>4, <2>2 DEF Pages
  <1>6. Pages(R, c, PageEnds(R, c))
    BY <1>5, Zenon DEF PageEnds, Pages, PageStep
  <1> DEFINE f == PageEnds(R, c)
  <1> HIDE DEF f
  <1>7. f = [t \in 0 .. n |-> IF t = 0 THEN c ELSE PageStep(R, c, f[t - 1])]
    BY <1>6 DEF Pages, f
  <1>8. f[0] = c /\ \A t \in 1 .. n : f[t] = PageStep(R, c, f[t - 1])
    <2>1. 0 \in 0 .. n /\ \A t \in 1 .. n : t \in 0 .. n /\ t # 0
      BY <1>1
    <2> QED
      BY <1>7, <2>1
  <1>9. \A t \in 0 .. n : f[t] \in 0 .. n
    <2> DEFINE Out == {t \in 0 .. n : f[t] \notin 0 .. n}
    <2> SUFFICES ASSUME Out # {} PROVE FALSE
      OBVIOUS
    <2>1. Out \in SUBSET Nat
      OBVIOUS
    <2> HIDE DEF Out
    <2>2. PICK k \in Out : \A j \in Out : k <= j
      BY <2>1, Least
    <2>3. k \in 0 .. n /\ f[k] \notin 0 .. n
      BY DEF Out
    <2>4. k # 0
      BY <1>8, <2>3
    <2>5. k \in 1 .. n /\ k - 1 \in 0 .. n /\ k - 1 \notin Out
      BY <1>1, <2>1, <2>2, <2>3, <2>4
    <2>6. f[k - 1] \in 0 .. n
      BY <2>5 DEF Out
    <2>7. f[k] \in 0 .. n
      BY <1>8, <2>5, <2>6, PageStepBounds
    <2> QED
      BY <2>3, <2>7
  <1>10. f \in [0 .. n -> 0 .. n]
    BY <1>7, <1>9
  <1> QED
    BY <1>6, <1>8, <1>10 DEF f

\* Each device-scoped subscription adds one recipient at most.
LEMMA RecipientsGrow ==
  ASSUME DeviceSubs, NEW R \in SUBSET Devices, NEW c \in 0 .. Len(Subs), NEW v \in c .. Len(Subs),
         NEW s \in v .. Len(Subs)
  PROVE  Cardinality(Recipients(R, c, s)) <= Cardinality(Recipients(R, c, v)) + (s - v)
  <1> DEFINE N(k) == Cardinality(Recipients(R, c, k))
             Bad == {k \in v .. Len(Subs) : ~(N(k) <= N(v) + (k - v))}
  <1>0. \A k : N(k) \in Nat
    BY RecipientsFinite
  <1>1. Len(Subs) \in Nat /\ \A k : N(k) \in Nat
    BY <1>0, PushAssumption
  <1>2. ASSUME NEW k \in c .. Len(Subs), k < Len(Subs) PROVE N(k + 1) <= N(k) + 1
    <2>1. k + 1 \in DOMAIN Subs
      BY <1>1, <1>2, PushAssumption
    <2>2. Recipients(R, c, k + 1) \subseteq Recipients(R, c, k) \cup Subs[k + 1]
      <3>1. \A j \in c + 1 .. k + 1 : j \in c + 1 .. k \/ j = k + 1
        BY <1>1, <1>2
      <3> QED
        BY <3>1 DEF Recipients
    <2>3. PICK d : Subs[k + 1] \subseteq {d}
      BY <2>1 DEF DeviceSubs
    <2>4. Recipients(R, c, k + 1) \subseteq Recipients(R, c, k) \cup {d}
      BY <2>2, <2>3
    <2> QED
      BY <2>4, OneMore, RecipientsFinite
  <1> HIDE DEF N
  <1>3. Bad = {}
    <2> SUFFICES ASSUME Bad # {} PROVE FALSE
      OBVIOUS
    <2>1. Bad \in SUBSET Nat
      BY <1>1
    <2> HIDE DEF Bad
    <2>2. PICK k \in Bad : \A j \in Bad : k <= j
      BY <2>1, Least
    <2>3. k \in v .. Len(Subs) /\ ~(N(k) <= N(v) + (k - v))
      BY DEF Bad
    <2>4. k # v
      BY <1>1, <2>3
    <2>5. k - 1 \in v .. Len(Subs) /\ k - 1 \notin Bad /\ k - 1 \in c .. Len(Subs) /\ k - 1 < Len(Subs)
      BY <1>1, <2>1, <2>2, <2>3, <2>4
    <2>6. N(k - 1) <= N(v) + (k - 1 - v)
      BY <2>5 DEF Bad
    <2>7. PICK j \in c .. Len(Subs) : j = k - 1 /\ k = j + 1 /\ j < Len(Subs)
      BY <2>3, <2>5
    <2>8. N(j + 1) <= N(j) + 1
      BY <1>2, <2>7
    <2>9. PICK a \in Nat, b \in Nat, e \in Nat : a = N(k) /\ b = N(j) /\ e = N(v)
      BY <1>1
    <2>10. a <= b + 1 /\ b <= e + (j - v) /\ ~(a <= e + (k - v))
      BY <2>3, <2>6, <2>7, <2>8, <2>9
    <2>11. v \in Int /\ k \in Int /\ j \in Int /\ a \in Int /\ b \in Int /\ e \in Int
      BY <1>1, <2>3
    <2> QED
      BY <2>7, <2>10, <2>11
  <1>4. N(s) <= N(v) + (s - v)
    BY <1>3
  <1> QED
    BY <1>4 DEF N

\* With device-scoped subscriptions a page ends exactly where the shard is
\* full, so a continuation skips nobody.
LEMMA NoSkip ==
  ASSUME DeviceSubs, NEW R \in SUBSET Devices, NEW c \in 0 .. Len(Subs)
  PROVE  ShardNext(R, c) = ShardStop(R, c)
  <1> DEFINE n == Len(Subs)
             s == ShardStop(R, c)
             f == PageEnds(R, c)
             N(k) == Cardinality(Recipients(R, c, k))
  <1>0. \A k : N(k) \in Nat
    BY RecipientsFinite
  <1>1. n \in Nat /\ ShardSize \in Nat /\ \A k : N(k) \in Nat
    BY <1>0, PushAssumption
  <1>2. s \in Nat /\ s <= n /\ (s = n \/ s > c) /\ ShardNext(R, c) \in Nat /\ s <= ShardNext(R, c)
        /\ ShardNext(R, c) <= n
    BY ShardBounds
  <1>3. CASE s = n
    BY <1>1, <1>2, <1>3
  <1>4. CASE s # n
    <2>1. s \in c + 1 .. n /\ N(s) >= ShardSize
      <3> DEFINE A == {n} \cup {k \in c + 1 .. n : N(k) >= ShardSize}
      <3>1. A \in SUBSET Nat /\ A # {}
        BY <1>1
      <3>2. s = Min(A)
        BY DEF ShardStop
      <3> HIDE DEF A, s
      <3>3. s \in A
        BY <3>1, <3>2, MinIn
      <3> QED
        BY <1>4, <3>3 DEF A
    <2>2. /\ f \in [0 .. n -> 0 .. n] /\ f[0] = c
          /\ \A t \in 1 .. n : f[t] = PageStep(R, c, f[t - 1])
      BY PagesExist
    <2> HIDE DEF s, f
    \* Before the shard is full a page brings it further, and not too far.
    <2>3. ASSUME NEW t \in 1 .. n, f[t - 1] >= c, f[t - 1] < s PROVE f[t] > f[t - 1] /\ f[t] <= s
      <3>1. t - 1 \in 0 .. n /\ f[t - 1] \in 0 .. n
        BY <1>1, <2>2
      <3>2. PICK v \in 0 .. n : v = f[t - 1]
        BY <3>1
      <3>3. v \in c .. n /\ s \in v .. n /\ v < n
        BY <1>1, <2>1, <2>3, <3>2
      <3>4. N(s) <= N(v) + (s - v)
        BY <3>3, RecipientsGrow
      <3>5. /\ f[t] \in 0 .. n /\ f[t] > v
            /\ f[t] <= v + 1 \/ f[t] <= v + ShardSize - N(v)
        BY <2>2, <3>2, <3>3, PageStepBounds
      <3> HIDE DEF N
      <3>6. f[t] <= s
        <4>1. PICK a \in Nat, b \in Nat : a = N(s) /\ b = N(v)
          BY <1>1
        <4>2. a <= b + (s - v) /\ a >= ShardSize /\ (f[t] <= v + 1 \/ f[t] <= v + ShardSize - b)
          BY <2>1, <3>4, <3>5, <4>1
        <4>3. PICK x \in Int : x = f[t]
          BY <3>5
        <4>4. PICK y \in Int : y = s /\ y > v
          BY <1>2, <2>3, <3>2
        <4>5. v \in Int /\ a <= b + (y - v) /\ a >= ShardSize /\ (x <= v + 1 \/ x <= v + ShardSize - b)
          BY <1>1, <4>2, <4>3, <4>4
        <4>6. x <= y
          <5>1. v \in Int /\ a \in Int /\ b \in Int /\ x \in Int /\ y \in Int /\ ShardSize \in Int
            BY <1>1
          <5> QED
            BY <4>4, <4>5, <5>1
        <4> QED
          BY <4>3, <4>4, <4>6
      <3> QED
        BY <3>2, <3>5, <3>6
    <2> DEFINE Full == {t \in 0 .. n : f[t] >= s}
               Low == {t \in 0 .. n : f[t] < s /\ ~(f[t] >= c + t)}
    <2>4. ASSUME \A t \in 0 .. n : f[t] < s PROVE Low = {}
      <3> SUFFICES ASSUME Low # {} PROVE FALSE
        OBVIOUS
      <3>1. Low \in SUBSET Nat
        OBVIOUS
      <3> HIDE DEF Low
      <3>2. PICK k \in Low : \A j \in Low : k <= j
        BY <3>1, Least
      <3>3. k \in 0 .. n /\ ~(f[k] >= c + k) /\ f[k] \in 0 .. n
        BY <2>2 DEF Low
      <3>4. k # 0
        BY <2>2, <3>3
      <3>5. k \in 1 .. n /\ k - 1 \in 0 .. n /\ k - 1 \notin Low
        BY <1>1, <3>1, <3>2, <3>3, <3>4
      <3>6. f[k - 1] < s /\ f[k - 1] >= c + (k - 1) /\ f[k - 1] \in 0 .. n
        BY <2>2, <2>4, <3>5 DEF Low
      <3>7. f[k] > f[k - 1]
        BY <2>3, <3>5, <3>6
      <3> QED
        BY <3>3, <3>5, <3>6, <3>7
    <2>5. Full # {}
      <3> SUFFICES ASSUME Full = {} PROVE FALSE
        OBVIOUS
      <3>1. \A t \in 0 .. n : f[t] < s
        BY <1>1, <1>2, <2>2
      <3>2. n \in 0 .. n /\ n \notin Low
        BY <1>1, <2>4, <3>1
      <3>3. f[n] < s /\ f[n] >= c + n /\ f[n] \in 0 .. n
        BY <2>2, <3>1, <3>2
      <3> QED
        BY <1>1, <1>2, <3>3
    <2>6. PICK t \in Full : \A j \in Full : t <= j
      <3>1. Full \in SUBSET Nat
        OBVIOUS
      <3> HIDE DEF Full
      <3> QED
        BY <2>5, <3>1, Least
    <2>7. t \in 0 .. n /\ f[t] >= s /\ t # 0
      BY <2>1, <2>2
    <2>8. t \in 1 .. n /\ t - 1 \in 0 .. n /\ t - 1 \notin Full
      BY <1>1, <2>6, <2>7
    <2>9. f[t - 1] < s /\ f[t - 1] \in 0 .. n
      BY <1>1, <1>2, <2>2, <2>8
    <2>10. f[t - 1] >= c
      <3> DEFINE Under == {j \in 0 .. t - 1 : ~(f[j] >= c)}
      <3> SUFFICES ASSUME Under # {} PROVE FALSE
        BY <2>8
      <3>1. Under \in SUBSET Nat
        OBVIOUS
      <3> HIDE DEF Under
      <3>2. PICK k \in Under : \A j \in Under : k <= j
        BY <3>1, Least
      <3>3. k \in 0 .. t - 1 /\ ~(f[k] >= c)
        BY DEF Under
      <3>4. k # 0
        BY <2>2, <3>3
      <3>5. k \in 1 .. n /\ k - 1 \in 0 .. t - 1 /\ k - 1 \notin Under /\ k - 1 \in 0 .. n /\ k - 1 < t
            /\ k \in 0 .. n
        BY <2>8, <3>1, <3>2, <3>3, <3>4
      <3>6. f[k - 1] >= c
        BY <3>5 DEF Under
      <3>7. f[k - 1] < s
        <4>1. k - 1 \notin Full
          BY <2>6, <2>8, <3>5
        <4> QED
          BY <1>2, <2>2, <3>5, <4>1
      <3>8. f[k] > f[k - 1] /\ f[k] \in 0 .. n /\ f[k - 1] \in 0 .. n
        BY <2>2, <2>3, <3>5, <3>6, <3>7
      <3> QED
        BY <3>3, <3>6, <3>8
    <2>11. f[t] = s
      <3>1. f[t] <= s /\ f[t] \in 0 .. n
        BY <2>2, <2>3, <2>7, <2>8, <2>9, <2>10
      <3> QED
        BY <1>2, <2>7, <3>1
    <2>12. s \in Boundary(R, c)
      BY <2>1, <2>8, <2>11 DEF Boundary, f
    <2>13. ShardNext(R, c) <= s
      <3> DEFINE B == {n} \cup {b \in Boundary(R, c) : b >= s}
      <3>1. B \in SUBSET Nat /\ s \in B
        BY <1>1, <1>2, <2>12 DEF Boundary
      <3>2. ShardNext(R, c) = Min(B)
        BY DEF ShardNext, s
      <3> HIDE DEF B
      <3>3. PICK x \in B : \A y \in B : x <= y
        BY <3>1, Least
      <3>4. \A y \in B : Min(B) <= y
        BY <3>3 DEF Min
      <3> QED
        BY <3>1, <3>2, <3>4
    <2> QED
      BY <1>2, <2>13 DEF s
  <1> QED
    BY <1>3, <1>4

-----------------------------------------------------------------------------
(* What the ids of shards and batches determine while no device is deleted *)

\* Nothing is tried twice and no answer deletes a device.
FirstAttempts == MaxAttempts = 1 /\ "invalid" \notin Outcomes

\* The cursor of the shard that k continuations lead to.
Chain(k, c) ==
    \E f \in [0 .. k -> 0 .. Len(Subs)] :
       f[0] = 0 /\ f[k] = c /\ \A i \in 1 .. k : f[i] = ShardNext(Devices, f[i - 1])

\* The cursor that belongs to a shard id, the recipients that belong to a
\* batch id.
ShardIs(b, c) == b[1] = "shard" /\ \E k \in Nat : Len(b) = 1 + 2 * k /\ Chain(k, c)
Chunk(S, i) == {d \in S : (Rank(S, d) - 1) \div BatchSize + 1 = i}
FastDevices == {d \in Devices : Rank(Devices, d) <= FastThreshold}
ShardDevices(c) == Recipients(Devices, c, ShardStop(Devices, c))
BatchIs(b, S) ==
    \/ b[1] = "fast" /\ S = Chunk(FastDevices, b[Len(b)])
    \/ /\ b[1] = "shard"
       /\ \E k \in Nat : \E c \in 0 .. Len(Subs) :
             Len(b) = 3 + 2 * k /\ Chain(k, c) /\ S = Chunk(ShardDevices(c), b[Len(b)])

\* The first shard, and the next.
LEMMA ChainNext ==
  ASSUME NEW k \in Nat, NEW c, Chain(k, c)
  PROVE  c \in 0 .. Len(Subs) /\ Chain(k + 1, ShardNext(Devices, c))
  <1>1. PICK f \in [0 .. k -> 0 .. Len(Subs)] :
           f[0] = 0 /\ f[k] = c /\ \A i \in 1 .. k : f[i] = ShardNext(Devices, f[i - 1])
    BY DEF Chain
  <1>2. c \in 0 .. Len(Subs) /\ Len(Subs) \in Nat
    BY <1>1, PushAssumption
  <1> DEFINE e == ShardNext(Devices, c)
             g == [i \in 0 .. k + 1 |-> IF i = k + 1 THEN e ELSE f[i]]
  <1>3. e \in 0 .. Len(Subs)
    BY <1>2, ShardBounds
  <1> HIDE DEF e
  <1>4. g \in [0 .. k + 1 -> 0 .. Len(Subs)]
    BY <1>1, <1>3
  <1>5. g[0] = 0 /\ g[k + 1] = e /\ \A i \in 0 .. k : g[i] = f[i]
    BY <1>1
  <1> HIDE DEF g
  <1>6. ASSUME NEW i \in 1 .. k + 1 PROVE g[i] = ShardNext(Devices, g[i - 1])
    <2>1. i - 1 \in 0 .. k /\ g[i - 1] = f[i - 1]
      BY <1>5
    <2>2. CASE i = k + 1
      <3>1. i - 1 = k
        BY <2>2
      <3> QED
        BY <1>1, <1>5, <2>1, <2>2, <3>1 DEF e
    <2>3. CASE i # k + 1
      <3>1. i \in 1 .. k /\ i \in 0 .. k
        BY <2>3
      <3> QED
        BY <1>1, <1>5, <2>1, <3>1
    <2> QED
      BY <2>2, <2>3
  <1>7. Chain(k + 1, e)
    BY <1>4, <1>5, <1>6 DEF Chain
  <1> QED
    BY <1>2, <1>7 DEF e

\* The first shard starts before all subscriptions.
LEMMA ChainFirst == Chain(0, 0)
  <1>1. Len(Subs) \in Nat
    BY PushAssumption
  <1>2. [i \in 0 .. 0 |-> 0] \in [0 .. 0 -> 0 .. Len(Subs)] /\ [i \in 0 .. 0 |-> 0][0] = 0
    BY <1>1
  <1>3. PICK f \in [0 .. 0 -> 0 .. Len(Subs)] : f[0] = 0
    BY <1>2
  <1>4. \A i \in 1 .. 0 : f[i] = ShardNext(Devices, f[i - 1])
    OBVIOUS
  <1> QED
    BY <1>3, <1>4 DEF Chain

\* A shard of the chain has one cursor.
LEMMA ChainOne ==
  ASSUME NEW k \in Nat, NEW c, NEW e, Chain(k, c), Chain(k, e)
  PROVE  c = e
  <1>1. PICK f \in [0 .. k -> 0 .. Len(Subs)] :
           f[0] = 0 /\ f[k] = c /\ \A i \in 1 .. k : f[i] = ShardNext(Devices, f[i - 1])
    BY DEF Chain
  <1>2. PICK g \in [0 .. k -> 0 .. Len(Subs)] :
           g[0] = 0 /\ g[k] = e /\ \A i \in 1 .. k : g[i] = ShardNext(Devices, g[i - 1])
    BY DEF Chain
  <1> DEFINE Diff == {i \in 0 .. k : f[i] # g[i]}
  <1>3. Diff = {}
    <2> SUFFICES ASSUME Diff # {} PROVE FALSE
      OBVIOUS
    <2>1. Diff \in SUBSET Nat
      OBVIOUS
    <2> HIDE DEF Diff
    <2>2. PICK i \in Diff : \A j \in Diff : i <= j
      BY <2>1, Least
    <2>3. i \in 0 .. k /\ f[i] # g[i]
      BY DEF Diff
    <2>4. i # 0
      BY <1>1, <1>2, <2>3
    <2>5. i \in 1 .. k /\ i - 1 \in 0 .. k /\ i - 1 \notin Diff
      BY <2>1, <2>2, <2>3, <2>4
    <2>6. f[i - 1] = g[i - 1]
      BY <2>5 DEF Diff
    <2> QED
      BY <1>1, <1>2, <2>3, <2>5, <2>6
  <1>4. k \in 0 .. k
    OBVIOUS
  <1> QED
    BY <1>1, <1>2, <1>3, <1>4

\* An id has one cursor, or one set of recipients.
LEMMA IdsDetermine ==
  ASSUME NEW b
  PROVE  /\ \A c, e : ShardIs(b, c) /\ ShardIs(b, e) => c = e
         /\ \A c : ShardIs(b, c) => c \in 0 .. Len(Subs)
         /\ \A S, T : BatchIs(b, S) /\ BatchIs(b, T) => S = T
  <1>1. ASSUME NEW c, NEW e, ShardIs(b, c), ShardIs(b, e) PROVE c = e
    <2>1. PICK k \in Nat : Len(b) = 1 + 2 * k /\ Chain(k, c)
      BY <1>1 DEF ShardIs
    <2>2. PICK l \in Nat : Len(b) = 1 + 2 * l /\ Chain(l, e)
      BY <1>1 DEF ShardIs
    <2>3. k = l
      BY <2>1, <2>2
    <2> QED
      BY <2>1, <2>2, <2>3, ChainOne
  <1>2. ASSUME NEW c, ShardIs(b, c) PROVE c \in 0 .. Len(Subs)
    BY <1>2, ChainNext DEF ShardIs
  <1>3. ASSUME NEW S, NEW T, BatchIs(b, S), BatchIs(b, T), b[1] = "shard" PROVE S = T
    <2>1. PICK k \in Nat : \E c \in 0 .. Len(Subs) :
             Len(b) = 3 + 2 * k /\ Chain(k, c) /\ S = Chunk(ShardDevices(c), b[Len(b)])
      BY <1>3 DEF BatchIs
    <2>2. PICK c \in 0 .. Len(Subs) :
             Len(b) = 3 + 2 * k /\ Chain(k, c) /\ S = Chunk(ShardDevices(c), b[Len(b)])
      BY <2>1
    <2>3. PICK l \in Nat : \E e \in 0 .. Len(Subs) :
             Len(b) = 3 + 2 * l /\ Chain(l, e) /\ T = Chunk(ShardDevices(e), b[Len(b)])
      BY <1>3 DEF BatchIs
    <2>4. PICK e \in 0 .. Len(Subs) :
             Len(b) = 3 + 2 * l /\ Chain(l, e) /\ T = Chunk(ShardDevices(e), b[Len(b)])
      BY <2>3
    <2>5. k = l
      BY <2>2, <2>4
    <2>6. c = e
      BY <2>2, <2>4, <2>5, ChainOne
    <2> QED
      BY <2>2, <2>4, <2>6
  <1>4. ASSUME NEW S, NEW T, BatchIs(b, S), BatchIs(b, T), b[1] # "shard" PROVE S = T
    BY <1>4 DEF BatchIs
  <1> QED
    BY <1>1, <1>2, <1>3, <1>4

\* Two labels are appended to an id.
LEMMA LongerId ==
  ASSUME NEW b \in Seq(Labels), b # <<>>, NEW l \in {"batch", "next", "retry"}, NEW i \in Nat
  PROVE  /\ Len(b \o <<l, i>>) = Len(b) + 2
         /\ (b \o <<l, i>>)[1] = b[1]
         /\ (b \o <<l, i>>)[Len(b \o <<l, i>>)] = i
  <1> DEFINE t == <<l, i>>
  <1>1. t \in Seq(Labels)
    BY DEF Labels
  <1>2. Len(t) = 2 /\ t[2] = i
    OBVIOUS
  <1>3. Len(b) \in Nat /\ Len(b) >= 1
    OBVIOUS
  <1> HIDE DEF t
  <1>4. /\ Len(b \o t) = Len(b) + Len(t)
        /\ \A n \in 1 .. Len(b) + Len(t) : (b \o t)[n] = IF n <= Len(b) THEN b[n] ELSE t[n - Len(b)]
    BY <1>1, ConcatProperties
  <1>5. PICK n \in Nat : n = Len(b) /\ n >= 1
    BY <1>3
  <1>6. 1 \in 1 .. n + 2 /\ n + 2 \in 1 .. n + 2 /\ ~(n + 2 <= n) /\ n + 2 - n = 2 /\ 1 <= n
    BY <1>5
  <1>7. (b \o t)[1] = b[1] /\ (b \o t)[n + 2] = t[2]
    BY <1>2, <1>4, <1>5, <1>6
  <1> QED
    BY <1>2, <1>4, <1>5, <1>7 DEF t

\* The ids the planner and the shard worker build.
LEMMA BuiltIds ==
  ASSUME NEW i \in Nat
  PROVE  /\ BatchIs(<<"fast">> \o <<"batch", i>>, Chunk(FastDevices, i))
         /\ ShardIs(<<"shard">>, 0)
         /\ \A b \in Seq(Labels) : \A c : ShardIs(b, c) =>
               /\ BatchIs(b \o <<"batch", i>>, Chunk(ShardDevices(c), i))
               /\ ShardIs(b \o <<"next", i>>, ShardNext(Devices, c))
  <1>2. BatchIs(<<"fast">> \o <<"batch", i>>, Chunk(FastDevices, i))
    <2>0. <<"fast">> \in Seq(Labels)
      BY DEF Labels
    <2>1. PICK b \in Seq(Labels) : b = <<"fast">>
      BY <2>0
    <2>2. b # <<>> /\ b[1] = "fast"
      BY <2>1
    <2>3. (b \o <<"batch", i>>)[1] = "fast" /\ (b \o <<"batch", i>>)[Len(b \o <<"batch", i>>)] = i
      BY <2>2, LongerId
    <2>4. BatchIs(b \o <<"batch", i>>, Chunk(FastDevices, i))
      BY <2>3 DEF BatchIs
    <2> QED
      BY <2>1, <2>4
  <1>3. ShardIs(<<"shard">>, 0)
    <2>1. PICK b : b = <<"shard">>
      OBVIOUS
    <2>2. Len(b) = 1 + 2 * 0 /\ b[1] = "shard"
      BY <2>1
    <2>3. ShardIs(b, 0)
      BY <2>2, ChainFirst DEF ShardIs
    <2> QED
      BY <2>1, <2>3
  <1>4. ASSUME NEW b \in Seq(Labels), NEW c, ShardIs(b, c)
        PROVE  /\ BatchIs(b \o <<"batch", i>>, Chunk(ShardDevices(c), i))
               /\ ShardIs(b \o <<"next", i>>, ShardNext(Devices, c))
    <2>1. PICK k \in Nat : Len(b) = 1 + 2 * k /\ Chain(k, c)
      BY <1>4 DEF ShardIs
    <2>2. b[1] = "shard" /\ c \in 0 .. Len(Subs) /\ Chain(k + 1, ShardNext(Devices, c))
      BY <1>4, <2>1, ChainNext DEF ShardIs
    <2>3. b # <<>>
      BY <2>1
    <2>4. ASSUME NEW l \in {"batch", "next"}
          PROVE  /\ Len(b \o <<l, i>>) = 3 + 2 * k /\ (b \o <<l, i>>)[1] = "shard"
                 /\ (b \o <<l, i>>)[Len(b \o <<l, i>>)] = i
      <3>1. /\ Len(b \o <<l, i>>) = Len(b) + 2 /\ (b \o <<l, i>>)[1] = b[1]
            /\ (b \o <<l, i>>)[Len(b \o <<l, i>>)] = i
        BY <2>3, LongerId
      <3> QED
        BY <2>1, <2>2, <3>1
    <2>5. BatchIs(b \o <<"batch", i>>, Chunk(ShardDevices(c), i))
      <3>1. PICK x : x = b \o <<"batch", i>>
        OBVIOUS
      <3>2. Len(x) = 3 + 2 * k /\ x[1] = "shard" /\ x[Len(x)] = i
        BY <2>4, <3>1
      <3>3. BatchIs(x, Chunk(ShardDevices(c), i))
        BY <2>1, <2>2, <3>2 DEF BatchIs
      <3> QED
        BY <3>1, <3>3
    <2>6. ShardIs(b \o <<"next", i>>, ShardNext(Devices, c))
      <3>1. PICK x : x = b \o <<"next", i>>
        OBVIOUS
      <3>2. Len(x) = 1 + 2 * (k + 1) /\ x[1] = "shard"
        BY <2>4, <3>1
      <3>3. ShardIs(x, ShardNext(Devices, c))
        BY <2>2, <3>2 DEF ShardIs
      <3> QED
        BY <3>1, <3>3
    <2> QED
      BY <2>5, <2>6
  <1> QED
    BY <1>2, <1>3, <1>4
-----------------------------------------------------------------------------
(* What the handlers produce while every device is registered *)

\* A first attempt, an answer that leaves the device registered, a retry that
\* is past the limit; shards and batches are what their ids say.
Valid(m) ==
    /\ m.stage = "shard" => ShardIs(m.batch, m.attempt)
    /\ m.stage = "deliver" => m.attempt = 1 /\ BatchIs(m.batch, m.devs)
    /\ m.stage = "result" => m.attempt = 1 /\ m.out # "invalid"
    /\ m.stage = "retry" => m.attempt > 1

\* The message m leads to a request of p for d; only shards from the cursor c
\* on count.
Brings(m, p, d, c) ==
    /\ m.pub = p
    /\ \/ m.stage = "deliver" /\ d \in m.devs
       \/ m.stage = "shard" /\ m.attempt >= c /\ d \in Recipients(Devices, m.attempt, Len(Subs))

\* The batches are as many as they have to be, and every recipient is in one.
LEMMA BatchesCover ==
  ASSUME NEW p, NEW prefix, NEW S \in SUBSET Devices
  PROVE  \A d \in S : \E i \in DOMAIN Batches(p, prefix, S) : d \in Batches(p, prefix, S)[i].devs
  <1> DEFINE n == Cardinality(S)
             B == Batches(p, prefix, S)
  <1> SUFFICES ASSUME NEW d \in S PROVE \E i \in DOMAIN B : d \in B[i].devs
    OBVIOUS
  <1>0. {e \in S : e <= d} \subseteq S /\ d \in {e \in S : e <= d} /\ S \subseteq Nat
    BY DevicesFinite
  <1>1. n \in Nat /\ Rank(S, d) \in Nat /\ Rank(S, d) <= n /\ Rank(S, d) # 0
    <2>1. IsFiniteSet(S) /\ IsFiniteSet({e \in S : e <= d})
      BY DevicesFinite, FS_Subset
    <2>2. n \in Nat /\ Cardinality({e \in S : e <= d}) \in Nat /\ Cardinality({e \in S : e <= d}) <= n
      BY <1>0, <2>1, FS_CardinalityType, FS_Subset
    <2>3. Cardinality({e \in S : e <= d}) # 0
      BY <1>0, <2>1, FS_EmptySet
    <2> QED
      BY <2>2, <2>3 DEF Rank
  <1>2. PICK r \in Nat, z \in Nat \ {0} : r = Rank(S, d) - 1 /\ z = BatchSize /\ r < n
    BY <1>1, PushAssumption
  <1>3. DOMAIN B = 1 .. ((n + z - 1) \div z) /\ \A i \in DOMAIN B : d \in B[i].devs <=> r \div z + 1 = i
    <2>1. DOMAIN B = 1 .. ((n + z - 1) \div z)
      BY <1>2 DEF Batches
    <2>2. \A i \in DOMAIN B : B[i].devs = {e \in S : (Rank(S, e) - 1) \div BatchSize + 1 = i}
      BY BatchesElements
    <2> HIDE DEF B
    <2> QED
      BY <1>2, <2>1, <2>2
  <1> HIDE DEF n, B
  <1>4. PICK q \in Nat, k \in Nat, a \in Nat : q = r \div z /\ k = a \div z /\ a = n + z - 1
    BY <1>1, <1>2
  <1>5. /\ q * z <= r /\ r < q * z + z
        /\ k * z <= a /\ a < k * z + z
    BY <1>2, <1>4
  <1>6. q < k
    <2> SUFFICES ASSUME k <= q PROVE FALSE
      OBVIOUS
    <2>1. k * z <= q * z
      OBVIOUS
    <2>2. PICK s \in Nat, t \in Nat : s = k * z /\ t = q * z
      OBVIOUS
    <2> QED
      BY <1>1, <1>2, <1>4, <1>5, <2>1, <2>2
  <1>7. q + 1 \in DOMAIN B
    BY <1>3, <1>4, <1>6
  <1> QED
    BY <1>3, <1>4, <1>7

\* The ids of the batches.
LEMMA BatchesIds ==
  ASSUME NEW p, NEW prefix, NEW S \in SUBSET Devices, NEW i \in DOMAIN Batches(p, prefix, S)
  PROVE  /\ i \in Nat /\ Batches(p, prefix, S)[i].batch = prefix \o <<"batch", i>>
         /\ Batches(p, prefix, S)[i].devs = Chunk(S, i)
  <1>1. Cardinality(S) \in Nat
    BY DevicesFinite, FS_Subset, FS_CardinalityType
  <1>2. i \in 1 .. ((Cardinality(S) + BatchSize - 1) \div BatchSize)
    BY DEF Batches
  <1>3. i \in Nat
    BY <1>1, <1>2, PushAssumption
  <1> QED
    BY <1>3 DEF Batches, BatchMsg, Msg, Chunk

\* A shard produces batches and a continuation that are what their ids say,
\* and every recipient from its cursor on is in a batch or left to the
\* continuation, which starts further on.
LEMMA ShardProduces ==
  ASSUME DeviceSubs, NEW P, NEW m \in Message(P), m.stage = "shard", Valid(m)
  PROVE  /\ \A i \in DOMAIN ShardOutput(m, Devices) :
              ShardOutput(m, Devices)[i].pub = m.pub /\ Valid(ShardOutput(m, Devices)[i])
         /\ \A d \in Recipients(Devices, m.attempt, Len(Subs)) :
              \E i \in DOMAIN ShardOutput(m, Devices) :
                 Brings(ShardOutput(m, Devices)[i], m.pub, d, m.attempt + 1)
  <1> DEFINE a == m.attempt
             stop == ShardStop(Devices, a)
             S == Recipients(Devices, a, stop)
             B == Batches(m.pub, m.batch, S)
             next == ShardNext(Devices, a)
             c == ShardMsg(m.pub, m.batch \o <<"next", Cardinality(S)>>, next)
             out == ShardOutput(m, Devices)
  <1>1. m.batch \in Seq(Labels) /\ ShardIs(m.batch, a) /\ a \in Nat
    BY MessageFields DEF Valid
  <1>2. a \in 0 .. Len(Subs) /\ Len(Subs) \in Nat
    <2>1. Len(Subs) \in Nat
      BY PushAssumption
    <2>2. PICK b : b = m.batch
      OBVIOUS
    <2>3. \A x : ShardIs(b, x) => x \in 0 .. Len(Subs)
      BY IdsDetermine
    <2> QED
      BY <1>1, <2>1, <2>2, <2>3
  <1>3. next = stop /\ stop \in Nat /\ stop <= Len(Subs) /\ (stop = Len(Subs) \/ stop > a)
    BY <1>2, NoSkip, ShardBounds
  <1>4. S \in SUBSET Devices /\ Cardinality(S) \in Nat
    BY RecipientsFinite
  <1>5. /\ \A i \in DOMAIN B : i \in DOMAIN out /\ out[i] = B[i]
        /\ next < Len(Subs) => Len(B) + 1 \in DOMAIN out /\ out[Len(B) + 1] = c
        /\ \A i \in DOMAIN out : i \in DOMAIN B \/ (next < Len(Subs) /\ i = Len(B) + 1)
    BY ShardParts
  <1>6. \A i \in DOMAIN B : /\ B[i].stage = "deliver" /\ B[i].pub = m.pub /\ B[i].attempt = 1
    BY BatchesElements
  <1>7. \A i \in DOMAIN B : /\ i \in Nat /\ B[i].batch = m.batch \o <<"batch", i>>
                            /\ B[i].devs = Chunk(S, i)
    <2>1. PICK p : p = m.pub
      OBVIOUS
    <2>2. PICK b : b = m.batch
      OBVIOUS
    <2>3. PICK T \in SUBSET Devices : T = S
      BY <1>4
    <2>4. \A i \in DOMAIN Batches(p, b, T) : /\ i \in Nat /\ Batches(p, b, T)[i].batch = b \o <<"batch", i>>
                                            /\ Batches(p, b, T)[i].devs = Chunk(T, i)
      BY BatchesIds
    <2> QED
      BY <2>1, <2>2, <2>3, <2>4
  <1>8. \A d \in S : \E i \in DOMAIN B : d \in B[i].devs
    BY <1>4, BatchesCover
  <1>9. c.stage = "shard" /\ c.pub = m.pub /\ c.attempt = next
        /\ c.batch = m.batch \o <<"next", Cardinality(S)>>
    BY DEF ShardMsg, Msg
  <1>10. S = ShardDevices(a)
    BY DEF ShardDevices
  <1> HIDE DEF B, c, next, out
  <1>11. \A i \in DOMAIN B : Valid(B[i])
    <2> SUFFICES ASSUME NEW i \in DOMAIN B PROVE Valid(B[i])
      OBVIOUS
    <2>1. BatchIs(m.batch \o <<"batch", i>>, Chunk(ShardDevices(a), i))
      BY <1>1, <1>7, BuiltIds
    <2> QED
      BY <1>6, <1>7, <1>10, <2>1 DEF Valid
  <1>12. Valid(c)
    <2>1. ShardIs(m.batch \o <<"next", Cardinality(S)>>, next)
      BY <1>1, <1>4, BuiltIds DEF next
    <2> QED
      BY <1>9, <2>1 DEF Valid
  <1>13. \A i \in DOMAIN out : out[i].pub = m.pub /\ Valid(out[i])
    BY <1>5, <1>6, <1>9, <1>11, <1>12
  <1>14. ASSUME NEW d \in Recipients(Devices, a, Len(Subs))
         PROVE  \E i \in DOMAIN out : Brings(out[i], m.pub, d, a + 1)
    <2>1. PICK k \in a + 1 .. Len(Subs) : d \in Subs[k] /\ d \in Devices
      BY DEF Recipients
    <2>2. CASE k <= stop
      <3>1. k \in a + 1 .. stop
        BY <1>2, <1>3, <2>2
      <3>2. d \in S
        BY <2>1, <3>1 DEF Recipients
      <3>3. PICK i \in DOMAIN B : d \in B[i].devs
        BY <1>8, <3>2
      <3> QED
        BY <1>5, <1>6, <3>3 DEF Brings
    <2>3. CASE ~(k <= stop)
      <3>1. next < Len(Subs) /\ next >= a + 1 /\ k \in next + 1 .. Len(Subs)
        BY <1>2, <1>3, <2>3
      <3>2. d \in Recipients(Devices, next, Len(Subs))
        BY <2>1, <3>1 DEF Recipients
      <3>3. Brings(c, m.pub, d, a + 1)
        BY <1>9, <3>1, <3>2 DEF Brings
      <3> QED
        BY <1>5, <3>1, <3>3
    <2> QED
      BY <2>2, <2>3
  <1> QED
    BY <1>13, <1>14 DEF out

\* Whom a publish is for.
Everyone(p) == IF regime[p] = "fast" THEN FastDevices ELSE Devices

\* A plan produces batches for its audience, or the first shard.
LEMMA PlanProduces ==
  ASSUME registered = Devices, NEW p
  PROVE  /\ \A i \in DOMAIN PlanOutput(p) : PlanOutput(p)[i].pub = p /\ Valid(PlanOutput(p)[i])
         /\ \A d \in Everyone(p) : \E i \in DOMAIN PlanOutput(p) : Brings(PlanOutput(p)[i], p, d, 0)
  <1>1. CASE regime[p] = "fast"
    <2> DEFINE B == Batches(p, <<"fast">>, FastDevices)
    <2>1. PlanOutput(p) = B /\ Everyone(p) = FastDevices
      BY <1>1 DEF PlanOutput, FastAudience, FastDevices, Everyone
    <2>2. FastDevices \in SUBSET Devices
      BY DEF FastDevices
    <2>3. \A i \in DOMAIN B : B[i].stage = "deliver" /\ B[i].pub = p /\ B[i].attempt = 1
      BY BatchesElements
    <2>4. \A i \in DOMAIN B : /\ i \in Nat /\ B[i].batch = <<"fast">> \o <<"batch", i>>
                              /\ B[i].devs = Chunk(FastDevices, i)
      BY <2>2, BatchesIds
    <2>5. \A d \in FastDevices : \E i \in DOMAIN B : d \in B[i].devs
      BY <2>2, BatchesCover
    <2> HIDE DEF B
    <2>6. \A i \in DOMAIN B : Valid(B[i])
      <3> SUFFICES ASSUME NEW i \in DOMAIN B PROVE Valid(B[i])
        OBVIOUS
      <3>1. BatchIs(<<"fast">> \o <<"batch", i>>, Chunk(FastDevices, i))
        BY <2>4, BuiltIds
      <3> QED
        BY <2>3, <2>4, <3>1 DEF Valid
    <2> QED
      BY <2>1, <2>3, <2>5, <2>6 DEF Brings
  <1>2. CASE regime[p] # "fast"
    <2> DEFINE c == ShardMsg(p, <<"shard">>, 0)
    <2>1. PlanOutput(p) = <<c>> /\ Everyone(p) = Devices
      BY <1>2 DEF PlanOutput, Everyone
    <2>2. c.stage = "shard" /\ c.pub = p /\ c.attempt = 0 /\ c.batch = <<"shard">>
      BY DEF ShardMsg, Msg
    <2> HIDE DEF c
    <2>3. DOMAIN PlanOutput(p) = {1} /\ PlanOutput(p)[1] = c
      BY <2>1
    <2>4. 0 \in Nat
      OBVIOUS
    <2>5. Valid(c)
      BY <2>2, <2>4, BuiltIds DEF Valid
    <2>6. Devices \subseteq Recipients(Devices, 0, Len(Subs))
      <3>1. DOMAIN Subs = 0 + 1 .. Len(Subs)
        BY PushAssumption
      <3> QED
        BY <3>1 DEF Devices, Recipients
    <2>7. \A d \in Devices : Brings(c, p, d, 0)
      BY <2>2, <2>6 DEF Brings
    <2> QED
      BY <2>1, <2>2, <2>3, <2>5, <2>7
  <1> QED
    BY <1>1, <1>2

\* The answers to a first attempt.
LEMMA ResultsValid ==
  ASSUME FirstAttempts, NEW P, NEW m \in Message(P), m.attempt = 1,
         NEW o \in [m.devs -> Outcomes \cup {"expired"}]
  PROVE  \A i \in DOMAIN Results(m, o) : Results(m, o)[i].pub = m.pub /\ Valid(Results(m, o)[i])
  <1>1. \A i \in DOMAIN Results(m, o) :
           /\ Results(m, o)[i].stage = "result" /\ Results(m, o)[i].pub = m.pub
           /\ Results(m, o)[i].attempt = m.attempt
    BY ResultOne
  <1>2. \A i \in DOMAIN Results(m, o) : Results(m, o)[i].out # "invalid"
    <2> SUFFICES ASSUME NEW i \in DOMAIN Results(m, o) PROVE Results(m, o)[i].out # "invalid"
      OBVIOUS
    <2>1. Results(m, o)[i].out = o[Sorted(m.devs)[i]] /\ i \in 1 .. Cardinality(m.devs)
      BY DEF Results, ResultMsg, Msg
    <2>2. m.devs \in SUBSET Nat /\ IsFiniteSet(m.devs)
      BY MessageFields, DevicesFinite, FS_Subset
    <2>3. Sorted(m.devs)[i] \in m.devs
      BY <2>1, <2>2, RankOnto DEF Sorted
    <2>4. o[Sorted(m.devs)[i]] \in Outcomes \cup {"expired"}
      BY <2>3
    <2> QED
      BY <2>1, <2>4 DEF FirstAttempts
  <1> QED
    BY <1>1, <1>2 DEF Valid

-----------------------------------------------------------------------------
(* Every device stays registered, every message is valid *)

\* Where a handler has begun to produce, or has produced everything.
OutPcs == {"emit", "ack", "markDispatching"}

\* How a handler gets there, and what it has left to produce.
LEMMA RestSteps ==
  ASSUME Typing, [Next]_vars, NEW v \in Workers, wk'[v].pc \in OutPcs
  PROVE  /\ wk[v].pc # "idle" /\ wk'[v].m = wk[v].m
         /\ \/ wk'[v].pc = wk[v].pc /\ wk'[v].rest = wk[v].rest
            \/ /\ wk'[v].pc = "emit" \/ wk'[v].rest = <<>>
               /\ \/ PlanMark(v) /\ wk'[v].rest = PlanOutput(wk[v].m.pub)
                  \/ ShardStream(v) /\ wk'[v].rest = ShardOutput(wk[v].m, registered)
                  \/ /\ Dispatch(v)
                     /\ \E o \in [wk[v].m.devs -> Outcomes \cup {"expired"}] :
                           wk'[v].rest = Results(wk[v].m, o)
                  \/ Emit(v) /\ wk'[v].rest = Tail(wk[v].rest)
  <1> USE DEF store, queue
  <1>1. wk'[v].pc # "idle" /\ wk'[v].pc \notin {"recheck", "markPlanning", "planned"}
    BY DEF OutPcs
  <1>2. ~Consume(v)
    <2> SUFFICES ASSUME Consume(v) PROVE FALSE
      OBVIOUS
    <2>1. PICK m \in ready : wk' = Start(v, m, FirstPc[m.stage])
      BY DEF Consume
    <2>2. PICK pc : pc = FirstPc[m.stage]
      OBVIOUS
    <2>3. wk' = Start(v, m, pc)
      BY <2>1, <2>2
    <2>4. wk'[v].pc = pc
      BY <2>3, StartJob
    <2>5. m.stage \in Stages
      BY MessageFields DEF Typing
    <2>6. pc \in {"plan", "shard", "preflight", "feedback", "retry"}
      BY <2>2, <2>5 DEF Stages, FirstPc
    <2> QED
      BY <2>4, <2>6 DEF OutPcs
  <1>3. ASSUME NEW pc, Goto(v, pc), wk[v].pc # "idle" PROVE pc \in OutPcs
    BY <1>3, GotoJob
  <1>4. ASSUME wk[v].pc # "idle", Ack(v) \/ Nack(v) PROVE FALSE
    BY <1>1, <1>4, AckJob, DropJob DEF Nack
  <1>5. ASSUME wk[v].pc # "idle", NEW rest, EmitFrom(v, rest)
        PROVE  wk'[v].rest = rest /\ (wk'[v].pc = "emit" \/ wk'[v].rest = <<>>)
    BY <1>5, EmitJob
  <1>6. ASSUME Handle(v), wk[v].pc # "idle"
        PROVE  /\ wk'[v].pc = "emit" \/ wk'[v].rest = <<>>
               /\ \/ PlanMark(v) /\ wk'[v].rest = PlanOutput(wk[v].m.pub)
                  \/ ShardStream(v) /\ wk'[v].rest = ShardOutput(wk[v].m, registered)
                  \/ /\ Dispatch(v)
                     /\ \E o \in [wk[v].m.devs -> Outcomes \cup {"expired"}] :
                           wk'[v].rest = Results(wk[v].m, o)
                  \/ Emit(v) /\ wk'[v].rest = Tail(wk[v].rest)
    <2>1. CASE PlanBegin(v) \/ PlanRecheck(v) \/ PlanFinish(v) \/ PlanUnlock(v) \/ AckStep(v)
      <3>1. Ack(v) \/ Nack(v) \/ Goto(v, "recheck") \/ Goto(v, "markPlanning") \/ Goto(v, "planned")
        BY <2>1 DEF PlanBegin, PlanRecheck, PlanFinish, PlanUnlock, AckStep
      <3> QED
        BY <1>3, <1>4, <1>6, <3>1 DEF OutPcs
    <2>2. CASE Feedback(v) \/ FeedbackDevice(v) \/ FeedbackUpsert(v) \/ FeedbackCount(v)
               \/ FeedbackSchedule(v) \/ FeedbackMark(v)
      <3>1. Ack(v) \/ \E pc \in FeedbackPcs : Goto(v, pc)
        BY <2>2 DEF Feedback, FeedbackDevice, FeedbackUpsert, FeedbackCount, FeedbackSchedule, FeedbackMark,
                    FeedbackPcs
      <3> QED
        BY <1>3, <1>4, <1>6, <3>1 DEF OutPcs, FeedbackPcs
    <2>3. CASE RetryBegin(v) \/ RetryLock(v) \/ RetryProduce(v) \/ RetryTerminal(v) \/ RetryRecord(v)
               \/ RetryCount(v) \/ RetryFinish(v)
      <3>1. RetryRoute(wk[v].m) \in RetryPcs
        BY DEF RetryRoute, RetryPcs
      <3>2. Ack(v) \/ Nack(v) \/ \E pc \in RetryPcs : Goto(v, pc)
        BY <2>3, <3>1 DEF RetryBegin, RetryLock, RetryProduce, RetryTerminal, RetryRecord, RetryCount,
                          RetryFinish, DeadLetter, RetryPcs
      <3> QED
        BY <1>3, <1>4, <1>6, <3>2 DEF OutPcs, RetryPcs
    <2>4. CASE PlanMark(v)
      <3>1. EmitFrom(v, PlanOutput(wk[v].m.pub))
        BY <2>4 DEF PlanMark
      <3> QED
        BY <1>5, <1>6, <2>4, <3>1
    <2>5. CASE ShardStream(v)
      <3>1. EmitFrom(v, ShardOutput(wk[v].m, registered))
        BY <2>5 DEF ShardStream, ShardOutput
      <3> QED
        BY <1>5, <1>6, <2>5, <3>1
    <2>6. CASE Dispatch(v)
      <3>1. PICK o \in [wk[v].m.devs -> Outcomes \cup {"expired"}] : EmitFrom(v, Results(wk[v].m, o))
        BY <2>6, DispatchStep
      <3>2. wk'[v].rest = Results(wk[v].m, o) /\ (wk'[v].pc = "emit" \/ wk'[v].rest = <<>>)
        BY <1>5, <1>6, <3>1
      <3> QED
        BY <2>6, <3>2
    <2>7. CASE Emit(v)
      <3>1. EmitFrom(v, Tail(wk[v].rest))
        BY <2>7 DEF Emit
      <3> QED
        BY <1>5, <1>6, <2>7, <3>1
    <2> QED
      BY <1>6, <2>1, <2>2, <2>3, <2>4, <2>5, <2>6, <2>7 DEF Handle
  <1> QED
    BY <1>1, <1>2, <1>6, JobSteps

\* What comes into the queue.
LEMMA Enters ==
  ASSUME Typing, [Next]_vars, NEW x \in Queued', x \notin Queued
  PROVE  \/ \E r \in Requests : AcceptProduce(r) /\ x = PublishMsg(Target[r])
         \/ \E p \in repair : RepairProduce /\ x = PublishMsg(p)
         \/ x \in dlq
         \/ \E w \in Workers : /\ wk[w].pc # "idle"
                               /\ \/ Emit(w) /\ x = Head(wk[w].rest)
                                  \/ /\ FeedbackSchedule(w)
                                     /\ x = RetryMsg(wk[w].m.pub, wk[w].m.batch, Device(wk[w].m), wk[w].m.attempt + 1)
                                  \/ RetryProduce(w)
  <1> USE DEF store, queue
  <1>1. ~(Queued' \subseteq Queued)
    OBVIOUS
  <1>2. UNCHANGED <<ready, inflight>> => FALSE
    BY <1>1 DEF Queued
  <1>3. ASSUME NEW w, Nack(w) \/ (Ack(w) /\ UNCHANGED ready) PROVE FALSE
    BY <1>1, <1>3, QueueAdds
  <1>4. ASSUME NEW m, Produce(m), UNCHANGED inflight PROVE x = m
    BY <1>1, <1>4, QueueAdds
  <1>5. ASSUME NEW w \in Workers, Consume(w) PROVE FALSE
    BY <1>1, <1>5 DEF Consume, Queued
  <1>6. ASSUME NEW w \in Workers, Defer(w) \/ Crash(w) \/ StoreError(w) PROVE FALSE
    BY <1>2, <1>3, <1>6 DEF Defer, Crash, StoreError, DeadLetter
  <1>7. ASSUME NEW w \in Workers, Emit(w) PROVE wk[w].pc # "idle" /\ x = Head(wk[w].rest)
    BY <1>4, <1>7 DEF Emit
  <1>8. ASSUME NEW w \in Workers, FeedbackSchedule(w)
        PROVE  /\ wk[w].pc # "idle"
               /\ x = RetryMsg(wk[w].m.pub, wk[w].m.batch, Device(wk[w].m), wk[w].m.attempt + 1)
    BY <1>4, <1>8 DEF FeedbackSchedule
  <1>9. ASSUME NEW w \in Workers, RetryProduce(w) PROVE wk[w].pc # "idle"
    BY <1>9 DEF RetryProduce
  <1>10. ASSUME NEW w \in Workers,
                \/ PlanBegin(w) \/ PlanRecheck(w) \/ PlanMark(w) \/ PlanFinish(w) \/ PlanUnlock(w)
                \/ ShardStream(w) \/ AckStep(w)
         PROVE  FALSE
    BY <1>2, <1>3, <1>10 DEF PlanBegin, PlanRecheck, PlanMark, PlanFinish, PlanUnlock, ShardStream, AckStep
  <1>11. ASSUME NEW w \in Workers, Dispatch(w) PROVE FALSE
    BY <1>2, <1>11, DispatchStep
  <1>12. ASSUME NEW w \in Workers,
                \/ Feedback(w) \/ FeedbackDevice(w) \/ FeedbackUpsert(w) \/ FeedbackCount(w) \/ FeedbackMark(w)
                \/ RetryBegin(w) \/ RetryLock(w) \/ RetryTerminal(w) \/ RetryRecord(w)
                \/ RetryCount(w) \/ RetryFinish(w)
         PROVE  FALSE
    <2>1. CASE Feedback(w) \/ FeedbackDevice(w) \/ FeedbackUpsert(w) \/ FeedbackCount(w) \/ FeedbackMark(w)
      BY <1>2, <1>3, <2>1 DEF Feedback, FeedbackDevice, FeedbackUpsert, FeedbackCount, FeedbackMark
    <2>2. CASE RetryBegin(w) \/ RetryLock(w) \/ RetryTerminal(w) \/ RetryRecord(w) \/ RetryCount(w)
               \/ RetryFinish(w)
      BY <1>2, <1>3, <2>2 DEF RetryBegin, RetryLock, RetryTerminal, RetryRecord, RetryCount, RetryFinish,
                              DeadLetter
    <2> QED
      BY <1>12, <2>1, <2>2
  <1>13. ASSUME NEW r \in Requests, Accept(r) \/ AcceptAbort(r)
         PROVE  AcceptProduce(r) /\ x = PublishMsg(Target[r])
    <2>1. CASE AcceptProduce(r)
      BY <1>4, <2>1 DEF AcceptProduce
    <2>2. CASE AcceptLookup(r) \/ AcceptCreate(r) \/ AcceptRecord(r) \/ AcceptAppend(r) \/ AcceptAbort(r)
      BY <1>2, <2>2 DEF AcceptLookup, AcceptCreate, AcceptRecord, AcceptAppend, AcceptAbort
    <2> QED
      BY <1>13, <2>1, <2>2 DEF Accept
  <1>14. ASSUME RepairProduce PROVE \E p \in repair : x = PublishMsg(p)
    BY <1>4, <1>14 DEF RepairProduce
  <1>15. ASSUME Replay PROVE x \in dlq
    BY <1>4, <1>15 DEF Replay
  <1>16. ASSUME RepairScan \/ LockExpires \/ Deadline \/ UNCHANGED vars PROVE FALSE
    BY <1>2, <1>16 DEF RepairScan, RepairLook, LockExpires, Deadline, vars
  <1>17. ASSUME LeaseExpires PROVE FALSE
    BY <1>1, <1>17 DEF LeaseExpires, Queued
  <1> QED
    BY <1>5, <1>6, <1>7, <1>8, <1>9, <1>10, <1>11, <1>12, <1>13, <1>14, <1>15, <1>16, <1>17 DEF Next, Handle

\* Where the retry scheduler is about to try again.
LaterPcs == {"successor", "record", "attempted"}

JobValid(j) ==
    /\ j.pc \notin LaterPcs /\ Valid(j.m)
    /\ j.pc = "emit" => \A i \in DOMAIN j.rest : j.rest[i].pub = j.m.pub /\ Valid(j.rest[i])

\* No device is deleted, every message is valid, nothing is tried again.
Regular ==
    /\ registered = Devices
    /\ \A m \in Queued \cup dlq : Valid(m)
    /\ \A w \in Workers : wk[w].pc # "idle" => JobValid(wk[w])

\* A retry past the limit is dead-lettered.
LEMMA NoLater ==
  ASSUME FirstAttempts, Typing, Shape, Regular, [Next]_vars, NEW v \in Workers, Handle(v)
  PROVE  wk'[v].pc \notin LaterPcs
  <1> USE DEF store, queue
  <1>1. wk[v].pc # "idle"
    BY HandleJob
  <1>2. JobValid(wk[v]) /\ wk[v].pc \notin LaterPcs
    BY <1>1 DEF Regular, JobValid
  <1>3. ASSUME NEW pc, Goto(v, pc) PROVE wk'[v].pc = pc
    BY <1>1, <1>3, GotoJob
  <1>4. ASSUME Ack(v) \/ Nack(v) PROVE wk'[v].pc \notin LaterPcs
    <2>1. wk'[v].pc = "idle"
      BY <1>1, <1>4, AckJob, DropJob DEF Nack
    <2> QED
      BY <2>1 DEF LaterPcs
  <1>5. CASE PlanBegin(v) \/ PlanRecheck(v) \/ PlanFinish(v) \/ PlanUnlock(v) \/ AckStep(v)
    <2>1. Ack(v) \/ Nack(v) \/ Goto(v, "recheck") \/ Goto(v, "markPlanning") \/ Goto(v, "planned")
      BY <1>5 DEF PlanBegin, PlanRecheck, PlanFinish, PlanUnlock, AckStep
    <2> QED
      BY <1>3, <1>4, <2>1 DEF LaterPcs
  <1>6. CASE PlanMark(v) \/ ShardStream(v) \/ Dispatch(v) \/ Emit(v)
    <2>1. \E rest : EmitFrom(v, rest)
      BY <1>6, DispatchStep DEF PlanMark, ShardStream, Emit
    <2>2. wk'[v].pc \in {"emit", "markDispatching", "ack"}
      BY <1>1, <2>1, EmitJob
    <2> QED
      BY <2>2 DEF LaterPcs
  <1>7. CASE Feedback(v) \/ FeedbackDevice(v) \/ FeedbackUpsert(v) \/ FeedbackCount(v)
             \/ FeedbackSchedule(v) \/ FeedbackMark(v)
    <2>1. Ack(v) \/ \E pc \in FeedbackPcs : Goto(v, pc)
      BY <1>7 DEF Feedback, FeedbackDevice, FeedbackUpsert, FeedbackCount, FeedbackSchedule, FeedbackMark,
                  FeedbackPcs
    <2> QED
      BY <1>3, <1>4, <2>1 DEF LaterPcs, FeedbackPcs
  <1>8. CASE RetryBegin(v) \/ RetryLock(v)
    <2>1. wk[v].pc \in {"retry", "retryLock"}
      BY <1>8 DEF RetryBegin, RetryLock
    <2>2. wk[v].m.stage = "retry"
      BY <1>1, <2>1, StageOf DEF RetryPcs
    <2>3. wk[v].m.attempt > MaxAttempts
      BY <1>2, <2>2 DEF JobValid, Valid, FirstAttempts
    <2>4. RetryRoute(wk[v].m) \in {"terminalExpired", "terminalDead"}
      BY <2>3 DEF RetryRoute
    <2>5. Ack(v) \/ Nack(v) \/ \E pc \in {"retryLock", "terminalExpired", "terminalDead"} : Goto(v, pc)
      BY <1>8, <2>4 DEF RetryBegin, RetryLock
    <2> QED
      BY <1>3, <1>4, <2>5 DEF LaterPcs
  <1>9. CASE RetryProduce(v) \/ RetryTerminal(v) \/ RetryRecord(v) \/ RetryCount(v) \/ RetryFinish(v)
    <2>1. Ack(v) \/ \E pc \in {"terminal", "retryAck", "retryDead"} : Goto(v, pc)
      BY <1>2, <1>9 DEF RetryProduce, RetryTerminal, RetryRecord, RetryCount, RetryFinish, DeadLetter, LaterPcs
    <2> QED
      BY <1>3, <1>4, <2>1 DEF LaterPcs
  <1> QED
    BY <1>5, <1>6, <1>7, <1>8, <1>9 DEF Handle

\* Who writes what.
LEMMA Writers ==
  ASSUME Typing, [Next]_vars
  PROVE  /\ \/ UNCHANGED registered
            \/ \E w \in Workers : FeedbackDevice(w) \/ FeedbackUpsert(w)
         /\ \/ UNCHANGED dlq
            \/ \E w \in Workers : wk[w].pc # "idle" /\ dlq' \subseteq dlq \cup {wk[w].m}
         /\ UNCHANGED deadline \/ Deadline
         /\ UNCHANGED <<log, regime>> \/ \E r \in Requests : AcceptAppend(r)
         /\ UNCHANGED sent \/ \E w \in Workers : Dispatch(w)
         /\ UNCHANGED repair \/ RepairScan \/ RepairProduce
         /\ UNCHANGED req \/ \E r \in Requests : Accept(r) \/ AcceptAbort(r)
         /\ idem \subseteq idem'
  <1> USE DEF store, queue
  <1> DEFINE Reg == \/ UNCHANGED registered
                    \/ \E w \in Workers : FeedbackDevice(w) \/ FeedbackUpsert(w)
             Dead == \/ UNCHANGED dlq
                     \/ \E w \in Workers : wk[w].pc # "idle" /\ dlq' \subseteq dlq \cup {wk[w].m}
             Sent == UNCHANGED sent \/ \E w \in Workers : Dispatch(w)
             Log == UNCHANGED <<log, regime>> \/ \E r \in Requests : AcceptAppend(r)
             Rep == UNCHANGED repair \/ RepairScan \/ RepairProduce
             Req == UNCHANGED req \/ \E r \in Requests : Accept(r) \/ AcceptAbort(r)
             Goal == Reg /\ Dead /\ Sent /\ Log /\ Rep /\ Req /\ (UNCHANGED deadline \/ Deadline)
                     /\ idem \subseteq idem'
  <1>1. ASSUME NEW r \in Requests, Accept(r) \/ AcceptAbort(r) PROVE Goal
    <2>1. CASE AcceptAppend(r)
      BY <1>1, <2>1 DEF AcceptAppend
    <2>2. CASE AcceptLookup(r) \/ AcceptCreate(r) \/ AcceptRecord(r) \/ AcceptProduce(r) \/ AcceptAbort(r)
      BY <1>1, <2>2 DEF AcceptProduce, AcceptLookup, AcceptCreate, AcceptRecord, AcceptAbort
    <2> QED
      BY <1>1, <2>1, <2>2 DEF Accept
  <1>2. ASSUME NEW w \in Workers,
               \/ PlanBegin(w) \/ PlanRecheck(w) \/ PlanMark(w) \/ PlanFinish(w) \/ PlanUnlock(w)
               \/ ShardStream(w) \/ Emit(w) \/ AckStep(w)
        PROVE  Goal
    BY <1>2 DEF PlanBegin, PlanRecheck, PlanMark, PlanFinish, PlanUnlock, ShardStream, Emit, AckStep
  <1>3. ASSUME NEW w \in Workers, Dispatch(w) PROVE Goal
    BY <1>3, DispatchStep
  <1>4. ASSUME NEW w \in Workers,
               \/ Feedback(w) \/ FeedbackDevice(w) \/ FeedbackUpsert(w) \/ FeedbackCount(w)
               \/ FeedbackSchedule(w) \/ FeedbackMark(w)
        PROVE  Goal
    <2>1. CASE FeedbackDevice(w)
      BY <2>1 DEF FeedbackDevice
    <2>2. CASE FeedbackUpsert(w)
      BY <2>2 DEF FeedbackUpsert
    <2>3. CASE Feedback(w) \/ FeedbackCount(w) \/ FeedbackSchedule(w) \/ FeedbackMark(w)
      BY <2>3 DEF Feedback, FeedbackCount, FeedbackSchedule, FeedbackMark
    <2> QED
      BY <1>4, <2>1, <2>2, <2>3
  <1>5. ASSUME NEW w \in Workers,
               RetryBegin(w) \/ RetryLock(w) \/ RetryProduce(w) \/ RetryTerminal(w) \/ RetryRecord(w)
               \/ RetryCount(w)
        PROVE  Goal
    BY <1>5 DEF RetryBegin, RetryLock, RetryProduce, RetryTerminal, RetryRecord, RetryCount
  <1>6. ASSUME NEW w \in Workers, RetryFinish(w) \/ StoreError(w) PROVE Goal
    <2>1. wk[w].pc # "idle" /\ dlq' \subseteq dlq \cup {wk[w].m}
      BY <1>6 DEF RetryFinish, StoreError, DeadLetter, Busy
    <2>2. UNCHANGED <<registered, sent, log, regime, repair, req, deadline, idem>>
      BY <1>6 DEF RetryFinish, StoreError
    <2> QED
      BY <2>1, <2>2
  <1>7. ASSUME NEW w \in Workers, Consume(w) \/ Defer(w) \/ Crash(w) PROVE Goal
    BY <1>7 DEF Consume, Defer, Crash
  <1>8. ASSUME RepairScan \/ RepairProduce \/ LeaseExpires \/ LockExpires \/ Replay \/ Deadline PROVE Goal
    BY <1>8 DEF RepairScan, RepairLook, RepairProduce, LeaseExpires, LockExpires, Replay, Deadline
  <1>9. ASSUME UNCHANGED vars PROVE Goal
    BY <1>9 DEF vars
  <1> HIDE DEF Goal
  <1>10. Goal
    BY <1>1, <1>2, <1>3, <1>4, <1>5, <1>6, <1>7, <1>8, <1>9 DEF Next, Handle
  <1> QED
    BY <1>10 DEF Goal

\* Every step keeps the devices registered and the messages valid.
LEMMA StepRegular == FirstAttempts /\ DeviceSubs /\ Typing /\ Shape /\ Regular /\ [Next]_vars => Regular'
  <1> SUFFICES ASSUME FirstAttempts, DeviceSubs, Typing, Shape, Regular, [Next]_vars PROVE Regular'
    OBVIOUS
  <1>1. registered' = Devices
    <2>1. registered = Devices
      BY DEF Regular
    <2>2. ASSUME NEW w \in Workers, FeedbackDevice(w) PROVE registered' = registered
      <3>1. wk[w].pc = "device"
        BY <2>2 DEF FeedbackDevice
      <3>2. wk[w].m.stage = "result" /\ JobValid(wk[w])
        BY <3>1, StageOf DEF FeedbackPcs, Regular
      <3>3. wk[w].m.out # "invalid"
        BY <3>2 DEF JobValid, Valid
      <3> QED
        BY <2>2, <3>3 DEF FeedbackDevice
    <2>3. ASSUME NEW w \in Workers, FeedbackUpsert(w) PROVE registered' = registered
      <3>1. wk[w].pc = "upsert" /\ registered' = registered \cup wk[w].m.devs
        BY <2>3 DEF FeedbackUpsert
      <3>2. wk[w].m.devs \subseteq Devices
        BY <3>1, BusyJob, MessageFields
      <3> QED
        BY <2>1, <3>1, <3>2
    <2> QED
      BY <2>1, <2>2, <2>3, Writers
  <1>2. ASSUME NEW w \in Workers, wk[w].pc # "idle" PROVE JobValid(wk[w]) /\ Valid(wk[w].m)
    BY <1>2 DEF Regular, JobValid
  <1>3. ASSUME NEW x \in Queued' PROVE Valid(x)
    <2>1. CASE x \in Queued \/ x \in dlq
      BY <2>1 DEF Regular
    <2>2. ASSUME NEW p, x = PublishMsg(p) PROVE Valid(x)
      <3>1. x.stage = "publish"
        BY <2>2 DEF PublishMsg, Msg
      <3> QED
        BY <3>1 DEF Valid
    <2>3. ASSUME NEW w \in Workers, Emit(w), x = Head(wk[w].rest) PROVE Valid(x)
      <3>1. wk[w].pc = "emit" /\ 1 \in DOMAIN wk[w].rest /\ x = wk[w].rest[1]
        BY <2>3, EmitRest
      <3> QED
        BY <1>2, <3>1 DEF JobValid
    <2>4. ASSUME NEW w \in Workers, FeedbackSchedule(w),
                 x = RetryMsg(wk[w].m.pub, wk[w].m.batch, Device(wk[w].m), wk[w].m.attempt + 1)
          PROVE  Valid(x)
      <3>1. wk[w].pc = "schedule"
        BY <2>4 DEF FeedbackSchedule
      <3>2. wk[w].m.stage = "result" /\ Valid(wk[w].m)
        BY <1>2, <3>1, StageOf DEF FeedbackPcs
      <3>3. x.stage = "retry" /\ x.attempt = wk[w].m.attempt + 1 /\ wk[w].m.attempt = 1
        BY <2>4, <3>2 DEF RetryMsg, Msg, Valid
      <3>4. x.attempt > 1
        BY <3>3
      <3> QED
        BY <3>3, <3>4 DEF Valid
    <2>5. ASSUME NEW w \in Workers, RetryProduce(w) PROVE FALSE
      BY <1>2, <2>5 DEF RetryProduce, JobValid, LaterPcs
    <2> QED
      BY <2>1, <2>2, <2>3, <2>4, <2>5, Enters
  <1>4. ASSUME NEW x \in dlq' PROVE Valid(x)
    <2>1. x \in dlq \/ \E w \in Workers : wk[w].pc # "idle" /\ x = wk[w].m
      BY Writers
    <2> QED
      BY <1>2, <2>1 DEF Regular
  <1>5. ASSUME NEW v \in Workers, wk'[v].pc # "idle" PROVE JobValid(wk'[v])
    <2>1. wk'[v].pc \notin LaterPcs /\ Valid(wk'[v].m)
      <3>1. CASE wk[v].pc # "idle" /\ wk'[v].m = wk[v].m /\ wk'[v].pc = wk[v].pc
        BY <1>2, <3>1 DEF JobValid
      <3>2. CASE Consume(v) /\ wk'[v].m \in ready
        <4>1. PICK m \in ready : wk' = Start(v, m, FirstPc[m.stage])
          BY <3>2 DEF Consume
        <4>2. PICK pc : pc = FirstPc[m.stage]
          OBVIOUS
        <4>3. wk' = Start(v, m, pc)
          BY <4>1, <4>2
        <4>4. wk'[v].pc = pc
          BY <4>3, StartJob
        <4>5. m.stage \in Stages
          BY MessageFields DEF Typing
        <4>6. pc \in {"plan", "shard", "preflight", "feedback", "retry"}
          BY <4>2, <4>5 DEF Stages, FirstPc
        <4> QED
          BY <3>2, <4>4, <4>6 DEF LaterPcs, Regular, Queued
      <3>3. CASE Handle(v) /\ wk[v].pc # "idle" /\ wk'[v].m = wk[v].m
        BY <1>2, <3>3, NoLater
      <3> QED
        BY <1>5, <3>1, <3>2, <3>3, JobSteps
    <2>2. ASSUME wk'[v].pc = "emit"
          PROVE  \A i \in DOMAIN wk'[v].rest : wk'[v].rest[i].pub = wk'[v].m.pub /\ Valid(wk'[v].rest[i])
      <3>1. wk'[v].pc \in OutPcs
        BY <2>2 DEF OutPcs
      <3>2. wk[v].pc # "idle" /\ wk'[v].m = wk[v].m
        BY <3>1, RestSteps
      <3>3. JobValid(wk[v]) /\ Valid(wk[v].m) /\ wk[v].m \in Message(Known) /\ wk[v].m.pub \in Known
        BY <1>2, <3>2, BusyJob, MessageFields
      <3>4. PICK m \in Message(Known) : m = wk[v].m
        BY <3>3
      <3>5. CASE wk'[v].pc = wk[v].pc /\ wk'[v].rest = wk[v].rest
        BY <2>2, <3>2, <3>3, <3>5 DEF JobValid
      <3>6. CASE PlanMark(v) /\ wk'[v].rest = PlanOutput(wk[v].m.pub)
        <4>1. registered = Devices
          BY DEF Regular
        <4>2. \A i \in DOMAIN PlanOutput(m.pub) : PlanOutput(m.pub)[i].pub = m.pub /\ Valid(PlanOutput(m.pub)[i])
          BY <4>1, PlanProduces
        <4> QED
          BY <3>2, <3>4, <3>6, <4>2
      <3>7. CASE ShardStream(v) /\ wk'[v].rest = ShardOutput(wk[v].m, registered)
        <4>1. wk[v].pc = "shard" /\ registered = Devices
          BY <3>7 DEF ShardStream, Regular
        <4>2. m.stage = "shard" /\ Valid(m)
          BY <3>2, <3>3, <3>4, <4>1, StageOf
        <4>3. \A i \in DOMAIN ShardOutput(m, Devices) :
                 ShardOutput(m, Devices)[i].pub = m.pub /\ Valid(ShardOutput(m, Devices)[i])
          BY <4>2, ShardProduces
        <4> QED
          BY <3>2, <3>4, <3>7, <4>1, <4>3
      <3>8. CASE Dispatch(v) /\ \E o \in [wk[v].m.devs -> Outcomes \cup {"expired"}] :
                                   wk'[v].rest = Results(wk[v].m, o)
        <4>1. wk[v].pc = "preflight"
          BY <3>8 DEF Dispatch
        <4>2. m.stage = "deliver" /\ m.attempt = 1
          BY <3>2, <3>3, <3>4, <4>1, StageOf DEF Valid
        <4>3. PICK o \in [m.devs -> Outcomes \cup {"expired"}] : wk'[v].rest = Results(m, o)
          BY <3>4, <3>8
        <4>4. \A i \in DOMAIN Results(m, o) : Results(m, o)[i].pub = m.pub /\ Valid(Results(m, o)[i])
          BY <4>2, ResultsValid
        <4> QED
          BY <3>2, <3>4, <4>3, <4>4
      <3>9. CASE Emit(v) /\ wk'[v].rest = Tail(wk[v].rest)
        <4>1. /\ wk[v].pc = "emit"
              /\ \A i \in DOMAIN Tail(wk[v].rest) :
                    i + 1 \in DOMAIN wk[v].rest /\ Tail(wk[v].rest)[i] = wk[v].rest[i + 1]
          BY <3>9, EmitRest
        <4> QED
          BY <3>2, <3>3, <3>9, <4>1 DEF JobValid
      <3> QED
        BY <3>1, <3>5, <3>6, <3>7, <3>8, <3>9, RestSteps
    <2> QED
      BY <2>1, <2>2 DEF JobValid
  <1> QED
    BY <1>1, <1>3, <1>4, <1>5 DEF Regular

-----------------------------------------------------------------------------
(* A publish is logged once, and planned only when it is logged *)

\* What a step does to an HTTP call.
LEMMA RequestMoves ==
  ASSUME Typing, [Next]_vars, NEW r \in Requests
  PROVE  \/ req'[r].pc = req[r].pc
         \/ req'[r].pc \in {"create", "publish-id", "duplicate", "rejected", "aborted", "accepted"}
         \/ /\ req[r].pc = "publish-id" /\ req'[r].pc = "publish-uid"
            /\ <<"publish-id", Target[r]>> \notin idem /\ <<"publish-id", Target[r]>> \in idem'
            /\ UNCHANGED log /\ \A s \in Requests \ {r} : req'[s] = req[s]
         \/ req[r].pc = "publish-uid" /\ req'[r].pc = "append"
         \/ AcceptAppend(r) /\ req[r].pc = "append" /\ req'[r].pc = "produce"
  <1> USE DEF store, queue
  <1>1. req \in [Requests -> [pc : ReqPcs, row : StatusRows \cup {NoStatus}]]
    BY DEF Typing
  <1>2. ASSUME NEW s \in Requests, s # r, Accept(s) \/ AcceptAbort(s) PROVE req'[r].pc = req[r].pc
    BY <1>1, <1>2 DEF Accept, AcceptLookup, AcceptCreate, AcceptRecord, AcceptAppend, AcceptProduce, AcceptAbort
  <1>3. CASE AcceptLookup(r) \/ AcceptCreate(r) \/ AcceptProduce(r) \/ AcceptAbort(r)
    <2>1. CASE AcceptLookup(r)
      BY <1>1, <2>1 DEF AcceptLookup
    <2>2. CASE AcceptCreate(r) \/ AcceptProduce(r) \/ AcceptAbort(r)
      BY <1>1, <2>2 DEF AcceptCreate, AcceptProduce, AcceptAbort
    <2> QED
      BY <1>3, <2>1, <2>2
  <1>4. CASE AcceptAppend(r)
    BY <1>1, <1>4 DEF AcceptAppend
  <1>5. CASE AcceptRecord(r)
    <2> DEFINE key == <<req[r].pc, Target[r]>>
               pc == IF key \in idem THEN "duplicate"
                     ELSE IF req[r].pc = "publish-id" THEN "publish-uid"
                     ELSE IF req[r].row.state = "quotaExceeded" THEN "rejected" ELSE "append"
    <2>1. req' = [req EXCEPT ![r].pc = pc] /\ idem' = idem \cup {key} /\ UNCHANGED log
          /\ req[r].pc \in {"publish-id", "publish-uid"}
      BY <1>5 DEF AcceptRecord
    <2> HIDE DEF pc
    <2>2. req'[r].pc = pc /\ \A s \in Requests \ {r} : req'[s] = req[s]
      BY <1>1, <2>1
    <2>3. CASE key \in idem
      BY <2>2, <2>3 DEF pc
    <2>4. CASE key \notin idem /\ req[r].pc = "publish-id"
      BY <2>1, <2>2, <2>4 DEF pc
    <2>5. CASE key \notin idem /\ req[r].pc = "publish-uid"
      BY <2>1, <2>2, <2>5 DEF pc
    <2> QED
      BY <2>1, <2>3, <2>4, <2>5
  <1>6. UNCHANGED req \/ \E s \in Requests : Accept(s) \/ AcceptAbort(s)
    BY Writers
  <1> QED
    BY <1>2, <1>3, <1>4, <1>5, <1>6 DEF Accept

\* The call that wrote the id record of its publish and has not appended yet.
Appends(r) == req[r].pc \in {"publish-uid", "append"}

\* One call appends a publish, and only logged publishes are produced.
Logged ==
    /\ \A r \in Requests : Appends(r) => <<"publish-id", Target[r]>> \in idem /\ Target[r] \notin log
    /\ \A r, s \in Requests : Appends(r) /\ Appends(s) /\ Target[r] = Target[s] => r = s
    /\ \A p \in log : <<"publish-id", p>> \in idem
    /\ \A r \in Requests : req[r].pc = "produce" => Target[r] \in log
    /\ repair \subseteq log
    /\ \A m \in Queued : m.stage = "publish" => m.pub \in log
    /\ \A w \in Workers : wk[w].pc # "idle" /\ wk[w].m.stage = "publish" => wk[w].m.pub \in log
    /\ \A p \in Publishes : status[p].state \in {"planning", "dispatching"} => p \in log

\* The log grows by the publish of the call that appends.
LEMMA LogGrows ==
  ASSUME Typing, [Next]_vars
  PROVE  /\ log \subseteq log'
         /\ \A p \in log' \ log : \E r \in Requests : AcceptAppend(r) /\ p = Target[r]
         /\ \A p \in Publishes : regime'[p] # regime[p] => \E r \in Requests : AcceptAppend(r) /\ p = Target[r]
  <1>1. ASSUME NEW r \in Requests, AcceptAppend(r)
        PROVE  /\ log' = log \cup {Target[r]}
               /\ \A p \in Publishes : regime'[p] # regime[p] => p = Target[r]
    BY <1>1 DEF AcceptAppend
  <1> QED
    BY <1>1, Writers

\* Every step keeps Logged.
LEMMA StepLogged == Typing /\ Shape /\ Regular /\ Logged /\ [Next]_vars => Logged'
  <1> SUFFICES ASSUME Typing, Shape, Regular, Logged, [Next]_vars PROVE Logged'
    OBVIOUS
  <1>1. idem \subseteq idem' /\ log \subseteq log'
    BY Writers, LogGrows
  <1>2. ASSUME NEW r \in Requests, Appends(r)'
        PROVE  \/ Appends(r)
               \/ /\ req[r].pc = "publish-id" /\ req'[r].pc = "publish-uid"
                  /\ <<"publish-id", Target[r]>> \notin idem /\ <<"publish-id", Target[r]>> \in idem'
                  /\ UNCHANGED log /\ \A s \in Requests \ {r} : req'[s] = req[s]
    BY <1>2, RequestMoves DEF Appends
  <1>3. ASSUME NEW r \in Requests, Appends(r)'
        PROVE  <<"publish-id", Target[r]>> \in idem' /\ Target[r] \notin log'
    <2>1. CASE Appends(r)
      <3>1. <<"publish-id", Target[r]>> \in idem' /\ Target[r] \notin log
        BY <1>1, <2>1 DEF Logged
      <3>2. ASSUME NEW s \in Requests, AcceptAppend(s), Target[r] = Target[s] PROVE FALSE
        <4>1. req[s].pc = "append" /\ req'[s].pc = "produce"
          BY <3>2 DEF AcceptAppend, Typing
        <4>2. s = r
          BY <2>1, <3>2, <4>1 DEF Logged, Appends
        <4> QED
          BY <1>3, <4>1, <4>2 DEF Appends
      <3> QED
        BY <3>1, <3>2, LogGrows
    <2>2. CASE ~Appends(r)
      BY <1>2, <1>3, <2>2 DEF Logged
    <2> QED
      BY <2>1, <2>2
  <1>4. ASSUME NEW r \in Requests, NEW s \in Requests, Appends(r)', Appends(s)', Target[r] = Target[s]
        PROVE  r = s
    <2>1. CASE Appends(r) /\ Appends(s)
      BY <1>4, <2>1 DEF Logged
    <2>2. ASSUME NEW a \in Requests, NEW b \in Requests, ~Appends(a), Appends(a)', Appends(b)',
                 Target[a] = Target[b], a # b
          PROVE  FALSE
      <3>1. /\ <<"publish-id", Target[a]>> \notin idem
            /\ \A c \in Requests \ {a} : req'[c] = req[c]
        BY <1>2, <2>2
      <3>2. Appends(b)
        BY <2>2, <3>1 DEF Appends
      <3> QED
        BY <2>2, <3>1, <3>2 DEF Logged
    <2> QED
      BY <1>4, <2>1, <2>2
  <1>5. ASSUME NEW p \in log' PROVE <<"publish-id", p>> \in idem'
    <2>1. CASE p \in log
      BY <1>1, <2>1 DEF Logged
    <2>2. CASE p \notin log
      <3>1. PICK r \in Requests : AcceptAppend(r) /\ p = Target[r]
        BY <2>2, LogGrows
      <3>2. Appends(r)
        BY <3>1 DEF AcceptAppend, Appends
      <3> QED
        BY <1>1, <3>1, <3>2 DEF Logged
    <2> QED
      BY <2>1, <2>2
  <1>6. ASSUME NEW r \in Requests, req'[r].pc = "produce" PROVE Target[r] \in log'
    <2>1. req[r].pc = "produce" \/ AcceptAppend(r)
      BY <1>6, RequestMoves
    <2>2. AcceptAppend(r) => Target[r] \in log'
      BY DEF AcceptAppend
    <2> QED
      BY <1>1, <2>1, <2>2 DEF Logged
  <1>7. repair' \subseteq log'
    <2>1. repair' \subseteq repair \cup log
      BY Writers DEF RepairScan, RepairLook, RepairWindow, RepairProduce
    <2> QED
      BY <1>1, <2>1 DEF Logged
  <1>8. ASSUME NEW x \in Queued', x.stage = "publish" PROVE x.pub \in log'
    <2>1. CASE x \in Queued
      BY <1>1, <1>8, <2>1 DEF Logged
    <2>2. \A p : PublishMsg(p).pub = p
      BY DEF PublishMsg, Msg
    <2>3. ASSUME NEW r \in Requests, AcceptProduce(r), x = PublishMsg(Target[r]) PROVE x.pub \in log
      BY <2>2, <2>3 DEF AcceptProduce, Logged
    <2>4. ASSUME NEW p \in repair, x = PublishMsg(p) PROVE x.pub \in log
      BY <2>2, <2>4 DEF Logged
    <2>5. x \notin dlq
      BY <1>8 DEF Shape
    <2>6. ASSUME NEW w \in Workers, Emit(w), x = Head(wk[w].rest) PROVE FALSE
      <3>1. wk[w].pc = "emit" /\ 1 \in DOMAIN wk[w].rest /\ x = wk[w].rest[1]
        BY <2>6, EmitRest
      <3>2. x.stage \in Products(wk[w].m.stage)
        BY <3>1 DEF Shape, JobShape
      <3> QED
        BY <1>8, <3>2 DEF Products
    <2>7. ASSUME NEW w \in Workers,
                 x = RetryMsg(wk[w].m.pub, wk[w].m.batch, Device(wk[w].m), wk[w].m.attempt + 1)
          PROVE  FALSE
      BY <1>8, <2>7 DEF RetryMsg, Msg
    <2>8. ASSUME NEW w \in Workers, wk[w].pc # "idle", RetryProduce(w) PROVE FALSE
      BY <2>8 DEF RetryProduce, Regular, JobValid, LaterPcs
    <2> QED
      BY <1>1, <2>1, <2>3, <2>4, <2>5, <2>6, <2>7, <2>8, Enters
  <1>9. ASSUME NEW w \in Workers, wk'[w].pc # "idle", wk'[w].m.stage = "publish" PROVE wk'[w].m.pub \in log'
    <2>1. (wk[w].pc # "idle" /\ wk'[w].m = wk[w].m) \/ wk'[w].m \in Queued
      BY <1>9, JobSteps DEF Queued
    <2> QED
      BY <1>1, <1>9, <2>1 DEF Logged
  <1>10. ASSUME NEW p \in Publishes, status'[p].state \in {"planning", "dispatching"} PROVE p \in log'
    <2>1. StateMoves(p)
      BY StateSteps
    <2>2. CASE status[p].state \in {"planning", "dispatching"}
      BY <1>1, <2>2 DEF Logged
    <2>3. ASSUME NEW w \in Workers, PlanMark(w) \/ PlanFinish(w) PROVE wk[w].m.pub \in log
      <3>1. wk[w].pc \in PlanOnlyPcs /\ wk[w].pc # "idle"
        BY <2>3 DEF PlanMark, PlanFinish, PlanOnlyPcs
      <3>2. wk[w].m.stage = "publish"
        BY <3>1, StageOf
      <3> QED
        BY <3>1, <3>2 DEF Logged
    <2>4. ASSUME NEW w \in Workers, RetryCount(w) PROVE FALSE
      BY <2>4 DEF RetryCount, Regular, JobValid, LaterPcs
    <2> QED
      BY <1>1, <1>10, <2>1, <2>2, <2>3, <2>4 DEF StateMoves, TerminalStates
  <1> QED
    BY <1>3, <1>4, <1>5, <1>6, <1>7, <1>8, <1>9, <1>10 DEF Logged, Appends

\* The audience of a logged publish does not change.
LEMMA SameAudience ==
  ASSUME Typing, Logged, [Next]_vars, NEW p \in log
  PROVE  Everyone(p)' = Everyone(p)
  <1>1. p \in Publishes
    BY DEF Typing, Known
  <1>2. regime'[p] = regime[p]
    <2> SUFFICES ASSUME regime'[p] # regime[p] PROVE FALSE
      OBVIOUS
    <2>1. PICK r \in Requests : AcceptAppend(r) /\ p = Target[r]
      BY <1>1, LogGrows
    <2>2. Appends(r)
      BY <2>1 DEF AcceptAppend, Appends
    <2> QED
      BY <2>1, <2>2 DEF Logged
  <1> QED
    BY <1>2 DEF Everyone

-----------------------------------------------------------------------------
(* No work is lost *)

\* The delivery of p to d was requested, or a queued message leads to it.
Cov(p, d, c) == sent[<<p, d, 1>>] > 0 \/ \E m \in Queued : Brings(m, p, d, c)

\* The job j has a message left to produce that leads to it.
Left(j, d, c) == j.pc = "emit" /\ \E i \in DOMAIN j.rest : Brings(j.rest[i], j.m.pub, d, c)

\* What a handler past its first step has done or has left to produce: a plan
\* for everyone, a shard for those after its cursor and without the shard's
\* own message, a dispatch for the devices of its batch.
Done(j) ==
    \/ deadline[j.m.pub] = "delivery"
    \/ j.m.stage = "publish" /\ \A d \in Everyone(j.m.pub) : Cov(j.m.pub, d, 0) \/ Left(j, d, 0)
    \/ /\ j.m.stage = "shard"
       /\ \A d \in Recipients(Devices, j.m.attempt, Len(Subs)) :
             Cov(j.m.pub, d, j.m.attempt + 1) \/ Left(j, d, j.m.attempt + 1)
    \/ j.m.stage = "deliver" /\ \A d \in j.m.devs : sent[<<j.m.pub, d, 1>>] > 0

Claims ==
    /\ deadline \in [Publishes -> {"none", "age", "delivery"}]
    /\ \A w \in Workers : wk[w].pc \in OutPcs => Done(wk[w])
    /\ \A p \in Publishes : status[p].state = "dispatching" =>
          deadline[p] = "delivery" \/ \A d \in Everyone(p) : Cov(p, d, 0)

\* The key of a shard or a batch tells its stage, its publish and its id.
LEMMA SameKey ==
  ASSUME NEW P, NEW x \in Message(P), NEW m, m.stage \in {"shard", "deliver"}, Key(x) = Key(m)
  PROVE  x.stage = m.stage /\ x.pub = m.pub /\ x.batch = m.batch
  <1>1. Key(m) = <<m.stage, m.pub, m.batch>>
    BY DEF Key
  <1>2. x.stage \in Stages
    BY MessageFields
  <1>3. Key(x)[1] = x.stage
    BY <1>2 DEF Key, Stages
  <1>4. x.stage = m.stage
    BY <1>1, <1>3
  <1>5. Key(x) = <<x.stage, x.pub, x.batch>>
    BY <1>4 DEF Key
  <1> QED
    BY <1>1, <1>5

\* A deadline that has passed has passed for good.
LEMMA DeadlineStays ==
  ASSUME Typing, Claims, [Next]_vars
  PROVE  /\ deadline' \in [Publishes -> {"none", "age", "delivery"}]
         /\ \A p \in Publishes : deadline[p] = "delivery" => deadline'[p] = "delivery"
  <1>1. deadline \in [Publishes -> {"none", "age", "delivery"}]
    BY DEF Claims
  <1>2. CASE Deadline
    <2>1. PICK q \in Publishes, e \in {"age", "delivery"} :
             deadline[q] = "none" /\ deadline' = [deadline EXCEPT ![q] = e]
      BY <1>2 DEF Deadline
    <2> QED
      BY <1>1, <2>1
  <1>3. CASE UNCHANGED deadline
    BY <1>1, <1>3
  <1> QED
    BY <1>2, <1>3, Writers

\* Requests are not taken back.
LEMMA SentStays ==
  ASSUME Typing, [Next]_vars, NEW p \in Publishes, NEW d \in Devices
  PROVE  /\ <<p, d, 1>> \in DOMAIN sent
         /\ sent[<<p, d, 1>>] > 0 => sent'[<<p, d, 1>>] > 0
  <1>1. PICK x : x = <<p, d, 1>>
    OBVIOUS
  <1>2. x \in DOMAIN sent /\ sent[x] \in Nat
    <2>1. 1 \in 1 .. MaxAttempts
      BY PushAssumption
    <2>2. x \in Publishes \X Devices \X (1 .. MaxAttempts)
      BY <1>1, <2>1
    <2> QED
      BY <2>2 DEF Typing
  <1>3. ASSUME NEW w \in Workers, Dispatch(w), sent[x] > 0 PROVE sent'[x] > 0
    <2>1. \/ UNCHANGED sent
          \/ sent' = [y \in DOMAIN sent |->
                            IF y[1] = wk[w].m.pub /\ y[2] \in wk[w].m.devs /\ y[3] = wk[w].m.attempt
                            THEN sent[y] + 1 ELSE sent[y]]
      BY <1>3, DispatchStep
    <2>2. sent'[x] = sent[x] \/ sent'[x] = sent[x] + 1
      BY <1>2, <2>1
    <2> QED
      BY <1>2, <1>3, <2>2
  <1>4. sent[x] > 0 => sent'[x] > 0
    BY <1>3, Writers
  <1> QED
    BY <1>1, <1>2, <1>4

\* What was covered stays covered: who acknowledges a shard has left its work
\* to messages further on, who acknowledges a batch has requested it.
LEMMA CovStep ==
  ASSUME Typing, Shape, Claims, [Next]_vars, NEW p \in Publishes, NEW d \in Devices, NEW c \in Nat,
         Cov(p, d, c), deadline'[p] # "delivery"
  PROVE  Cov(p, d, c)'
  <1>1. deadline[p] # "delivery"
    BY DeadlineStays
  <1>2. sent[<<p, d, 1>>] > 0 => sent'[<<p, d, 1>>] > 0
    BY SentStays
  <1>3. SUFFICES ASSUME ~(sent[<<p, d, 1>>] > 0), NEW x \in Queued, Brings(x, p, d, c), x \notin Queued'
                 PROVE  \E y \in Queued' : Brings(y, p, d, c)
    BY <1>2 DEF Cov
  <1>4. x.stage \in {"shard", "deliver"} /\ x.pub = p
    BY <1>3 DEF Brings
  <1>5. PICK w \in Workers : /\ wk[w].pc # "idle" /\ wk[w].m = x /\ Ack(w) /\ UNCHANGED ready
                             /\ AckStep(w)
    BY <1>3, <1>4, Leaves
  <1>6. wk[w].pc = "ack" /\ Queued \ {x} \subseteq Queued'
    BY <1>5, QueueAdds DEF AckStep
  <1>7. Done(wk[w]) /\ ~\E e, b : Left(wk[w], e, b)
    BY <1>6 DEF Claims, OutPcs, Left
  <1>8. CASE x.stage = "deliver"
    <2>1. d \in x.devs
      BY <1>3, <1>8 DEF Brings
    <2> QED
      BY <1>1, <1>3, <1>4, <1>5, <1>7, <1>8, <2>1 DEF Done
  <1>9. CASE x.stage = "shard"
    <2>1. x.attempt >= c /\ d \in Recipients(Devices, x.attempt, Len(Subs))
      BY <1>3, <1>9 DEF Brings
    <2>2. Cov(p, d, x.attempt + 1)
      BY <1>1, <1>4, <1>5, <1>7, <1>9, <2>1 DEF Done
    <2>3. PICK y \in Queued : Brings(y, p, d, x.attempt + 1)
      BY <1>3, <2>2 DEF Cov
    <2>4. x.attempt \in Nat /\ y.attempt \in Nat
      BY MessageFields DEF Typing, Queued
    <2>5. y # x /\ (y.attempt >= x.attempt + 1 => y.attempt >= c)
      BY <1>9, <2>1, <2>3, <2>4 DEF Brings
    <2>6. Brings(y, p, d, c)
      BY <2>3, <2>5 DEF Brings
    <2> QED
      BY <1>6, <2>3, <2>5, <2>6
  <1> QED
    BY <1>4, <1>8, <1>9

\* A message that is produced is in the queue, or one with its key is, which
\* leads to the same requests.
LEMMA ProducedCovers ==
  ASSUME Typing, Regular, NEW P, NEW m \in Message(P), Valid(m), Produce(m), UNCHANGED inflight,
         NEW p, NEW d, NEW c, Brings(m, p, d, c)
  PROVE  \E y \in Queued' : Brings(y, p, d, c)
  <1>1. m.stage \in {"shard", "deliver"}
    BY DEF Brings
  <1>2. CASE \E x \in Queued : Key(x) = Key(m)
    <2>1. PICK x \in Queued : Key(x) = Key(m)
      BY <1>2
    <2>2. x \in Queued' /\ x \in Message(Known) /\ Valid(x)
      BY QueueAdds DEF Typing, Queued, Regular
    <2>3. x.stage = m.stage /\ x.pub = m.pub /\ x.batch = m.batch
      BY <1>1, <2>1, <2>2, SameKey
    <2>4. CASE m.stage = "shard"
      <3>1. ShardIs(m.batch, x.attempt) /\ ShardIs(m.batch, m.attempt)
        BY <2>2, <2>3, <2>4 DEF Valid
      <3>2. x.attempt = m.attempt
        BY <3>1, IdsDetermine
      <3>3. Brings(x, p, d, c)
        BY <2>3, <2>4, <3>2 DEF Brings
      <3> QED
        BY <2>2, <3>3
    <2>5. CASE m.stage = "deliver"
      <3>1. BatchIs(m.batch, x.devs) /\ BatchIs(m.batch, m.devs)
        BY <2>2, <2>3, <2>5 DEF Valid
      <3>2. x.devs = m.devs
        BY <3>1, IdsDetermine
      <3>3. Brings(x, p, d, c)
        BY <2>3, <2>5, <3>2 DEF Brings
      <3> QED
        BY <2>2, <3>3
    <2> QED
      BY <1>1, <2>4, <2>5
  <1>3. CASE ~\E x \in Queued : Key(x) = Key(m)
    <2>1. m \in Queued'
      BY <1>3 DEF Produce, Enqueue, Queued
    <2> QED
      BY <2>1
  <1> QED
    BY <1>2, <1>3

\* What is left of a sequence after its head.
LEMMA TailElements ==
  ASSUME NEW P, NEW r \in Seq(P), r # <<>>, NEW i \in DOMAIN r, i # 1
  PROVE  i - 1 \in DOMAIN Tail(r) /\ Tail(r)[i - 1] = r[i]
  <1>1. i \in 1 .. Len(r) /\ Len(r) \in Nat
    OBVIOUS
  <1>2. /\ DOMAIN Tail(r) = 1 .. Len(r) - 1
        /\ \A k \in 1 .. Len(r) - 1 : Tail(r)[k] = r[k + 1]
    BY <1>1
  <1>3. PICK k \in 1 .. Len(r) - 1 : k = i - 1 /\ k + 1 = i
    BY <1>1
  <1> QED
    BY <1>2, <1>3

\* A handler keeps what it claims, or comes to claim it.
LEMMA StepDone ==
  ASSUME FirstAttempts, DeviceSubs, Typing, Shape, Regular, Logged, Claims, [Next]_vars,
         NEW v \in Workers, wk'[v].pc \in OutPcs
  PROVE  Done(wk[v])'
  <1>1. wk[v].pc # "idle" /\ wk'[v].m = wk[v].m
    BY RestSteps
  <1>2. wk[v].m \in Message(Known)
    BY <1>1, BusyJob
  <1>3. PICK m \in Message(Known) : m = wk[v].m /\ m = wk'[v].m
    BY <1>1, <1>2
  <1>4. PICK p \in Publishes : p = m.pub
    BY MessageFields DEF Known
  <1>5. m.devs \subseteq Devices /\ m.attempt \in Nat /\ Valid(m)
    BY <1>1, <1>3, MessageFields DEF Regular, JobValid
  <1>6. SUFFICES ASSUME deadline'[p] # "delivery" PROVE Done(wk[v])'
    BY <1>3, <1>4 DEF Done
  <1>7. deadline[p] # "delivery"
    BY <1>6, DeadlineStays
  <1>8. \A d \in Devices, c \in Nat : Cov(p, d, c) => Cov(p, d, c)'
    BY <1>6, CovStep
  <1>9. \A d \in Devices : sent[<<p, d, 1>>] > 0 => sent'[<<p, d, 1>>] > 0
    BY SentStays
  <1>10. m.stage = "publish" => Everyone(p)' = Everyone(p)
    <2>1. m.stage = "publish" => p \in log
      BY <1>1, <1>3, <1>4 DEF Logged
    <2> QED
      BY <2>1, SameAudience
  <1>11. Everyone(p) \subseteq Devices /\ Recipients(Devices, m.attempt, Len(Subs)) \subseteq Devices
    BY DEF Everyone, FastDevices, Recipients
  \* What was left to produce is left, or in the queue.
  <1>12. CASE wk[v].pc \in OutPcs /\ \A d \in Devices, c \in Nat : Left(wk[v], d, c) => Left(wk'[v], d, c) \/ Cov(p, d, c)'
    <2>1. Done(wk[v])
      BY <1>12 DEF Claims
    <2>2. CASE m.stage = "publish"
      <3>1. \A d \in Everyone(p) : Cov(p, d, 0) \/ Left(wk[v], d, 0)
        BY <1>3, <1>4, <1>7, <2>1, <2>2 DEF Done
      <3>2. \A d \in Everyone(p) : Cov(p, d, 0)' \/ Left(wk'[v], d, 0)
        BY <1>8, <1>11, <1>12, <3>1
      <3>3. \A d \in Everyone(p)' : Cov(p, d, 0)' \/ Left(wk'[v], d, 0)
        BY <1>10, <2>2, <3>2
      <3> QED
        BY <1>3, <1>4, <2>2, <3>3 DEF Done, Left
    <2>3. CASE m.stage = "shard"
      <3>0. m.attempt + 1 \in Nat
        BY <1>5
      <3>1. \A d \in Recipients(Devices, m.attempt, Len(Subs)) :
               Cov(p, d, m.attempt + 1) \/ Left(wk[v], d, m.attempt + 1)
        BY <1>3, <1>4, <1>7, <2>1, <2>3 DEF Done
      <3>2. \A d \in Recipients(Devices, m.attempt, Len(Subs)) :
               Cov(p, d, m.attempt + 1)' \/ Left(wk'[v], d, m.attempt + 1)
        BY <1>8, <1>11, <1>12, <3>0, <3>1
      <3> QED
        BY <1>3, <1>4, <2>3, <3>2 DEF Done, Left
    <2>4. CASE m.stage = "deliver"
      BY <1>3, <1>4, <1>5, <1>7, <1>9, <2>1, <2>4 DEF Done
    <2> QED
      BY <1>3, <1>4, <1>7, <2>1, <2>2, <2>3, <2>4 DEF Done
  <1>13. CASE wk'[v].pc = wk[v].pc /\ wk'[v].rest = wk[v].rest
    <2>1. \A d, c : Left(wk[v], d, c) => Left(wk'[v], d, c)
      BY <1>1, <1>13 DEF Left
    <2> QED
      BY <1>12, <1>13, <2>1
  <1>14. ASSUME wk'[v].pc = "emit" \/ wk'[v].rest = <<>>, NEW d, NEW c,
                \E i \in DOMAIN wk'[v].rest : Brings(wk'[v].rest[i], p, d, c)
         PROVE  Left(wk'[v], d, c)
    <2>1. wk'[v].rest # <<>>
      BY <1>14
    <2> QED
      BY <1>3, <1>4, <1>14, <2>1 DEF Left
  <1>15. CASE PlanMark(v) /\ wk'[v].rest = PlanOutput(wk[v].m.pub) /\ (wk'[v].pc = "emit" \/ wk'[v].rest = <<>>)
    <2>1. wk[v].pc = "markPlanning" /\ registered = Devices
      BY <1>15 DEF PlanMark, Regular
    <2>2. m.stage = "publish"
      BY <1>1, <1>3, <2>1, StageOf DEF PlanOnlyPcs
    <2>3. \A d \in Everyone(p) : \E i \in DOMAIN PlanOutput(p) : Brings(PlanOutput(p)[i], p, d, 0)
      BY <2>1, PlanProduces
    <2>4. wk'[v].rest = PlanOutput(p)
      BY <1>3, <1>4, <1>15
    <2>5. \A d \in Everyone(p) : Left(wk'[v], d, 0)
      BY <1>14, <1>15, <2>3, <2>4
    <2>6. \A d \in Everyone(p)' : Left(wk'[v], d, 0)
      BY <1>10, <2>2, <2>5
    <2> QED
      BY <1>3, <1>4, <2>2, <2>6 DEF Done, Left
  <1>16. CASE ShardStream(v) /\ wk'[v].rest = ShardOutput(wk[v].m, registered)
              /\ (wk'[v].pc = "emit" \/ wk'[v].rest = <<>>)
    <2>1. wk[v].pc = "shard" /\ registered = Devices
      BY <1>16 DEF ShardStream, Regular
    <2>2. m.stage = "shard"
      BY <1>1, <1>3, <2>1, StageOf
    <2>3. \A d \in Recipients(Devices, m.attempt, Len(Subs)) :
             \E i \in DOMAIN ShardOutput(m, Devices) : Brings(ShardOutput(m, Devices)[i], p, d, m.attempt + 1)
      BY <1>4, <1>5, <2>2, ShardProduces
    <2>4. wk'[v].rest = ShardOutput(m, Devices)
      BY <1>3, <1>16, <2>1
    <2>5. \A d \in Recipients(Devices, m.attempt, Len(Subs)) : Left(wk'[v], d, m.attempt + 1)
      BY <1>14, <1>16, <2>3, <2>4
    <2> QED
      BY <1>3, <1>4, <2>2, <2>5 DEF Done, Left
  <1>17. CASE Dispatch(v)
    <2>1. wk[v].pc = "preflight"
      BY <1>17 DEF Dispatch
    <2>2. m.stage = "deliver" /\ m.attempt = 1
      BY <1>1, <1>3, <1>5, <2>1, StageOf DEF Valid
    <2>3. sent' = [x \in DOMAIN sent |->
                     IF x[1] = m.pub /\ x[2] \in m.devs /\ x[3] = m.attempt THEN sent[x] + 1 ELSE sent[x]]
      <3>1. \/ deadline[wk[v].m.pub] = "delivery"
            \/ sent' = [x \in DOMAIN sent |->
                            IF x[1] = wk[v].m.pub /\ x[2] \in wk[v].m.devs /\ x[3] = wk[v].m.attempt
                            THEN sent[x] + 1 ELSE sent[x]]
        BY <1>17, DispatchStep
      <3>2. deadline[wk[v].m.pub] # "delivery"
        BY <1>3, <1>4, <1>7
      <3> QED
        BY <1>3, <3>1, <3>2
    <2>4. ASSUME NEW d \in m.devs PROVE sent'[<<p, d, 1>>] > 0
      <3>1. PICK x : x = <<p, d, 1>>
        OBVIOUS
      <3>2. x \in DOMAIN sent /\ x[1] = p /\ x[2] = d /\ x[3] = 1
        BY <1>5, <3>1, SentStays
      <3>3. sent'[x] = sent[x] + 1 /\ sent[x] \in Nat
        BY <1>4, <2>2, <2>3, <3>2 DEF Typing
      <3> QED
        BY <3>1, <3>3
    <2> QED
      BY <1>3, <1>4, <2>2, <2>4 DEF Done
  <1>18. CASE Emit(v) /\ wk'[v].rest = Tail(wk[v].rest) /\ (wk'[v].pc = "emit" \/ wk'[v].rest = <<>>)
    <2>1. wk[v].pc = "emit" /\ Head(wk[v].rest) = wk[v].rest[1] /\ 1 \in DOMAIN wk[v].rest
      BY <1>18, EmitRest
    <2>2. wk[v].rest \in Seq(Message(Known)) /\ wk[v].rest # <<>>
      BY <2>1, BusyJob
    <2>3. PICK r \in Seq(Message(Known)) : r = wk[v].rest /\ r # <<>>
      BY <2>2
    <2>4. \A i \in DOMAIN r : r[i] \in Message(Known)
      OBVIOUS
    <2>5. \A i \in DOMAIN r : Valid(r[i])
      BY <2>1, <2>3 DEF Regular, JobValid
    <2>6. ASSUME NEW d \in Devices, NEW c \in Nat, Left(wk[v], d, c)
          PROVE  Left(wk'[v], d, c) \/ Cov(p, d, c)'
      <3>1. PICK i \in DOMAIN r : Brings(r[i], p, d, c)
        BY <1>3, <1>4, <2>3, <2>6 DEF Left
      <3>2. CASE i = 1
        <4>1. Produce(r[1]) /\ UNCHANGED inflight
          BY <1>18, <2>1, <2>3 DEF Emit
        <4>2. PICK h \in Message(Known) : h = r[1] /\ Valid(h) /\ Brings(h, p, d, c)
          BY <2>4, <2>5, <3>1, <3>2
        <4>3. \E y \in Queued' : Brings(y, p, d, c)
          BY <4>1, <4>2, ProducedCovers
        <4> QED
          BY <4>3 DEF Cov
      <3>3. CASE i # 1
        <4>1. i - 1 \in DOMAIN Tail(r) /\ Tail(r)[i - 1] = r[i]
          BY <2>3, <3>3, TailElements
        <4>2. wk'[v].rest = Tail(r)
          BY <1>18, <2>3
        <4> QED
          BY <1>14, <1>18, <3>1, <4>1, <4>2
      <3> QED
        BY <3>2, <3>3
    <2> QED
      BY <1>12, <2>1, <2>6 DEF OutPcs
  <1> QED
    BY <1>13, <1>15, <1>16, <1>17, <1>18, RestSteps

\* Every step keeps the claims.
LEMMA StepClaims ==
  FirstAttempts /\ DeviceSubs /\ Typing /\ Shape /\ Regular /\ Logged /\ Claims /\ [Next]_vars => Claims'
  <1> SUFFICES ASSUME FirstAttempts, DeviceSubs, Typing, Shape, Regular, Logged, Claims, [Next]_vars
               PROVE  Claims'
    OBVIOUS
  <1>1. deadline' \in [Publishes -> {"none", "age", "delivery"}]
    BY DeadlineStays
  <1>2. \A w \in Workers : wk'[w].pc \in OutPcs => Done(wk[w])'
    BY StepDone
  <1>3. ASSUME NEW p \in Publishes, status'[p].state = "dispatching", deadline'[p] # "delivery",
               NEW d \in Everyone(p)'
        PROVE  Cov(p, d, 0)'
    <2>1. StateMoves(p) /\ deadline[p] # "delivery"
      BY <1>3, StateSteps, DeadlineStays
    <2>2. CASE status[p].state = "dispatching"
      <3>1. p \in log
        BY <2>2 DEF Logged
      <3>2. d \in Everyone(p) /\ d \in Devices
        BY <1>3, <3>1, SameAudience DEF Everyone, FastDevices
      <3>3. Cov(p, d, 0)
        BY <2>1, <2>2, <3>2 DEF Claims
      <3> QED
        BY <1>3, <3>2, <3>3, CovStep
    <2>3. ASSUME NEW w \in Workers, PlanFinish(w), wk[w].m.pub = p PROVE Cov(p, d, 0)'
      <3>1. wk[w].pc = "markDispatching"
        BY <2>3 DEF PlanFinish
      <3>2. wk[w].m.stage = "publish" /\ Done(wk[w]) /\ ~\E e, c : Left(wk[w], e, c)
        BY <3>1, StageOf DEF PlanOnlyPcs, Claims, OutPcs, Left
      <3>3. p \in log
        BY <2>3, <3>1, <3>2 DEF Logged
      <3>4. d \in Everyone(p) /\ d \in Devices
        BY <1>3, <3>3, SameAudience DEF Everyone, FastDevices
      <3>5. Cov(p, d, 0)
        BY <2>1, <2>3, <3>2, <3>4 DEF Done
      <3> QED
        BY <1>3, <3>4, <3>5, CovStep
    <2>4. ASSUME NEW w \in Workers, RetryCount(w) PROVE FALSE
      BY <2>4 DEF RetryCount, Regular, JobValid, LaterPcs
    <2> QED
      BY <1>3, <2>1, <2>2, <2>3, <2>4 DEF StateMoves, TerminalStates
  <1> QED
    BY <1>1, <1>2, <1>3 DEF Claims

\* At-least-once, for every number of publishes, calls, workers, devices and
\* faults: an active publish that is logged is still queued, or its message is
\* in the queue, or its delivery expired, or every recipient has a provider
\* request or queued work that leads to one.  Three hypotheses on the
\* constants, each of them needed: nothing is tried twice (the count of a
\* retry marks the publish dispatching while its plan is still being
\* produced), no answer deletes a device (a batch id would name another set of
\* devices in the next plan and be taken for produced), and subscriptions are
\* device-scoped (a shard that fills in the middle of a page continues behind
\* the page).  Who acknowledges a message has produced what it led to, or
\* found it in the queue under its key.
THEOREM WorkKept == FirstAttempts /\ DeviceSubs /\ Spec => []WorkNotLost
  <1>1. Init => Regular /\ Logged /\ Claims
    <2> SUFFICES ASSUME Init PROVE Regular /\ Logged /\ Claims
      OBVIOUS
    <2>1. /\ \A w \in Workers : wk[w].pc = "idle"
          /\ Queued = {} /\ dlq = {} /\ log = {} /\ repair = {} /\ registered = Devices
          /\ \A p \in Publishes : status[p].state = "none"
          /\ \A r \in Requests : req[r].pc = "new"
          /\ deadline \in [Publishes -> {"none", "age", "delivery"}]
      BY DEF Init, Idle, Queued, NoStatus
    <2>2. Regular
      BY <2>1 DEF Regular
    <2>3. Logged
      BY <2>1 DEF Logged, Appends
    <2>4. Claims
      BY <2>1 DEF Claims, OutPcs
    <2> QED
      BY <2>2, <2>3, <2>4
  <1>2. Typing /\ PlanOK /\ Regular /\ Claims => WorkNotLost
    <2> SUFFICES ASSUME Typing, PlanOK, Regular, Claims, NEW p \in log, Active(status[p])
                 PROVE  \/ status[p].state = "queued"
                        \/ PublishMsg(p) \in Queued
                        \/ deadline[p] = "delivery"
                        \/ \A d \in Audience(p) : sent[<<p, d, 1>>] > 0 \/ Pending(p, d)
      BY DEF WorkNotLost
    <2>1. p \in Publishes
      BY DEF Typing, Known
    <2>2. CASE status[p].state = "planning"
      BY <2>1, <2>2 DEF PlanOK
    <2>3. CASE status[p].state = "dispatching"
      <3>1. registered = Devices
        BY DEF Regular
      <3>2. Audience(p) = Everyone(p)
        BY <3>1 DEF Audience, Everyone, FastAudience, FastDevices
      <3>3. \A d : Cov(p, d, 0) => sent[<<p, d, 1>>] > 0 \/ Pending(p, d)
        BY <3>1 DEF Cov, Brings, Pending
      <3> QED
        BY <2>1, <2>3, <3>2, <3>3 DEF Claims
    <2> QED
      BY <2>2, <2>3 DEF Active
  <1>3. FirstAttempts /\ DeviceSubs => (FirstAttempts /\ DeviceSubs)'
    BY DEF FirstAttempts, DeviceSubs
  <1> QED
    BY <1>1, <1>2, <1>3, AlwaysPlanned, StepRegular, StepLogged, StepClaims, PTL DEF Spec

=============================================================================
