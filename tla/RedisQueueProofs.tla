------------------------- MODULE RedisQueueProofs -------------------------
(***************************************************************************)
(* The Lua scripts of the Redis queue keep the keys of every job in        *)
(* agreement and move each job by one step of its life cycle, whatever     *)
(* number of nodes, jobs and attempts there are and however scripts,       *)
(* crashes, expiries and retries interleave: the queue implements          *)
(* JobQueue.  What a script does to one job is stated first (Kept, Added,  *)
(* Leased, Freed, Finished, Dropped, Revived); the invariants of the       *)
(* deliveries that the nodes hold follow from it.                          *)
(***************************************************************************)
EXTENDS RedisQueue, FiniteSetTheorems, SequenceTheorems, TLAPS

(* Every non-empty set of natural numbers has a least element.             *)
LEMMA Least ==
  ASSUME NEW S \in SUBSET Nat, S # {}
  PROVE  \E x \in S : \A y \in S : x <= y
  <1> DEFINE R == OpToRel(<, Nat)
  <1>1. IsWellFoundedOn(R, Nat)
    BY NatLessThanWellFounded
  <1>2. \A x, y \in Nat : x < y => <<x, y>> \in R
    BY DEF OpToRel
  <1> HIDE DEF R
  <1>3. PICK x \in S : \A y \in S : ~(<<y, x>> \in R)
    BY <1>1, WFMin
  <1>4. \A y \in S : ~(y < x)
    BY <1>2, <1>3
  <1> QED
    BY <1>4

(* A set with 0 and with the successor of each of its numbers, to n, has   *)
(* every number to n.                                                      *)
LEMMA Rounds ==
  ASSUME NEW n \in Nat, NEW S, 0 \in S, \A k \in 1..n : k - 1 \in S => k \in S
  PROVE  0..n \subseteq S
  <1> DEFINE Bad == {k \in 0..n : k \notin S}
  <1>1. SUFFICES ASSUME Bad # {} PROVE FALSE
    OBVIOUS
  <1>2. Bad \in SUBSET Nat
    OBVIOUS
  <1>3. PICK m \in Bad : \A x \in Bad : m <= x
    <2> HIDE DEF Bad
    <2> QED
      BY <1>1, <1>2, Least
  <1>4. m \in 1..n
    BY <1>3
  <1>5. m - 1 \in 0..n /\ m - 1 \notin Bad
    BY <1>3, <1>4
  <1> QED
    BY <1>3, <1>4, <1>5

(* The image of a finite set is finite.                                    *)
LEMMA FiniteOnto ==
  ASSUME NEW S, IsFiniteSet(S), NEW T, NEW f \in [S -> T], \A y \in T : \E x \in S : f[x] = y
  PROVE  IsFiniteSet(T)
  <1>1. f \in Surjection(S, T)
    BY DEF Surjection
  <1> QED
    BY <1>1, FS_Surjection

(* One of the first Cardinality(U) + 1 positive numbers is not in U.       *)
LEMMA FreeNumber ==
  ASSUME NEW U, IsFiniteSet(U)
  PROVE  \E n \in 1..(Cardinality(U) + 1) : n \notin U
  <1> SUFFICES ASSUME 1..(Cardinality(U) + 1) \in SUBSET U PROVE FALSE
    OBVIOUS
  <1>1. Cardinality(U) \in Nat
    BY FS_CardinalityType
  <1>2. Cardinality(1..(Cardinality(U) + 1)) = Cardinality(U) + 1
    BY <1>1, FS_Interval
  <1>3. Cardinality(1..(Cardinality(U) + 1)) <= Cardinality(U)
    BY FS_Subset
  <1> QED
    BY <1>1, <1>2, <1>3

(* SetToSeq lists each element of a finite set once.                       *)
LEMMA Listing ==
  ASSUME NEW S, IsFiniteSet(S)
  PROVE  /\ SetToSeq(S) \in Seq(S)
         /\ Range(SetToSeq(S)) = S
         /\ IsInjective(SetToSeq(S))
  <1> DEFINE n == Cardinality(S)
             f == SetToSeq(S)
  <1>1. n \in Nat /\ ExistsBijection(1..n, S)
    BY FS_CardinalityType
  <1>2. \E g \in [1..n -> S] : IsInjective(g)
    BY <1>1 DEF ExistsBijection, Bijection, Injection
  <1>3. f \in [1..n -> S] /\ IsInjective(f)
    BY <1>2 DEF SetToSeq
  <1> HIDE DEF f
  <1>4. f \in Injection(1..n, S)
    BY <1>3 DEF Injection, IsInjective
  <1>5. Cardinality(1..n) = n
    BY <1>1, FS_Interval
  <1> HIDE DEF n
  <1>6. f \in Surjection(1..n, S)
    BY <1>4, <1>5, FS_Injection DEF n
  <1>7. \A y \in S : \E x \in 1..n : f[x] = y
    BY <1>6 DEF Surjection
  <1>8. Range(f) = S
    BY <1>3, <1>7 DEF Range
  <1>9. f \in Seq(S)
    BY <1>1, <1>3
  <1> QED
    BY <1>3, <1>8, <1>9 DEF f

(* Appending an element or a list to a list without repetitions.           *)
LEMMA AppendOne ==
  ASSUME NEW T, NEW s \in Seq(T), NEW x \in T, IsInjective(s), x \notin Range(s)
  PROVE  /\ Append(s, x) \in Seq(T)
         /\ Range(Append(s, x)) = Range(s) \union {x}
         /\ IsInjective(Append(s, x))
  <1> DEFINE r == Append(s, x)
  <1>1. /\ r \in Seq(T) /\ Len(r) = Len(s) + 1 /\ Len(s) \in Nat
        /\ DOMAIN r = 1..Len(r) /\ DOMAIN s = 1..Len(s)
        /\ \A k \in 1..Len(s) : r[k] = s[k]
        /\ r[Len(s) + 1] = x
    OBVIOUS
  <1> HIDE DEF r
  <1>2. Range(r) = Range(s) \union {x}
    BY <1>1 DEF Range
  <1>3. IsInjective(r)
    BY <1>1 DEF IsInjective, Range
  <1> QED
    BY <1>1, <1>2, <1>3 DEF r

(* The same for a list that is appended to a list.                         *)
LEMMA AppendAll ==
  ASSUME NEW T, NEW s \in Seq(T), NEW t \in Seq(T), IsInjective(s), IsInjective(t),
         Range(s) \intersect Range(t) = {}
  PROVE  /\ s \o t \in Seq(T)
         /\ Range(s \o t) = Range(s) \union Range(t)
         /\ IsInjective(s \o t)
  <1> DEFINE r == s \o t
             m == Len(s)
             n == Len(t)
  <1>1. /\ r \in Seq(T) /\ Len(r) = m + n /\ m \in Nat /\ n \in Nat
        /\ DOMAIN r = 1..(m + n) /\ DOMAIN s = 1..m /\ DOMAIN t = 1..n
        /\ \A k \in 1..m : r[k] = s[k]
        /\ \A k \in 1..n : r[m + k] = t[k]
    OBVIOUS
  <1>0. \A k \in (m + 1)..(m + n) : r[k] = t[k - m] /\ k - m \in 1..n
    BY <1>1
  <1> HIDE DEF r, m, n
  <1>2. Range(r) \subseteq Range(s) \union Range(t)
    <2> SUFFICES ASSUME NEW k \in 1..(m + n) PROVE r[k] \in Range(s) \union Range(t)
      BY <1>1 DEF Range
    <2>1. CASE k \in 1..m
      BY <1>1, <2>1 DEF Range
    <2>2. CASE k \in (m + 1)..(m + n)
      BY <1>0, <1>1, <2>2 DEF Range
    <2> QED
      BY <1>1, <2>1, <2>2
  <1>4. Range(s) \subseteq Range(r)
    BY <1>1 DEF Range
  <1>5. Range(t) \subseteq Range(r)
    <2> SUFFICES ASSUME NEW k \in 1..n PROVE t[k] \in Range(r)
      BY <1>1 DEF Range
    <2>1. m + k \in DOMAIN r /\ r[m + k] = t[k]
      BY <1>1
    <2> QED
      BY <2>1 DEF Range
  <1>3. IsInjective(r)
    <2> SUFFICES ASSUME NEW j \in 1..(m + n), NEW k \in 1..(m + n), r[j] = r[k] PROVE j = k
      BY <1>1 DEF IsInjective
    <2>1. \A x \in 1..m, y \in 1..n : s[x] # t[y]
      BY <1>1 DEF Range
    <2>2. CASE j \in 1..m /\ k \in 1..m
      BY <1>1, <2>2 DEF IsInjective
    <2>3. CASE j \in 1..m /\ k \in (m + 1)..(m + n)
      BY <1>0, <1>1, <2>1, <2>3
    <2>4. CASE j \in (m + 1)..(m + n) /\ k \in 1..m
      BY <1>0, <1>1, <2>1, <2>4
    <2>5. CASE j \in (m + 1)..(m + n) /\ k \in (m + 1)..(m + n)
      <3>1. j - m \in DOMAIN t /\ k - m \in DOMAIN t /\ t[j - m] = t[k - m]
        BY <1>0, <1>1, <2>5
      <3>2. j - m = k - m
        BY <3>1 DEF IsInjective
      <3> QED
        BY <1>1, <3>2
    <2> QED
      BY <1>1, <2>2, <2>3, <2>4, <2>5
  <1> QED
    BY <1>1, <1>2, <1>3, <1>4, <1>5 DEF r

(* The loops of the scripts run entry by entry.                             *)
LEMMA PopReadyLoopRuns ==
  ASSUME NEW limit, NEW start, NEW ready, Len(ready) \in Nat
  PROVE  LET acc == PopReadyLoop(limit, start, ready)
         IN  /\ acc[0] = start
             /\ \A k \in 1..Len(ready) : acc[k] = PopReady(limit, acc[k - 1], ready[k])
  <1> DEFINE n == Len(ready)
             Runs(g, m) == g = [k \in 0..m |-> IF k = 0 THEN start ELSE PopReady(limit, g[k - 1], ready[k])]
             Reached == {m \in 0..n : \E g : Runs(g, m)}
  <1> HIDE DEF PopReady
  <1>1. 0 \in Reached
    <2>1. Runs([k \in 0..0 |-> start], 0)
      OBVIOUS
    <2> HIDE DEF Runs
    <2> QED
      BY <2>1
  <1>2. ASSUME NEW m \in 1..n, m - 1 \in Reached
        PROVE  m \in Reached
    <2>1. PICK g : Runs(g, m - 1)
      BY <1>2
    <2> DEFINE h == [k \in 0..m |-> IF k < m THEN g[k] ELSE PopReady(limit, g[m - 1], ready[m])]
    <2>2. \A k \in 0..m : h[k] = IF k = 0 THEN start ELSE PopReady(limit, h[k - 1], ready[k])
      BY <2>1
    <2>3. Runs(h, m)
      BY <2>2
    <2> HIDE DEF Runs, h
    <2> QED
      BY <2>3
  <1>3. 0..n \subseteq Reached
    <2> HIDE DEF Reached
    <2> QED
      BY <1>1, <1>2, Rounds
  <1>4. PICK g : Runs(g, n)
    BY <1>3
  <1>5. PopReadyLoop(limit, start, ready) = CHOOSE f : Runs(f, n)
    BY DEF PopReadyLoop
  <1> HIDE DEF PopReadyLoop
  <1>6. Runs(PopReadyLoop(limit, start, ready), n)
    BY <1>4, <1>5
  <1> QED
    BY <1>6

(* The same for the inline frames and for the requests of a batch.          *)
LEMMA PopInlineLoopRuns ==
  ASSUME NEW limit, NEW start, NEW inline, Len(inline) \in Nat
  PROVE  LET acc == PopInlineLoop(limit, start, inline)
         IN  /\ acc[0] = start
             /\ \A k \in 1..Len(inline) : acc[k] = PopInline(limit, acc[k - 1], inline[k])
  <1> DEFINE n == Len(inline)
             Runs(g, m) == g = [k \in 0..m |-> IF k = 0 THEN start ELSE PopInline(limit, g[k - 1], inline[k])]
             Reached == {m \in 0..n : \E g : Runs(g, m)}
  <1> HIDE DEF PopInline
  <1>1. 0 \in Reached
    <2>1. Runs([k \in 0..0 |-> start], 0)
      OBVIOUS
    <2> HIDE DEF Runs
    <2> QED
      BY <2>1
  <1>2. ASSUME NEW m \in 1..n, m - 1 \in Reached
        PROVE  m \in Reached
    <2>1. PICK g : Runs(g, m - 1)
      BY <1>2
    <2> DEFINE h == [k \in 0..m |-> IF k < m THEN g[k] ELSE PopInline(limit, g[m - 1], inline[m])]
    <2>2. \A k \in 0..m : h[k] = IF k = 0 THEN start ELSE PopInline(limit, h[k - 1], inline[k])
      BY <2>1
    <2>3. Runs(h, m)
      BY <2>2
    <2> HIDE DEF Runs, h
    <2> QED
      BY <2>3
  <1>3. 0..n \subseteq Reached
    <2> HIDE DEF Reached
    <2> QED
      BY <1>1, <1>2, Rounds
  <1>4. PICK g : Runs(g, n)
    BY <1>3
  <1>5. PopInlineLoop(limit, start, inline) = CHOOSE f : Runs(f, n)
    BY DEF PopInlineLoop
  <1> HIDE DEF PopInlineLoop
  <1>6. Runs(PopInlineLoop(limit, start, inline), n)
    BY <1>4, <1>5
  <1> QED
    BY <1>6

(* The requests of a batch are admitted one by one.                         *)
LEMMA AdmitLoopRuns ==
  ASSUME NEW start, NEW batch, Len(batch) \in Nat
  PROVE  LET acc == AdmitLoop(start, batch)
         IN  /\ acc[0] = start
             /\ \A k \in 1..Len(batch) : acc[k] = Admit(acc[k - 1], batch[k])
  <1> DEFINE n == Len(batch)
             Runs(g, m) == g = [k \in 0..m |-> IF k = 0 THEN start ELSE Admit(g[k - 1], batch[k])]
             Reached == {m \in 0..n : \E g : Runs(g, m)}
  <1> HIDE DEF Admit
  <1>1. 0 \in Reached
    <2>1. Runs([k \in 0..0 |-> start], 0)
      OBVIOUS
    <2> HIDE DEF Runs
    <2> QED
      BY <2>1
  <1>2. ASSUME NEW m \in 1..n, m - 1 \in Reached
        PROVE  m \in Reached
    <2>1. PICK g : Runs(g, m - 1)
      BY <1>2
    <2> DEFINE h == [k \in 0..m |-> IF k < m THEN g[k] ELSE Admit(g[m - 1], batch[m])]
    <2>2. \A k \in 0..m : h[k] = IF k = 0 THEN start ELSE Admit(h[k - 1], batch[k])
      BY <2>1
    <2>3. Runs(h, m)
      BY <2>2
    <2> HIDE DEF Runs, h
    <2> QED
      BY <2>3
  <1>3. 0..n \subseteq Reached
    <2> HIDE DEF Reached
    <2> QED
      BY <1>1, <1>2, Rounds
  <1>4. PICK g : Runs(g, n)
    BY <1>3
  <1>5. AdmitLoop(start, batch) = CHOOSE f : Runs(f, n)
    BY DEF AdmitLoop
  <1> HIDE DEF AdmitLoop
  <1>6. Runs(AdmitLoop(start, batch), n)
    BY <1>4, <1>5
  <1> QED
    BY <1>6

-----------------------------------------------------------------------------
(* The queue's keys in Redis.                                              *)

(* What the keys hold.                                                     *)
Queue == [jobs : [Ids -> Bodies \union {None}], ready : Seq(Ids), inline : Seq(Ids \X Bodies),
          delayed : SUBSET Ids, token : [Ids -> Nat], attempts : [Ids -> Nat],
          dlq : SUBSET Ids, completed : SUBSET Ids, dedup : [Keys -> Ids \union {None}]]

(* The ids of the ready list and of the inline frames.                     *)
Listed(s) == Range(s.ready)
Framed(s) == {s.inline[k][1] : k \in DOMAIN s.inline}

GeneratedIds == UNION {{c[k].id : k \in DOMAIN c} : c \in Generated}

OnceFramed(s) == \A j, k \in DOMAIN s.inline : s.inline[j][1] = s.inline[k][1] => j = k

Waits(s, i) == i \in Listed(s) \/ i \in s.delayed

(* The keys agree about a job: it is in one place if it is stored and in   *)
(* none otherwise, a waiting job has deliveries left, a dead letter has    *)
(* none, and a job of an inline frame is a generated one that is not yet   *)
(* stored.                                                                 *)
Fits(s, i) ==
  /\ s.attempts[i] <= MaxAttempts
  /\ ~(i \in Listed(s) /\ i \in s.delayed)
  /\ Waits(s, i) => /\ s.token[i] = 0 /\ i \notin s.dlq /\ i \notin s.completed
                    /\ s.attempts[i] < MaxAttempts
  /\ s.token[i] # 0 => i \notin s.dlq /\ i \notin s.completed
  /\ i \in s.dlq => i \notin s.completed /\ s.attempts[i] = MaxAttempts
  /\ s.jobs[i] # None <=> Waits(s, i) \/ s.token[i] # 0 \/ i \in s.dlq \/ i \in s.completed
  /\ s.jobs[i] = None => s.attempts[i] = 0
  /\ i \in Framed(s) => s.jobs[i] = None /\ i \in GeneratedIds

Sound(s) == /\ s \in Queue
            /\ IsInjective(s.ready)
            /\ OnceFramed(s)
            /\ \A i \in Ids : Fits(s, i)

(* Where the keys have a job, whatever the nodes hold of it.               *)
Stage(s, i) ==
  IF s.token[i] # 0 THEN "leased"
  ELSE IF i \in s.dlq THEN "dead"
  ELSE IF i \in s.completed THEN "done"
  ELSE IF s.jobs[i] # None \/ i \in Framed(s) THEN "waiting" ELSE "absent"

(* What a script may do to a job, from keys s to keys t.                   *)
Kept(s, t, i) == /\ Stage(t, i) = Stage(s, i)
                 /\ t.token[i] = s.token[i]
                 /\ t.attempts[i] = s.attempts[i]

Added(s, t, i) == /\ Stage(s, i) = "absent" /\ Stage(t, i) = "waiting"
                  /\ t.token[i] = 0 /\ t.attempts[i] = 0

Leased(s, t, i) == /\ Stage(s, i) \in {"waiting", "leased"} /\ Stage(t, i) = "leased"
                   /\ s.attempts[i] < MaxAttempts
                   /\ t.token[i] = FreshToken(i) /\ t.attempts[i] = s.attempts[i] + 1

Freed(s, t, i) == /\ Stage(s, i) = "leased" /\ t.token[i] = 0
                  /\ \/ /\ Stage(t, i) = "waiting" /\ s.attempts[i] < MaxAttempts
                        /\ t.attempts[i] = s.attempts[i]
                     \/ /\ Stage(t, i) = "dead" /\ s.attempts[i] = MaxAttempts
                        /\ t.attempts[i] = s.attempts[i]
                     \/ /\ Stage(t, i) = "absent" /\ s.attempts[i] = MaxAttempts
                        /\ t.attempts[i] = 0

Finished(s, t, i) == /\ Stage(s, i) = "leased" /\ t.token[i] = 0
                     /\ \/ Stage(t, i) = "done" /\ t.attempts[i] = s.attempts[i]
                        \/ Stage(t, i) = "absent" /\ t.attempts[i] = 0

Dropped(s, t, i) == /\ Stage(s, i) \in {"dead", "done"} /\ Stage(t, i) = "absent"
                    /\ t.token[i] = 0 /\ t.attempts[i] = 0

Revived(s, t, i) == /\ Stage(s, i) = "dead" /\ Stage(t, i) = "waiting"
                    /\ t.token[i] = 0 /\ t.attempts[i] = 0

-----------------------------------------------------------------------------
(* What the pieces of the scripts do.                                      *)

(* PushAllReady lists the ids it is given, each once, and writes no other key.*)
LEMMA PushAllEffect ==
  ASSUME NEW s \in Queue, IsInjective(s.ready), NEW ids \in SUBSET Ids,
         ids \intersect Listed(s) = {}
  PROVE  LET t == PushAllReady(s, ids)
         IN  /\ t \in Queue
             /\ IsInjective(t.ready)
             /\ Listed(t) = Listed(s) \union ids
             /\ t.jobs = s.jobs /\ t.inline = s.inline /\ t.delayed = s.delayed
             /\ t.token = s.token /\ t.attempts = s.attempts /\ t.dlq = s.dlq
             /\ t.completed = s.completed /\ t.dedup = s.dedup
  <1> DEFINE l == SetToSeq(ids)
             r == s.ready \o l
  <1>1. IsFiniteSet(ids)
    BY QueueAssumption, FS_Subset
  <1>2. l \in Seq(ids) /\ Range(l) = ids /\ IsInjective(l)
    BY <1>1, Listing
  <1> HIDE DEF l
  <1>3. l \in Seq(Ids) /\ s.ready \in Seq(Ids)
    BY <1>2, SeqMonotonic DEF Queue
  <1>4. r \in Seq(Ids) /\ Range(r) = Range(s.ready) \union ids /\ IsInjective(r)
    BY <1>2, <1>3, AppendAll DEF Listed
  <1>5. PushAllReady(s, ids) = [s EXCEPT !.ready = r]
    BY DEF PushAllReady, l
  <1> HIDE DEF r
  <1> QED
    BY <1>4, <1>5 DEF Queue, Listed

(* The same for one id.                                                    *)
LEMMA PushEffect ==
  ASSUME NEW s \in Queue, IsInjective(s.ready), NEW i \in Ids, i \notin Listed(s)
  PROVE  LET t == PushReady(s, i)
         IN  /\ t \in Queue
             /\ IsInjective(t.ready)
             /\ Listed(t) = Listed(s) \union {i}
             /\ t.jobs = s.jobs /\ t.inline = s.inline /\ t.delayed = s.delayed
             /\ t.token = s.token /\ t.attempts = s.attempts /\ t.dlq = s.dlq
             /\ t.completed = s.completed /\ t.dedup = s.dedup
  <1> DEFINE r == Append(s.ready, i)
  <1>1. s.ready \in Seq(Ids)
    BY DEF Queue
  <1>2. r \in Seq(Ids) /\ Range(r) = Range(s.ready) \union {i} /\ IsInjective(r)
    BY <1>1, AppendOne DEF Listed
  <1>3. PushReady(s, i) = [s EXCEPT !.ready = r]
    BY DEF PushReady
  <1> HIDE DEF r
  <1> QED
    BY <1>2, <1>3 DEF Queue, Listed

(* What MAINTAIN writes, key by key.                                       *)
LEMMA MaintainEffect ==
  ASSUME NEW s, Sound(s), NEW expired \in SUBSET Active(s), NEW due \in SUBSET s.delayed
  PROVE  LET t == Maintain(s, expired, due)
         IN  /\ t \in Queue
             /\ IsInjective(t.ready)
             /\ t.jobs = s.jobs /\ t.inline = s.inline /\ t.attempts = s.attempts
             /\ t.completed = s.completed /\ t.dedup = s.dedup
             /\ \A i \in Ids :
                  /\ t.token[i] = IF i \in expired THEN 0 ELSE s.token[i]
                  /\ i \in t.dlq <=> i \in s.dlq \/ (i \in expired /\ s.attempts[i] >= MaxAttempts)
                  /\ i \in t.delayed <=> i \in s.delayed /\ i \notin due
                  /\ i \in Listed(t) <=> \/ i \in Listed(s) \/ i \in due
                                         \/ (i \in expired /\ s.attempts[i] < MaxAttempts)
  <1> DEFINE dead == {i \in expired : s.attempts[i] >= MaxAttempts}
             live == expired \ dead
             token == [i \in Ids |-> IF i \in expired THEN 0 ELSE s.token[i]]
             free == [s EXCEPT !.token = token, !.dlq = @ \union dead, !.delayed = @ \ due]
             once == PushAllReady(free, live)
             t == PushAllReady(once, due)
  <1>0. MaxAttempts \in Nat /\ s \in Queue /\ IsInjective(s.ready)
    BY QueueAssumption DEF Sound
  <1>1. Maintain(s, expired, due) = t
    BY DEF Maintain
  <1>2. expired \in SUBSET Ids /\ due \in SUBSET Ids /\ dead \in SUBSET Ids /\ live \in SUBSET Ids
    BY <1>0 DEF Active, Queue
  <1>3. \A i \in Ids : /\ i \in live <=> i \in expired /\ s.attempts[i] < MaxAttempts
                       /\ i \in dead <=> i \in expired /\ s.attempts[i] >= MaxAttempts
    BY <1>0 DEF Queue
  <1>4. token \in [Ids -> Nat] /\ \A i \in Ids : token[i] = IF i \in expired THEN 0 ELSE s.token[i]
    BY <1>0 DEF Queue
  <1>5. /\ \A i \in expired : i \notin Listed(s) /\ i \notin s.delayed
        /\ \A i \in due : i \notin Listed(s)
    BY <1>0, <1>2 DEF Sound, Fits, Waits, Active
  <1> HIDE DEF dead, live, token
  <1>6. /\ free \in Queue /\ free.ready = s.ready /\ free.token = token
        /\ free.dlq = s.dlq \union dead /\ free.delayed = s.delayed \ due
        /\ free.jobs = s.jobs /\ free.inline = s.inline /\ free.attempts = s.attempts
        /\ free.completed = s.completed /\ free.dedup = s.dedup
    BY <1>0, <1>2, <1>4 DEF Queue
  <1> HIDE DEF free
  <1>7. live \intersect Listed(free) = {}
    BY <1>5, <1>6 DEF Listed, live
  <1>8. /\ once \in Queue
        /\ IsInjective(once.ready)
        /\ Listed(once) = Listed(free) \union live
        /\ once.jobs = free.jobs /\ once.inline = free.inline /\ once.delayed = free.delayed
        /\ once.token = free.token /\ once.attempts = free.attempts /\ once.dlq = free.dlq
        /\ once.completed = free.completed /\ once.dedup = free.dedup
    BY <1>0, <1>2, <1>6, <1>7, PushAllEffect
  <1> HIDE DEF once
  <1>9. due \intersect Listed(once) = {}
    BY <1>5, <1>6, <1>8 DEF Listed, live
  <1>10. /\ t \in Queue
         /\ IsInjective(t.ready)
         /\ Listed(t) = Listed(once) \union due
         /\ t.jobs = once.jobs /\ t.inline = once.inline /\ t.delayed = once.delayed
         /\ t.token = once.token /\ t.attempts = once.attempts /\ t.dlq = once.dlq
         /\ t.completed = once.completed /\ t.dedup = once.dedup
    BY <1>2, <1>8, <1>9, PushAllEffect
  <1> HIDE DEF t
  <1>11. Listed(free) = Listed(s)
    BY <1>6 DEF Listed
  <1> QED
    BY <1>1, <1>2, <1>3, <1>4, <1>6, <1>8, <1>10, <1>11

(* The maintenance pass leaves the keys in agreement; it frees the leases  *)
(* that expired and moves no other job to another stage.                   *)
LEMMA MaintainSound ==
  ASSUME NEW s, Sound(s), NEW expired \in SUBSET Active(s), NEW due \in SUBSET s.delayed
  PROVE  LET t == Maintain(s, expired, due)
         IN  Sound(t) /\ \A i \in Ids : Kept(s, t, i) \/ Freed(s, t, i)
  <1> DEFINE t == Maintain(s, expired, due)
  <1>0. MaxAttempts \in Nat
    BY QueueAssumption
  <1>1. /\ t \in Queue
        /\ IsInjective(t.ready)
        /\ t.jobs = s.jobs /\ t.inline = s.inline /\ t.attempts = s.attempts
        /\ t.completed = s.completed /\ t.dedup = s.dedup
        /\ \A i \in Ids :
             /\ t.token[i] = IF i \in expired THEN 0 ELSE s.token[i]
             /\ i \in t.dlq <=> i \in s.dlq \/ (i \in expired /\ s.attempts[i] >= MaxAttempts)
             /\ i \in t.delayed <=> i \in s.delayed /\ i \notin due
             /\ i \in Listed(t) <=> \/ i \in Listed(s) \/ i \in due
                                    \/ (i \in expired /\ s.attempts[i] < MaxAttempts)
    BY MaintainEffect
  <1> HIDE DEF t
  <1>2. Framed(t) = Framed(s) /\ OnceFramed(t)
    BY <1>1 DEF Framed, OnceFramed, Sound
  <1>3. ASSUME NEW i \in Ids
        PROVE  Fits(t, i) /\ (Kept(s, t, i) \/ Freed(s, t, i))
    <2>1. Fits(s, i) /\ s.attempts[i] \in Nat /\ s.token[i] \in Nat
      BY DEF Sound, Queue
    <2>2. (i \in expired => s.token[i] # 0) /\ (i \in due => i \in s.delayed)
      BY DEF Active
    <2>3. Fits(t, i)
      BY <1>0, <1>1, <1>2, <2>1, <2>2 DEF Fits, Waits
    <2>4. CASE i \in expired
      BY <1>0, <1>1, <1>2, <2>1, <2>2, <2>3, <2>4 DEF Fits, Waits, Stage, Freed
    <2>5. CASE i \notin expired
      BY <1>0, <1>1, <1>2, <2>1, <2>2, <2>3, <2>5 DEF Stage, Kept
    <2> QED
      BY <1>1, <2>3, <2>4, <2>5
  <1> QED
    BY <1>1, <1>2, <1>3 DEF Sound, t

(* Leasing one job to the caller, key by key.                              *)
LEMMA ActivateEffect ==
  ASSUME NEW acc, acc.s \in Queue, NEW i \in Ids, acc.s.attempts[i] < MaxAttempts,
         FreshToken(i) \in Nat
  PROVE  LET t == Activate(acc, i).s
         IN  /\ Activate(acc, i).claimed = acc.claimed \union {i}
             /\ t \in Queue
             /\ t.jobs = acc.s.jobs /\ t.ready = acc.s.ready /\ t.inline = acc.s.inline
             /\ t.delayed = acc.s.delayed /\ t.dlq = acc.s.dlq
             /\ t.completed = acc.s.completed /\ t.dedup = acc.s.dedup
             /\ \A j \in Ids :
                  /\ t.token[j] = IF j = i THEN FreshToken(i) ELSE acc.s.token[j]
                  /\ t.attempts[j] = IF j = i THEN acc.s.attempts[i] + 1 ELSE acc.s.attempts[j]
  <1> DEFINE a == acc.s
             attempts == [a.attempts EXCEPT ![i] = @ + 1]
             token == [a.token EXCEPT ![i] = FreshToken(i)]
             s == [a EXCEPT !.attempts = attempts]
             leased == [s EXCEPT !.token = token]
  <1> HIDE DEF FreshToken
  <1>0. MaxAttempts \in Nat
    BY QueueAssumption
  <1>1. /\ attempts \in [Ids -> Nat] /\ token \in [Ids -> Nat]
        /\ attempts[i] <= MaxAttempts
        /\ \A j \in Ids : /\ token[j] = IF j = i THEN FreshToken(i) ELSE a.token[j]
                          /\ attempts[j] = IF j = i THEN a.attempts[i] + 1 ELSE a.attempts[j]
    BY <1>0 DEF Queue
  <1>2. Activate(acc, i) = IF s.attempts[i] <= MaxAttempts
                           THEN [s |-> leased, claimed |-> acc.claimed \union {i}]
                           ELSE [s |-> [s EXCEPT !.dlq = @ \union {i}], claimed |-> acc.claimed]
    BY DEF Activate, Queue
  <1> HIDE DEF attempts, token
  <1>3. s \in Queue /\ s.attempts = attempts
    BY <1>1 DEF Queue
  <1>4. Activate(acc, i) = [s |-> leased, claimed |-> acc.claimed \union {i}]
    BY <1>1, <1>2, <1>3
  <1>5. /\ leased \in Queue /\ leased.token = token /\ leased.attempts = attempts
        /\ leased.jobs = a.jobs /\ leased.ready = a.ready /\ leased.inline = a.inline
        /\ leased.delayed = a.delayed /\ leased.dlq = a.dlq
        /\ leased.completed = a.completed /\ leased.dedup = a.dedup
    BY <1>1 DEF Queue
  <1> HIDE DEF leased
  <1> QED
    BY <1>1, <1>4, <1>5

(* The loop of CLAIM over the ready list: the entries it takes are leased  *)
(* with one more attempt and the others stay listed.                       *)
LEMMA PopReadyEffect ==
  ASSUME NEW s, Sound(s), NEW limit \in Nat, NEW start,
         \A i \in Ids : FreshToken(i) \in Nat \ {0},
         start.claimed = {},
         start.s \in Queue, start.s.ready = <<>>, start.s.inline = <<>>,
         start.s.jobs = s.jobs, start.s.delayed = s.delayed, start.s.token = s.token,
         start.s.attempts = s.attempts, start.s.dlq = s.dlq, start.s.completed = s.completed,
         start.s.dedup = s.dedup
  PROVE  LET out == PopReadyLoop(limit, start, s.ready)[Len(s.ready)]
             t == out.s
         IN  /\ t \in Queue
             /\ IsInjective(t.ready)
             /\ out.claimed \in SUBSET Listed(s)
             /\ t.jobs = s.jobs /\ t.inline = <<>> /\ t.delayed = s.delayed
             /\ t.dlq = s.dlq /\ t.completed = s.completed /\ t.dedup = s.dedup
             /\ \A i \in Ids :
                  /\ i \in Listed(t) <=> i \in Listed(s) /\ i \notin out.claimed
                  /\ t.token[i] = IF i \in out.claimed THEN FreshToken(i) ELSE s.token[i]
                  /\ t.attempts[i] = IF i \in out.claimed THEN s.attempts[i] + 1 ELSE s.attempts[i]
  <1> DEFINE r == s.ready
             n == Len(r)
             acc == PopReadyLoop(limit, start, r)
             First(k) == {r[j] : j \in 1..k}
             J(k) == /\ acc[k].s \in Queue
                     /\ IsInjective(acc[k].s.ready)
                     /\ acc[k].claimed \in SUBSET First(k)
                     /\ acc[k].s.jobs = s.jobs /\ acc[k].s.inline = <<>>
                     /\ acc[k].s.delayed = s.delayed
                     /\ acc[k].s.dlq = s.dlq /\ acc[k].s.completed = s.completed
                     /\ acc[k].s.dedup = s.dedup
                     /\ \A i \in Ids :
                          /\ i \in Listed(acc[k].s) <=> i \in First(k) /\ i \notin acc[k].claimed
                          /\ acc[k].s.token[i] =
                               IF i \in acc[k].claimed THEN FreshToken(i) ELSE s.token[i]
                          /\ acc[k].s.attempts[i] =
                               IF i \in acc[k].claimed THEN s.attempts[i] + 1 ELSE s.attempts[i]
             Good == {k \in 0..n : J(k)}
  <1> HIDE DEF FreshToken
  <1>0. MaxAttempts \in Nat /\ r \in Seq(Ids) /\ n \in Nat /\ DOMAIN r = 1..n
        /\ \A k \in 1..n : r[k] \in Ids
    BY QueueAssumption DEF Sound, Queue
  <1>1. /\ acc[0] = start
        /\ \A k \in 1..n : acc[k] = PopReady(limit, acc[k - 1], r[k])
    BY <1>0, PopReadyLoopRuns
  <1> HIDE DEF acc
  <1>2. 0 \in Good
    <2>1. First(0) = {}
      OBVIOUS
    <2>2. IsInjective(start.s.ready) /\ Listed(start.s) = {}
      BY DEF IsInjective, Listed, Range
    <2> HIDE DEF First
    <2>3. J(0)
      BY <1>1, <2>1, <2>2
    <2> QED
      BY <1>0, <2>3
  <1>3. ASSUME NEW k \in 1..n, k - 1 \in Good
        PROVE  k \in Good
    <2> DEFINE a == acc[k - 1]
               b == acc[k]
               i == r[k]
    <2>1. J(k - 1)
      BY <1>3
    <2>2. b = PopReady(limit, a, i) /\ i \in Ids
      BY <1>0, <1>1
    <2>3. First(k) = First(k - 1) \union {i} /\ i \notin First(k - 1)
      <3>1. \A j \in 1..(k - 1) : j \in DOMAIN r /\ k \in DOMAIN r /\ j # k
        BY <1>0
      <3>2. i \notin First(k - 1)
        BY <3>1 DEF Sound, IsInjective
      <3>3. 1..k = 1..(k - 1) \union {k}
        BY <1>0
      <3> QED
        BY <3>2, <3>3
    <2>4. First(k - 1) \in SUBSET Ids
      BY <1>0
    <2>5. i \in Listed(s)
      BY <1>0 DEF Listed, Range
    <2>6. /\ s.jobs[i] # None /\ s.token[i] = 0 /\ i \notin s.completed
          /\ s.attempts[i] < MaxAttempts
      BY <2>2, <2>5 DEF Sound, Fits, Waits
    <2> HIDE DEF First, a, b, i
    <2>7. /\ a.s \in Queue /\ IsInjective(a.s.ready) /\ a.claimed \in SUBSET First(k - 1)
          /\ a.s.jobs = s.jobs /\ a.s.inline = <<>> /\ a.s.delayed = s.delayed
          /\ a.s.dlq = s.dlq /\ a.s.completed = s.completed /\ a.s.dedup = s.dedup
          /\ \A j \in Ids :
               /\ j \in Listed(a.s) <=> j \in First(k - 1) /\ j \notin a.claimed
               /\ a.s.token[j] = IF j \in a.claimed THEN FreshToken(j) ELSE s.token[j]
               /\ a.s.attempts[j] = IF j \in a.claimed THEN s.attempts[j] + 1 ELSE s.attempts[j]
      BY <2>1 DEF a
    <2>8. Cardinality(a.claimed) \in Nat
      <3>1. a.claimed \in SUBSET Ids
        BY <2>4, <2>7
      <3>2. IsFiniteSet(a.claimed)
        BY <3>1, QueueAssumption, FS_Subset
      <3> QED
        BY <3>2, FS_CardinalityType
    <2>9. i \notin a.claimed /\ i \notin Listed(a.s)
      BY <2>2, <2>3, <2>7
    <2>10. CASE Cardinality(a.claimed) >= limit
      <3> DEFINE t == PushReady(a.s, i)
      <3>1. /\ t \in Queue
            /\ IsInjective(t.ready)
            /\ Listed(t) = Listed(a.s) \union {i}
            /\ t.jobs = a.s.jobs /\ t.inline = a.s.inline /\ t.delayed = a.s.delayed
            /\ t.token = a.s.token /\ t.attempts = a.s.attempts /\ t.dlq = a.s.dlq
            /\ t.completed = a.s.completed /\ t.dedup = a.s.dedup
        BY <2>2, <2>7, <2>9, PushEffect
      <3> HIDE DEF t
      <3>2. b = [s |-> t, claimed |-> a.claimed]
        BY <2>2, <2>8, <2>10 DEF PopReady, t
      <3>3. b.s = t /\ b.claimed = a.claimed
        BY <3>2
      <3>4. J(k)
        BY <2>2, <2>3, <2>7, <2>9, <3>1, <3>3 DEF b
      <3> QED
        BY <3>4
    <2>11. CASE ~(Cardinality(a.claimed) >= limit)
      <3> DEFINE t == Activate(a, i).s
      <3>0. a.s.jobs[i] # None /\ a.s.token[i] = 0 /\ i \notin a.s.completed
        BY <2>2, <2>6, <2>7, <2>9
      <3>1. b = Activate(a, i)
        BY <2>2, <2>8, <2>11, <3>0 DEF PopReady
      <3>2. a.s.attempts[i] < MaxAttempts /\ FreshToken(i) \in Nat
        BY <2>2, <2>6, <2>7, <2>9
      <3>3. /\ Activate(a, i).claimed = a.claimed \union {i}
            /\ t \in Queue
            /\ t.jobs = a.s.jobs /\ t.ready = a.s.ready /\ t.inline = a.s.inline
            /\ t.delayed = a.s.delayed /\ t.dlq = a.s.dlq
            /\ t.completed = a.s.completed /\ t.dedup = a.s.dedup
            /\ \A j \in Ids :
                 /\ t.token[j] = IF j = i THEN FreshToken(i) ELSE a.s.token[j]
                 /\ t.attempts[j] = IF j = i THEN a.s.attempts[i] + 1 ELSE a.s.attempts[j]
        BY <2>2, <2>7, <3>2, ActivateEffect
      <3> HIDE DEF t
      <3>4. b.s = t /\ b.claimed = a.claimed \union {i}
        BY <3>1, <3>3 DEF t
      <3>5. Listed(t) = Listed(a.s) /\ IsInjective(t.ready)
        BY <2>7, <3>3 DEF Listed
      <3>6. J(k)
        BY <2>2, <2>3, <2>7, <2>9, <3>3, <3>4, <3>5 DEF b
      <3> QED
        BY <3>6
    <2> QED
      BY <2>10, <2>11
  <1>4. n \in Good
    <2> HIDE DEF Good
    <2>1. 0..n \subseteq Good
      BY <1>0, <1>2, <1>3, Rounds
    <2> QED
      BY <1>0, <2>1
  <1>5. J(n)
    BY <1>4
  <1>6. First(n) = Listed(s)
    BY <1>0 DEF Listed, Range
  <1> HIDE DEF First
  <1> QED
    BY <1>5, <1>6 DEF acc

(* The ids of a frame that a record, or another frame, is appended to.     *)
LEMMA FrameOne ==
  ASSUME NEW f \in Seq(Ids \X Bodies), NEW x \in Ids \X Bodies,
         \A j, k \in DOMAIN f : f[j][1] = f[k][1] => j = k,
         \A k \in DOMAIN f : f[k][1] # x[1]
  PROVE  LET g == Append(f, x)
         IN  /\ g \in Seq(Ids \X Bodies)
             /\ {g[k][1] : k \in DOMAIN g} = {f[k][1] : k \in DOMAIN f} \union {x[1]}
             /\ \A j, k \in DOMAIN g : g[j][1] = g[k][1] => j = k
  <1> DEFINE g == Append(f, x)
             n == Len(f)
  <1>1. /\ g \in Seq(Ids \X Bodies) /\ n \in Nat
        /\ DOMAIN g = 1..(n + 1) /\ DOMAIN f = 1..n
        /\ \A k \in 1..n : g[k] = f[k]
        /\ g[n + 1] = x
    OBVIOUS
  <1> HIDE DEF g, n
  <1>2. 1..(n + 1) = 1..n \union {n + 1}
    BY <1>1
  <1>3. {g[k][1] : k \in DOMAIN g} = {f[k][1] : k \in DOMAIN f} \union {x[1]}
    BY <1>1, <1>2
  <1>4. \A j, k \in DOMAIN g : g[j][1] = g[k][1] => j = k
    BY <1>1, <1>2
  <1> QED
    BY <1>1, <1>3, <1>4 DEF g

(* The same for a frame that is appended to a frame.                       *)
LEMMA FrameAll ==
  ASSUME NEW f \in Seq(Ids \X Bodies), NEW h \in Seq(Ids \X Bodies),
         \A j, k \in DOMAIN f : f[j][1] = f[k][1] => j = k,
         \A j, k \in DOMAIN h : h[j][1] = h[k][1] => j = k,
         \A j \in DOMAIN f, k \in DOMAIN h : f[j][1] # h[k][1]
  PROVE  LET g == f \o h
         IN  /\ g \in Seq(Ids \X Bodies)
             /\ {g[k][1] : k \in DOMAIN g} =
                  {f[k][1] : k \in DOMAIN f} \union {h[k][1] : k \in DOMAIN h}
             /\ \A j, k \in DOMAIN g : g[j][1] = g[k][1] => j = k
  <1> DEFINE g == f \o h
             m == Len(f)
             n == Len(h)
  <1>1. /\ g \in Seq(Ids \X Bodies) /\ m \in Nat /\ n \in Nat
        /\ DOMAIN g = 1..(m + n) /\ DOMAIN f = 1..m /\ DOMAIN h = 1..n
        /\ \A k \in 1..m : g[k] = f[k]
        /\ \A k \in 1..n : g[m + k] = h[k]
    OBVIOUS
  <1> HIDE DEF g, m, n
  <1>2. \A k \in 1..(m + n) : k \in 1..m \/ (k - m \in 1..n /\ g[k] = h[k - m])
    BY <1>1
  <1>3. {g[k][1] : k \in DOMAIN g} =
          {f[k][1] : k \in DOMAIN f} \union {h[k][1] : k \in DOMAIN h}
    <2>1. ASSUME NEW k \in 1..n PROVE h[k][1] \in {g[x][1] : x \in DOMAIN g}
      <3>1. m + k \in DOMAIN g /\ g[m + k] = h[k]
        BY <1>1
      <3> QED
        BY <3>1
    <2>2. ASSUME NEW k \in 1..m PROVE f[k][1] \in {g[x][1] : x \in DOMAIN g}
      <3>1. k \in DOMAIN g /\ g[k] = f[k]
        BY <1>1
      <3> QED
        BY <3>1
    <2>3. ASSUME NEW k \in 1..(m + n)
          PROVE  \/ g[k][1] \in {f[x][1] : x \in DOMAIN f}
                 \/ g[k][1] \in {h[x][1] : x \in DOMAIN h}
      <3>1. CASE k \in 1..m
        <4>1. k \in DOMAIN f /\ g[k] = f[k]
          BY <1>1, <3>1
        <4> QED
          BY <4>1
      <3>2. CASE k \notin 1..m
        <4>1. k - m \in DOMAIN h /\ g[k] = h[k - m]
          BY <1>1, <1>2, <3>2
        <4> QED
          BY <4>1
      <3> QED
        BY <3>1, <3>2
    <2> DEFINE F == {f[x][1] : x \in DOMAIN f}
               H == {h[x][1] : x \in DOMAIN h}
               G == {g[x][1] : x \in DOMAIN g}
    <2>4. G \subseteq F \union H
      <3> SUFFICES ASSUME NEW k \in DOMAIN g PROVE g[k][1] \in F \union H
        OBVIOUS
      <3> HIDE DEF F, H
      <3> QED
        BY <1>1, <2>3 DEF F, H
    <2>5. F \subseteq G /\ H \subseteq G
      <3>1. ASSUME NEW k \in DOMAIN f PROVE f[k][1] \in G
        BY <1>1, <2>2
      <3>2. ASSUME NEW k \in DOMAIN h PROVE h[k][1] \in G
        BY <1>1, <2>1
      <3> HIDE DEF G
      <3> QED
        BY <3>1, <3>2
    <2> HIDE DEF F, G, H
    <2>6. G = F \union H
      BY <2>4, <2>5
    <2> QED
      BY <2>6 DEF F, G, H
  <1>4. ASSUME NEW j \in DOMAIN g, NEW k \in DOMAIN g, g[j][1] = g[k][1]
        PROVE  j = k
    <2>0. j \in 1..(m + n) /\ k \in 1..(m + n)
      BY <1>1
    <2>1. CASE j \in 1..m /\ k \in 1..m
      BY <1>1, <1>4, <2>1
    <2>2. CASE j \in 1..m /\ k \notin 1..m
      <3>1. g[j] = f[j] /\ j \in DOMAIN f /\ g[k] = h[k - m] /\ k - m \in DOMAIN h
        BY <1>1, <1>2, <2>0, <2>2
      <3> QED
        BY <1>4, <3>1
    <2>3. CASE j \notin 1..m /\ k \in 1..m
      <3>1. g[k] = f[k] /\ k \in DOMAIN f /\ g[j] = h[j - m] /\ j - m \in DOMAIN h
        BY <1>1, <1>2, <2>0, <2>3
      <3> QED
        BY <1>4, <3>1
    <2>4. CASE j \notin 1..m /\ k \notin 1..m
      <3>1. /\ j - m \in DOMAIN h /\ k - m \in DOMAIN h
            /\ h[j - m][1] = h[k - m][1]
        BY <1>1, <1>2, <1>4, <2>0, <2>4
      <3>2. j - m = k - m
        BY <3>1
      <3> QED
        BY <1>1, <2>0, <3>2
    <2> QED
      BY <2>1, <2>2, <2>3, <2>4
  <1> QED
    BY <1>1, <1>3, <1>4 DEF g

(* The state of CLAIM after its loop over the inline frames f: the records *)
(* it took are stored and leased, the others stay where they are.          *)
Unframed(f, start, out) ==
  LET t == out.s
      p == start.s
  IN  /\ t \in Queue
      /\ OnceFramed(t)
      /\ out.claimed \in SUBSET Ids
      /\ t.ready = p.ready /\ t.delayed = p.delayed
      /\ t.dlq = p.dlq /\ t.completed = p.completed /\ t.dedup = p.dedup
      /\ \A i \in Ids :
           \/ /\ i \in out.claimed <=> i \in start.claimed
              /\ i \in Framed(t) <=> i \in {f[k][1] : k \in DOMAIN f}
              /\ t.jobs[i] = p.jobs[i]
              /\ t.token[i] = p.token[i]
              /\ t.attempts[i] = p.attempts[i]
           \/ /\ i \in out.claimed /\ i \notin start.claimed
              /\ i \notin Framed(t) /\ i \in {f[k][1] : k \in DOMAIN f}
              /\ t.jobs[i] # None
              /\ t.token[i] = FreshToken(i)
              /\ t.attempts[i] = p.attempts[i] + 1

(* The claim of inline frames: as PopReadyEffect, record by record.        *)
LEMMA PopInlineEffect ==
  ASSUME NEW f \in Seq(Ids \X Bodies), NEW limit \in Nat, NEW start,
         \A j, k \in DOMAIN f : f[j][1] = f[k][1] => j = k,
         \A i \in Ids : FreshToken(i) \in Nat \ {0},
         start.claimed \in SUBSET Ids,
         start.s \in Queue, start.s.inline = <<>>,
         \A k \in DOMAIN f : /\ start.s.jobs[f[k][1]] = None
                             /\ start.s.attempts[f[k][1]] < MaxAttempts
                             /\ f[k][1] \notin start.claimed
  PROVE  Unframed(f, start, PopInlineLoop(limit, start, f)[Len(f)])
  <1> DEFINE p == start.s
             n == Len(f)
             acc == PopInlineLoop(limit, start, f)
             First(k) == {f[j][1] : j \in 1..k}
             Left(k, i) == /\ i \in acc[k].claimed <=> i \in start.claimed
                           /\ i \in Framed(acc[k].s) <=> i \in First(k)
                           /\ acc[k].s.jobs[i] = p.jobs[i]
                           /\ acc[k].s.token[i] = p.token[i]
                           /\ acc[k].s.attempts[i] = p.attempts[i]
             Taken(k, i) == /\ i \in acc[k].claimed /\ i \notin start.claimed
                            /\ i \notin Framed(acc[k].s) /\ i \in First(k)
                            /\ acc[k].s.jobs[i] # None
                            /\ acc[k].s.token[i] = FreshToken(i)
                            /\ acc[k].s.attempts[i] = p.attempts[i] + 1
             J(k) == /\ acc[k].s \in Queue
                     /\ OnceFramed(acc[k].s)
                     /\ acc[k].claimed \in SUBSET Ids
                     /\ acc[k].s.ready = p.ready /\ acc[k].s.delayed = p.delayed
                     /\ acc[k].s.dlq = p.dlq /\ acc[k].s.completed = p.completed
                     /\ acc[k].s.dedup = p.dedup
                     /\ \A i \in Ids : Left(k, i) \/ Taken(k, i)
             Good == {k \in 0..n : J(k)}
  <1> HIDE DEF FreshToken
  <1>0. /\ MaxAttempts \in Nat /\ n \in Nat /\ DOMAIN f = 1..n
        /\ \A k \in 1..n : f[k] \in Ids \X Bodies /\ f[k][1] \in Ids /\ f[k][2] \in Bodies
    BY QueueAssumption
  <1>1. /\ acc[0] = start
        /\ \A k \in 1..n : acc[k] = PopInline(limit, acc[k - 1], f[k])
    BY <1>0, PopInlineLoopRuns
  <1> HIDE DEF acc
  <1>2. 0 \in Good
    <2>1. First(0) = {}
      OBVIOUS
    <2>2. OnceFramed(start.s) /\ Framed(start.s) = {}
      BY DEF OnceFramed, Framed
    <2> HIDE DEF First
    <2>3. J(0)
      BY <1>1, <2>1, <2>2
    <2> QED
      BY <1>0, <2>3
  <1>3. ASSUME NEW k \in 1..n, k - 1 \in Good
        PROVE  k \in Good
    <2> DEFINE a == acc[k - 1]
               b == acc[k]
               r == f[k]
               i == f[k][1]
    <2>1. J(k - 1)
      BY <1>3
    <2>2. b = PopInline(limit, a, r) /\ r \in Ids \X Bodies /\ i \in Ids /\ r[2] \in Bodies /\ i = r[1]
      BY <1>0, <1>1
    <2>3. First(k) = First(k - 1) \union {i} /\ i \notin First(k - 1)
      <3>1. \A j \in 1..(k - 1) : j \in DOMAIN f /\ k \in DOMAIN f /\ j # k
        BY <1>0
      <3>2. i \notin First(k - 1)
        BY <3>1
      <3>3. 1..k = 1..(k - 1) \union {k}
        BY <1>0
      <3> QED
        BY <3>2, <3>3
    <2>4. p.jobs[i] = None /\ p.attempts[i] < MaxAttempts /\ i \notin start.claimed
      BY <1>0
    <2> HIDE DEF First, a, b, i, r, Left, Taken
    <2>5. /\ a.s \in Queue /\ OnceFramed(a.s) /\ a.claimed \in SUBSET Ids
          /\ a.s.ready = p.ready /\ a.s.delayed = p.delayed
          /\ a.s.dlq = p.dlq /\ a.s.completed = p.completed /\ a.s.dedup = p.dedup
          /\ \A j \in Ids : Left(k - 1, j) \/ Taken(k - 1, j)
      BY <2>1 DEF a
    <2>6. Cardinality(a.claimed) \in Nat
      <3>1. IsFiniteSet(a.claimed)
        BY <2>5, QueueAssumption, FS_Subset
      <3> QED
        BY <3>1, FS_CardinalityType
    <2>7. /\ Left(k - 1, i) /\ i \notin Framed(a.s) /\ a.s.jobs[i] = None /\ i \notin a.claimed
          /\ a.s.attempts[i] < MaxAttempts
      <3>1. Left(k - 1, i)
        BY <2>2, <2>3, <2>5 DEF Taken
      <3> QED
        BY <2>2, <2>3, <2>4, <3>1 DEF Left, a
    <2>8. CASE Cardinality(a.claimed) >= limit
      <3> DEFINE g == Append(a.s.inline, r)
                 t == [a.s EXCEPT !.inline = g]
      <3>1. a.s.inline \in Seq(Ids \X Bodies)
        BY <2>5 DEF Queue
      <3>2. /\ g \in Seq(Ids \X Bodies)
            /\ {g[x][1] : x \in DOMAIN g} = Framed(a.s) \union {i}
            /\ \A x, y \in DOMAIN g : g[x][1] = g[y][1] => x = y
        BY <2>2, <2>5, <2>7, <3>1, FrameOne DEF Framed, OnceFramed
      <3> HIDE DEF g
      <3>3. /\ t \in Queue /\ t.inline = g
            /\ t.ready = a.s.ready /\ t.delayed = a.s.delayed /\ t.jobs = a.s.jobs
            /\ t.dlq = a.s.dlq /\ t.completed = a.s.completed /\ t.dedup = a.s.dedup
            /\ t.token = a.s.token /\ t.attempts = a.s.attempts
        BY <2>5, <3>2 DEF Queue
      <3>4. b = [s |-> t, claimed |-> a.claimed]
        BY <2>2, <2>6, <2>8 DEF PopInline, g
      <3> HIDE DEF t
      <3>5. b.s = t /\ b.claimed = a.claimed
        BY <3>4
      <3>6. Framed(t) = Framed(a.s) \union {i} /\ OnceFramed(t)
        <4>1. OnceFramed(t)
          BY <3>2, <3>3 DEF OnceFramed
        <4>2. Framed(t) = {g[x][1] : x \in DOMAIN g}
          BY <3>3 DEF Framed
        <4> QED
          BY <3>2, <4>1, <4>2
      <3>7. ASSUME NEW j \in Ids PROVE Left(k, j) \/ Taken(k, j)
        <4>1. CASE j = i
          <5>1. Left(k, i)
            BY <2>2, <2>3, <2>7, <3>3, <3>5, <3>6 DEF Left, a, b
          <5> QED
            BY <4>1, <5>1
        <4>2. CASE j # i
          BY <2>3, <2>5, <3>3, <3>5, <3>6, <4>2 DEF Left, Taken, a, b
        <4> QED
          BY <4>1, <4>2
      <3>8. J(k)
        BY <2>5, <3>3, <3>5, <3>6, <3>7 DEF b
      <3> QED
        BY <3>8
    <2>9. CASE ~(Cardinality(a.claimed) >= limit)
      <3> DEFINE jobs == [a.s.jobs EXCEPT ![i] = r[2]]
                 w == [s |-> [a.s EXCEPT !.jobs = jobs], claimed |-> a.claimed]
                 t == Activate(w, i).s
      <3>1. /\ jobs \in [Ids -> Bodies \union {None}]
            /\ jobs[i] = r[2]
            /\ \A j \in Ids : j # i => jobs[j] = a.s.jobs[j]
        BY <2>2, <2>5 DEF Queue
      <3>2. b = Activate(w, i)
        BY <2>2, <2>6, <2>7, <2>9 DEF PopInline
      <3>3. r[2] # None
        BY <2>2, QueueAssumption
      <3> HIDE DEF jobs
      <3>4. /\ w.s \in Queue /\ w.s.jobs = jobs /\ w.claimed = a.claimed
            /\ w.s.inline = a.s.inline
            /\ w.s.ready = a.s.ready /\ w.s.delayed = a.s.delayed
            /\ w.s.dlq = a.s.dlq /\ w.s.completed = a.s.completed /\ w.s.dedup = a.s.dedup
            /\ w.s.token = a.s.token /\ w.s.attempts = a.s.attempts
        BY <2>5, <3>1 DEF Queue
      <3> HIDE DEF w
      <3>5. w.s.attempts[i] < MaxAttempts /\ FreshToken(i) \in Nat
        BY <2>2, <2>7, <3>4
      <3>6. /\ Activate(w, i).claimed = w.claimed \union {i}
            /\ t \in Queue
            /\ t.jobs = w.s.jobs /\ t.ready = w.s.ready /\ t.inline = w.s.inline
            /\ t.delayed = w.s.delayed /\ t.dlq = w.s.dlq
            /\ t.completed = w.s.completed /\ t.dedup = w.s.dedup
            /\ \A j \in Ids :
                 /\ t.token[j] = IF j = i THEN FreshToken(i) ELSE w.s.token[j]
                 /\ t.attempts[j] = IF j = i THEN w.s.attempts[i] + 1 ELSE w.s.attempts[j]
        BY <2>2, <3>4, <3>5, ActivateEffect
      <3> HIDE DEF t
      <3>7. b.s = t /\ b.claimed = a.claimed \union {i}
        BY <3>2, <3>4, <3>6 DEF t
      <3>8. Framed(t) = Framed(a.s) /\ OnceFramed(t)
        BY <2>5, <3>4, <3>6 DEF Framed, OnceFramed
      <3>9. ASSUME NEW j \in Ids PROVE Left(k, j) \/ Taken(k, j)
        <4>1. CASE j = i
          <5>1. Taken(k, i)
            BY <2>2, <2>3, <2>4, <2>7, <3>1, <3>3, <3>4, <3>6, <3>7, <3>8 DEF Left, Taken, a, b
          <5> QED
            BY <4>1, <5>1
        <4>2. CASE j # i
          BY <2>3, <2>5, <3>1, <3>4, <3>6, <3>7, <3>8, <4>2 DEF Left, Taken, a, b
        <4> QED
          BY <4>1, <4>2
      <3>10. J(k)
        BY <2>2, <2>5, <3>4, <3>6, <3>7, <3>8, <3>9 DEF b
      <3> QED
        BY <3>10
    <2> QED
      BY <2>8, <2>9
  <1>4. n \in Good
    <2> HIDE DEF Good
    <2>1. 0..n \subseteq Good
      BY <1>0, <1>2, <1>3, Rounds
    <2> QED
      BY <1>0, <2>1
  <1>5. J(n)
    BY <1>4
  <1>6. First(n) = {f[k][1] : k \in DOMAIN f}
    BY <1>0
  <1> HIDE DEF First
  <1> QED
    BY <1>5, <1>6 DEF acc, Unframed

(* CLAIM leases jobs that wait and moves no other.                         *)
LEMMA PopAllSound ==
  ASSUME NEW s, Sound(s), NEW limit \in Nat, \A i \in Ids : FreshToken(i) \in Nat \ {0}
  PROVE  LET out == PopAll(s, limit)
         IN  /\ Sound(out.s)
             /\ out.claimed \in SUBSET Ids
             /\ \A i \in Ids : IF i \in out.claimed
                               THEN Leased(s, out.s, i) ELSE Kept(s, out.s, i)
  <1> DEFINE empty == [s EXCEPT !.ready = <<>>, !.inline = <<>>]
             start == [s |-> empty, claimed |-> {}]
             popped == PopReadyLoop(limit, start, s.ready)[Len(s.ready)]
             out == PopInlineLoop(limit, popped, s.inline)[Len(s.inline)]
             p == popped.s
             t == out.s
             ids == {s.inline[k][1] : k \in DOMAIN s.inline}
  <1> HIDE DEF FreshToken
  <1>0. MaxAttempts \in Nat /\ s \in Queue
    BY QueueAssumption DEF Sound
  <1>1. PopAll(s, limit) = out
    BY DEF PopAll
  <1>2. /\ empty \in Queue /\ empty.ready = <<>> /\ empty.inline = <<>>
        /\ empty.jobs = s.jobs /\ empty.delayed = s.delayed /\ empty.token = s.token
        /\ empty.attempts = s.attempts /\ empty.dlq = s.dlq /\ empty.completed = s.completed
        /\ empty.dedup = s.dedup
    <2>1. <<>> \in Seq(Ids) /\ <<>> \in Seq(Ids \X Bodies)
      BY EmptySeq
    <2> QED
      BY <1>0, <2>1 DEF Queue
  <1> HIDE DEF empty
  <1>3. start.s = empty /\ start.claimed = {}
    OBVIOUS
  <1> HIDE DEF start
  <1>4. /\ p \in Queue
        /\ IsInjective(p.ready)
        /\ popped.claimed \in SUBSET Listed(s)
        /\ p.jobs = s.jobs /\ p.inline = <<>> /\ p.delayed = s.delayed
        /\ p.dlq = s.dlq /\ p.completed = s.completed /\ p.dedup = s.dedup
        /\ \A i \in Ids :
             /\ i \in Listed(p) <=> i \in Listed(s) /\ i \notin popped.claimed
             /\ p.token[i] = IF i \in popped.claimed THEN FreshToken(i) ELSE s.token[i]
             /\ p.attempts[i] = IF i \in popped.claimed THEN s.attempts[i] + 1 ELSE s.attempts[i]
    BY <1>2, <1>3, PopReadyEffect
  <1> HIDE DEF popped
  <1>5. Listed(s) \in SUBSET Ids
    BY <1>0 DEF Listed, Range, Queue
  <1>6. /\ s.inline \in Seq(Ids \X Bodies)
        /\ \A j, k \in DOMAIN s.inline : s.inline[j][1] = s.inline[k][1] => j = k
        /\ Framed(s) = ids
        /\ ids \in SUBSET Ids
    BY <1>0 DEF Queue, Sound, OnceFramed, Framed
  <1>7. \A i \in ids : /\ s.jobs[i] = None /\ s.attempts[i] < MaxAttempts /\ i \notin Listed(s)
    BY <1>0, <1>6, QueueAssumption DEF Sound, Fits, Waits
  <1>8. \A k \in DOMAIN s.inline : /\ p.jobs[s.inline[k][1]] = None
                                   /\ p.attempts[s.inline[k][1]] < MaxAttempts
                                   /\ s.inline[k][1] \notin popped.claimed
    <2> SUFFICES ASSUME NEW k \in DOMAIN s.inline, NEW i, i = s.inline[k][1]
                 PROVE  p.jobs[i] = None /\ p.attempts[i] < MaxAttempts /\ i \notin popped.claimed
      OBVIOUS
    <2>1. i \in ids
      OBVIOUS
    <2> HIDE DEF ids
    <2> QED
      BY <1>4, <1>6, <1>7, <2>1
  <1>9. /\ t \in Queue
        /\ OnceFramed(t)
        /\ out.claimed \in SUBSET Ids
        /\ t.ready = p.ready /\ t.delayed = p.delayed
        /\ t.dlq = p.dlq /\ t.completed = p.completed /\ t.dedup = p.dedup
        /\ \A i \in Ids :
             \/ /\ i \in out.claimed <=> i \in popped.claimed
                /\ i \in Framed(t) <=> i \in ids
                /\ t.jobs[i] = p.jobs[i]
                /\ t.token[i] = p.token[i]
                /\ t.attempts[i] = p.attempts[i]
             \/ /\ i \in out.claimed /\ i \notin popped.claimed
                /\ i \notin Framed(t) /\ i \in ids
                /\ t.jobs[i] # None
                /\ t.token[i] = FreshToken(i)
                /\ t.attempts[i] = p.attempts[i] + 1
    <2>1. popped.claimed \in SUBSET Ids
      BY <1>4, <1>5
    <2>2. p \in Queue /\ p.inline = <<>>
      BY <1>4
    <2>3. /\ s.inline \in Seq(Ids \X Bodies)
          /\ \A j, k \in DOMAIN s.inline : s.inline[j][1] = s.inline[k][1] => j = k
      BY <1>6
    <2>4. Unframed(s.inline, popped, out)
      <3> HIDE DEF ids
      <3> QED
        BY <1>8, <2>1, <2>2, <2>3, PopInlineEffect
    <2> HIDE DEF out
    <2> QED
      BY <2>4 DEF Unframed
  <1> HIDE DEF out, ids
  <1>10. Listed(t) = Listed(p) /\ IsInjective(t.ready)
    BY <1>4, <1>9 DEF Listed
  <1>11. ASSUME NEW i \in Ids
         PROVE  /\ Fits(t, i)
                /\ IF i \in out.claimed THEN Leased(s, t, i) ELSE Kept(s, t, i)
    <2>1. Fits(s, i) /\ s.attempts[i] \in Nat /\ s.token[i] \in Nat /\ FreshToken(i) \in Nat \ {0}
      BY <1>0 DEF Sound, Queue
    <2>2. CASE i \notin out.claimed
      <3>1. /\ i \in Listed(t) <=> i \in Listed(s)
            /\ i \in Framed(t) <=> i \in Framed(s)
            /\ t.jobs[i] = s.jobs[i] /\ t.token[i] = s.token[i] /\ t.attempts[i] = s.attempts[i]
            /\ t.delayed = s.delayed /\ t.dlq = s.dlq /\ t.completed = s.completed
        BY <1>4, <1>6, <1>9, <1>10, <2>2
      <3> QED
        BY <2>1, <2>2, <3>1 DEF Fits, Waits, Kept, Stage
    <2>3. CASE i \in popped.claimed
      <3>1. i \in Listed(s) /\ i \in out.claimed
        BY <1>4, <1>9, <2>3
      <3>2. /\ i \notin Listed(t)
            /\ i \in Framed(t) <=> i \in Framed(s)
            /\ t.jobs[i] = s.jobs[i] /\ t.token[i] = FreshToken(i)
            /\ t.attempts[i] = s.attempts[i] + 1
            /\ t.delayed = s.delayed /\ t.dlq = s.dlq /\ t.completed = s.completed
        BY <1>4, <1>6, <1>9, <1>10, <2>3
      <3> QED
        BY <1>0, <2>1, <3>1, <3>2 DEF Fits, Waits, Leased, Stage
    <2>4. CASE i \in out.claimed /\ i \notin popped.claimed
      <3>1. i \in Framed(s)
        BY <1>6, <1>9, <2>4
      <3>2. /\ i \notin Listed(t) /\ i \notin Framed(t)
            /\ t.jobs[i] # None /\ t.token[i] = FreshToken(i)
            /\ t.attempts[i] = s.attempts[i] + 1
            /\ t.delayed = s.delayed /\ t.dlq = s.dlq /\ t.completed = s.completed
        BY <1>4, <1>6, <1>7, <1>9, <1>10, <2>4
      <3>3. s.attempts[i] < MaxAttempts
        BY <1>6, <1>7, <3>1
      <3> QED
        BY <1>0, <2>1, <2>4, <3>1, <3>2, <3>3 DEF Fits, Waits, Leased, Stage
    <2> QED
      BY <2>2, <2>3, <2>4
  <1> QED
    BY <1>1, <1>9, <1>10, <1>11 DEF Sound

(* Jobs that are deleted.                                                  *)
LEMMA DeleteEffect ==
  ASSUME NEW s \in Queue, NEW v \in SUBSET Ids
  PROVE  LET t == Delete(s, v)
         IN  /\ t \in Queue
             /\ t.ready = s.ready /\ t.inline = s.inline /\ t.delayed = s.delayed
             /\ t.token = s.token /\ t.dlq = s.dlq /\ t.completed = s.completed
             /\ t.dedup = s.dedup
             /\ \A i \in Ids : /\ t.jobs[i] = IF i \in v THEN None ELSE s.jobs[i]
                               /\ t.attempts[i] = IF i \in v THEN 0 ELSE s.attempts[i]
  <1> DEFINE jobs == [i \in Ids |-> IF i \in v THEN None ELSE s.jobs[i]]
             attempts == [i \in Ids |-> IF i \in v THEN 0 ELSE s.attempts[i]]
  <1>1. jobs \in [Ids -> Bodies \union {None}] /\ attempts \in [Ids -> Nat]
    BY DEF Queue
  <1>2. Delete(s, v) = [s EXCEPT !.jobs = jobs, !.attempts = attempts]
    BY DEF Delete
  <1>3. \A i \in Ids : /\ jobs[i] = IF i \in v THEN None ELSE s.jobs[i]
                       /\ attempts[i] = IF i \in v THEN 0 ELSE s.attempts[i]
    OBVIOUS
  <1> HIDE DEF jobs, attempts
  <1> QED
    BY <1>1, <1>2, <1>3 DEF Queue

(* A retention limit picks victims among the retained.                     *)
LEMMA VictimsRetained ==
  ASSUME NEW ids, NEW retention, NEW v \in Victims(ids, retention)
  PROVE  v \in SUBSET ids
  BY DEF Victims, kSubset

(* trim_dlq keeps the keys in agreement and drops dead letters only.       *)
LEMMA TrimDlqSound ==
  ASSUME NEW s, Sound(s), NEW t \in TrimDlq(s)
  PROVE  Sound(t) /\ \A i \in Ids : Kept(s, t, i) \/ (Dropped(s, t, i) /\ Stage(s, i) = "dead")
  <1>0. MaxAttempts \in Nat /\ s \in Queue
    BY QueueAssumption DEF Sound
  <1>1. CASE FailedRetention = 0
    BY <1>1 DEF TrimDlq, Kept
  <1>2. CASE FailedRetention # 0
    <2>1. PICK v \in Victims(s.dlq, FailedRetention) : t = [Delete(s, v) EXCEPT !.dlq = @ \ v]
      BY <1>2 DEF TrimDlq
    <2>2. v \in SUBSET s.dlq /\ v \in SUBSET Ids
      BY <1>0, VictimsRetained DEF Queue
    <2> DEFINE u == Delete(s, v)
    <2>3. /\ u \in Queue
          /\ u.ready = s.ready /\ u.inline = s.inline /\ u.delayed = s.delayed
          /\ u.token = s.token /\ u.dlq = s.dlq /\ u.completed = s.completed
          /\ u.dedup = s.dedup
          /\ \A i \in Ids : /\ u.jobs[i] = IF i \in v THEN None ELSE s.jobs[i]
                            /\ u.attempts[i] = IF i \in v THEN 0 ELSE s.attempts[i]
      BY <1>0, <2>2, DeleteEffect
    <2>4. t = [u EXCEPT !.dlq = u.dlq \ v]
      BY <2>1, <2>3 DEF Queue
    <2> HIDE DEF u
    <2>5. /\ t \in Queue
          /\ t.ready = s.ready /\ t.inline = s.inline /\ t.delayed = s.delayed
          /\ t.token = s.token /\ t.dlq = s.dlq \ v /\ t.completed = s.completed
          /\ t.jobs = u.jobs /\ t.attempts = u.attempts
      BY <2>2, <2>3, <2>4 DEF Queue
    <2>6. Listed(t) = Listed(s) /\ Framed(t) = Framed(s) /\ OnceFramed(t) /\ IsInjective(t.ready)
      BY <2>5 DEF Listed, Framed, OnceFramed, Sound
    <2>7. ASSUME NEW i \in Ids
          PROVE  Fits(t, i) /\ (Kept(s, t, i) \/ (Dropped(s, t, i) /\ Stage(s, i) = "dead"))
      <3>1. Fits(s, i) /\ s.attempts[i] \in Nat /\ s.token[i] \in Nat
        BY <1>0 DEF Sound, Queue
      <3>2. CASE i \in v
        BY <1>0, <2>2, <2>3, <2>5, <2>6, <3>1, <3>2 DEF Fits, Waits, Stage, Dropped
      <3>3. CASE i \notin v
        BY <1>0, <2>2, <2>3, <2>5, <2>6, <3>1, <3>3 DEF Fits, Waits, Stage, Kept
      <3> QED
        BY <3>2, <3>3
    <2> QED
      BY <2>5, <2>6, <2>7 DEF Sound
  <1> QED
    BY <1>1, <1>2

(* Trimming the completed jobs drops completed jobs only.                  *)
LEMMA TrimCompletedSound ==
  ASSUME NEW s, Sound(s), NEW t \in TrimCompleted(s)
  PROVE  Sound(t) /\ \A i \in Ids : Kept(s, t, i) \/ (Dropped(s, t, i) /\ Stage(s, i) = "done")
  <1>0. MaxAttempts \in Nat /\ s \in Queue
    BY QueueAssumption DEF Sound
  <1>1. PICK v \in Victims(s.completed, CompletedRetention) :
          t = [Delete(s, v) EXCEPT !.completed = @ \ v]
    BY DEF TrimCompleted
  <1>2. v \in SUBSET s.completed /\ v \in SUBSET Ids
    BY <1>0, VictimsRetained DEF Queue
  <1> DEFINE u == Delete(s, v)
  <1>3. /\ u \in Queue
        /\ u.ready = s.ready /\ u.inline = s.inline /\ u.delayed = s.delayed
        /\ u.token = s.token /\ u.dlq = s.dlq /\ u.completed = s.completed
        /\ u.dedup = s.dedup
        /\ \A i \in Ids : /\ u.jobs[i] = IF i \in v THEN None ELSE s.jobs[i]
                          /\ u.attempts[i] = IF i \in v THEN 0 ELSE s.attempts[i]
    BY <1>0, <1>2, DeleteEffect
  <1>4. t = [u EXCEPT !.completed = u.completed \ v]
    BY <1>1, <1>3 DEF Queue
  <1> HIDE DEF u
  <1>5. /\ t \in Queue
        /\ t.ready = s.ready /\ t.inline = s.inline /\ t.delayed = s.delayed
        /\ t.token = s.token /\ t.dlq = s.dlq /\ t.completed = s.completed \ v
        /\ t.jobs = u.jobs /\ t.attempts = u.attempts
    BY <1>2, <1>3, <1>4 DEF Queue
  <1>6. Listed(t) = Listed(s) /\ Framed(t) = Framed(s) /\ OnceFramed(t) /\ IsInjective(t.ready)
    BY <1>5 DEF Listed, Framed, OnceFramed, Sound
  <1>7. ASSUME NEW i \in Ids
        PROVE  Fits(t, i) /\ (Kept(s, t, i) \/ (Dropped(s, t, i) /\ Stage(s, i) = "done"))
    <2>1. Fits(s, i) /\ s.attempts[i] \in Nat /\ s.token[i] \in Nat
      BY <1>0 DEF Sound, Queue
    <2>2. CASE i \in v
      BY <1>0, <1>2, <1>3, <1>5, <1>6, <2>1, <2>2 DEF Fits, Waits, Stage, Dropped
    <2>3. CASE i \notin v
      BY <1>0, <1>2, <1>3, <1>5, <1>6, <2>1, <2>3 DEF Fits, Waits, Stage, Kept
    <2> QED
      BY <2>2, <2>3
  <1> QED
    BY <1>5, <1>6, <1>7 DEF Sound

(* An acknowledgement finishes the jobs whose current token it has; the    *)
(* retention limit may drop completed ones.                                *)
LEMMA AckSound ==
  ASSUME NEW s, Sound(s), NEW ds \in SUBSET Delivery, NEW t \in AckScript(s, ds)
  PROVE  /\ Sound(t)
         /\ \A i \in Ids : \/ Kept(s, t, i)
                           \/ Dropped(s, t, i)
                           \/ /\ Finished(s, t, i)
                              /\ \E d \in ds : d.id = i /\ d.token = s.token[i]
  <1> DEFINE done == {d.id : d \in {e \in ds : s.token[e.id] = e.token}}
             token == [i \in Ids |-> IF i \in done THEN 0 ELSE s.token[i]]
             free == [s EXCEPT !.token = token]
             more == [free EXCEPT !.completed = free.completed \union done]
             Held1(i) == \E d \in ds : d.id = i /\ d.token = s.token[i]
  <1>0. MaxAttempts \in Nat /\ s \in Queue
    BY QueueAssumption DEF Sound
  <1>1. /\ done \in SUBSET Ids
        /\ \A i \in done : s.token[i] # 0 /\ Held1(i)
    BY DEF Delivery
  <1>2. token \in [Ids -> Nat] /\ \A i \in Ids : token[i] = IF i \in done THEN 0 ELSE s.token[i]
    BY <1>0 DEF Queue
  <1>3. t \in IF CompletedRetention = 0 THEN {Delete(free, done)}
              ELSE TrimCompleted([free EXCEPT !.completed = @ \union done])
    BY DEF AckScript
  <1> HIDE DEF done, token, Held1
  <1>4. /\ free \in Queue /\ free.token = token
        /\ free.ready = s.ready /\ free.inline = s.inline /\ free.delayed = s.delayed
        /\ free.jobs = s.jobs /\ free.attempts = s.attempts /\ free.dlq = s.dlq
        /\ free.completed = s.completed
    BY <1>0, <1>2 DEF Queue
  <1>5. CASE CompletedRetention = 0
    <2>1. t = Delete(free, done)
      BY <1>3, <1>5
    <2> HIDE DEF free
    <2>2. /\ t \in Queue
          /\ t.ready = free.ready /\ t.inline = free.inline /\ t.delayed = free.delayed
          /\ t.token = free.token /\ t.dlq = free.dlq /\ t.completed = free.completed
          /\ \A i \in Ids : /\ t.jobs[i] = IF i \in done THEN None ELSE free.jobs[i]
                            /\ t.attempts[i] = IF i \in done THEN 0 ELSE free.attempts[i]
      BY <1>1, <1>4, <2>1, DeleteEffect
    <2>3. Listed(t) = Listed(s) /\ Framed(t) = Framed(s) /\ OnceFramed(t) /\ IsInjective(t.ready)
      BY <1>4, <2>2 DEF Listed, Framed, OnceFramed, Sound
    <2>4. ASSUME NEW i \in Ids
          PROVE  Fits(t, i) /\ (Kept(s, t, i) \/ (Finished(s, t, i) /\ Held1(i)))
      <3>1. Fits(s, i) /\ s.attempts[i] \in Nat /\ s.token[i] \in Nat
        BY <1>0 DEF Sound, Queue
      <3>2. CASE i \in done
        BY <1>0, <1>1, <1>2, <1>4, <2>2, <2>3, <3>1, <3>2 DEF Fits, Waits, Stage, Finished
      <3>3. CASE i \notin done
        BY <1>0, <1>1, <1>2, <1>4, <2>2, <2>3, <3>1, <3>3 DEF Fits, Waits, Stage, Kept
      <3> QED
        BY <3>2, <3>3
    <2> QED
      BY <2>2, <2>3, <2>4 DEF Sound, Held1
  <1>6. CASE CompletedRetention # 0
    <2>1. t \in TrimCompleted(more)
      BY <1>3, <1>4, <1>6 DEF Queue
    <2>2. /\ more \in Queue /\ more.token = token
          /\ more.ready = s.ready /\ more.inline = s.inline /\ more.delayed = s.delayed
          /\ more.jobs = s.jobs /\ more.attempts = s.attempts /\ more.dlq = s.dlq
          /\ more.completed = s.completed \union done
      <3> HIDE DEF free
      <3> QED
        BY <1>1, <1>4 DEF Queue
    <2> HIDE DEF more
    <2>3. Listed(more) = Listed(s) /\ Framed(more) = Framed(s) /\ OnceFramed(more)
          /\ IsInjective(more.ready)
      BY <2>2 DEF Listed, Framed, OnceFramed, Sound
    <2>4. ASSUME NEW i \in Ids
          PROVE  /\ Fits(more, i)
                 /\ \/ Kept(s, more, i)
                    \/ Finished(s, more, i) /\ Held1(i) /\ Stage(more, i) = "done"
      <3>1. Fits(s, i) /\ s.attempts[i] \in Nat /\ s.token[i] \in Nat
        BY <1>0 DEF Sound, Queue
      <3>2. CASE i \in done
        BY <1>0, <1>1, <1>2, <2>2, <2>3, <3>1, <3>2 DEF Fits, Waits, Stage, Finished
      <3>3. CASE i \notin done
        BY <1>0, <1>1, <1>2, <2>2, <2>3, <3>1, <3>3 DEF Fits, Waits, Stage, Kept
      <3> QED
        BY <3>2, <3>3
    <2>5. Sound(more)
      BY <2>2, <2>3, <2>4 DEF Sound
    <2>6. /\ Sound(t)
          /\ \A i \in Ids : Kept(more, t, i) \/ (Dropped(more, t, i) /\ Stage(more, i) = "done")
      BY <2>1, <2>5, TrimCompletedSound
    <2>7. ASSUME NEW i \in Ids
          PROVE  Kept(s, t, i) \/ Dropped(s, t, i) \/ (Finished(s, t, i) /\ Held1(i))
      BY <2>4, <2>6 DEF Kept, Dropped, Finished
    <2> QED
      BY <2>6, <2>7 DEF Held1
  <1> QED
    BY <1>5, <1>6

(* NACK frees the job if it has the current token.                         *)
LEMMA NackSound ==
  ASSUME NEW s, Sound(s), NEW d \in Delivery, NEW delayed \in BOOLEAN,
         NEW t \in NackScript(s, d, delayed)
  PROVE  /\ Sound(t)
         /\ \A i \in Ids : Kept(s, t, i) \/ Dropped(s, t, i) \/ Freed(s, t, i)
  <1> DEFINE n == d.id
             token == [s.token EXCEPT ![n] = 0]
             free == [s EXCEPT !.token = token]
  <1>0. /\ MaxAttempts \in Nat /\ s \in Queue /\ n \in Ids /\ d.token \in Nat \ {0}
        /\ s.attempts[n] \in Nat /\ s.token[n] \in Nat /\ Fits(s, n) /\ IsInjective(s.ready)
    BY QueueAssumption DEF Sound, Queue, Delivery
  <1>1. token \in [Ids -> Nat] /\ \A i \in Ids : token[i] = IF i = n THEN 0 ELSE s.token[i]
    BY <1>0 DEF Queue
  <1>2. free = [s EXCEPT !.token[n] = 0]
    BY <1>0 DEF Queue
  <1>3. CASE s.token[n] # d.token
    <2>1. t = s
      BY <1>3 DEF NackScript
    <2> QED
      BY <2>1 DEF Kept
  <1>4. CASE s.token[n] = d.token
    <2>1. s.token[n] # 0 /\ n \notin Listed(s) /\ n \notin s.delayed /\ n \notin Framed(s)
      BY <1>0, <1>4 DEF Fits, Waits
    <2> HIDE DEF token
    <2>2. /\ free \in Queue /\ free.token = token
          /\ free.ready = s.ready /\ free.inline = s.inline /\ free.delayed = s.delayed
          /\ free.jobs = s.jobs /\ free.attempts = s.attempts /\ free.dlq = s.dlq
          /\ free.completed = s.completed
      BY <1>0, <1>1 DEF Queue
    <2>3. CASE s.attempts[n] >= MaxAttempts
      <3> DEFINE more == [free EXCEPT !.dlq = free.dlq \union {n}]
      <3>1. t \in TrimDlq(more)
        <4>1. t \in TrimDlq([free EXCEPT !.dlq = @ \union {n}])
          BY <1>0, <1>2, <1>4, <2>3 DEF NackScript
        <4> QED
          BY <2>2, <4>1 DEF Queue
      <3> HIDE DEF free
      <3>2. /\ more \in Queue /\ more.token = token
            /\ more.ready = s.ready /\ more.inline = s.inline /\ more.delayed = s.delayed
            /\ more.jobs = s.jobs /\ more.attempts = s.attempts
            /\ more.dlq = s.dlq \union {n} /\ more.completed = s.completed
        BY <1>0, <2>2 DEF Queue
      <3> HIDE DEF more
      <3>3. Listed(more) = Listed(s) /\ Framed(more) = Framed(s) /\ OnceFramed(more)
            /\ IsInjective(more.ready)
        BY <3>2 DEF Listed, Framed, OnceFramed, Sound
      <3>4. ASSUME NEW i \in Ids
            PROVE  Fits(more, i) /\ (Kept(s, more, i) \/ Freed(s, more, i))
        <4>1. Fits(s, i) /\ s.attempts[i] \in Nat /\ s.token[i] \in Nat
          BY <1>0 DEF Sound, Queue
        <4>2. CASE i = n
          BY <1>0, <1>1, <2>1, <2>3, <3>2, <3>3, <4>1, <4>2 DEF Fits, Waits, Stage, Freed
        <4>3. CASE i # n
          BY <1>0, <1>1, <3>2, <3>3, <4>1, <4>3 DEF Fits, Waits, Stage, Kept
        <4> QED
          BY <4>2, <4>3
      <3>5. Sound(more)
        BY <3>2, <3>3, <3>4 DEF Sound
      <3>6. /\ Sound(t)
            /\ \A i \in Ids : Kept(more, t, i) \/ (Dropped(more, t, i) /\ Stage(more, i) = "dead")
        BY <3>1, <3>5, TrimDlqSound
      <3>7. ASSUME NEW i \in Ids
            PROVE  Kept(s, t, i) \/ Dropped(s, t, i) \/ Freed(s, t, i)
        BY <3>4, <3>6 DEF Kept, Dropped, Freed
      <3> QED
        BY <3>6, <3>7
    <2>4. CASE ~(s.attempts[n] >= MaxAttempts)
      <3>1. t = IF delayed THEN [free EXCEPT !.delayed = @ \union {n}] ELSE PushReady(free, n)
        BY <1>0, <1>2, <1>4, <2>4 DEF NackScript
      <3> HIDE DEF free
      <3>2. IsInjective(free.ready) /\ n \notin Listed(free) /\ Listed(free) = Listed(s)
        BY <1>0, <2>1, <2>2 DEF Listed
      <3>3. /\ t \in Queue /\ t.token = token /\ t.inline = s.inline
            /\ t.jobs = s.jobs /\ t.attempts = s.attempts
            /\ t.dlq = s.dlq /\ t.completed = s.completed
            /\ IsInjective(t.ready)
            /\ \/ Listed(t) = Listed(s) /\ t.delayed = s.delayed \union {n}
               \/ Listed(t) = Listed(s) \union {n} /\ t.delayed = s.delayed
        <4>1. CASE delayed
          <5>1. t = [free EXCEPT !.delayed = free.delayed \union {n}]
            BY <2>2, <3>1, <4>1 DEF Queue
          <5>2. /\ t \in Queue /\ t.token = free.token /\ t.inline = free.inline
                /\ t.jobs = free.jobs /\ t.attempts = free.attempts
                /\ t.dlq = free.dlq /\ t.completed = free.completed
                /\ t.ready = free.ready /\ t.delayed = free.delayed \union {n}
            BY <1>0, <2>2, <5>1 DEF Queue
          <5> QED
            BY <2>2, <3>2, <5>2 DEF Listed
        <4>2. CASE ~delayed
          <5>1. t = PushReady(free, n)
            BY <3>1, <4>2
          <5> QED
            BY <1>0, <2>2, <3>2, <5>1, PushEffect
        <4> QED
          BY <4>1, <4>2
      <3>4. Framed(t) = Framed(s) /\ OnceFramed(t)
        BY <3>3 DEF Framed, OnceFramed, Sound
      <3>5. ASSUME NEW i \in Ids
            PROVE  Fits(t, i) /\ (Kept(s, t, i) \/ Freed(s, t, i))
        <4>1. Fits(s, i) /\ s.attempts[i] \in Nat /\ s.token[i] \in Nat
          BY <1>0 DEF Sound, Queue
        <4>2. CASE i = n
          BY <1>0, <1>1, <2>1, <2>4, <3>3, <3>4, <4>1, <4>2 DEF Fits, Waits, Stage, Freed
        <4>3. CASE i # n
          BY <1>0, <1>1, <3>3, <3>4, <4>1, <4>3 DEF Fits, Waits, Stage, Kept
        <4> QED
          BY <4>2, <4>3
      <3> QED
        BY <3>3, <3>4, <3>5 DEF Sound
    <2> QED
      BY <2>3, <2>4
  <1> QED
    BY <1>3, <1>4

(* One request: a job that is not stored is added, any other is left.      *)
LEMMA AdmitSound ==
  ASSUME NEW acc, Sound(acc.s), NEW r \in Request, r.id \notin GeneratedIds
  PROVE  LET t == Admit(acc, r).s
         IN  Sound(t) /\ \A i \in Ids : Kept(acc.s, t, i) \/ (Added(acc.s, t, i) /\ i = r.id)
  <1> DEFINE s == acc.s
             n == r.id
             t == Admit(acc, r).s
             jobs == [s.jobs EXCEPT ![n] = r.body]
             attempts == [s.attempts EXCEPT ![n] = 0]
             dedup == [k \in Keys |-> IF k = r.key THEN n ELSE s.dedup[k]]
             stored == [s EXCEPT !.jobs = jobs, !.attempts = attempts, !.dedup = dedup]
  <1>0. /\ MaxAttempts \in Nat \ {0} /\ s \in Queue /\ n \in Ids /\ r.body \in Bodies
        /\ r.body # None /\ r.delay \in BOOLEAN /\ IsInjective(s.ready) /\ Fits(s, n)
        /\ s.jobs[n] \in Bodies \union {None}
    BY QueueAssumption DEF Sound, Request, Queue
  <1>1. CASE s.jobs[n] # None \/ Duplicate(s, r)
    <2>1. t = s
      BY <1>0, <1>1 DEF Admit
    <2> QED
      BY <2>1 DEF Kept
  <1>2. CASE s.jobs[n] = None /\ ~Duplicate(s, r)
    <2>1. t = Insert(s, r)
      BY <1>0, <1>2 DEF Admit
    <2>2. /\ jobs \in [Ids -> Bodies \union {None}] /\ attempts \in [Ids -> Nat]
          /\ dedup \in [Keys -> Ids \union {None}]
          /\ \A i \in Ids : /\ jobs[i] = IF i = n THEN r.body ELSE s.jobs[i]
                            /\ attempts[i] = IF i = n THEN 0 ELSE s.attempts[i]
      BY <1>0 DEF Queue
    <2>3. Insert(s, r) = IF r.delay THEN [stored EXCEPT !.delayed = @ \union {n}]
                         ELSE PushReady(stored, n)
      BY <1>0 DEF Insert, Queue
    <2> HIDE DEF jobs, attempts, dedup, t
    <2>4. /\ stored \in Queue /\ stored.jobs = jobs /\ stored.attempts = attempts
          /\ stored.ready = s.ready /\ stored.inline = s.inline /\ stored.delayed = s.delayed
          /\ stored.token = s.token /\ stored.dlq = s.dlq /\ stored.completed = s.completed
      BY <1>0, <2>2 DEF Queue
    <2> HIDE DEF stored
    <2>5. /\ n \notin Listed(s) /\ n \notin s.delayed /\ s.token[n] = 0 /\ n \notin s.dlq
          /\ n \notin s.completed /\ n \notin Framed(s)
      BY <1>0, <1>2 DEF Fits, Waits
    <2>6. Listed(stored) = Listed(s) /\ IsInjective(stored.ready)
      BY <1>0, <2>4 DEF Listed
    <2>7. /\ t \in Queue /\ t.jobs = jobs /\ t.attempts = attempts /\ t.inline = s.inline
          /\ t.token = s.token /\ t.dlq = s.dlq /\ t.completed = s.completed
          /\ IsInjective(t.ready)
          /\ \/ Listed(t) = Listed(s) /\ t.delayed = s.delayed \union {n}
             \/ Listed(t) = Listed(s) \union {n} /\ t.delayed = s.delayed
      <3>1. CASE r.delay
        <4>1. t = [stored EXCEPT !.delayed = stored.delayed \union {n}]
          BY <2>1, <2>3, <2>4, <3>1 DEF Queue
        <4>2. /\ t \in Queue /\ t.token = stored.token /\ t.inline = stored.inline
              /\ t.jobs = stored.jobs /\ t.attempts = stored.attempts
              /\ t.dlq = stored.dlq /\ t.completed = stored.completed
              /\ t.ready = stored.ready /\ t.delayed = stored.delayed \union {n}
          BY <1>0, <2>4, <4>1 DEF Queue
        <4> QED
          BY <2>4, <2>6, <4>2 DEF Listed
      <3>2. CASE ~r.delay
        <4>1. t = PushReady(stored, n)
          BY <2>1, <2>3, <3>2
        <4> QED
          BY <1>0, <2>4, <2>5, <2>6, <4>1, PushEffect
      <3> QED
        BY <3>1, <3>2
    <2>8. Framed(t) = Framed(s) /\ OnceFramed(t)
      BY <2>7 DEF Framed, OnceFramed, Sound
    <2>9. ASSUME NEW i \in Ids
          PROVE  Fits(t, i) /\ (Kept(s, t, i) \/ (Added(s, t, i) /\ i = n))
      <3>1. Fits(s, i) /\ s.attempts[i] \in Nat /\ s.token[i] \in Nat
        BY <1>0 DEF Sound, Queue
      <3>2. CASE i = n
        BY <1>0, <1>2, <2>2, <2>5, <2>7, <2>8, <3>1, <3>2 DEF Fits, Waits, Stage, Added
      <3>3. CASE i # n
        BY <1>0, <2>2, <2>7, <2>8, <3>1, <3>3 DEF Fits, Waits, Stage, Kept
      <3> QED
        BY <3>2, <3>3
    <2> QED
      BY <2>7, <2>8, <2>9 DEF Sound, t
  <1> QED
    BY <1>1, <1>2

(* A batch adds jobs that are not stored, none of them a generated one.    *)
LEMMA EnqueueSound ==
  ASSUME NEW s, Sound(s), NEW batch \in Seq(Request), NEW expired \in SUBSET Keys,
         \A k \in DOMAIN batch : batch[k].id \notin GeneratedIds
  PROVE  LET t == EnqueueScript(s, batch, expired)
         IN  /\ Sound(t)
             /\ \A i \in Ids : Kept(s, t, i) \/ (Added(s, t, i) /\ i \notin GeneratedIds)
  <1> DEFINE dedup == [k \in Keys |-> IF k \in expired THEN None ELSE s.dedup[k]]
             clean == [s EXCEPT !.dedup = dedup]
             start == [s |-> clean, conflict |-> FALSE]
             n == Len(batch)
             acc == AdmitLoop(start, batch)
             J(k) == /\ Sound(acc[k].s)
                     /\ \A i \in Ids : \/ Kept(s, acc[k].s, i)
                                       \/ Added(s, acc[k].s, i) /\ i \notin GeneratedIds
             Good == {k \in 0..n : J(k)}
  <1>0. /\ s \in Queue /\ n \in Nat /\ DOMAIN batch = 1..n
        /\ \A k \in 1..n : batch[k] \in Request
    BY DEF Sound
  <1>1. dedup \in [Keys -> Ids \union {None}]
    BY <1>0 DEF Queue
  <1>2. EnqueueScript(s, batch, expired) = IF acc[n].conflict THEN clean ELSE acc[n].s
    BY DEF EnqueueScript
  <1> HIDE DEF dedup
  <1>3. /\ clean \in Queue /\ clean.jobs = s.jobs /\ clean.ready = s.ready
        /\ clean.inline = s.inline /\ clean.delayed = s.delayed /\ clean.token = s.token
        /\ clean.attempts = s.attempts /\ clean.dlq = s.dlq /\ clean.completed = s.completed
    BY <1>0, <1>1 DEF Queue
  <1> HIDE DEF clean
  <1>4. Sound(clean) /\ \A i \in Ids : Kept(s, clean, i)
    <2>1. Listed(clean) = Listed(s) /\ Framed(clean) = Framed(s) /\ OnceFramed(clean)
          /\ IsInjective(clean.ready)
      BY <1>3 DEF Listed, Framed, OnceFramed, Sound
    <2>2. ASSUME NEW i \in Ids PROVE Fits(clean, i) /\ Kept(s, clean, i)
      <3>1. Fits(s, i)
        BY DEF Sound
      <3> QED
        BY <1>3, <2>1, <3>1 DEF Fits, Waits, Stage, Kept
    <2> QED
      BY <1>3, <2>1, <2>2 DEF Sound
  <1>5. start.s = clean
    OBVIOUS
  <1> HIDE DEF start
  <1>6. acc[0] = start /\ \A k \in 1..n : acc[k] = Admit(acc[k - 1], batch[k])
    BY <1>0, AdmitLoopRuns
  <1> HIDE DEF acc
  <1>7. 0 \in Good
    BY <1>0, <1>4, <1>5, <1>6
  <1>8. ASSUME NEW k \in 1..n, k - 1 \in Good
        PROVE  k \in Good
    <2>1. J(k - 1)
      BY <1>8
    <2>2. batch[k] \in Request /\ batch[k].id \notin GeneratedIds
      BY <1>0
    <2>3. /\ Sound(acc[k].s)
          /\ \A i \in Ids : \/ Kept(acc[k - 1].s, acc[k].s, i)
                            \/ Added(acc[k - 1].s, acc[k].s, i) /\ i = batch[k].id
      BY <1>6, <2>1, <2>2, AdmitSound
    <2>4. ASSUME NEW i \in Ids
          PROVE  Kept(s, acc[k].s, i) \/ (Added(s, acc[k].s, i) /\ i \notin GeneratedIds)
      BY <2>1, <2>2, <2>3 DEF Kept, Added
    <2> QED
      BY <2>3, <2>4
  <1>9. n \in Good
    <2> HIDE DEF Good
    <2>1. 0..n \subseteq Good
      BY <1>0, <1>7, <1>8, Rounds
    <2> QED
      BY <1>0, <2>1
  <1>10. J(n)
    BY <1>9
  <1> QED
    BY <1>2, <1>4, <1>10

(* A generated batch is framed: its jobs wait.                             *)
LEMMA GeneratedSound ==
  ASSUME NEW s, Sound(s), NEW c \in Generated,
         \A k \in DOMAIN c : Stage(s, c[k].id) = "absent"
  PROVE  LET t == [s EXCEPT !.inline = @ \o [k \in DOMAIN c |-> <<c[k].id, c[k].body>>]]
         IN  /\ Sound(t)
             /\ \A i \in Ids : IF \E k \in DOMAIN c : c[k].id = i
                               THEN Added(s, t, i) ELSE Kept(s, t, i)
  <1> DEFINE h == [k \in DOMAIN c |-> <<c[k].id, c[k].body>>]
             g == s.inline \o h
             t == [s EXCEPT !.inline = g]
             ids == {c[k].id : k \in DOMAIN c}
  <1>0. /\ s \in Queue /\ c \in Seq(Request) /\ Len(c) \in Nat /\ DOMAIN c = 1..Len(c)
        /\ \A k \in DOMAIN c : c[k] \in Request
        /\ \A j, k \in DOMAIN c : c[j].id = c[k].id => j = k
    BY QueueAssumption DEF Sound, Calls
  <1>1. /\ h \in Seq(Ids \X Bodies)
        /\ DOMAIN h = DOMAIN c
        /\ \A k \in DOMAIN c : h[k][1] = c[k].id
    BY <1>0 DEF Request
  <1> HIDE DEF h
  <1>2. ids \in SUBSET Ids /\ ids \in SUBSET GeneratedIds
    BY <1>0 DEF Request, GeneratedIds
  <1>3. s.inline \in Seq(Ids \X Bodies)
    BY <1>0 DEF Queue
  <1>4. \A i \in ids : Stage(s, i) = "absent"
    OBVIOUS
  <1>5. \A i \in ids : s.jobs[i] = None /\ i \notin Framed(s)
    <2> HIDE DEF ids
    <2> QED
      BY <1>4 DEF Stage
  <1>6. \A j \in DOMAIN s.inline, k \in DOMAIN h : s.inline[j][1] # h[k][1]
    <2> SUFFICES ASSUME NEW j \in DOMAIN s.inline, NEW k \in DOMAIN h, s.inline[j][1] = h[k][1]
                 PROVE  FALSE
      OBVIOUS
    <2>1. h[k][1] \in ids
      BY <1>1
    <2>2. s.inline[j][1] \in Framed(s)
      BY DEF Framed
    <2> HIDE DEF ids
    <2> QED
      BY <1>5, <2>1, <2>2
  <1>7. /\ \A j, k \in DOMAIN s.inline : s.inline[j][1] = s.inline[k][1] => j = k
        /\ \A j, k \in DOMAIN h : h[j][1] = h[k][1] => j = k
    BY <1>0, <1>1 DEF Sound, OnceFramed
  <1>8. /\ g \in Seq(Ids \X Bodies)
        /\ {g[k][1] : k \in DOMAIN g} =
             {s.inline[k][1] : k \in DOMAIN s.inline} \union {h[k][1] : k \in DOMAIN h}
        /\ \A j, k \in DOMAIN g : g[j][1] = g[k][1] => j = k
    BY <1>1, <1>3, <1>6, <1>7, FrameAll
  <1>9. {h[k][1] : k \in DOMAIN h} = ids
    BY <1>1
  <1> HIDE DEF g, ids
  <1>10. /\ t \in Queue /\ t.inline = g /\ t.jobs = s.jobs /\ t.ready = s.ready
         /\ t.delayed = s.delayed /\ t.token = s.token
         /\ t.attempts = s.attempts /\ t.dlq = s.dlq /\ t.completed = s.completed
    BY <1>0, <1>8 DEF Queue
  <1> HIDE DEF t
  <1>11. Listed(t) = Listed(s) /\ OnceFramed(t) /\ IsInjective(t.ready)
    BY <1>8, <1>10 DEF Listed, OnceFramed, Sound
  <1>12. Framed(t) = Framed(s) \union ids
    <2>1. Framed(t) = {g[k][1] : k \in DOMAIN g}
      BY <1>10 DEF Framed
    <2> QED
      BY <1>8, <1>9, <2>1 DEF Framed
  <1>13. ASSUME NEW i \in Ids
         PROVE  Fits(t, i) /\ IF i \in ids THEN Added(s, t, i) ELSE Kept(s, t, i)
    <2>1. Fits(s, i) /\ s.attempts[i] \in Nat /\ s.token[i] \in Nat
      BY <1>0 DEF Sound, Queue
    <2>2. CASE i \in ids
      BY <1>2, <1>4, <1>5, <1>10, <1>11, <1>12, <2>1, <2>2 DEF Fits, Waits, Stage, Added
    <2>3. CASE i \notin ids
      BY <1>10, <1>11, <1>12, <2>1, <2>3 DEF Fits, Waits, Stage, Kept
    <2> QED
      BY <2>2, <2>3
  <1>14. \A i \in Ids : (\E k \in DOMAIN c : c[k].id = i) <=> i \in ids
    BY DEF ids
  <1>15. t = [s EXCEPT !.inline = @ \o h]
    BY <1>0 DEF t, g, Queue
  <1> QED
    BY <1>10, <1>11, <1>13, <1>14, <1>15 DEF Sound, h

(* A replay revives dead letters.                                          *)
LEMMA ReplaySound ==
  ASSUME NEW s, Sound(s), NEW ids \in SUBSET s.dlq
  PROVE  LET kept == {i \in ids : s.jobs[i] # None}
             t == PushAllReady([s EXCEPT !.dlq = @ \ ids,
                                         !.attempts = [i \in Ids |-> IF i \in ids THEN 0 ELSE @[i]]],
                               kept)
         IN  Sound(t) /\ \A i \in Ids : Kept(s, t, i) \/ Revived(s, t, i)
  <1> DEFINE kept == {i \in ids : s.jobs[i] # None}
             attempts == [i \in Ids |-> IF i \in ids THEN 0 ELSE s.attempts[i]]
             u == [s EXCEPT !.dlq = s.dlq \ ids, !.attempts = attempts]
             t == PushAllReady(u, kept)
  <1>0. MaxAttempts \in Nat \ {0} /\ s \in Queue /\ ids \in SUBSET Ids
    BY QueueAssumption DEF Sound, Queue
  <1>1. \A i \in ids : /\ s.jobs[i] # None /\ i \notin Listed(s) /\ i \notin s.delayed
                       /\ s.token[i] = 0 /\ i \notin s.completed /\ i \notin Framed(s)
    BY <1>0 DEF Sound, Fits, Waits
  <1>2. kept = ids
    BY <1>1
  <1>3. attempts \in [Ids -> Nat] /\ \A i \in Ids : attempts[i] = IF i \in ids THEN 0 ELSE s.attempts[i]
    BY <1>0 DEF Queue
  <1>4. u = [s EXCEPT !.dlq = @ \ ids,
                      !.attempts = [i \in Ids |-> IF i \in ids THEN 0 ELSE @[i]]]
    BY <1>0 DEF Queue
  <1> HIDE DEF attempts
  <1>5. /\ u \in Queue /\ u.attempts = attempts /\ u.dlq = s.dlq \ ids
        /\ u.jobs = s.jobs /\ u.ready = s.ready /\ u.inline = s.inline
        /\ u.delayed = s.delayed /\ u.token = s.token /\ u.completed = s.completed
    BY <1>0, <1>3 DEF Queue
  <1> HIDE DEF u, kept
  <1>6. IsInjective(u.ready) /\ Listed(u) = Listed(s) /\ ids \intersect Listed(u) = {}
    BY <1>1, <1>5 DEF Sound, Listed
  <1>7. /\ t \in Queue
        /\ IsInjective(t.ready)
        /\ Listed(t) = Listed(u) \union ids
        /\ t.jobs = u.jobs /\ t.inline = u.inline /\ t.delayed = u.delayed
        /\ t.token = u.token /\ t.attempts = u.attempts /\ t.dlq = u.dlq
        /\ t.completed = u.completed
    BY <1>0, <1>2, <1>5, <1>6, PushAllEffect
  <1> HIDE DEF t
  <1>8. Framed(t) = Framed(s) /\ OnceFramed(t)
    BY <1>5, <1>7 DEF Framed, OnceFramed, Sound
  <1>9. ASSUME NEW i \in Ids
        PROVE  Fits(t, i) /\ (Kept(s, t, i) \/ Revived(s, t, i))
    <2>1. Fits(s, i) /\ s.attempts[i] \in Nat /\ s.token[i] \in Nat
      BY <1>0 DEF Sound, Queue
    <2>2. CASE i \in ids
      BY <1>0, <1>1, <1>3, <1>5, <1>6, <1>7, <1>8, <2>1, <2>2 DEF Fits, Waits, Stage, Revived
    <2>3. CASE i \notin ids
      BY <1>0, <1>3, <1>5, <1>6, <1>7, <1>8, <2>1, <2>3 DEF Fits, Waits, Stage, Kept
    <2> QED
      BY <2>2, <2>3
  <1> QED
    BY <1>4, <1>7, <1>8, <1>9 DEF Sound, t, kept

-----------------------------------------------------------------------------
(* The invariant.                                                          *)

Typed ==
  /\ left \in [Calls -> 0..EnqueueAttempts]
  /\ held \in SUBSET Delivery /\ IsFiniteSet(held)
  /\ leases \in [Nodes -> [Ids -> Nat]]
  /\ replays \in 0..MaxReplays
  /\ faults \in 0..MaxFaults

(* A generated batch that was not sent has ids nobody has seen.            *)
Unseen == \A c \in Generated : left[c] > 0 => \A k \in DOMAIN c : Stage(q, c[k].id) = "absent"

(* A token stands for one delivery.                                        *)
HeldOnce == \A d, e \in held : d.id = e.id /\ d.token = e.token => d = e

(* While a delivery waits in the prefetch loop its node holds no other     *)
(* current delivery of the job.                                            *)
Newest ==
  \A d, e \in held :
    d.st = "received" /\ e.node = d.node /\ e.id = d.id /\ e.token = q.token[d.id] => e = d

Inv == /\ Sound(q) /\ Typed /\ Unseen
       /\ HeldOnce /\ Newest /\ DeliveriesRenewed /\ NoOrphanLease

(* Some delivery under the current token was processed.                    *)
Processed(s, h, i) == \E d \in h : d.id = i /\ d.token = s.token[i] /\ d.st = "ok"

(* What a step may do to a job.                                            *)
Step(i) ==
  \/ Kept(q, q', i)
  \/ Added(q, q', i)
  \/ Leased(q, q', i) /\ ~Processed(q', held', i)
  \/ Freed(q, q', i)
  \/ Finished(q, q', i) /\ Processed(q, held, i)
  \/ Dropped(q, q', i)
  \/ Revived(q, q', i)

(* A claim's token is a positive number nobody uses for the job.           *)
LEMMA FreshTokens ==
  ASSUME Sound(q), Typed, NEW i \in Ids
  PROVE  /\ FreshToken(i) \in Nat \ {0}
         /\ FreshToken(i) # q.token[i]
         /\ \A d \in held : d.id = i => d.token # FreshToken(i)
  <1> DEFINE H == {e \in held : e.id = i}
             A == {d.token : d \in H}
             B == {leases[n][i] : n \in Nodes}
             f == [d \in H |-> d.token]
             g == [n \in Nodes |-> leases[n][i]]
             used == {q.token[i]} \union A \union B
             free == (1..(Cardinality(used) + 1)) \ used
  <1>1. f \in [H -> A] /\ \A y \in A : \E d \in H : f[d] = y
    OBVIOUS
  <1>2. g \in [Nodes -> B] /\ \A y \in B : \E n \in Nodes : g[n] = y
    OBVIOUS
  <1>3. IsFiniteSet(H)
    <2>1. H \in SUBSET held /\ IsFiniteSet(held)
      BY DEF Typed
    <2> HIDE DEF H
    <2> QED
      BY <2>1, FS_Subset
  <1> HIDE DEF A, B, f, g, H
  <1>4. IsFiniteSet(A) /\ IsFiniteSet(B)
    BY <1>1, <1>2, <1>3, FiniteOnto, QueueAssumption
  <1>5. IsFiniteSet({q.token[i]} \union A)
    BY <1>4, FS_Singleton, FS_Union
  <1>6. IsFiniteSet(used)
    BY <1>4, <1>5, FS_Union
  <1>7. FreshToken(i) = Min(free)
    BY DEF FreshToken, A, B, H
  <1>8. \A d \in held : d.id = i => d.token \in used
    BY DEF A, H
  <1>9. q.token[i] \in used
    OBVIOUS
  <1> HIDE DEF used
  <1>10. free # {}
    BY <1>6, FreeNumber
  <1>11. free \in SUBSET Nat
    OBVIOUS
  <1> HIDE DEF free
  <1>12. Min(free) \in free
    BY <1>10, <1>11, Least DEF Min
  <1>13. FreshToken(i) \in 1..(Cardinality(used) + 1) /\ FreshToken(i) \notin used
    BY <1>7, <1>12 DEF free
  <1>14. Cardinality(used) \in Nat
    BY <1>6, FS_CardinalityType
  <1> HIDE DEF FreshToken
  <1> QED
    BY <1>8, <1>9, <1>13, <1>14

(* CLAIM: it leases the jobs it claims under new tokens, and frees and     *)
(* drops others.                                                           *)
LEMMA ClaimEffect ==
  ASSUME Sound(q), Typed, NEW n \in Nodes, Claim(n)
  PROVE  /\ Sound(q')
         /\ Held(n, "received") = {}
         /\ UNCHANGED <<left, leases, replays>>
         /\ faults' \in 0..MaxFaults
         /\ \E claimed \in SUBSET Ids, got \in SUBSET Ids :
              /\ got \subseteq claimed
              /\ held' = held \union {[node |-> n, id |-> i, token |-> FreshToken(i),
                                       st |-> "received"] : i \in got}
              /\ \A i \in Ids : IF i \in claimed THEN Leased(q, q', i)
                                ELSE Kept(q, q', i) \/ Freed(q, q', i) \/ Dropped(q, q', i)
  <1>1. PICK expired \in SUBSET Active(q), due \in SUBSET q.delayed, answered \in BOOLEAN :
          ClaimWith(n, expired, due, answered)
    BY DEF Claim
  <1> DEFINE m == Maintain(q, expired, due)
             limit == Prefetch - Cardinality(Held(n, "queued"))
             out == PopAll(m, limit)
             o == out.s
             got == IF answered THEN out.claimed ELSE {}
  <1>2. /\ Held(n, "received") = {}
        /\ Cardinality(Held(n, "queued")) < Prefetch
        /\ q' \in TrimDlq(o)
        /\ held' = held \union {[node |-> n, id |-> i, token |-> o.token[i], st |-> "received"]
                                  : i \in got}
        /\ Fault(~answered)
        /\ UNCHANGED <<left, leases, replays>>
    BY <1>1 DEF ClaimWith
  <1>3. limit \in Nat
    <2>1. Held(n, "queued") \in SUBSET held /\ IsFiniteSet(held)
      BY DEF Held, Typed
    <2>2. Cardinality(Held(n, "queued")) \in Nat
      <3>1. IsFiniteSet(Held(n, "queued"))
        BY <2>1, FS_Subset
      <3> QED
        BY <3>1, FS_CardinalityType
    <2> QED
      BY <1>2, <2>2, QueueAssumption
  <1>4. Sound(m) /\ \A i \in Ids : Kept(q, m, i) \/ Freed(q, m, i)
    BY MaintainSound
  <1> HIDE DEF m, limit
  <1>5. \A i \in Ids : FreshToken(i) \in Nat \ {0}
    BY FreshTokens
  <1>6. /\ Sound(o)
        /\ out.claimed \in SUBSET Ids
        /\ \A i \in Ids : IF i \in out.claimed THEN Leased(m, o, i) ELSE Kept(m, o, i)
    BY <1>3, <1>4, <1>5, PopAllSound
  <1> HIDE DEF out
  <1>7. /\ Sound(q')
        /\ \A i \in Ids : Kept(o, q', i) \/ (Dropped(o, q', i) /\ Stage(o, i) = "dead")
    BY <1>2, <1>6, TrimDlqSound
  <1> HIDE DEF FreshToken
  <1>8. \A i \in out.claimed : o.token[i] = FreshToken(i)
    BY <1>6 DEF Leased
  <1>9. got \in SUBSET Ids /\ got \subseteq out.claimed
    BY <1>6
  <1>10. held' = held \union {[node |-> n, id |-> i, token |-> FreshToken(i), st |-> "received"]
                                : i \in got}
    <2> HIDE DEF got
    <2> QED
      BY <1>2, <1>8, <1>9
  <1>11. ASSUME NEW i \in Ids
         PROVE  IF i \in out.claimed THEN Leased(q, q', i)
                ELSE Kept(q, q', i) \/ Freed(q, q', i) \/ Dropped(q, q', i)
    <2>1. CASE i \in out.claimed
      <3>1. Leased(m, o, i)
        BY <1>6, <2>1
      <3>2. Leased(q, o, i)
        BY <1>4, <3>1 DEF Leased, Kept, Freed
      <3>3. Kept(o, q', i)
        BY <1>7, <3>1 DEF Leased
      <3>4. Leased(q, q', i)
        BY <3>2, <3>3 DEF Leased, Kept
      <3> QED
        BY <2>1, <3>4
    <2>2. CASE i \notin out.claimed
      <3>1. Kept(m, o, i)
        BY <1>6, <2>2
      <3>2. Kept(q, o, i) \/ Freed(q, o, i)
        BY <1>4, <3>1 DEF Kept, Freed
      <3>3. Kept(q, q', i) \/ Freed(q, q', i) \/ Dropped(q, q', i)
        BY <1>7, <3>2 DEF Kept, Freed, Dropped
      <3> QED
        BY <2>2, <3>3
    <2> QED
      BY <2>1, <2>2
  <1>12. faults' \in 0..MaxFaults
    BY <1>2, QueueAssumption DEF Fault, Typed
  <1> HIDE DEF got
  <1> QED
    BY <1>2, <1>6, <1>7, <1>9, <1>10, <1>11, <1>12

(* An acknowledged batch, the maintenance pass included.                   *)
LEMMA SettleEffect ==
  ASSUME Sound(q), Typed, NEW ds \in SUBSET held, NEW s \in AckScript(q, ds),
         \/ q' = s
         \/ \E expired \in SUBSET Active(s), due \in SUBSET s.delayed :
              q' \in TrimDlq(Maintain(s, expired, due))
  PROVE  /\ Sound(q')
         /\ \A i \in Ids : \/ Kept(q, q', i) \/ Dropped(q, q', i) \/ Freed(q, q', i)
                           \/ /\ Finished(q, q', i)
                              /\ \E d \in ds : d.id = i /\ d.token = q.token[i]
  <1>0. ds \in SUBSET Delivery
    BY DEF Typed
  <1>1. /\ Sound(s)
        /\ \A i \in Ids : \/ Kept(q, s, i)
                          \/ Dropped(q, s, i)
                          \/ /\ Finished(q, s, i)
                             /\ \E d \in ds : d.id = i /\ d.token = q.token[i]
    BY <1>0, AckSound
  <1>2. CASE q' = s
    BY <1>1, <1>2
  <1>3. ASSUME NEW expired \in SUBSET Active(s), NEW due \in SUBSET s.delayed,
               q' \in TrimDlq(Maintain(s, expired, due))
        PROVE  /\ Sound(q')
               /\ \A i \in Ids : \/ Kept(q, q', i) \/ Dropped(q, q', i) \/ Freed(q, q', i)
                                 \/ /\ Finished(q, q', i)
                                    /\ \E d \in ds : d.id = i /\ d.token = q.token[i]
    <2> DEFINE m == Maintain(s, expired, due)
               By(i) == \E d \in ds : d.id = i /\ d.token = q.token[i]
    <2>1. Sound(m) /\ \A i \in Ids : Kept(s, m, i) \/ Freed(s, m, i)
      BY <1>1, MaintainSound
    <2>2. q' \in TrimDlq(m)
      BY <1>3
    <2> HIDE DEF m
    <2>3. /\ Sound(q')
          /\ \A i \in Ids : Kept(m, q', i) \/ (Dropped(m, q', i) /\ Stage(m, i) = "dead")
      BY <2>1, <2>2, TrimDlqSound
    <2>4. ASSUME NEW i \in Ids
          PROVE  \/ Kept(q, q', i) \/ Dropped(q, q', i) \/ Freed(q, q', i)
                 \/ Finished(q, q', i) /\ By(i)
      <3>1. Kept(q, s, i) \/ Dropped(q, s, i) \/ (Finished(q, s, i) /\ By(i))
        BY <1>1
      <3> HIDE DEF By
      <3>2. \/ Kept(q, m, i) \/ Dropped(q, m, i) \/ (Finished(q, m, i) /\ By(i))
            \/ Freed(q, m, i)
        BY <2>1, <3>1 DEF Kept, Dropped, Finished, Freed
      <3> QED
        BY <2>3, <3>2 DEF Kept, Dropped, Finished, Freed
    <2> QED
      BY <2>3, <2>4
  <1> QED
    BY <1>2, <1>3

(* The deliveries after a step that marks those in ds.                     *)
Corresponds(d, e, ds, st) == /\ d.node = e.node /\ d.id = e.id /\ d.token = e.token
                             /\ IF e \in ds THEN d.st = st ELSE d = e

HeldMarked(ds, st) ==
  /\ held' \in SUBSET Delivery /\ IsFiniteSet(held')
  /\ \A d \in held' : \E e \in held : Corresponds(d, e, ds, st)
  /\ \A e \in held : \E d \in held' : Corresponds(d, e, ds, st)

(* What the deliveries are after some of them change their mark.           *)
LEMMA MarkedHeld ==
  ASSUME Typed, NEW ds \in SUBSET held, NEW st \in {"queued", "ok", "settled"},
         held' = (held \ ds) \union Marked(ds, st)
  PROVE  HeldMarked(ds, st)
  <1> DEFINE M == Marked(ds, st)
             f == [d \in ds |-> [d EXCEPT !.st = st]]
  <1>1. held \in SUBSET Delivery /\ IsFiniteSet(held)
    BY DEF Typed
  <1>2. \A d \in ds : /\ f[d] \in M /\ f[d] \in Delivery
                      /\ f[d].node = d.node /\ f[d].id = d.id /\ f[d].token = d.token
                      /\ f[d].st = st
    BY <1>1 DEF Delivery, Marked
  <1>3. f \in [ds -> M] /\ \A y \in M : \E d \in ds : f[d] = y
    BY DEF Marked
  <1> HIDE DEF M, f
  <1>4. IsFiniteSet(ds) /\ IsFiniteSet(held \ ds)
    BY <1>1, FS_Subset, FS_Difference
  <1>5. IsFiniteSet(M)
    BY <1>3, <1>4, FiniteOnto
  <1>6. held' = (held \ ds) \union M
    BY DEF M
  <1>7. IsFiniteSet(held')
    BY <1>4, <1>5, <1>6, FS_Union
  <1>8. held' \in SUBSET Delivery
    BY <1>1, <1>2, <1>3, <1>6
  <1>9. \A d \in held' : \E e \in held : Corresponds(d, e, ds, st)
    <2> SUFFICES ASSUME NEW d \in held' PROVE \E e \in held : Corresponds(d, e, ds, st)
      OBVIOUS
    <2>1. CASE d \in held \ ds
      BY <2>1 DEF Corresponds
    <2>2. CASE d \in M
      BY <1>2, <1>3, <2>2 DEF Corresponds
    <2> QED
      BY <1>6, <2>1, <2>2
  <1>10. \A e \in held : \E d \in held' : Corresponds(d, e, ds, st)
    <2> SUFFICES ASSUME NEW e \in held PROVE \E d \in held' : Corresponds(d, e, ds, st)
      OBVIOUS
    <2>1. CASE e \in ds
      BY <1>2, <1>6, <2>1 DEF Corresponds
    <2>2. CASE e \notin ds
      BY <1>6, <2>2 DEF Corresponds
    <2> QED
      BY <2>1, <2>2
  <1> QED
    BY <1>7, <1>8, <1>9, <1>10 DEF HeldMarked

(* A step that frees or keeps tokens and marks deliveries keeps what the   *)
(* deliveries and the registries agree on.                                 *)
LEMMA MarkedKeeps ==
  ASSUME Inv, NEW ds \in SUBSET held, NEW st \in {"ok", "settled"},
         \A d \in ds : d.st # "received",
         held' = (held \ ds) \union Marked(ds, st),
         \A i \in Ids : q'.token[i] = q.token[i] \/ q'.token[i] = 0,
         leases' = leases
  PROVE  /\ held' \in SUBSET Delivery /\ IsFiniteSet(held')
         /\ HeldOnce' /\ Newest' /\ DeliveriesRenewed' /\ NoOrphanLease'
  <1>1. /\ held' \in SUBSET Delivery /\ IsFiniteSet(held')
        /\ \A d \in held' : \E e \in held : Corresponds(d, e, ds, st)
        /\ \A e \in held : \E d \in held' : Corresponds(d, e, ds, st)
    BY MarkedHeld DEF HeldMarked, Inv
  <1>2. \A d \in held' : d.id \in Ids /\ d.token # 0 /\ d.token \in Nat
    BY <1>1 DEF Delivery
  <1>3. HeldOnce'
    <2> SUFFICES ASSUME NEW d \in held', NEW e \in held', d.id = e.id, d.token = e.token
                 PROVE  d = e
      BY DEF HeldOnce
    <2>1. PICK d0 \in held : Corresponds(d, d0, ds, st)
      BY <1>1
    <2>2. PICK e0 \in held : Corresponds(e, e0, ds, st)
      BY <1>1
    <2>3. d0 = e0
      BY <2>1, <2>2 DEF Inv, HeldOnce, Corresponds
    <2> QED
      BY <1>1, <2>1, <2>2, <2>3 DEF Delivery, Corresponds
  <1>4. Newest'
    <2> SUFFICES ASSUME NEW d \in held', NEW e \in held', d.st = "received", e.node = d.node,
                        e.id = d.id, e.token = q'.token[d.id]
                 PROVE  e = d
      BY DEF Newest
    <2>1. PICK d0 \in held : Corresponds(d, d0, ds, st)
      BY <1>1
    <2>2. PICK e0 \in held : Corresponds(e, e0, ds, st)
      BY <1>1
    <2>3. d = d0
      BY <2>1 DEF Corresponds
    <2>4. q'.token[d.id] = q.token[d.id]
      BY <1>2
    <2>5. e0 = d0
      BY <2>1, <2>2, <2>3, <2>4 DEF Inv, Newest, Corresponds
    <2> QED
      BY <2>2, <2>3, <2>5 DEF Corresponds
  <1>5. DeliveriesRenewed'
    <2> SUFFICES ASSUME NEW d \in held', d.st # "received", d.token = q'.token[d.id]
                 PROVE  leases[d.node][d.id] = d.token
      BY DEF DeliveriesRenewed
    <2>1. PICK e \in held : Corresponds(d, e, ds, st)
      BY <1>1
    <2>2. e.st # "received" /\ e.token = q.token[e.id]
      BY <1>2, <2>1 DEF Corresponds
    <2> QED
      BY <2>1, <2>2 DEF Inv, DeliveriesRenewed, Corresponds
  <1>6. NoOrphanLease'
    <2> SUFFICES ASSUME NEW n \in Nodes, NEW i \in Ids, leases[n][i] # 0
                 PROVE  \E d \in held' : /\ d.node = n /\ d.id = i /\ d.token = leases[n][i]
                                         /\ d.st # "received"
      BY DEF NoOrphanLease
    <2>1. PICK e \in held : /\ e.node = n /\ e.id = i /\ e.token = leases[n][i]
                            /\ e.st # "received"
      BY DEF Inv, NoOrphanLease
    <2>2. PICK d \in held' : Corresponds(d, e, ds, st)
      BY <1>1
    <2> QED
      BY <2>1, <2>2 DEF Corresponds
  <1> QED
    BY <1>1, <1>3, <1>4, <1>5, <1>6

(* A step that leaves the deliveries and the registries alone.             *)
LEMMA SameHeld ==
  ASSUME Inv, held' = held, leases' = leases,
         \A i \in Ids : q'.token[i] = q.token[i] \/ q'.token[i] = 0
  PROVE  /\ held' \in SUBSET Delivery /\ IsFiniteSet(held')
         /\ HeldOnce' /\ Newest' /\ DeliveriesRenewed' /\ NoOrphanLease'
  <1>1. /\ held \in SUBSET Delivery /\ IsFiniteSet(held)
        /\ HeldOnce /\ Newest /\ DeliveriesRenewed /\ NoOrphanLease
    BY DEF Inv, Typed
  <1>2. \A d \in held : d.id \in Ids /\ d.token # 0
    BY <1>1 DEF Delivery
  <1>3. HeldOnce'
    BY <1>1 DEF HeldOnce
  <1>4. Newest'
    BY <1>1, <1>2 DEF Newest
  <1>5. DeliveriesRenewed'
    BY <1>1, <1>2 DEF DeliveriesRenewed
  <1>6. NoOrphanLease'
    BY <1>1 DEF NoOrphanLease
  <1> QED
    BY <1>1, <1>3, <1>4, <1>5, <1>6

(* Ids nobody has seen stay unseen unless they are sent.                   *)
LEMMA StillUnseen ==
  ASSUME Inv, \A i \in Ids : Step(i),
         \A i \in Ids : Added(q, q', i) => i \notin GeneratedIds,
         \A c \in Generated : left'[c] > 0 => left[c] > 0
  PROVE  Unseen'
  <1> SUFFICES ASSUME NEW c \in Generated, left'[c] > 0, NEW k \in DOMAIN c
               PROVE  Stage(q', c[k].id) = "absent"
    BY DEF Unseen
  <1>1. c[k].id \in Ids
    <2>1. c \in Seq(Request)
      BY QueueAssumption DEF Calls
    <2>2. c[k] \in Request
      BY <2>1
    <2> QED
      BY <2>2 DEF Request
  <1>2. c[k].id \in GeneratedIds
    BY DEF GeneratedIds
  <1>3. Stage(q, c[k].id) = "absent"
    BY DEF Inv, Unseen
  <1>4. Kept(q, q', c[k].id)
    BY <1>1, <1>2, <1>3 DEF Step, Leased, Freed, Finished, Dropped, Revived
  <1> QED
    BY <1>3, <1>4 DEF Kept

(* Producers.                                                              *)
LEMMA EnqueueKeeps ==
  ASSUME Inv, NEW c \in Batches, Enqueue(c)
  PROVE  Inv' /\ \A i \in Ids : Step(i)
  <1>1. /\ Sound(q')
        /\ \A i \in Ids : Kept(q, q', i) \/ (Added(q, q', i) /\ i \notin GeneratedIds)
    <2>1. PICK ran \in BOOLEAN, expired \in SUBSET Keys :
            q' = IF ran THEN EnqueueScript(q, c, expired) ELSE q
      BY DEF Enqueue
    <2>2. CASE ~ran
      <3>1. q' = q
        BY <2>1, <2>2
      <3> QED
        BY <3>1 DEF Kept, Inv
    <2>3. CASE ran
      <3>1. q' = EnqueueScript(q, c, expired)
        BY <2>1, <2>3
      <3>2. c \in Seq(Request)
        BY QueueAssumption DEF Calls
      <3>3. \A k \in DOMAIN c : c[k].id \notin GeneratedIds
        BY QueueAssumption DEF Calls, GeneratedIds
      <3> QED
        BY <3>1, <3>2, <3>3, EnqueueSound DEF Inv
    <2> QED
      BY <2>2, <2>3
  <1>2. \A i \in Ids : Step(i)
    BY <1>1 DEF Step
  <1>3. \A i \in Ids : q'.token[i] = q.token[i] \/ q'.token[i] = 0
    BY <1>1 DEF Kept, Added
  <1>4. UNCHANGED <<held, leases, replays, faults>>
    BY DEF Enqueue
  <1>5. /\ left' \in [Calls -> 0..EnqueueAttempts]
        /\ \A g \in Generated : left'[g] = left[g]
    <2>1. PICK answered \in BOOLEAN : Spent(c, answered)
      BY DEF Enqueue
    <2>2. left \in [Calls -> 0..EnqueueAttempts] /\ c \in Calls /\ left[c] > 0 /\ c \notin Generated
      BY QueueAssumption DEF Inv, Typed, Calls, Enqueue
    <2>3. (IF answered THEN 0 ELSE left[c] - 1) \in 0..EnqueueAttempts
      BY <2>2, QueueAssumption
    <2> QED
      BY <2>1, <2>2, <2>3 DEF Spent, Calls
  <1>6. /\ held' \in SUBSET Delivery /\ IsFiniteSet(held')
        /\ HeldOnce' /\ Newest' /\ DeliveriesRenewed' /\ NoOrphanLease'
    BY <1>3, <1>4, SameHeld
  <1>7. Unseen'
    <2>1. \A i \in Ids : Added(q, q', i) => i \notin GeneratedIds
      BY <1>1 DEF Kept, Added
    <2> QED
      BY <1>2, <1>5, <2>1, StillUnseen
  <1>8. Typed'
    BY <1>4, <1>5, <1>6 DEF Inv, Typed
  <1> QED
    BY <1>1, <1>2, <1>6, <1>7, <1>8 DEF Inv

(* A generated batch.                                                      *)
LEMMA GeneratedKeeps ==
  ASSUME Inv, NEW c \in Generated, EnqueueGenerated(c)
  PROVE  Inv' /\ \A i \in Ids : Step(i)
  <1> DEFINE ids == {c[k].id : k \in DOMAIN c}
  <1>1. Sound(q') /\ \A i \in Ids : Kept(q, q', i) \/ (Added(q, q', i) /\ i \in ids)
    <2>1. PICK ran \in BOOLEAN :
            q' = IF ran
                 THEN [q EXCEPT !.inline = @ \o [k \in DOMAIN c |-> <<c[k].id, c[k].body>>]]
                 ELSE q
      BY DEF EnqueueGenerated
    <2>2. CASE ~ran
      <3>1. q' = q
        BY <2>1, <2>2
      <3> QED
        BY <3>1 DEF Kept, Inv
    <2>3. CASE ran
      <3>1. q' = [q EXCEPT !.inline = @ \o [k \in DOMAIN c |-> <<c[k].id, c[k].body>>]]
        BY <2>1, <2>3
      <3>2. \A k \in DOMAIN c : Stage(q, c[k].id) = "absent"
        BY DEF Inv, Unseen, EnqueueGenerated
      <3>3. /\ Sound(q')
            /\ \A i \in Ids : IF \E k \in DOMAIN c : c[k].id = i
                              THEN Added(q, q', i) ELSE Kept(q, q', i)
        BY <3>1, <3>2, GeneratedSound DEF Inv
      <3> QED
        BY <3>3
    <2> QED
      BY <2>2, <2>3
  <1>2. \A i \in Ids : Step(i)
    BY <1>1 DEF Step
  <1>3. \A i \in Ids : q'.token[i] = q.token[i] \/ q'.token[i] = 0
    BY <1>1 DEF Kept, Added
  <1>4. UNCHANGED <<held, leases, replays, faults>>
    BY DEF EnqueueGenerated
  <1>5. /\ left' \in [Calls -> 0..EnqueueAttempts]
        /\ left'[c] = 0
        /\ \A g \in Generated : g # c => left'[g] = left[g]
    <2>1. Spent(c, TRUE)
      BY DEF EnqueueGenerated
    <2>2. left \in [Calls -> 0..EnqueueAttempts] /\ c \in Calls /\ 0 \in 0..EnqueueAttempts
      BY QueueAssumption DEF Inv, Typed, Calls
    <2> QED
      BY <2>1, <2>2 DEF Spent, Calls
  <1>6. /\ held' \in SUBSET Delivery /\ IsFiniteSet(held')
        /\ HeldOnce' /\ Newest' /\ DeliveriesRenewed' /\ NoOrphanLease'
    BY <1>3, <1>4, SameHeld
  <1>7. Unseen'
    <2> SUFFICES ASSUME NEW g \in Generated, left'[g] > 0, NEW k \in DOMAIN g
                 PROVE  Stage(q', g[k].id) = "absent"
      BY DEF Unseen
    <2>1. g # c /\ left[g] > 0
      BY <1>5
    <2>2. g[k].id \in Ids
      <3>1. g \in Seq(Request)
        BY QueueAssumption DEF Calls
      <3>2. g[k] \in Request
        BY <3>1
      <3> QED
        BY <3>2 DEF Request
    <2>3. Stage(q, g[k].id) = "absent"
      BY <2>1 DEF Inv, Unseen
    <2>4. g[k].id \notin ids
      BY <2>1, QueueAssumption DEF Calls
    <2>5. Kept(q, q', g[k].id)
      BY <1>1, <2>2, <2>4
    <2> QED
      BY <2>3, <2>5 DEF Kept
  <1>8. Typed'
    BY <1>4, <1>5, <1>6 DEF Inv, Typed
  <1> QED
    BY <1>1, <1>2, <1>6, <1>7, <1>8 DEF Inv

(* A claim.                                                                *)
LEMMA ClaimKeeps ==
  ASSUME Inv, NEW n \in Nodes, Claim(n)
  PROVE  Inv' /\ \A i \in Ids : Step(i)
  <1>0. Sound(q) /\ Typed
    BY DEF Inv
  <1>1. /\ Sound(q')
        /\ Held(n, "received") = {}
        /\ UNCHANGED <<left, leases, replays>>
        /\ faults' \in 0..MaxFaults
        /\ \E claimed \in SUBSET Ids, got \in SUBSET Ids :
             /\ got \subseteq claimed
             /\ held' = held \union {[node |-> n, id |-> i, token |-> FreshToken(i),
                                      st |-> "received"] : i \in got}
             /\ \A i \in Ids : IF i \in claimed THEN Leased(q, q', i)
                               ELSE Kept(q, q', i) \/ Freed(q, q', i) \/ Dropped(q, q', i)
    BY <1>0, ClaimEffect
  <1>2. PICK claimed \in SUBSET Ids, got \in SUBSET Ids :
             /\ got \subseteq claimed
             /\ held' = held \union {[node |-> n, id |-> i, token |-> FreshToken(i),
                                      st |-> "received"] : i \in got}
             /\ \A i \in Ids : IF i \in claimed THEN Leased(q, q', i)
                               ELSE Kept(q, q', i) \/ Freed(q, q', i) \/ Dropped(q, q', i)
    BY <1>1
  <1>3. /\ \A i \in Ids : FreshToken(i) \in Nat \ {0}
        /\ \A d \in held : d.token # FreshToken(d.id)
    <2>1. \A d \in held : d.id \in Ids
      BY <1>0 DEF Typed, Delivery
    <2> HIDE DEF FreshToken
    <2> QED
      BY <1>0, <2>1, FreshTokens
  <1> DEFINE f == [i \in got |-> [node |-> n, id |-> i, token |-> FreshToken(i), st |-> "received"]]
             New == {[node |-> n, id |-> i, token |-> FreshToken(i), st |-> "received"] : i \in got}
  <1> HIDE DEF FreshToken
  <1>4. /\ \A d \in New : /\ d \in Delivery /\ d.node = n /\ d.id \in got
                          /\ d.token = FreshToken(d.id) /\ d.st = "received"
        /\ \A d, e \in New : d.id = e.id => d = e
    BY <1>3 DEF Delivery
  <1>5. f \in [got -> New] /\ \A y \in New : \E i \in got : f[i] = y
    OBVIOUS
  <1>6. held' = held \union New
    BY <1>2
  <1> HIDE DEF New, f
  <1>7. IsFiniteSet(New)
    <2>1. IsFiniteSet(got)
      BY QueueAssumption, FS_Subset
    <2> QED
      BY <1>5, <2>1, FiniteOnto
  <1>8. held' \in SUBSET Delivery /\ IsFiniteSet(held')
    BY <1>0, <1>4, <1>6, <1>7, FS_Union DEF Typed
  <1>9. /\ \A i \in claimed : q'.token[i] = FreshToken(i)
        /\ \A i \in Ids : i \notin claimed => q'.token[i] = q.token[i] \/ q'.token[i] = 0
    BY <1>2 DEF Leased, Kept, Freed, Dropped
  <1>10. \A d \in held : /\ d.id \in Ids /\ d.token # 0
                         /\ d.token = q'.token[d.id] => d.token = q.token[d.id]
    BY <1>0, <1>3, <1>9 DEF Typed, Delivery
  <1>11. ASSUME NEW i \in Ids PROVE Step(i)
    <2>1. CASE i \notin claimed
      BY <1>2, <2>1 DEF Step
    <2>2. CASE i \in claimed
      <3>1. Leased(q, q', i)
        BY <1>2, <2>2
      <3>2. ~Processed(q', held', i)
        <4> SUFFICES ASSUME NEW d \in held', d.id = i, d.token = q'.token[i], d.st = "ok"
                     PROVE  FALSE
          BY DEF Processed
        <4>1. d \in held
          BY <1>4, <1>6
        <4> QED
          BY <1>3, <1>9, <2>2, <4>1
      <3> QED
        BY <3>1, <3>2 DEF Step
    <2> QED
      BY <2>1, <2>2
  <1>12. HeldOnce'
    <2> SUFFICES ASSUME NEW d \in held', NEW e \in held', d.id = e.id, d.token = e.token
                 PROVE  d = e
      BY DEF HeldOnce
    <2>1. CASE d \in held /\ e \in held
      BY <2>1 DEF Inv, HeldOnce
    <2>2. CASE d \in New /\ e \in New
      BY <1>4, <2>2
    <2>3. CASE d \in held /\ e \in New
      BY <1>3, <1>4, <2>3
    <2>4. CASE d \in New /\ e \in held
      BY <1>3, <1>4, <2>4
    <2> QED
      BY <1>6, <2>1, <2>2, <2>3, <2>4
  <1>13. Newest'
    <2> SUFFICES ASSUME NEW d \in held', NEW e \in held', d.st = "received", e.node = d.node,
                        e.id = d.id, e.token = q'.token[d.id]
                 PROVE  e = d
      BY DEF Newest
    <2>1. CASE d \in New
      <3>1. d.id \in claimed /\ e.token = FreshToken(e.id)
        BY <1>2, <1>4, <1>9, <2>1
      <3>2. e \in New
        BY <1>3, <1>6, <3>1
      <3> QED
        BY <1>4, <2>1, <3>2
    <2>2. CASE d \in held
      <3>1. d.node # n
        BY <1>1, <2>2 DEF Held
      <3>2. e \in held
        BY <1>4, <1>6, <3>1
      <3>3. e.token = q.token[d.id]
        BY <1>10, <3>2
      <3> QED
        BY <2>2, <3>2, <3>3 DEF Inv, Newest
    <2> QED
      BY <1>6, <2>1, <2>2
  <1>14. DeliveriesRenewed'
    <2> SUFFICES ASSUME NEW d \in held', d.st # "received", d.token = q'.token[d.id]
                 PROVE  leases[d.node][d.id] = d.token
      BY <1>1 DEF DeliveriesRenewed
    <2>1. d \in held
      BY <1>4, <1>6
    <2>2. d.token = q.token[d.id]
      BY <1>10, <2>1
    <2> QED
      BY <2>1, <2>2 DEF Inv, DeliveriesRenewed
  <1>15. NoOrphanLease'
    <2>1. held \subseteq held' /\ leases' = leases
      BY <1>1, <1>6
    <2> QED
      BY <2>1 DEF Inv, NoOrphanLease
  <1>16. Typed'
    BY <1>0, <1>1, <1>8 DEF Typed
  <1>17. Unseen'
    <2>1. \A i \in Ids : ~Added(q, q', i)
      BY <1>2 DEF Added, Leased, Kept, Freed, Dropped
    <2>2. left' = left
      BY <1>1
    <2> QED
      BY <1>11, <2>1, <2>2, StillUnseen
  <1> QED
    BY <1>1, <1>11, <1>12, <1>13, <1>14, <1>15, <1>16, <1>17 DEF Inv

(* The deliveries of a node.                                               *)
LEMMA RegisterKeeps ==
  ASSUME Inv, NEW n \in Nodes, Register(n)
  PROVE  Inv' /\ \A i \in Ids : Step(i)
  <1>1. PICK d \in Held(n, "received") :
          /\ leases' = [leases EXCEPT ![n][d.id] = d.token]
          /\ held' = (held \ {d}) \union Marked({d}, "queued")
          /\ UNCHANGED <<q, left, replays, faults>>
    BY DEF Register
  <1>2. d \in held /\ d.node = n /\ d.st = "received"
    BY DEF Held
  <1>3. /\ held \in SUBSET Delivery /\ leases \in [Nodes -> [Ids -> Nat]] /\ Typed
        /\ d.id \in Ids /\ d.token \in Nat \ {0} /\ {d} \in SUBSET held
    BY <1>2 DEF Inv, Typed, Delivery
  <1>4. /\ held' \in SUBSET Delivery /\ IsFiniteSet(held')
        /\ \A x \in held' : \E e \in held : Corresponds(x, e, {d}, "queued")
        /\ \A e \in held : \E x \in held' : Corresponds(x, e, {d}, "queued")
    BY <1>1, <1>3, MarkedHeld DEF HeldMarked
  <1>5. /\ leases' \in [Nodes -> [Ids -> Nat]]
        /\ \A m \in Nodes, i \in Ids :
             leases'[m][i] = IF m = n /\ i = d.id THEN d.token ELSE leases[m][i]
    BY <1>1, <1>3
  <1>6. HeldOnce'
    <2> SUFFICES ASSUME NEW x \in held', NEW y \in held', x.id = y.id, x.token = y.token
                 PROVE  x = y
      BY DEF HeldOnce
    <2>1. PICK x0 \in held : Corresponds(x, x0, {d}, "queued")
      BY <1>4
    <2>2. PICK y0 \in held : Corresponds(y, y0, {d}, "queued")
      BY <1>4
    <2>3. x0 = y0
      BY <2>1, <2>2 DEF Inv, HeldOnce, Corresponds
    <2> QED
      BY <1>4, <2>1, <2>2, <2>3 DEF Delivery, Corresponds
  <1>7. Newest'
    <2> SUFFICES ASSUME NEW x \in held', NEW y \in held', x.st = "received", y.node = x.node,
                        y.id = x.id, y.token = q.token[x.id]
                 PROVE  y = x
      BY <1>1 DEF Newest
    <2>1. PICK x0 \in held : Corresponds(x, x0, {d}, "queued")
      BY <1>4
    <2>2. PICK y0 \in held : Corresponds(y, y0, {d}, "queued")
      BY <1>4
    <2>3. x = x0 /\ x0 # d
      BY <2>1 DEF Corresponds
    <2>4. y0 = x0
      BY <2>1, <2>2, <2>3 DEF Inv, Newest, Corresponds
    <2> QED
      BY <2>2, <2>3, <2>4 DEF Corresponds
  <1>8. DeliveriesRenewed'
    <2> SUFFICES ASSUME NEW x \in held', x.st # "received", x.token = q.token[x.id]
                 PROVE  leases'[x.node][x.id] = x.token
      BY <1>1 DEF DeliveriesRenewed
    <2>1. PICK e \in held : Corresponds(x, e, {d}, "queued")
      BY <1>4
    <2>2. x.node \in Nodes /\ x.id \in Ids
      BY <1>4 DEF Delivery
    <2>3. CASE e = d
      BY <1>2, <1>5, <2>1, <2>2, <2>3 DEF Corresponds
    <2>4. CASE e # d
      <3>1. x = e
        BY <2>1, <2>4 DEF Corresponds
      <3>2. leases[x.node][x.id] = x.token
        BY <3>1 DEF Inv, DeliveriesRenewed
      <3>3. ~(x.node = n /\ x.id = d.id)
        BY <1>2, <2>4, <3>1 DEF Inv, Newest
      <3> QED
        BY <1>5, <2>2, <3>2, <3>3
    <2> QED
      BY <2>3, <2>4
  <1>9. NoOrphanLease'
    <2> SUFFICES ASSUME NEW m \in Nodes, NEW i \in Ids, leases'[m][i] # 0
                 PROVE  \E x \in held' : /\ x.node = m /\ x.id = i /\ x.token = leases'[m][i]
                                         /\ x.st # "received"
      BY DEF NoOrphanLease
    <2>1. CASE m = n /\ i = d.id
      <3>1. PICK x \in held' : Corresponds(x, d, {d}, "queued")
        BY <1>2, <1>4
      <3> QED
        BY <1>2, <1>5, <2>1, <3>1 DEF Corresponds
    <2>2. CASE ~(m = n /\ i = d.id)
      <3>1. leases'[m][i] = leases[m][i]
        BY <1>5, <2>2
      <3>2. PICK e \in held : /\ e.node = m /\ e.id = i /\ e.token = leases[m][i]
                              /\ e.st # "received"
        BY <3>1 DEF Inv, NoOrphanLease
      <3>3. PICK x \in held' : Corresponds(x, e, {d}, "queued")
        BY <1>4
      <3> QED
        BY <3>1, <3>2, <3>3 DEF Corresponds
    <2> QED
      BY <2>1, <2>2
  <1>10. \A i \in Ids : Step(i)
    BY <1>1 DEF Step, Kept
  <1>11. Typed'
    BY <1>1, <1>3, <1>4, <1>5 DEF Typed
  <1>12. Sound(q') /\ Unseen'
    BY <1>1 DEF Inv, Unseen
  <1> QED
    BY <1>6, <1>7, <1>8, <1>9, <1>10, <1>11, <1>12 DEF Inv

(* A processed delivery that goes to the acknowledgements.                 *)
LEMMA SucceedKeeps ==
  ASSUME Inv, NEW n \in Nodes, Succeed(n)
  PROVE  Inv' /\ \A i \in Ids : Step(i)
  <1>1. PICK d \in Held(n, "queued") :
          /\ held' = (held \ {d}) \union Marked({d}, "ok")
          /\ UNCHANGED <<q, left, leases, replays, faults>>
    BY DEF Succeed
  <1>2. {d} \in SUBSET held /\ \A e \in {d} : e.st # "received"
    BY DEF Held
  <1>3. /\ held' \in SUBSET Delivery /\ IsFiniteSet(held')
        /\ HeldOnce' /\ Newest' /\ DeliveriesRenewed' /\ NoOrphanLease'
    BY <1>1, <1>2, MarkedKeeps
  <1>4. \A i \in Ids : Step(i)
    BY <1>1 DEF Step, Kept
  <1>5. Typed'
    BY <1>1, <1>3 DEF Inv, Typed
  <1>6. Sound(q') /\ Unseen'
    BY <1>1 DEF Inv, Unseen
  <1> QED
    BY <1>3, <1>4, <1>5, <1>6 DEF Inv

(* A delivery whose job is given back or set aside.                        *)
LEMMA FailKeeps ==
  ASSUME Inv, NEW n \in Nodes, Fail(n)
  PROVE  Inv' /\ \A i \in Ids : Step(i)
  <1>1. PICK d \in Held(n, "queued") :
          /\ \/ Fault(TRUE) /\ q' = q
             \/ Fault(FALSE) /\ \E delayed \in RetryDelays : q' \in NackScript(q, d, delayed)
          /\ held' = (held \ {d}) \union Marked({d}, "settled")
          /\ UNCHANGED <<left, leases, replays>>
    BY DEF Fail
  <1>2. {d} \in SUBSET held /\ (\A e \in {d} : e.st # "received") /\ d \in Delivery
    BY DEF Held, Inv, Typed
  <1>3. /\ Sound(q')
        /\ \A i \in Ids : Kept(q, q', i) \/ Dropped(q, q', i) \/ Freed(q, q', i)
    <2>1. CASE q' = q
      BY <2>1 DEF Inv, Kept
    <2>2. ASSUME NEW delayed \in RetryDelays, q' \in NackScript(q, d, delayed)
          PROVE  /\ Sound(q')
                 /\ \A i \in Ids : Kept(q, q', i) \/ Dropped(q, q', i) \/ Freed(q, q', i)
      <3>1. delayed \in BOOLEAN
        BY QueueAssumption
      <3> QED
        BY <1>2, <2>2, <3>1, NackSound DEF Inv
    <2> QED
      BY <1>1, <2>1, <2>2
  <1>4. \A i \in Ids : Step(i)
    BY <1>3 DEF Step
  <1>5. \A i \in Ids : q'.token[i] = q.token[i] \/ q'.token[i] = 0
    BY <1>3 DEF Kept, Dropped, Freed
  <1>6. /\ held' \in SUBSET Delivery /\ IsFiniteSet(held')
        /\ HeldOnce' /\ Newest' /\ DeliveriesRenewed' /\ NoOrphanLease'
    BY <1>1, <1>2, <1>5, MarkedKeeps
  <1>7. Typed'
    <2>1. faults' \in 0..MaxFaults
      BY <1>1, QueueAssumption DEF Fault, Inv, Typed
    <2> QED
      BY <1>1, <1>6, <2>1 DEF Inv, Typed
  <1>8. Unseen'
    <2>1. \A i \in Ids : ~Added(q, q', i)
      BY <1>3 DEF Added, Kept, Dropped, Freed
    <2> QED
      BY <1>1, <1>4, <2>1, StillUnseen
  <1> QED
    BY <1>3, <1>4, <1>6, <1>7, <1>8 DEF Inv

(* The acknowledgements of a node.                                         *)
LEMMA SettleKeeps ==
  ASSUME Inv, NEW n \in Nodes, Settle(n)
  PROVE  Inv' /\ \A i \in Ids : Step(i)
  <1>1. PICK ds \in SUBSET Held(n, "ok") :
          /\ \/ Fault(TRUE) /\ q' = q
             \/ /\ Fault(FALSE)
                /\ \E s \in AckScript(q, ds) :
                     \/ q' = s
                     \/ \E expired \in SUBSET Active(s), due \in SUBSET s.delayed :
                          q' \in TrimDlq(Maintain(s, expired, due))
          /\ held' = (held \ ds) \union Marked(ds, "settled")
          /\ UNCHANGED <<left, leases, replays>>
    BY DEF Settle
  <1>2. ds \in SUBSET held /\ \A d \in ds : d.st = "ok"
    BY DEF Held
  <1>3. /\ Sound(q')
        /\ \A i \in Ids : \/ Kept(q, q', i) \/ Dropped(q, q', i) \/ Freed(q, q', i)
                          \/ /\ Finished(q, q', i)
                             /\ \E d \in ds : d.id = i /\ d.token = q.token[i]
    <2>1. CASE q' = q
      BY <2>1 DEF Inv, Kept
    <2>2. CASE q' # q
      <3>1. PICK s \in AckScript(q, ds) :
              \/ q' = s
              \/ \E expired \in SUBSET Active(s), due \in SUBSET s.delayed :
                   q' \in TrimDlq(Maintain(s, expired, due))
        BY <1>1, <2>2
      <3> QED
        BY <1>2, <3>1, SettleEffect DEF Inv
    <2> QED
      BY <2>1, <2>2
  <1>4. \A i \in Ids : Step(i)
    BY <1>2, <1>3 DEF Step, Processed
  <1>5. \A i \in Ids : q'.token[i] = q.token[i] \/ q'.token[i] = 0
    BY <1>3 DEF Kept, Dropped, Freed, Finished
  <1>6. /\ held' \in SUBSET Delivery /\ IsFiniteSet(held')
        /\ HeldOnce' /\ Newest' /\ DeliveriesRenewed' /\ NoOrphanLease'
    BY <1>1, <1>2, <1>5, MarkedKeeps
  <1>7. Typed'
    <2>1. faults' \in 0..MaxFaults
      BY <1>1, QueueAssumption DEF Fault, Inv, Typed
    <2> QED
      BY <1>1, <1>6, <2>1 DEF Inv, Typed
  <1>8. Unseen'
    <2>1. \A i \in Ids : ~Added(q, q', i)
      BY <1>3 DEF Added, Kept, Dropped, Freed, Finished
    <2> QED
      BY <1>1, <1>4, <2>1, StillUnseen
  <1> QED
    BY <1>3, <1>4, <1>6, <1>7, <1>8 DEF Inv

(* A delivery is over: its own lease goes, no other.                       *)
LEMMA ForgetKeeps ==
  ASSUME Inv, NEW n \in Nodes, Forget(n)
  PROVE  Inv' /\ \A i \in Ids : Step(i)
  <1>1. PICK d \in Held(n, "settled") :
          /\ leases' = [leases EXCEPT ![n] = RemoveLease(@, d.id, d.token)]
          /\ held' = held \ {d}
          /\ UNCHANGED <<q, left, replays, faults>>
    BY DEF Forget
  <1>2. d \in held /\ d.node = n /\ d.id \in Ids /\ d.token \in Nat \ {0}
    BY DEF Held, Inv, Typed, Delivery
  <1>3. leases \in [Nodes -> [Ids -> Nat]]
    BY DEF Inv, Typed
  <1>4. /\ leases' \in [Nodes -> [Ids -> Nat]]
        /\ \A m \in Nodes, i \in Ids :
             leases'[m][i] = IF m = n /\ i = d.id /\ leases[m][i] = d.token THEN 0 ELSE leases[m][i]
    BY <1>1, <1>2, <1>3 DEF RemoveLease
  <1>5. HeldOnce' /\ Newest'
    BY <1>1 DEF Inv, HeldOnce, Newest
  <1>6. DeliveriesRenewed'
    <2> SUFFICES ASSUME NEW x \in held, x # d, x.st # "received", x.token = q.token[x.id]
                 PROVE  leases'[x.node][x.id] = x.token
      BY <1>1 DEF DeliveriesRenewed
    <2>1. x.node \in Nodes /\ x.id \in Ids
      BY DEF Inv, Typed, Delivery
    <2>2. leases[x.node][x.id] = x.token
      BY DEF Inv, DeliveriesRenewed
    <2>3. ~(x.id = d.id /\ x.token = d.token)
      BY <1>2 DEF Inv, HeldOnce
    <2> QED
      BY <1>4, <2>1, <2>2, <2>3
  <1>7. NoOrphanLease'
    <2> SUFFICES ASSUME NEW m \in Nodes, NEW i \in Ids, leases'[m][i] # 0
                 PROVE  \E x \in held' : /\ x.node = m /\ x.id = i /\ x.token = leases'[m][i]
                                         /\ x.st # "received"
      BY DEF NoOrphanLease
    <2>1. leases'[m][i] = leases[m][i] /\ ~(m = n /\ i = d.id /\ leases[m][i] = d.token)
      BY <1>4
    <2>2. PICK e \in held : /\ e.node = m /\ e.id = i /\ e.token = leases[m][i]
                            /\ e.st # "received"
      BY <2>1 DEF Inv, NoOrphanLease
    <2>3. e # d
      BY <1>2, <2>1, <2>2
    <2> QED
      BY <1>1, <2>1, <2>2, <2>3
  <1>8. Typed'
    <2>1. held' \in SUBSET held /\ IsFiniteSet(held) /\ held \in SUBSET Delivery
      BY <1>1 DEF Inv, Typed
    <2>2. IsFiniteSet(held')
      BY <2>1, FS_Subset
    <2> QED
      BY <1>1, <1>4, <2>1, <2>2 DEF Inv, Typed
  <1>9. Sound(q') /\ Unseen'
    BY <1>1 DEF Inv, Unseen
  <1>10. \A i \in Ids : Step(i)
    BY <1>1 DEF Step, Kept
  <1> QED
    BY <1>5, <1>6, <1>7, <1>8, <1>9, <1>10 DEF Inv

(* The renewal of the registered leases.                                   *)
LEMMA RenewKeeps ==
  ASSUME Inv, NEW n \in Nodes, Renew(n)
  PROVE  Inv' /\ \A i \in Ids : Step(i)
  <1>1. PICK j \in Ids : /\ leases[n][j] \notin {0, q.token[j]}
                         /\ leases' = [leases EXCEPT ![n][j] = 0]
                         /\ UNCHANGED <<q, left, held, replays, faults>>
    BY DEF Renew
  <1>2. /\ leases' \in [Nodes -> [Ids -> Nat]]
        /\ \A m \in Nodes, i \in Ids :
             leases'[m][i] = IF m = n /\ i = j THEN 0 ELSE leases[m][i]
    BY <1>1 DEF Inv, Typed
  <1>3. HeldOnce' /\ Newest'
    BY <1>1 DEF Inv, HeldOnce, Newest
  <1>4. DeliveriesRenewed'
    <2> SUFFICES ASSUME NEW x \in held, x.st # "received", x.token = q.token[x.id]
                 PROVE  leases'[x.node][x.id] = x.token
      BY <1>1 DEF DeliveriesRenewed
    <2>1. x.node \in Nodes /\ x.id \in Ids
      BY DEF Inv, Typed, Delivery
    <2>2. leases[x.node][x.id] = x.token
      BY DEF Inv, DeliveriesRenewed
    <2> QED
      BY <1>1, <1>2, <2>1, <2>2
  <1>5. NoOrphanLease'
    BY <1>1, <1>2 DEF Inv, NoOrphanLease
  <1>6. Typed' /\ Sound(q') /\ Unseen'
    BY <1>1, <1>2 DEF Inv, Typed, Unseen
  <1>7. \A i \in Ids : Step(i)
    BY <1>1 DEF Step, Kept
  <1> QED
    BY <1>3, <1>4, <1>5, <1>6, <1>7 DEF Inv

(* A node that loses its deliveries and its registry.                      *)
LEMMA CrashKeeps ==
  ASSUME Inv, NEW n \in Nodes, Crash(n)
  PROVE  Inv' /\ \A i \in Ids : Step(i)
  <1>1. /\ Fault(TRUE)
        /\ held' = {d \in held : d.node # n}
        /\ leases' = [leases EXCEPT ![n] = [i \in Ids |-> 0]]
        /\ UNCHANGED <<q, left, replays>>
    BY DEF Crash
  <1>2. /\ leases' \in [Nodes -> [Ids -> Nat]]
        /\ \A m \in Nodes, i \in Ids : leases'[m][i] = IF m = n THEN 0 ELSE leases[m][i]
    BY <1>1 DEF Inv, Typed
  <1>3. HeldOnce' /\ Newest'
    BY <1>1 DEF Inv, HeldOnce, Newest
  <1>4. DeliveriesRenewed'
    <2> SUFFICES ASSUME NEW x \in held, x.node # n, x.st # "received", x.token = q.token[x.id]
                 PROVE  leases'[x.node][x.id] = x.token
      BY <1>1 DEF DeliveriesRenewed
    <2>1. x.node \in Nodes /\ x.id \in Ids
      BY DEF Inv, Typed, Delivery
    <2>2. leases[x.node][x.id] = x.token
      BY DEF Inv, DeliveriesRenewed
    <2> QED
      BY <1>1, <1>2, <2>1, <2>2
  <1>5. NoOrphanLease'
    BY <1>1, <1>2 DEF Inv, NoOrphanLease
  <1>6. Typed'
    <2>1. held' \in SUBSET held /\ IsFiniteSet(held) /\ held \in SUBSET Delivery
      BY <1>1 DEF Inv, Typed
    <2>2. IsFiniteSet(held')
      BY <2>1, FS_Subset
    <2>3. faults' \in 0..MaxFaults
      BY <1>1, QueueAssumption DEF Fault, Inv, Typed
    <2> QED
      BY <1>1, <1>2, <2>1, <2>2, <2>3 DEF Inv, Typed
  <1>7. Sound(q') /\ Unseen'
    BY <1>1 DEF Inv, Unseen
  <1>8. \A i \in Ids : Step(i)
    BY <1>1 DEF Step, Kept
  <1> QED
    BY <1>3, <1>4, <1>5, <1>6, <1>7, <1>8 DEF Inv

(* A replay of dead letters.                                               *)
LEMMA ReplayKeeps ==
  ASSUME Inv, Replay
  PROVE  Inv' /\ \A i \in Ids : Step(i)
  <1>1. Sound(q') /\ \A i \in Ids : Kept(q, q', i) \/ Revived(q, q', i)
    <2>1. PICK ids \in SUBSET q.dlq :
            q' = LET kept == {i \in ids : q.jobs[i] # None} IN
                 PushAllReady([q EXCEPT !.dlq = @ \ ids,
                                        !.attempts = [i \in Ids |-> IF i \in ids THEN 0 ELSE @[i]]],
                              kept)
      BY DEF Replay
    <2> QED
      BY <2>1, ReplaySound DEF Inv
  <1>2. \A i \in Ids : Step(i)
    BY <1>1 DEF Step
  <1>3. \A i \in Ids : q'.token[i] = q.token[i] \/ q'.token[i] = 0
    BY <1>1 DEF Kept, Revived
  <1>4. /\ UNCHANGED <<left, held, leases, faults>>
        /\ replays' \in 0..MaxReplays
    BY QueueAssumption DEF Replay, Inv, Typed
  <1>5. /\ held' \in SUBSET Delivery /\ IsFiniteSet(held')
        /\ HeldOnce' /\ Newest' /\ DeliveriesRenewed' /\ NoOrphanLease'
    BY <1>3, <1>4, SameHeld
  <1>6. Typed'
    BY <1>4, <1>5 DEF Inv, Typed
  <1>7. Unseen'
    <2>1. \A i \in Ids : ~Added(q, q', i)
      BY <1>1 DEF Added, Kept, Revived
    <2> QED
      BY <1>2, <1>4, <2>1, StillUnseen
  <1> QED
    BY <1>1, <1>2, <1>5, <1>6, <1>7 DEF Inv

-----------------------------------------------------------------------------
(* The theorems.                                                           *)

(* The empty queue satisfies the invariant.                                *)
LEMMA InitInv == Init => Inv
  <1> SUFFICES ASSUME Init PROVE Inv
    OBVIOUS
  <1> DEFINE t0 == [i \in Ids |-> 0]
             j0 == [i \in Ids |-> None]
  <1>1. /\ q.jobs = j0 /\ q.ready = <<>> /\ q.inline = <<>> /\ q.delayed = {}
        /\ q.token = t0 /\ q.attempts = t0 /\ q.dlq = {} /\ q.completed = {}
        /\ q.dedup = [k \in Keys |-> None]
        /\ q = [jobs |-> q.jobs, ready |-> q.ready, inline |-> q.inline, delayed |-> q.delayed,
                token |-> q.token, attempts |-> q.attempts, dlq |-> q.dlq,
                completed |-> q.completed, dedup |-> q.dedup]
    BY DEF Init
  <1>2. <<>> \in Seq(Ids) /\ <<>> \in Seq(Ids \X Bodies)
    BY EmptySeq
  <1>3. q \in Queue
    <2>1. /\ q.jobs \in [Ids -> Bodies \union {None}] /\ q.token \in [Ids -> Nat]
          /\ q.attempts \in [Ids -> Nat] /\ q.dedup \in [Keys -> Ids \union {None}]
      BY <1>1
    <2> QED
      BY <1>1, <1>2, <2>1 DEF Queue
  <1>4. Listed(q) = {} /\ Framed(q) = {} /\ IsInjective(q.ready) /\ OnceFramed(q)
    BY <1>1 DEF Listed, Range, Framed, IsInjective, OnceFramed
  <1>5. \A i \in Ids : q.jobs[i] = None /\ q.token[i] = 0 /\ q.attempts[i] = 0
    BY <1>1
  <1>6. \A i \in Ids : Fits(q, i) /\ Stage(q, i) = "absent"
    BY <1>1, <1>4, <1>5, QueueAssumption DEF Fits, Waits, Stage
  <1>7. Sound(q)
    BY <1>3, <1>4, <1>6 DEF Sound
  <1>8. Unseen
    <2>1. \A c \in Generated : \A k \in DOMAIN c : c[k].id \in Ids
      <3> SUFFICES ASSUME NEW c \in Generated, NEW k \in DOMAIN c PROVE c[k].id \in Ids
        OBVIOUS
      <3>1. c \in Seq(Request)
        BY QueueAssumption DEF Calls
      <3>2. c[k] \in Request
        BY <3>1
      <3> QED
        BY <3>2 DEF Request
    <2> QED
      BY <1>6, <2>1 DEF Unseen
  <1>9. Typed
    <2>1. left \in [Calls -> 0..EnqueueAttempts]
      BY QueueAssumption DEF Init
    <2> QED
      BY <2>1, QueueAssumption, FS_EmptySet DEF Init, Typed
  <1>10. HeldOnce /\ Newest /\ DeliveriesRenewed /\ NoOrphanLease
    BY DEF Init, HeldOnce, Newest, DeliveriesRenewed, NoOrphanLease
  <1> QED
    BY <1>7, <1>8, <1>9, <1>10 DEF Inv

(* Every action keeps the invariant and moves each job by one step.        *)
LEMMA StepInv == Inv /\ [Next]_vars => Inv' /\ \A i \in Ids : Step(i)
  <1> SUFFICES ASSUME Inv, [Next]_vars PROVE Inv' /\ \A i \in Ids : Step(i)
    OBVIOUS
  <1>1. CASE UNCHANGED vars
    <2>1. q' = q /\ left' = left /\ held' = held /\ leases' = leases
          /\ replays' = replays /\ faults' = faults
      BY <1>1 DEF vars
    <2>2. Inv'
      BY <2>1 DEF Inv, Typed, Unseen, HeldOnce, Newest, DeliveriesRenewed, NoOrphanLease
    <2> QED
      BY <2>1, <2>2 DEF Step, Kept
  <1>2. ASSUME NEW c \in Batches, Enqueue(c) PROVE Inv' /\ \A i \in Ids : Step(i)
    BY <1>2, EnqueueKeeps
  <1>3. ASSUME NEW c \in Generated, EnqueueGenerated(c) PROVE Inv' /\ \A i \in Ids : Step(i)
    BY <1>3, GeneratedKeeps
  <1>4. ASSUME NEW n \in Nodes, Claim(n) PROVE Inv' /\ \A i \in Ids : Step(i)
    BY <1>4, ClaimKeeps
  <1>5. ASSUME NEW n \in Nodes, Register(n) PROVE Inv' /\ \A i \in Ids : Step(i)
    BY <1>5, RegisterKeeps
  <1>6. ASSUME NEW n \in Nodes, Succeed(n) PROVE Inv' /\ \A i \in Ids : Step(i)
    BY <1>6, SucceedKeeps
  <1>7. ASSUME NEW n \in Nodes, Fail(n) PROVE Inv' /\ \A i \in Ids : Step(i)
    BY <1>7, FailKeeps
  <1>8. ASSUME NEW n \in Nodes, Settle(n) PROVE Inv' /\ \A i \in Ids : Step(i)
    BY <1>8, SettleKeeps
  <1>9. ASSUME NEW n \in Nodes, Forget(n) PROVE Inv' /\ \A i \in Ids : Step(i)
    BY <1>9, ForgetKeeps
  <1>10. ASSUME NEW n \in Nodes, Renew(n) PROVE Inv' /\ \A i \in Ids : Step(i)
    BY <1>10, RenewKeeps
  <1>11. ASSUME NEW n \in Nodes, Crash(n) PROVE Inv' /\ \A i \in Ids : Step(i)
    BY <1>11, CrashKeeps
  <1>12. CASE Replay
    BY <1>12, ReplayKeeps
  <1> QED
    BY <1>1, <1>2, <1>3, <1>4, <1>5, <1>6, <1>7, <1>8, <1>9, <1>10, <1>11, <1>12 DEF Next

(* The invariant holds in every reachable state.                           *)
LEMMA AlwaysInv == Spec => []Inv
  <1>1. Inv /\ [Next]_vars => Inv'
    BY StepInv
  <1> QED
    BY InitInv, <1>1, PTL DEF Spec

(* The Redis keys, the registries and the deliveries in memory keep their  *)
(* types, and no script lets attempts pass reliability.max_attempts.       *)
THEOREM TypeCorrect == Spec => []TypeOK
  <1>1. Inv => TypeOK
    <2> SUFFICES ASSUME Inv PROVE TypeOK
      OBVIOUS
    <2>1. q \in Queue /\ \A i \in Ids : q.attempts[i] <= MaxAttempts
      BY DEF Inv, Sound, Fits
    <2>2. q.attempts \in [Ids -> 0..MaxAttempts]
      BY <2>1, QueueAssumption DEF Queue
    <2> QED
      BY <2>1, <2>2 DEF Inv, Typed, TypeOK, Queue
  <1> QED
    BY AlwaysInv, <1>1, PTL

(* A stored job is in exactly one of the ready list, the delayed set, the  *)
(* leases, the dead letters and the completed set, and an id without a     *)
(* payload is in none, whatever scripts, crashes and retries interleave.   *)
THEOREM StoredInOnePlace == Spec => []OnePlace
  <1>1. Inv => OnePlace
    <2> SUFFICES ASSUME Inv, NEW i \in Ids
                 PROVE  Places(i) = IF q.jobs[i] = None THEN 0 ELSE 1
      BY DEF OnePlace
    <2> DEFINE K == {k \in DOMAIN q.ready : q.ready[k] = i}
               P == {p \in {"delayed", "active", "dlq", "completed"} :
                       i \in CASE p = "delayed" -> q.delayed
                               [] p = "active" -> Active(q)
                               [] p = "dlq" -> q.dlq
                               [] p = "completed" -> q.completed}
    <2>1. Places(i) = Cardinality(K) + Cardinality(P)
      BY DEF Places, Occurrences
    <2>2. Fits(q, i) /\ IsInjective(q.ready)
      BY DEF Inv, Sound
    <2>3. /\ "delayed" \in P <=> i \in q.delayed
          /\ "active" \in P <=> q.token[i] # 0
          /\ "dlq" \in P <=> i \in q.dlq
          /\ "completed" \in P <=> i \in q.completed
          /\ \A p \in P : p \in {"delayed", "active", "dlq", "completed"}
      BY DEF Active
    <2>4. /\ i \notin Listed(q) => K = {}
          /\ i \in Listed(q) => \E k : K = {k}
      BY <2>2 DEF Listed, Range, IsInjective
    <2> HIDE DEF K, P
    <2>5. Cardinality({}) = 0 /\ \A x : Cardinality({x}) = 1
      BY FS_EmptySet, FS_Singleton
    <2>6. CASE q.jobs[i] = None
      <3>1. K = {} /\ P = {}
        BY <2>2, <2>3, <2>4, <2>6 DEF Fits, Waits
      <3> QED
        BY <2>1, <2>5, <2>6, <3>1
    <2>7. CASE q.jobs[i] # None
      <3>1. CASE i \in Listed(q)
        <4>1. (\E k : K = {k}) /\ P = {}
          BY <2>2, <2>3, <2>4, <3>1 DEF Fits, Waits
        <4> QED
          BY <2>1, <2>5, <2>7, <4>1
      <3>2. CASE i \notin Listed(q)
        <4>1. K = {} /\ \E x : P = {x}
          <5>1. CASE i \in q.delayed
            <6>1. P = {"delayed"}
              BY <2>2, <2>3, <5>1 DEF Fits, Waits
            <6> QED
              BY <2>4, <3>2, <6>1
          <5>2. CASE q.token[i] # 0
            <6>1. P = {"active"}
              BY <2>2, <2>3, <5>2 DEF Fits, Waits
            <6> QED
              BY <2>4, <3>2, <6>1
          <5>3. CASE i \in q.dlq
            <6>1. P = {"dlq"}
              BY <2>2, <2>3, <5>3 DEF Fits, Waits
            <6> QED
              BY <2>4, <3>2, <6>1
          <5>4. CASE i \in q.completed
            <6>1. P = {"completed"}
              BY <2>2, <2>3, <5>4 DEF Fits, Waits
            <6> QED
              BY <2>4, <3>2, <6>1
          <5> QED
            BY <2>2, <2>7, <3>2, <5>1, <5>2, <5>3, <5>4 DEF Fits, Waits
        <4> QED
          BY <2>1, <2>5, <2>7, <4>1
      <3> QED
        BY <3>1, <3>2
    <2> QED
      BY <2>6, <2>7
  <1> QED
    BY AlwaysInv, <1>1, PTL

(* A delivery that is worked on under the current token is in its node's   *)
(* registry: no late answer for an older delivery takes its lease away.    *)
THEOREM CurrentRenewed == Spec => []DeliveriesRenewed
  <1>1. Inv => DeliveriesRenewed
    BY DEF Inv
  <1> QED
    BY AlwaysInv, <1>1, PTL

(* Every lease in a registry belongs to a delivery its node still has.     *)
THEOREM LeasesOwned == Spec => []NoOrphanLease
  <1>1. Inv => NoOrphanLease
    BY DEF Inv
  <1> QED
    BY AlwaysInv, <1>1, PTL

-----------------------------------------------------------------------------
(* The refinement.                                                         *)

PhaseOf(s, h, i) ==
  IF Stage(s, i) = "leased" THEN IF Processed(s, h, i) THEN "succeeded" ELSE "running"
  ELSE Stage(s, i)

(* The phase of a job, now and after a step.                               *)
LEMMA PhaseStage ==
  ASSUME Inv, NEW i \in Ids
  PROVE  Phase(i) = PhaseOf(q, held, i)
  <1>1. Fits(q, i)
    BY DEF Inv, Sound
  <1>2. (\E k \in DOMAIN q.inline : q.inline[k][1] = i) <=> i \in Framed(q)
    BY DEF Framed
  <1>3. (\E d \in held : d.id = i /\ d.token = q.token[i] /\ d.st = "ok") <=> Processed(q, held, i)
    BY DEF Processed
  <1> HIDE DEF Processed
  <1> QED
    BY <1>1, <1>2, <1>3 DEF Phase, PhaseOf, Stage, Fits

(* The same after the step.                                                *)
LEMMA PhaseStageNext ==
  ASSUME Inv', NEW i \in Ids
  PROVE  Phase(i)' = PhaseOf(q', held', i)
  <1>1. Fits(q', i)
    BY DEF Inv, Sound
  <1>2. (\E k \in DOMAIN q'.inline : q'.inline[k][1] = i) <=> i \in Framed(q')
    BY DEF Framed
  <1>3. (\E d \in held' : d.id = i /\ d.token = q'.token[i] /\ d.st = "ok")
           <=> Processed(q', held', i)
    BY DEF Processed
  <1> QED
    BY <1>1, <1>2, <1>3 DEF Phase, PhaseOf, Stage, Fits

(* A step moves every job along its life cycle or leaves it.               *)
LEMMA StepMoves ==
  ASSUME NEW i \in Ids, Step(i)
  PROVE  LET f == PhaseOf(q, held, i)
             g == PhaseOf(q', held', i)
             t == q.attempts[i]
             u == q'.attempts[i]
         IN  (g = f /\ u = t) \/ JQ!Move(f, t, g, u)
  <1> DEFINE f == PhaseOf(q, held, i)
             g == PhaseOf(q', held', i)
             t == q.attempts[i]
             u == q'.attempts[i]
  <1>1. CASE Kept(q, q', i)
    <2>1. \/ g = f
          \/ f = "running" /\ g = "succeeded"
          \/ f = "succeeded" /\ g = "running"
      BY <1>1 DEF Kept, PhaseOf
    <2> QED
      BY <1>1, <2>1 DEF Kept, JQ!Move, JQ!Processed, JQ!Forgotten
  <1>2. CASE Added(q, q', i)
    BY <1>2 DEF Added, PhaseOf, JQ!Move, JQ!Accepted
  <1>3. CASE Leased(q, q', i) /\ ~Processed(q', held', i)
    BY <1>3 DEF Leased, PhaseOf, JQ!Move, JQ!Started, JQ!Delivered
  <1>4. CASE Freed(q, q', i)
    BY <1>4 DEF Freed, PhaseOf, JQ!Move, JQ!Returned, JQ!Exhausted, JQ!Delivered
  <1>5. CASE Finished(q, q', i) /\ Processed(q, held, i)
    BY <1>5 DEF Finished, PhaseOf, JQ!Move, JQ!Acknowledged
  <1>6. CASE Dropped(q, q', i)
    BY <1>6 DEF Dropped, PhaseOf, JQ!Move, JQ!Evicted
  <1>7. CASE Revived(q, q', i)
    BY <1>7 DEF Revived, PhaseOf, JQ!Move, JQ!Replayed
  <1> QED
    BY <1>1, <1>2, <1>3, <1>4, <1>5, <1>6, <1>7 DEF Step

(* The scripts and the tasks of the nodes implement the life cycle that    *)
(* Queue v2 promises of every job.                                         *)
THEOREM LifeCycle == Spec => ImplementsJobQueue
  <1>1. Inv /\ Init => JQ!Init
    <2> SUFFICES ASSUME Inv, Init PROVE JQ!Init
      OBVIOUS
    <2>1. q.attempts = [i \in Ids |-> 0]
      BY DEF Init
    <2>2. ASSUME NEW i \in Ids PROVE Phase(i) = "absent"
      <3>1. Phase(i) = PhaseOf(q, held, i)
        BY PhaseStage
      <3>2. Stage(q, i) = "absent"
        BY DEF Init, Stage, Framed
      <3> QED
        BY <3>1, <3>2 DEF PhaseOf
    <2> QED
      BY <2>1, <2>2 DEF JQ!Init
  <1>2. Inv /\ Inv' /\ [Next]_vars => [JQ!Next]_JQ!vars
    <2> SUFFICES ASSUME Inv, Inv', [Next]_vars PROVE JQ!Next
      OBVIOUS
    <2> DEFINE phase == [i \in Ids |-> Phase(i)]
    <2>1. \A i \in Ids : Step(i)
      BY StepInv
    <2>2. \A i \in Ids : Phase(i) = PhaseOf(q, held, i) /\ Phase(i)' = PhaseOf(q', held', i)
      BY PhaseStage, PhaseStageNext
    <2>3. \A i \in Ids : PhaseOf(q', held', i) \in JQ!Phases
      BY DEF PhaseOf, Stage, JQ!Phases
    <2>4. q'.attempts \in [Ids -> 0..MaxAttempts]
      <3>1. q' \in Queue /\ \A i \in Ids : q'.attempts[i] <= MaxAttempts
        BY DEF Inv, Sound, Fits
      <3> QED
        BY <3>1, QueueAssumption DEF Queue
    <2>5. \A i \in Ids : /\ phase[i] = PhaseOf(q, held, i)
                         /\ phase'[i] = PhaseOf(q', held', i)
      BY <2>2
    <2>6. phase' \in [Ids -> JQ!Phases]
      BY <2>2, <2>3
    <2>7. ASSUME NEW i \in Ids
          PROVE  \/ phase'[i] = phase[i] /\ q'.attempts[i] = q.attempts[i]
                 \/ JQ!Move(phase[i], q.attempts[i], phase'[i], q'.attempts[i])
      <3>1. Step(i)
        BY <2>1
      <3> HIDE DEF phase
      <3> QED
        BY <2>5, <3>1, StepMoves
    <2> QED
      BY <2>4, <2>6, <2>7 DEF JQ!Next
  <1> QED
    BY AlwaysInv, InitInv, <1>1, <1>2, PTL DEF Spec, ImplementsJobQueue, JQ!Spec

===========================================================================
