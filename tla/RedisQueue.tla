----------------------------- MODULE RedisQueue -----------------------------
(***************************************************************************)
(* The reliable Redis queue of sockudo-queue: the Lua scripts, each one    *)
(* atomic in Redis, and the tasks of a node that call them: producers that *)
(* retry an ambiguous enqueue, the prefetch loop, the workers, the         *)
(* settlement loop and the lease renewal loop.                             *)
(*                                                                         *)
(* Time is not a variable.  Every deadline is written and read with the    *)
(* clock of the calling node (now_ms), so a script may find any lease      *)
(* expired, any delay over and any retained entry the oldest.  The keys    *)
(* "active" and "tokens" are written together by every script: both are    *)
(* token, whose 0 is an inactive job.  The hash "maxima" is the constant   *)
(* MaxAttempts; failure reasons and lifecycle events are left out.         *)
(***************************************************************************)
EXTENDS Naturals, FiniteSets, FiniteSetsExt, SequencesExt

CONSTANTS
  Ids,                \* job ids
  Keys,               \* deduplication keys
  Bodies,             \* serialized payloads
  Batches,            \* calls of enqueue / enqueue_batch: sequences of requests
  Generated,          \* calls of enqueue_batch on the generated fast path
  Nodes,
  MaxAttempts,        \* reliability.max_attempts
  CompletedRetention, \* reliability.completed_retention, 0 deletes on ack
  FailedRetention,    \* reliability.failed_retention, 0 keeps every dead letter
  Prefetch,           \* jobs buffered by the worker channels of a node
  EnqueueAttempts,    \* ENQUEUE_ATTEMPTS
  RetryDelays,        \* subset of BOOLEAN: may retry_delay_ms be positive, zero
  MaxReplays,         \* bound: calls of replay_dead_letters
  MaxFaults,          \* bound: crashes, lost answers and lost requests of a node
  MaxHeld,            \* bound: deliveries in memory when a claim is made
  None

(* What a producer asks for: the key is None without deduplication.        *)
Request == [id : Ids, body : Bodies, key : Keys \union {None}, delay : BOOLEAN]

Calls == Batches \union Generated

(* The ids of the generated path are new uuids, or start with one: no      *)
(* other job has them.  The ids ever used and the nodes are finitely many. *)
ASSUME QueueAssumption ==
  /\ IsFiniteSet(Ids) /\ IsFiniteSet(Nodes)
  /\ Calls \subseteq Seq(Request)
  /\ Batches \intersect Generated = {}
  /\ \A c \in Generated, d \in Calls : \A j \in DOMAIN c, k \in DOMAIN d :
       c[j].id = d[k].id => c = d /\ j = k
  /\ MaxAttempts \in Nat \ {0}
  /\ Prefetch \in Nat \ {0}
  /\ EnqueueAttempts \in Nat \ {0}
  /\ {CompletedRetention, FailedRetention, MaxReplays, MaxFaults, MaxHeld} \subseteq Nat
  /\ RetryDelays \subseteq BOOLEAN
  /\ None \notin Ids \union Keys \union Bodies

VARIABLES
  q,       \* the keys of one queue in Redis
  left,    \* enqueue attempts each producer call has left
  held,    \* deliveries in the memory of a node
  leases,  \* LeaseRegistry of a node: job id -> token, 0 is no entry
  replays, faults

vars == <<q, left, held, leases, replays, faults>>

(* "received": claimed, waiting in the prefetch loop; "queued": registered *)
(* and in a worker's channel or its processor; "ok": its processor         *)
(* succeeded and the settlement loop has the request; "settled": NACK or   *)
(* the acknowledgement is over and the lease is still registered.          *)
Delivery == [node : Nodes, id : Ids, token : Nat \ {0},
             st : {"received", "queued", "ok", "settled"}]

Held(n, st) == {d \in held : d.node = n /\ d.st = st}

(* The Redis keys, the registries and the deliveries in memory have their  *)
(* types; in particular attempts never pass reliability.max_attempts,      *)
(* although CLAIM increments before it compares.                           *)
TypeOK ==
  /\ q.jobs \in [Ids -> Bodies \union {None}]
  /\ q.ready \in Seq(Ids)
  /\ q.inline \in Seq(Ids \X Bodies)
  /\ q.delayed \subseteq Ids
  /\ q.token \in [Ids -> Nat]
  /\ q.attempts \in [Ids -> 0..MaxAttempts]
  /\ q.dlq \subseteq Ids
  /\ q.completed \subseteq Ids
  /\ q.dedup \in [Keys -> Ids \union {None}]
  /\ left \in [Calls -> 0..EnqueueAttempts]
  /\ held \subseteq Delivery
  /\ leases \in [Nodes -> [Ids -> Nat]]
  /\ replays \in 0..MaxReplays
  /\ faults \in 0..MaxFaults

Init ==
  /\ q = [jobs |-> [i \in Ids |-> None], ready |-> <<>>, inline |-> <<>>,
          delayed |-> {}, token |-> [i \in Ids |-> 0],
          attempts |-> [i \in Ids |-> 0], dlq |-> {}, completed |-> {},
          dedup |-> [k \in Keys |-> None]]
  /\ left = [c \in Calls |-> IF c \in Generated THEN 1 ELSE EnqueueAttempts]
  /\ held = {}
  /\ leases = [n \in Nodes |-> [i \in Ids |-> 0]]
  /\ replays = 0
  /\ faults = 0

-----------------------------------------------------------------------------
(* Pieces the scripts are made of.                                         *)

(* LPUSH on the ready list, whose head RPOP takes.                         *)
PushReady(s, i) == [s EXCEPT !.ready = Append(@, i)]

(* Several at once, in one fixed order: the scripts take them by score.    *)
PushAllReady(s, ids) == [s EXCEPT !.ready = @ \o SetToSeq(ids)]

(* HDEL of a job from jobs, attempts and maxima.                           *)
Delete(s, ids) ==
  [s EXCEPT !.jobs = [i \in Ids |-> IF i \in ids THEN None ELSE @[i]],
            !.attempts = [i \in Ids |-> IF i \in ids THEN 0 ELSE @[i]]]

(* The victims of a retention limit: as many as there are too many, the    *)
(* oldest by the clocks of the nodes that added them.                      *)
Victims(ids, retention) ==
  IF Cardinality(ids) > retention
  THEN kSubset(Cardinality(ids) - retention, ids)
  ELSE {{}}

(* trim_dlq; a retention of 0 keeps every dead letter.                     *)
TrimDlq(s) ==
  IF FailedRetention = 0
  THEN {s}
  ELSE {[Delete(s, v) EXCEPT !.dlq = @ \ v] : v \in Victims(s.dlq, FailedRetention)}

TrimCompleted(s) ==
  {[Delete(s, v) EXCEPT !.completed = @ \ v]
     : v \in Victims(s.completed, CompletedRetention)}

(* Mutant: a lease that expires on the last attempt is requeued once more. *)
MaintainOnceMore(s, expired, due) ==
  LET dead == {i \in expired : s.attempts[i] > MaxAttempts}
      free == [s EXCEPT !.token = [i \in Ids |-> IF i \in expired THEN 0 ELSE @[i]],
                        !.dlq = @ \union dead,
                        !.delayed = @ \ due]
  IN PushAllReady(PushAllReady(free, expired \ dead), due)

(* Mutant: only delays are promoted, stalled deliveries are not reclaimed. *)
MaintainDelayed(s, expired, due) == PushAllReady([s EXCEPT !.delayed = @ \ due], due)

(* The maintenance pass of CLAIM and of the acknowledging scripts: each    *)
(* expired lease is dead-lettered or requeued by its attempts, each delay  *)
(* that is over is requeued.                                               *)
Maintain(s, expired, due) ==
  LET dead == {i \in expired : s.attempts[i] >= MaxAttempts}
      free == [s EXCEPT !.token = [i \in Ids |-> IF i \in expired THEN 0 ELSE @[i]],
                        !.dlq = @ \union dead,
                        !.delayed = @ \ due]
  IN PushAllReady(PushAllReady(free, expired \ dead), due)

Active(s) == {i \in Ids : s.token[i] # 0}

(* A token is the uuid of the claim call and an index: new among those     *)
(* that are still in use for the job.                                      *)
FreshToken(i) ==
  LET used == {q.token[i]} \union {d.token : d \in {e \in held : e.id = i}}
                \union {leases[n][i] : n \in Nodes}
  IN Min((1..(Cardinality(used) + 1)) \ used)

(* activate() of CLAIM: the job gets a lease, or is dead-lettered when its *)
(* attempts are exhausted.  acc is the state of the script's loop.         *)
Activate(acc, i) ==
  LET s == [acc.s EXCEPT !.attempts[i] = @ + 1]
      leased == [s EXCEPT !.token[i] = FreshToken(i)]
      dead == [s EXCEPT !.dlq = @ \union {i}]
  IN IF s.attempts[i] <= MaxAttempts
     THEN [s |-> leased, claimed |-> acc.claimed \union {i}]
     ELSE [s |-> dead, claimed |-> acc.claimed]

(* One RPOP of the ready list: an id without a payload, already active or  *)
(* completed is dropped.                                                   *)
PopReady(limit, acc, i) ==
  CASE Cardinality(acc.claimed) >= limit ->
         [s |-> PushReady(acc.s, i), claimed |-> acc.claimed]
    [] /\ Cardinality(acc.claimed) < limit
       /\ \/ acc.s.jobs[i] = None
          \/ acc.s.token[i] # 0
          \/ i \in acc.s.completed -> acc
    [] OTHER -> Activate(acc, i)

(* One record of an inline frame: materialised unless its id is stored.    *)
(* What a claim leaves of a frame is pushed back where RPOP finds it.      *)
PopInline(limit, acc, r) ==
  CASE Cardinality(acc.claimed) >= limit ->
         [s |-> [acc.s EXCEPT !.inline = Append(@, r)], claimed |-> acc.claimed]
    [] Cardinality(acc.claimed) < limit /\ acc.s.jobs[r[1]] # None -> acc
    [] OTHER -> Activate([s |-> [acc.s EXCEPT !.jobs[r[1]] = r[2]], claimed |-> acc.claimed], r[1])

(* The loops: acc[k] is the state after the first k entries.               *)
PopReadyLoop(limit, start, ready) ==
  LET acc[k \in 0..Len(ready)] ==
        IF k = 0 THEN start ELSE PopReady(limit, acc[k - 1], ready[k])
  IN acc

PopInlineLoop(limit, start, inline) ==
  LET acc[k \in 0..Len(inline)] ==
        IF k = 0 THEN start ELSE PopInline(limit, acc[k - 1], inline[k])
  IN acc

PopAll(s, limit) ==
  LET start == [s |-> [s EXCEPT !.ready = <<>>, !.inline = <<>>], claimed |-> {}]
      popped == PopReadyLoop(limit, start, s.ready)[Len(s.ready)]
  IN PopInlineLoop(limit, popped, s.inline)[Len(s.inline)]

-----------------------------------------------------------------------------
(* Producers.                                                              *)

(* HGET dedup: the job the key stands for, if it is still stored.          *)
Duplicate(s, r) == r.key # None /\ s.dedup[r.key] # None
                     /\ s.jobs[s.dedup[r.key]] # None

Insert(s, r) ==
  LET stored == [s EXCEPT !.jobs[r.id] = r.body, !.attempts[r.id] = 0,
                          !.dedup = [k \in Keys |-> IF k = r.key THEN r.id ELSE @[k]]]
  IN IF r.delay THEN [stored EXCEPT !.delayed = @ \union {r.id}]
                ELSE PushReady(stored, r.id)

Admit(acc, r) ==
  CASE acc.s.jobs[r.id] \notin {None, r.body} -> [s |-> acc.s, conflict |-> TRUE]
    [] acc.s.jobs[r.id] = r.body -> acc
    [] acc.s.jobs[r.id] = None ->
         IF Duplicate(acc.s, r) THEN acc ELSE [s |-> Insert(acc.s, r), conflict |-> acc.conflict]

AdmitLoop(start, batch) ==
  LET acc[k \in 0..Len(batch)] == IF k = 0 THEN start ELSE Admit(acc[k - 1], batch[k])
  IN acc

(* ENQUEUE, ENQUEUE_BATCH and ENQUEUE_BATCH_FAST: expired deduplication    *)
(* keys are dropped, then the requests are admitted in order; an id that   *)
(* is stored with another payload refuses the whole batch.                 *)
EnqueueScript(s, batch, expired) ==
  LET clean == [s EXCEPT !.dedup = [k \in Keys |-> IF k \in expired THEN None ELSE @[k]]]
      out == AdmitLoop([s |-> clean, conflict |-> FALSE], batch)[Len(batch)]
  IN IF out.conflict THEN clean ELSE out.s

Spent(c, answered) == left' = [left EXCEPT ![c] = IF answered THEN 0 ELSE @ - 1]

(* An attempt of enqueue or enqueue_batch: the script runs or its request  *)
(* is lost; an answer ends the call, anything else is retried.             *)
Enqueue(c) ==
  /\ left[c] > 0
  /\ \E ran \in BOOLEAN, answered \in BOOLEAN, expired \in SUBSET Keys :
       /\ answered => ran
       /\ ~ran => expired = {}
       /\ q' = IF ran THEN EnqueueScript(q, c, expired) ELSE q
       /\ Spent(c, answered)
  /\ UNCHANGED <<held, leases, replays, faults>>

(* enqueue_generated_batch_fast: one MULTI that is not retried.            *)
EnqueueGenerated(c) ==
  /\ left[c] > 0
  /\ \E ran \in BOOLEAN :
       q' = IF ran
            THEN [q EXCEPT !.inline = @ \o [k \in DOMAIN c |-> <<c[k].id, c[k].body>>]]
            ELSE q
  /\ Spent(c, TRUE)
  /\ UNCHANGED <<held, leases, replays, faults>>

-----------------------------------------------------------------------------
(* The tasks of a node.                                                    *)

(* Mutant: the entry is removed whatever token it holds.                   *)
RemoveAnyLease(reg, i, t) == [reg EXCEPT ![i] = 0]

(* remove_lease: only the entry of this delivery.                          *)
RemoveLease(reg, i, t) == IF reg[i] = t THEN [reg EXCEPT ![i] = 0] ELSE reg

(* A fault happens in this step, or none.                                  *)
Fault(happens) == /\ happens => faults < MaxFaults
                  /\ faults' = IF happens THEN faults + 1 ELSE faults

Marked(ds, st) == {[d EXCEPT !.st = st] : d \in ds}

(* Leases some node still renews.                                          *)
Renewed(i) == q.token[i] # 0 /\ \E n \in Nodes : leases[n][i] = q.token[i]

(* prefetch_loop and CLAIM: no second claim before every job of the last   *)
(* one is in a worker's channel.  The answer may be lost.                  *)
ClaimWith(n, expired, due, answered) ==
  /\ Held(n, "received") = {}
  /\ Cardinality(Held(n, "queued")) < Prefetch
  /\ Cardinality(held) < MaxHeld
  /\ LET out == PopAll(Maintain(q, expired, due),
                       Prefetch - Cardinality(Held(n, "queued")))
     IN /\ q' \in TrimDlq(out.s)
        /\ held' = held \union
             {[node |-> n, id |-> i, token |-> out.s.token[i], st |-> "received"]
                : i \in IF answered THEN out.claimed ELSE {}}
  /\ Fault(~answered)
  /\ UNCHANGED <<left, leases, replays>>

Claim(n) ==
  \E expired \in SUBSET Active(q), due \in SUBSET q.delayed, answered \in BOOLEAN :
    ClaimWith(n, expired, due, answered)

(* The prefetch loop registers the lease and hands the job to a worker.    *)
Register(n) ==
  \E d \in Held(n, "received") :
    /\ leases' = [leases EXCEPT ![n][d.id] = d.token]
    /\ held' = (held \ {d}) \union Marked({d}, "queued")
    /\ UNCHANGED <<q, left, replays, faults>>

(* process_claim, the processor succeeds: the settlement loop is told.     *)
Succeed(n) ==
  \E d \in Held(n, "queued") :
    /\ held' = (held \ {d}) \union Marked({d}, "ok")
    /\ UNCHANGED <<q, left, leases, replays, faults>>

(* Mutant: NACK does not compare the token.                                *)
NackAnyToken(s, d, delayed) ==
  LET free == [s EXCEPT !.token[d.id] = 0] IN
  IF s.attempts[d.id] >= MaxAttempts
  THEN TrimDlq([free EXCEPT !.dlq = @ \union {d.id}])
  ELSE {IF delayed THEN [free EXCEPT !.delayed = @ \union {d.id}] ELSE PushReady(free, d.id)}

(* NACK: only the holder of the current token moves the job.               *)
NackScript(s, d, delayed) ==
  LET free == [s EXCEPT !.token[d.id] = 0] IN
  CASE s.token[d.id] # d.token -> {s}
    [] s.token[d.id] = d.token /\ s.attempts[d.id] >= MaxAttempts ->
         TrimDlq([free EXCEPT !.dlq = @ \union {d.id}])
    [] OTHER -> IF delayed THEN {[free EXCEPT !.delayed = @ \union {d.id}]}
                           ELSE {PushReady(free, d.id)}

(* process_claim, the processor fails or panics: NACK, which may not reach *)
(* Redis.                                                                  *)
Fail(n) ==
  \E d \in Held(n, "queued") :
    /\ \/ Fault(TRUE) /\ q' = q
       \/ Fault(FALSE) /\ \E delayed \in RetryDelays : q' \in NackScript(q, d, delayed)
    /\ held' = (held \ {d}) \union Marked({d}, "settled")
    /\ UNCHANGED <<left, leases, replays>>

(* Mutant: an acknowledgement completes any active job.                    *)
AckActive(s, ds) ==
  LET done == {d.id : d \in {e \in ds : s.token[e.id] # 0}}
      free == [s EXCEPT !.token = [i \in Ids |-> IF i \in done THEN 0 ELSE @[i]]]
  IN IF CompletedRetention = 0
     THEN {Delete(free, done)}
     ELSE TrimCompleted([free EXCEPT !.completed = @ \union done])

(* ACK_AND_CLAIM and ACK_BATCH_AND_CLAIM, which never fetch a next job:    *)
(* the deliveries that hold the current token are completed.               *)
AckScript(s, ds) ==
  LET done == {d.id : d \in {e \in ds : s.token[e.id] = e.token}}
      free == [s EXCEPT !.token = [i \in Ids |-> IF i \in done THEN 0 ELSE @[i]]]
  IN IF CompletedRetention = 0
     THEN {Delete(free, done)}
     ELSE TrimCompleted([free EXCEPT !.completed = @ \union done])

(* settlement_loop: a batch of the waiting requests is acknowledged, with  *)
(* or without the maintenance pass; a failed batch is dropped.             *)
Settle(n) ==
  \E ds \in (SUBSET Held(n, "ok")) \ {{}} :
    /\ \/ Fault(TRUE) /\ q' = q
       \/ /\ Fault(FALSE)
          /\ \E s \in AckScript(q, ds) :
               \/ q' = s
               \/ \E expired \in SUBSET Active(s), due \in SUBSET s.delayed :
                    q' \in TrimDlq(Maintain(s, expired, due))
    /\ held' = (held \ ds) \union Marked(ds, "settled")
    /\ UNCHANGED <<left, leases, replays>>

(* Mutant: the settled lease is left to the renewal loop.                  *)
ForgetLater(n) ==
  \E d \in Held(n, "settled") :
    /\ held' = held \ {d}
    /\ UNCHANGED <<q, left, leases, replays, faults>>

(* After the script has answered or failed, the lease is given up either   *)
(* way; the job may already be leased again, by this node too.             *)
Forget(n) ==
  \E d \in Held(n, "settled") :
    /\ leases' = [leases EXCEPT ![n] = RemoveLease(@, d.id, d.token)]
    /\ held' = held \ {d}
    /\ UNCHANGED <<q, left, replays, faults>>

(* lease_renewal_loop: RENEW tells the leases of the snapshot that are no  *)
(* longer this node's and each is removed.  A token is never issued again, *)
(* so an entry that was stale when RENEW looked is stale when it goes, and *)
(* one that was replaced meanwhile stays: the removal alone is a step.     *)
Renew(n) ==
  \E i \in Ids :
    /\ leases[n][i] \notin {0, q.token[i]}
    /\ leases' = [leases EXCEPT ![n][i] = 0]
    /\ UNCHANGED <<q, left, held, replays, faults>>

(* The process dies and is restarted, or disconnect times out and aborts   *)
(* the tasks.  A shutdown that drains in time only stops claiming, which     *)
(* no step of the model forces a node to do.                               *)
Crash(n) ==
  /\ Fault(TRUE)
  /\ held' = {d \in held : d.node # n}
  /\ leases' = [leases EXCEPT ![n] = [i \in Ids |-> 0]]
  /\ UNCHANGED <<q, left, replays>>

(* REPLAY_DEAD_LETTERS of the oldest dead letters to a limit.          *)
Replay ==
  /\ replays < MaxReplays
  /\ \E ids \in (SUBSET q.dlq) \ {{}} :
       LET kept == {i \in ids : q.jobs[i] # None} IN
       q' = PushAllReady([q EXCEPT !.dlq = @ \ ids,
                                   !.attempts = [i \in Ids |-> IF i \in ids THEN 0 ELSE @[i]]],
                         kept)
  /\ replays' = replays + 1
  /\ UNCHANGED <<left, held, leases, faults>>

Next ==
  \/ \E c \in Batches : Enqueue(c)
  \/ \E c \in Generated : EnqueueGenerated(c)
  \/ \E n \in Nodes : \/ Claim(n)
                      \/ Register(n)
                      \/ Succeed(n)
                      \/ Fail(n)
                      \/ Settle(n)
                      \/ Forget(n)
                      \/ Renew(n)
                      \/ Crash(n)
  \/ Replay

Spec == Init /\ [][Next]_vars

-----------------------------------------------------------------------------
(* Fairness: a running prefetch loop polls at least every                  *)
(* worker_poll_interval_ms and eventually gets an answer with every delay  *)
(* over and every lease nobody renews expired; processors end, and the     *)
(* settlement loop serves the requests it is given.                        *)
FairClaim(n) ==
  \E expired \in SUBSET Active(q) :
    /\ {i \in Active(q) : ~Renewed(i)} \subseteq expired
    /\ ClaimWith(n, expired, q.delayed, TRUE)

Fairness ==
  \A n \in Nodes : /\ WF_vars(FairClaim(n))
                   /\ WF_vars(Register(n))
                   /\ WF_vars(Succeed(n) \/ Fail(n))
                   /\ WF_vars(Settle(n))
                   /\ WF_vars(Forget(n))

FairSpec == Spec /\ Fairness

-----------------------------------------------------------------------------
(* Correctness.                                                            *)

Occurrences(i) == Cardinality({k \in DOMAIN q.ready : q.ready[k] = i})

Places(i) ==
  Occurrences(i) + Cardinality({p \in {"delayed", "active", "dlq", "completed"} :
                                  i \in CASE p = "delayed" -> q.delayed
                                          [] p = "active" -> Active(q)
                                          [] p = "dlq" -> q.dlq
                                          [] p = "completed" -> q.completed})

(* A job with a stored payload is in exactly one of the ready list, the    *)
(* delayed set, the leases, the dead letters and the completed set, and an *)
(* id without one is in none: no sequence of expired leases, late settles, *)
(* replays, evictions and repeated enqueues loses a stored job or queues   *)
(* it twice.                                                               *)
OnePlace == \A i \in Ids : Places(i) = IF q.jobs[i] = None THEN 0 ELSE 1

(* Each delivery a worker or the settlement loop holds under the current   *)
(* token is in its node's registry, so its lease is renewed: a late Forget *)
(* for an older delivery of the job never removes the entry of the newer   *)
(* one.                                                                    *)
DeliveriesRenewed ==
  \A d \in held :
    d.st # "received" /\ d.token = q.token[d.id] => leases[d.node][d.id] = d.token

(* Each lease in a registry belongs to a delivery the node still works on: *)
(* every way a delivery ends gives its lease up, so no job is renewed by a *)
(* node that forgot it.                                                    *)
NoOrphanLease ==
  \A n \in Nodes, i \in Ids :
    leases[n][i] # 0 =>
      \E d \in held : /\ d.node = n
                       /\ d.id = i
                       /\ d.token = leases[n][i]
                       /\ d.st # "received"

(* The life-cycle phase of a job.                                          *)
Phase(i) ==
  CASE q.token[i] # 0 ->
         IF \E d \in held : d.id = i /\ d.token = q.token[i] /\ d.st = "ok"
         THEN "succeeded" ELSE "running"
    [] i \in q.dlq -> "dead"
    [] i \in q.completed -> "done"
    [] q.token[i] = 0 /\ i \notin q.dlq \union q.completed ->
         IF q.jobs[i] # None \/ \E k \in DOMAIN q.inline : q.inline[k][1] = i
         THEN "waiting" ELSE "absent"

JQ == INSTANCE JobQueue WITH phase <- [i \in Ids |-> Phase(i)], tries <- q.attempts

(* The scripts and the node's tasks implement the job life cycle: a job is *)
(* completed only by the delivery that holds it, after its processor       *)
(* succeeded; it is dead-lettered only after MaxAttempts deliveries; no    *)
(* other step forgets it.                                                  *)
ImplementsJobQueue == JQ!Spec

(* Every job that waits or is being delivered is eventually acknowledged   *)
(* or dead-lettered, whatever node dies with it.                           *)
EveryJobSettled ==
  \A i \in Ids : (Phase(i) \notin JQ!Settled) ~> (Phase(i) \in JQ!Settled)

=============================================================================
