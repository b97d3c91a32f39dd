---------------------------- MODULE PushPipeline ----------------------------
(***************************************************************************)
(* The push notification pipeline: admission over HTTP, planner, shard     *)
(* worker, provider worker, feedback processor, retry scheduler and        *)
(* publish-log repair, connected by a leased queue with at-least-once      *)
(* delivery (MemoryPushQueue) and a store with put-if-absent idempotency   *)
(* records, compare-and-swap publish statuses and TTL locks.               *)
(*                                                                         *)
(* A worker holds one message at a time and makes one store or queue call  *)
(* per step, so every handler interleaves with every other and can stop    *)
(* between any two of its calls.  The messages of one stage are a set: any *)
(* due message may be consumed next (delays, batches of messages and the   *)
(* fair scheduler only choose the order).  A status mutation is one step:  *)
(* the CAS loop makes it linearizable, and running out of CAS attempts is  *)
(* one of the store errors of StoreError.                                  *)
(***************************************************************************)
EXTENDS Integers, Sequences, FiniteSets, FiniteSetsExt

CONSTANTS Publishes,     \* publish ids
          Requests,      \* HTTP publish calls
          Target,        \* [Requests -> Publishes]
          Subs,          \* the channel's subscriptions in listing order: the
                         \* device ids of each (several when client-scoped)
          PageSize,      \* subscriptions per listing page
          Estimates,     \* what expected_recipients may answer
          FastThreshold, \* below it the publish is planned on the fast path
          ShardSize,     \* recipients a shard emits before it continues
          BatchSize,     \* provider_batch_size
          Outcomes,      \* answers of the provider
          MaxAttempts,   \* RetryPolicy.max_attempts
          Workers,       \* worker tasks, of every role and node
          Owner,         \* [Workers -> lock owner ids]
          Deadlines,     \* which deadlines may pass: "age", "delivery"
          Stamp,         \* publish -> rank of its log event in the listing order,
                         \* by occurred_at_ms and event id
          RepairBatch,   \* PushRepairPolicy.batch_size
          MaxFaults      \* bound: crashes, store errors, lost leases, deferrals

\* The answers a provider gives: accepted, rejected because the device is
\* gone for good, rejected for another reason, retryable.
Answers == {"accepted", "invalid", "rejected", "retryable"}

\* The chunk sizes, the retry limit and the recipients are at least one; no
\* two log events have the same place in the listing.
ASSUME PushAssumption ==
    /\ Target \in [Requests -> Publishes]
    /\ Subs \in Seq(SUBSET (Nat \ {0})) /\ \A i \in DOMAIN Subs : IsFiniteSet(Subs[i])
    /\ Estimates \subseteq Nat
    /\ FastThreshold \in Nat /\ MaxFaults \in Nat
    /\ {PageSize, ShardSize, BatchSize, MaxAttempts, RepairBatch} \subseteq Nat \ {0}
    /\ Stamp \in [Publishes -> Nat] /\ \A p, q \in Publishes : Stamp[p] = Stamp[q] => p = q
    /\ Outcomes \subseteq Answers

Devices == UNION {Subs[i] : i \in DOMAIN Subs}

VARIABLES req,        \* where each HTTP call is
          idem,       \* idempotency records
          status,     \* publish -> its status row, or NoStatus
          log,        \* publish log: publishes with a durable event
          regime,     \* publish -> fan-out regime of its log event
          ready,      \* messages waiting in the queue
          inflight,   \* messages leased to a worker
          dlq,        \* dead-lettered originals
          registered, \* devices the store knows
          locks,      \* <<lock id, owner>> pairs, at most one per id
          wk,         \* what each worker is doing
          repair,     \* the publish the repair scan is about to produce, if any
          deadline,   \* publish -> which deadline has passed
          faults,     \* faults still to come
          sent,       \* <<publish, device, attempt>> -> provider requests made
          counted     \* delivery results whose outcome is in the counters

vars == <<req, idem, status, log, regime, ready, inflight, dlq, registered,
          locks, wk, repair, deadline, faults, sent, counted>>
store == <<idem, status, log, regime, registered, locks, counted>>
queue == <<ready, inflight, dlq>>

-----------------------------------------------------------------------------
(* Publish status *)

NoStatus == [state |-> "none"]
TerminalStates == {"quotaExceeded", "succeeded", "partiallySucceeded", "expired",
                   "deadLettered", "failed"}
Active(s) == s.state \in {"queued", "planning", "dispatching"}

NewStatus(state, planned) ==
    [state |-> state, planned |-> planned, succeeded |-> 0, failed |-> 0, expired |-> 0,
     dead |-> 0, scheduled |-> 0, attempted |-> 0]

\* A mutant of CanTransition: terminal states are not final.
CanTransitionUnlessQueued(from, to) ==
    \/ from = to
    \/ to = "planning" /\ from = "queued"
    \/ to \notin {"queued", "planning"}

\* can_transition_to, over the states the pipeline writes.
CanTransition(from, to) ==
    \/ from = to
    \/ /\ from \notin TerminalStates
       /\ CASE to = "queued"      -> FALSE
            [] to = "planning"    -> from = "queued"
            [] to = "dispatching" -> from \in {"queued", "planning", "dispatching"}
            [] OTHER              -> TRUE

\* resolve_lifecycle_state: the state the terminal counters imply.
Resolve(s) ==
    LET t == s.succeeded + s.failed + s.expired + s.dead
    IN  CASE s.planned = 0 \/ t < s.planned                    -> s.state
          [] s.failed = 0 /\ s.expired = 0 /\ s.dead = 0       -> "succeeded"
          [] s.succeeded > 0                                   -> "partiallySucceeded"
          [] s.succeeded = 0 /\ s.expired > 0                  -> "expired"
          [] s.succeeded = 0 /\ s.expired = 0 /\ s.dead > 0    -> "deadLettered"
          [] OTHER                                             -> "failed"

Count(s, field) == LET n == [s EXCEPT ![field] = @ + 1] IN [n EXCEPT !.state = Resolve(n)]

-----------------------------------------------------------------------------
(* Messages and the queue *)

Msg(stage, p, batch, devs, n, o) ==
    [stage |-> stage, pub |-> p, batch |-> batch, devs |-> devs, attempt |-> n, out |-> o]

PublishMsg(p) == Msg("publish", p, <<>>, {}, 0, "-")
ShardMsg(p, shard, cursor) == Msg("shard", p, shard, {}, cursor, "-")
BatchMsg(p, batch, devs, n) == Msg("deliver", p, batch, devs, n, "-")
ResultMsg(p, batch, d, n, o) == Msg("result", p, batch, {d}, n, o)
RetryMsg(p, batch, d, n) == Msg("retry", p, batch, {d}, n, "-")

\* The key a message is produced under: a batch by its id alone, a result by
\* its delivery and attempt but not its outcome, a retry by its delivery and
\* attempt.
Key(m) == CASE m.stage = "publish" -> <<m.stage, m.pub>>
            [] m.stage \in {"shard", "deliver"} -> <<m.stage, m.pub, m.batch>>
            [] OTHER -> <<m.stage, m.pub, m.batch, m.devs, m.attempt>>

Queued == ready \cup inflight

\* A mutant of Enqueue: the produced keys are not consulted.
EnqueueAlways(r, m) == r \cup {m}

\* enqueue: a key that is still in the queue answers with the message that
\* holds it, and nothing is added.
Enqueue(r, m) == IF \E x \in r \cup inflight : Key(x) = Key(m) THEN r ELSE r \cup {m}
Produce(m) == ready' = Enqueue(ready, m)

-----------------------------------------------------------------------------
(* Workers *)

Idle == [pc |-> "idle"]
Busy(w) == wk[w].pc # "idle"

\* token: the queue still knows the message id this worker was handed.
Start(w, m, pc) == [wk EXCEPT ![w] = [pc |-> pc, m |-> m, token |-> TRUE, rest |-> <<>>]]
Goto(w, pc) == wk' = [wk EXCEPT ![w].pc = pc]
\* Produce rest next, message by message, and then finish the handler.
EmitFrom(w, rest) ==
    wk' = [wk EXCEPT ![w].rest = rest,
                     ![w].pc = IF rest # <<>> THEN "emit"
                               ELSE IF wk[w].m.stage = "publish" THEN "markDispatching" ELSE "ack"]
Leased(w) == wk[w].token /\ wk[w].m \in inflight

\* A message id leaves the queue: the tokens other workers hold for it are void.
Void(f, m) == [v \in Workers |-> IF f[v].pc # "idle" /\ f[v].m = m
                                 THEN [f[v] EXCEPT !.token = FALSE] ELSE f[v]]

\* ack: a token that is no longer leased acknowledges nothing.
Ack(w) ==
    LET next == [wk EXCEPT ![w] = Idle] IN
    /\ inflight' = IF Leased(w) THEN inflight \ {wk[w].m} ELSE inflight
    /\ wk' = IF Leased(w) THEN Void(next, wk[w].m) ELSE next

\* nack: back to ready, under the same id.
Nack(w) ==
    /\ wk' = [wk EXCEPT ![w] = Idle]
    /\ inflight' = IF Leased(w) THEN inflight \ {wk[w].m} ELSE inflight
    /\ ready' = IF Leased(w) THEN ready \cup {wk[w].m} ELSE ready

\* dead_letter: as ack, and the original is kept for replay.
DeadLetter(w) ==
    /\ Ack(w)
    /\ dlq' = IF Leased(w) THEN dlq \cup {wk[w].m} ELSE dlq

\* acquire_scheduler_lock: a lock of the same owner id does not exclude.
CanLock(id, w) == \A l \in locks : l[1] = id => l[2] = Owner[w]
Acquire(id, w) == locks' = locks \cup {<<id, Owner[w]>>}
Release(id, w) == locks' = locks \ {<<id, Owner[w]>>}

FirstPc == [publish |-> "plan", shard |-> "shard", deliver |-> "preflight",
            result |-> "feedback", retry |-> "retry"]

\* consume: lease one due message and start its handler.
Consume(w) ==
    /\ ~Busy(w)
    /\ \E m \in ready :
          /\ ready' = ready \ {m}
          /\ inflight' = inflight \cup {m}
          /\ wk' = Start(w, m, FirstPc[m.stage])
    /\ UNCHANGED <<req, store, dlq, repair, deadline, faults, sent>>

-----------------------------------------------------------------------------
(* accept_publish_inner *)

\* The lookups before anything is written.
AcceptLookup(r) ==
    /\ req[r].pc = "new"
    /\ \E n \in Estimates, quota \in BOOLEAN :
          req' = [req EXCEPT ![r] =
                    IF {<<"publish-id", Target[r]>>, <<"publish-uid", Target[r]>>} \cap idem # {}
                    THEN [@ EXCEPT !.pc = "duplicate"]
                    ELSE [pc |-> "create",
                          row |-> NewStatus(IF quota THEN "quotaExceeded" ELSE "queued", n)]]
    /\ UNCHANGED <<store, queue, wk, repair, deadline, faults, sent>>

\* create_publish_status_if_absent: a row that differs from ours is a duplicate.
AcceptCreate(r) ==
    LET p == Target[r] IN
    /\ req[r].pc = "create"
    /\ status' = [status EXCEPT ![p] = IF @ = NoStatus THEN req[r].row ELSE @]
    /\ req' = [req EXCEPT ![r].pc = IF status[p] \in {NoStatus, req[r].row}
                                     THEN "publish-id" ELSE "duplicate"]
    /\ UNCHANGED <<idem, log, regime, registered, locks, counted, queue, wk, repair, deadline, faults, sent>>

\* put_idempotency_record_if_absent, for the publish id and then for the uid.
AcceptRecord(r) ==
    LET key == <<req[r].pc, Target[r]>> IN
    /\ req[r].pc \in {"publish-id", "publish-uid"}
    /\ idem' = idem \cup {key}
    /\ req' = [req EXCEPT ![r].pc =
                 IF key \in idem THEN "duplicate"
                 ELSE IF @ = "publish-id" THEN "publish-uid"
                 ELSE IF req[r].row.state = "quotaExceeded" THEN "rejected" ELSE "append"]
    /\ UNCHANGED <<status, log, regime, registered, locks, counted, queue, wk, repair, deadline, faults, sent>>

AcceptAppend(r) ==
    LET p == Target[r] IN
    /\ req[r].pc = "append"
    /\ log' = log \cup {p}
    /\ regime' = [regime EXCEPT ![p] = IF req[r].row.planned < FastThreshold THEN "fast" ELSE "shard"]
    /\ req' = [req EXCEPT ![r].pc = "produce"]
    /\ UNCHANGED <<idem, status, registered, locks, counted, queue, wk, repair, deadline, faults, sent>>

AcceptProduce(r) ==
    /\ req[r].pc = "produce"
    /\ Produce(PublishMsg(Target[r]))
    /\ req' = [req EXCEPT ![r].pc = "accepted"]
    /\ UNCHANGED <<store, inflight, dlq, wk, repair, deadline, faults, sent>>

\* The node dies, or the store fails, in the middle of a call.
AcceptAbort(r) ==
    /\ faults > 0
    /\ req[r].pc \in {"create", "publish-id", "publish-uid", "append", "produce"}
    /\ req' = [req EXCEPT ![r].pc = "aborted"]
    /\ faults' = faults - 1
    /\ UNCHANGED <<store, queue, wk, repair, deadline, sent>>

-----------------------------------------------------------------------------
(* PushPlanner *)

\* ProviderBatcher: the recipients in listing order, BatchSize to a batch,
\* batch i under a deterministic id.
Rank(S, d) == Cardinality({e \in S : e <= d})
Batches(p, prefix, S) ==
    [i \in 1 .. ((Cardinality(S) + BatchSize - 1) \div BatchSize) |->
        BatchMsg(p, prefix \o <<"batch", i>>,
                 {d \in S : (Rank(S, d) - 1) \div BatchSize + 1 = i}, 1)]

\* stream_target on the fast path stops at fast_threshold recipients.
FastAudience == {d \in registered : Rank(registered, d) <= FastThreshold}

CanBePlanned(p) == status[p].state \in {"queued", "planning"}
PlanLock(p) == <<"planner", p>>

\* begin_planning up to the lock.
PlanBegin(w) ==
    LET p == wk[w].m.pub IN
    /\ wk[w].pc = "plan"
    /\ \/ /\ ~CanBePlanned(p)
          /\ Ack(w) /\ UNCHANGED <<ready, locks>>
       \/ /\ CanBePlanned(p) /\ ~CanLock(PlanLock(p), w)
          /\ Nack(w) /\ UNCHANGED locks
       \/ /\ CanBePlanned(p) /\ CanLock(PlanLock(p), w)
          /\ Acquire(PlanLock(p), w)
          /\ Goto(w, "recheck")
          /\ UNCHANGED <<ready, inflight>>
    /\ UNCHANGED <<req, idem, status, log, regime, registered, counted, dlq, repair, deadline, faults, sent>>

\* The second look at the status, under the lock.
PlanRecheck(w) ==
    LET p == wk[w].m.pub IN
    /\ wk[w].pc = "recheck"
    /\ IF CanBePlanned(p) THEN Goto(w, "markPlanning") /\ UNCHANGED <<inflight, locks>>
                          ELSE Ack(w) /\ Release(PlanLock(p), w)
    /\ UNCHANGED <<req, idem, status, log, regime, registered, counted, ready, dlq, repair, deadline, faults, sent>>

\* mark_state: a transition the lifecycle forbids is dropped.
MarkState(p, to) ==
    status' = IF CanTransition(status[p].state, to) THEN [status EXCEPT ![p].state = to] ELSE status

\* plan_fast: the batches; plan_shard: the first shard job.
PlanOutput(p) == IF regime[p] = "fast" THEN Batches(p, <<"fast">>, FastAudience)
                                       ELSE <<ShardMsg(p, <<"shard">>, 0)>>

\* A mutant of PlanMark: the publish is marked before its batches are out.
PlanMarkDispatching(w) ==
    LET p == wk[w].m.pub IN
    /\ wk[w].pc = "markPlanning"
    /\ MarkState(p, "dispatching")
    /\ EmitFrom(w, PlanOutput(p))
    /\ UNCHANGED <<req, idem, log, regime, registered, locks, counted, queue, repair, deadline, faults, sent>>

PlanMark(w) ==
    LET p == wk[w].m.pub IN
    /\ wk[w].pc = "markPlanning"
    /\ MarkState(p, "planning")
    /\ EmitFrom(w, PlanOutput(p))
    /\ UNCHANGED <<req, idem, log, regime, registered, locks, counted, queue, repair, deadline, faults, sent>>

PlanFinish(w) ==
    LET p == wk[w].m.pub IN
    /\ wk[w].pc = "markDispatching"
    /\ MarkState(p, "dispatching")
    /\ Goto(w, "planned")
    /\ UNCHANGED <<req, idem, log, regime, registered, locks, counted, queue, repair, deadline, faults, sent>>

\* The lock is given back and the message acknowledged: after the mark a
\* redelivery changes nothing, so the two calls are one step.
PlanUnlock(w) ==
    /\ wk[w].pc = "planned"
    /\ Release(PlanLock(wk[w].m.pub), w)
    /\ Ack(w)
    /\ UNCHANGED <<req, idem, status, log, regime, registered, counted, ready, dlq, repair, deadline, faults, sent>>

\* The produces of one handler, one by one: batches of a plan or a shard, a
\* shard's continuation, the results of a dispatch.
Emit(w) ==
    /\ wk[w].pc = "emit"
    /\ Produce(Head(wk[w].rest))
    /\ EmitFrom(w, Tail(wk[w].rest))
    /\ UNCHANGED <<req, store, inflight, dlq, repair, deadline, faults, sent>>

\* A mutant of AckStep: the handled message is returned to the queue.
ReturnStep(w) ==
    /\ wk[w].pc = "ack"
    /\ Nack(w)
    /\ UNCHANGED <<req, store, dlq, repair, deadline, faults, sent>>

AckStep(w) ==
    /\ wk[w].pc = "ack"
    /\ Ack(w)
    /\ UNCHANGED <<req, store, ready, dlq, repair, deadline, faults, sent>>

-----------------------------------------------------------------------------
(* PushShardWorker: stream_shard from a cursor over the subscriptions *)

\* The devices of R that subscriptions i + 1 to j name.
Recipients(R, i, j) == R \cap UNION {Subs[k] : k \in i + 1 .. j}

\* Where the pages of a shard that starts after subscription c end: a page
\* asks for no more subscriptions than the shard has recipients left.
PageEnds(R, c) ==
    LET b[t \in 0 .. Len(Subs)] ==
          IF t = 0 THEN c
          ELSE Min({Len(Subs),
                    b[t - 1] + Min({PageSize,
                                    Max({1, ShardSize - Cardinality(Recipients(R, c, b[t - 1]))})})})
    IN  b
Boundary(R, c) == {k \in 0 .. Len(Subs) : \E t \in 1 .. Len(Subs) : PageEnds(R, c)[t] = k}

\* The shard stops after the subscription that fills it; its continuation
\* starts at the end of the page that subscription is on.
ShardStop(R, c) ==
    Min({Len(Subs)} \cup {k \in c + 1 .. Len(Subs) : Cardinality(Recipients(R, c, k)) >= ShardSize})
ShardNext(R, c) == Min({Len(Subs)} \cup {b \in Boundary(R, c) : b >= ShardStop(R, c)})

ShardStream(w) ==
    LET m == wk[w].m
        S == Recipients(registered, m.attempt, ShardStop(registered, m.attempt))
        next == ShardNext(registered, m.attempt)
        more == IF next < Len(Subs)
                THEN <<ShardMsg(m.pub, m.batch \o <<"next", Cardinality(S)>>, next)>>
                ELSE <<>>
    IN  /\ wk[w].pc = "shard"
        /\ EmitFrom(w, Batches(m.pub, m.batch, S) \o more)
        /\ UNCHANGED <<req, store, queue, repair, deadline, faults, sent>>

-----------------------------------------------------------------------------
(* PushProviderWorker *)

Sorted(S) == [i \in 1 .. Cardinality(S) |-> CHOOSE d \in S : Rank(S, d) = i]

\* preflight_batch: past the delivery deadline nothing is sent; the jobs are
\* answered as expired.  Otherwise the provider is asked, and each job gets
\* some answer.
Dispatch(w) ==
    LET m == wk[w].m
        results(o) == [i \in 1 .. Cardinality(m.devs) |->
                          ResultMsg(m.pub, m.batch, Sorted(m.devs)[i], m.attempt, o[Sorted(m.devs)[i]])]
    IN  /\ wk[w].pc = "preflight"
        /\ \/ /\ deadline[m.pub] = "delivery"
              /\ EmitFrom(w, results([d \in m.devs |-> "expired"]))
              /\ UNCHANGED sent
           \/ /\ deadline[m.pub] # "delivery"
              /\ \E o \in [m.devs -> Outcomes] : EmitFrom(w, results(o))
              /\ sent' = [x \in DOMAIN sent |->
                            IF x[1] = m.pub /\ x[2] \in m.devs /\ x[3] = m.attempt
                            THEN sent[x] + 1 ELSE sent[x]]
        /\ UNCHANGED <<req, store, queue, repair, deadline, faults>>

\* The circuit breaker is open, the lane is at its limit or the tenant at its
\* cap for this tick: the batch goes back.
Defer(w) ==
    /\ wk[w].pc = "preflight" /\ faults > 0
    /\ Nack(w)
    /\ faults' = faults - 1
    /\ UNCHANGED <<req, store, dlq, repair, deadline, sent>>

-----------------------------------------------------------------------------
(* PushFeedbackProcessor.apply_feedback *)

Device(m) == CHOOSE d \in m.devs : TRUE

\* result_event_id: the outcome is part of it, but a rejection is labelled the
\* same whether or not the device is gone for good.
ResultEvent(m) ==
    <<"delivery-result", [m EXCEPT !.out = IF m.out = "invalid" THEN "rejected" ELSE m.out]>>

\* A mutant of Feedback: a record that is already there is not looked at.
FeedbackAgain(w) ==
    /\ wk[w].pc = "feedback"
    /\ idem' = idem \cup {ResultEvent(wk[w].m)}
    /\ Goto(w, "device")
    /\ UNCHANGED <<req, status, log, regime, registered, locks, counted, queue, repair, deadline, faults, sent>>

\* The idempotency record of the event is written before any of its effects,
\* so from here on a redelivery is only acknowledged: the last effect and the
\* acknowledgement are one step below.
Feedback(w) ==
    LET event == ResultEvent(wk[w].m) IN
    /\ wk[w].pc = "feedback"
    /\ idem' = idem \cup {event}
    /\ IF event \in idem THEN Ack(w) ELSE Goto(w, "device") /\ UNCHANGED inflight
    /\ UNCHANGED <<req, status, log, regime, registered, locks, counted, ready, dlq, repair, deadline, faults, sent>>

\* update_device_state: a terminal failure deletes the device; other outcomes
\* that concern the device read it and write it back in a later call.
FeedbackDevice(w) ==
    LET m == wk[w].m IN
    /\ wk[w].pc = "device"
    /\ \/ /\ m.out = "invalid"
          /\ registered' = registered \ m.devs
          /\ Goto(w, "count")
       \/ /\ m.out \in {"accepted", "rejected", "retryable"} /\ m.devs \subseteq registered
          /\ Goto(w, "upsert")
          /\ UNCHANGED registered
       \/ /\ m.out \in {"rejected", "retryable", "expired"} \/ (m.out = "accepted" /\ m.devs \cap registered = {})
          /\ Goto(w, "count")
          /\ UNCHANGED registered
    /\ UNCHANGED <<req, idem, status, log, regime, locks, counted, queue, repair, deadline, faults, sent>>

FeedbackUpsert(w) ==
    /\ wk[w].pc = "upsert"
    /\ registered' = registered \cup wk[w].m.devs
    /\ Goto(w, "count")
    /\ UNCHANGED <<req, idem, status, log, regime, locks, counted, queue, repair, deadline, faults, sent>>

\* update_publish_status
FeedbackCount(w) ==
    LET m == wk[w].m IN
    /\ wk[w].pc = "count"
    /\ status' = [status EXCEPT ![m.pub] =
                    CASE m.out = "accepted" -> Count(@, "succeeded")
                      [] m.out \in {"invalid", "rejected"} -> Count(@, "failed")
                      [] m.out = "expired" -> Count(@, "expired")
                      [] OTHER -> [@ EXCEPT !.state = Resolve(status[m.pub])]]
    /\ counted' = counted \cup {m}
    /\ IF m.out = "retryable" THEN Goto(w, "schedule") /\ UNCHANGED inflight ELSE Ack(w)
    /\ UNCHANGED <<req, idem, log, regime, registered, locks, ready, dlq, repair, deadline, faults, sent>>

\* handle_retry_or_dlq: the retry entry, then its count.
FeedbackSchedule(w) ==
    LET m == wk[w].m IN
    /\ wk[w].pc = "schedule"
    /\ Produce(RetryMsg(m.pub, m.batch, Device(m), m.attempt + 1))
    /\ Goto(w, "markScheduled")
    /\ UNCHANGED <<req, store, inflight, dlq, repair, deadline, faults, sent>>

FeedbackMark(w) ==
    /\ wk[w].pc = "markScheduled"
    /\ status' = [status EXCEPT ![wk[w].m.pub].scheduled = @ + 1]
    /\ Ack(w)
    /\ UNCHANGED <<req, idem, log, regime, registered, locks, counted, ready, dlq, repair, deadline, faults, sent>>

-----------------------------------------------------------------------------
(* PushRetryScheduler *)

RetryKey(m) == <<"retry", Key(m)>>
Successor(m) == BatchMsg(m.pub, m.batch \o <<"retry", m.attempt>>, m.devs, m.attempt)

\* A retry of a terminal publish is stale unless the counters owe one.
RetryOwed(s) == s.state \in TerminalStates /\ s.attempted < s.scheduled

\* Which way an entry goes once it is locked.
RetryRoute(m) ==
    CASE deadline[m.pub] = "delivery" -> "terminalExpired"
      [] deadline[m.pub] # "delivery" /\ (m.attempt > MaxAttempts \/ deadline[m.pub] = "age") -> "terminalDead"
      [] OTHER -> IF RetryOwed(status[m.pub]) \/ CanTransition(status[m.pub].state, "dispatching")
                  THEN "successor" ELSE "stale"

\* handle_message up to retry_already_completed.
RetryBegin(w) ==
    /\ wk[w].pc = "retry"
    /\ IF RetryKey(wk[w].m) \in idem THEN Ack(w) ELSE Goto(w, "retryLock") /\ UNCHANGED inflight
    /\ UNCHANGED <<req, store, ready, dlq, repair, deadline, faults, sent>>

\* The lock, and handle_locked_retry up to its first write: the record is not
\* looked at again, although another scheduler may have finished meanwhile.
RetryLock(w) ==
    LET m == wk[w].m IN
    /\ wk[w].pc = "retryLock"
    /\ \/ /\ ~CanLock(RetryKey(m), w)
          /\ Nack(w) /\ UNCHANGED locks
       \/ /\ CanLock(RetryKey(m), w)
          /\ Acquire(RetryKey(m), w)
          /\ Goto(w, RetryRoute(m))
          /\ UNCHANGED <<ready, inflight>>
    /\ UNCHANGED <<req, idem, status, log, regime, registered, counted, dlq, repair, deadline, faults, sent>>

RetryProduce(w) ==
    /\ wk[w].pc = "successor"
    /\ Produce(Successor(wk[w].m))
    /\ Goto(w, "record")
    /\ UNCHANGED <<req, store, inflight, dlq, repair, deadline, faults, sent>>

\* mark_terminal_status
RetryTerminal(w) ==
    /\ wk[w].pc \in {"terminalExpired", "terminalDead"}
    /\ status' = [status EXCEPT ![wk[w].m.pub] =
                    Count(@, IF wk[w].pc = "terminalExpired" THEN "expired" ELSE "dead")]
    /\ Goto(w, "terminal")
    /\ UNCHANGED <<req, idem, log, regime, registered, locks, counted, queue, repair, deadline, faults, sent>>

\* put_retry_idempotency
RetryRecord(w) ==
    /\ wk[w].pc \in {"record", "stale", "terminal"}
    /\ idem' = idem \cup {RetryKey(wk[w].m)}
    /\ Goto(w, CASE wk[w].pc = "record" -> "attempted"
                 [] wk[w].pc = "stale" -> "retryAck"
                 [] OTHER -> "retryDead")
    /\ UNCHANGED <<req, status, log, regime, registered, locks, counted, queue, repair, deadline, faults, sent>>

RetryCount(w) ==
    LET p == wk[w].m.pub
        s == status[p]
    IN  /\ wk[w].pc = "attempted"
        /\ status' = [status EXCEPT ![p] =
                        IF RetryOwed(s) THEN [s EXCEPT !.attempted = s.attempted + 1]
                        ELSE IF CanTransition(s.state, "dispatching")
                        THEN [s EXCEPT !.attempted = s.attempted + 1, !.state = "dispatching"]
                        ELSE s]
        /\ Goto(w, "retryAck")
        /\ UNCHANGED <<req, idem, log, regime, registered, locks, counted, queue, repair, deadline, faults, sent>>

\* The message is settled and the lock given back: once the retry record is
\* written a redelivery is only acknowledged, so the two calls are one step.
RetryFinish(w) ==
    /\ \/ wk[w].pc = "retryAck" /\ Ack(w) /\ UNCHANGED dlq
       \/ wk[w].pc = "retryDead" /\ DeadLetter(w)
    /\ Release(RetryKey(wk[w].m), w)
    /\ UNCHANGED <<req, idem, status, log, regime, registered, counted, ready, repair, deadline, faults, sent>>

-----------------------------------------------------------------------------
(* PushPublishLogRepairWorker: the repair lock has one owner id for every *)
(* worker, so it never refuses.                                           *)

\* list_publish_log_events, from the start and as far as one pass reads: every
\* pass starts over, the log is never pruned, so only the oldest RepairBatch
\* events are ever looked at.
RepairWindow == {p \in log : Cardinality({q \in log : Stamp[q] < Stamp[p]}) < RepairBatch}

\* A mutant of RepairLook: only publishes whose planning began are replayed.
RepairLookPlanning(p) ==
    /\ repair = {}
    /\ p \in RepairWindow /\ status[p].state = "planning"
    /\ repair' = {p}
    /\ UNCHANGED <<req, store, queue, wk, deadline, faults, sent>>

\* run_once_for_app: an event of the window whose publish still has the
\* status queued ...
RepairLook(p) ==
    /\ repair = {}
    /\ p \in RepairWindow /\ status[p].state = "queued"
    /\ repair' = {p}
    /\ UNCHANGED <<req, store, queue, wk, deadline, faults, sent>>
RepairScan == \E p \in Publishes : RepairLook(p)

\* ... is produced again, whatever has happened to it since the look.
RepairProduce ==
    /\ \E p \in repair : Produce(PublishMsg(p))
    /\ repair' = {}
    /\ UNCHANGED <<req, store, inflight, dlq, wk, deadline, faults, sent>>

-----------------------------------------------------------------------------
(* Time and faults *)

PlanPcs == {"recheck", "markPlanning", "emit", "markDispatching", "planned"}
RetryPcs == {"retryLock", "successor", "record", "attempted", "stale", "terminalExpired",
             "terminalDead", "terminal", "retryAck", "retryDead"}
LockedRetryPcs == RetryPcs \ {"retryLock"}
FeedbackPcs == {"feedback", "device", "upsert", "count", "schedule", "markScheduled"}

HoldsLock(w, l) ==
    /\ Busy(w) /\ Owner[w] = l[2]
    /\ \/ wk[w].m.stage = "publish" /\ wk[w].pc \in PlanPcs /\ l[1] = PlanLock(wk[w].m.pub)
       \/ wk[w].m.stage = "retry" /\ wk[w].pc \in LockedRetryPcs /\ l[1] = RetryKey(wk[w].m)

\* reclaim_expired_leases: the lease of a worker that is gone runs out; a
\* worker that is merely slow loses it too.
Handled(m) == \E w \in Workers : Busy(w) /\ wk[w].m = m /\ wk[w].token
LeaseExpires ==
    /\ \E m \in inflight :
          /\ Handled(m) => faults > 0
          /\ inflight' = inflight \ {m}
          /\ ready' = ready \cup {m}
          /\ faults' = IF Handled(m) THEN faults - 1 ELSE faults
    /\ UNCHANGED <<req, store, dlq, wk, repair, deadline, sent>>

LockExpires ==
    /\ \E l \in locks :
          LET held == \E w \in Workers : HoldsLock(w, l) IN
          /\ held => faults > 0
          /\ locks' = locks \ {l}
          /\ faults' = IF held THEN faults - 1 ELSE faults
    /\ UNCHANGED <<req, idem, status, log, regime, registered, counted, queue, wk, repair, deadline, sent>>

\* The worker task or its node dies between two calls.
Crash(w) ==
    /\ Busy(w) /\ faults > 0
    /\ wk' = [wk EXCEPT ![w] = Idle]
    /\ faults' = faults - 1
    /\ UNCHANGED <<req, store, queue, repair, deadline, sent>>

\* A store or queue call fails: the planner gives its lock back, the retry
\* scheduler too, the feedback processor dead-letters its message, and every
\* other handler just leaves its message to the lease, as Crash does.
StoreError(w) ==
    /\ Busy(w) /\ faults > 0
    /\ \/ /\ wk[w].m.stage = "publish" /\ wk[w].pc = "emit"
          /\ Release(PlanLock(wk[w].m.pub), w)
          /\ wk' = [wk EXCEPT ![w] = Idle]
          /\ UNCHANGED <<inflight, dlq>>
       \/ /\ wk[w].pc \in LockedRetryPcs
          /\ Release(RetryKey(wk[w].m), w)
          /\ wk' = [wk EXCEPT ![w] = Idle]
          /\ UNCHANGED <<inflight, dlq>>
       \/ /\ wk[w].pc \in FeedbackPcs
          /\ DeadLetter(w)
          /\ UNCHANGED locks
    /\ faults' = faults - 1
    /\ UNCHANGED <<req, idem, status, log, regime, registered, counted, ready, repair, deadline, sent>>

\* replay_dead_letter: an operator puts the original back; it stays listed.
Replay ==
    /\ faults > 0
    /\ \E m \in dlq : Produce(m)
    /\ faults' = faults - 1
    /\ UNCHANGED <<req, store, inflight, dlq, wk, repair, deadline, sent>>

\* The retry age of a publish, or the expiry its caller asked for, passes.
Deadline ==
    /\ \E p \in Publishes, d \in {"age", "delivery"} :
          /\ deadline[p] = "none" /\ d \in Deadlines
          /\ deadline' = [deadline EXCEPT ![p] = d]
    /\ UNCHANGED <<req, store, queue, wk, repair, faults, sent>>

-----------------------------------------------------------------------------
Init ==
    /\ req = [r \in Requests |-> [pc |-> "new", row |-> NoStatus]]
    /\ idem = {} /\ log = {} /\ ready = {} /\ inflight = {} /\ dlq = {} /\ locks = {}
    /\ status = [p \in Publishes |-> NoStatus]
    /\ regime = [p \in Publishes |-> "none"]
    /\ registered = Devices
    /\ wk = [w \in Workers |-> Idle]
    /\ repair = {}
    /\ deadline = [p \in Publishes |-> "none"]
    /\ faults = MaxFaults
    /\ sent = [x \in Publishes \X Devices \X (1 .. MaxAttempts) |-> 0]
    /\ counted = {}

Accept(r) == AcceptLookup(r) \/ AcceptCreate(r) \/ AcceptRecord(r) \/ AcceptAppend(r) \/ AcceptProduce(r)

Handle(w) ==
    \/ PlanBegin(w) \/ PlanRecheck(w) \/ PlanMark(w) \/ PlanFinish(w) \/ PlanUnlock(w)
    \/ ShardStream(w) \/ Dispatch(w) \/ Emit(w) \/ AckStep(w)
    \/ Feedback(w) \/ FeedbackDevice(w) \/ FeedbackUpsert(w) \/ FeedbackCount(w)
    \/ FeedbackSchedule(w) \/ FeedbackMark(w)
    \/ RetryBegin(w) \/ RetryLock(w) \/ RetryProduce(w) \/ RetryTerminal(w)
    \/ RetryRecord(w) \/ RetryCount(w) \/ RetryFinish(w)

Next ==
    \/ \E r \in Requests : Accept(r) \/ AcceptAbort(r)
    \/ \E w \in Workers : Consume(w) \/ Handle(w) \/ Defer(w) \/ Crash(w) \/ StoreError(w)
    \/ RepairScan \/ RepairProduce \/ LeaseExpires \/ LockExpires \/ Replay \/ Deadline

Spec == Init /\ [][Next]_vars

\* Every running task goes on, every idle worker polls its stages and the
\* repair scan runs on its interval and looks at every event of its window;
\* leases and locks have TTLs.
Fairness ==
    /\ \A r \in Requests : WF_vars(Accept(r))
    /\ \A w \in Workers : WF_vars(Handle(w)) /\ WF_vars(Consume(w))
    /\ \A p \in Publishes : SF_vars(RepairLook(p))
    /\ WF_vars(RepairProduce)
    /\ WF_vars(LeaseExpires) /\ WF_vars(LockExpires)

FairSpec == Spec /\ Fairness

-----------------------------------------------------------------------------
(* Properties *)

StatusRows == [state : TerminalStates \cup {"queued", "planning", "dispatching"}, planned : Nat,
               succeeded : Nat, failed : Nat, expired : Nat, dead : Nat, scheduled : Nat,
               attempted : Nat]

\* Statuses, queue, locks and workers have their types, with the constraints
\* the stores keep: a message is ready or leased and a produced key is in the
\* queue once; a lock id has one holder.
TypeOK ==
    /\ \A p \in Publishes : status[p] = NoStatus \/ status[p] \in StatusRows
    /\ log \subseteq Publishes /\ registered \subseteq Devices /\ faults \in 0 .. MaxFaults
    /\ ready \cap inflight = {}
    /\ \A x, y \in Queued : Key(x) = Key(y) => x = y
    /\ \A x, y \in locks : x[1] = y[1] => x = y
    /\ \A w \in Workers : Busy(w) => wk[w].token \in BOOLEAN
    /\ sent \in [Publishes \X Devices \X (1 .. MaxAttempts) -> Nat]

\* What a plan of p reaches.
Audience(p) == IF regime[p] = "fast" THEN FastAudience ELSE registered

\* Work for the first delivery of p to d is in the queue.
Pending(p, d) ==
    \E m \in Queued : /\ m.pub = p
                      /\ \/ m.stage = "deliver" /\ d \in m.devs
                         \/ m.stage = "shard" /\ d \in Recipients(registered, m.attempt, Len(Subs))

\* "Push queue delivery is at-least-once": an accepted publish that is still
\* active owes every recipient either a provider request or queued work that
\* leads to one, whatever crashed, failed or was delivered twice on the way.
WorkNotLost ==
    \A p \in log :
       Active(status[p]) =>
          \/ status[p].state = "queued"
          \/ PublishMsg(p) \in Queued
          \/ deadline[p] = "delivery"
          \/ \A d \in Audience(p) : sent[<<p, d, 1>>] > 0 \/ Pending(p, d)

\* Each distinct delivery result changes the counters once, although its
\* message may be produced, leased, replayed and applied several times.
CountersExact ==
    \A p \in Publishes : status[p] # NoStatus =>
       /\ status[p].succeeded = Cardinality({m \in counted : m.pub = p /\ m.out = "accepted"})
       /\ status[p].failed = Cardinality({m \in counted : m.pub = p /\ m.out \in {"invalid", "rejected"}})

\* The provider gets a request again only when something failed: every
\* repetition of one attempt uses up a crash, an error, a lost lease or a
\* replay.
DuplicatesBounded == \A x \in DOMAIN sent : sent[x] <= 1 + MaxFaults - faults

\* A terminal publish is never reactivated and planning never comes after
\* dispatching, although the planner marks its states after the provider and
\* the feedback workers have had the batches for as long as they like.
NeverReactivated ==
    [][\A p \in Publishes :
          /\ status[p].state \in TerminalStates => status'[p].state \in TerminalStates
          /\ status[p].state = "dispatching" => status'[p].state \notin {"queued", "planning"}]_vars

\* p is logged, its message is not in the queue, nobody is about to produce it
\* and no pass of the repair scan reaches its event.
Stranded(p) ==
    /\ status[p].state = "queued" /\ PublishMsg(p) \notin Queued
    /\ p \notin RepairWindow \cup repair
    /\ \A r \in Requests : Target[r] = p => req[r].pc # "produce"

\* Every logged publish whose estimate is right ends in a terminal state:
\* results, retries, the retry limit and the expiry of the delivery all reach
\* the counters the lifecycle is resolved from.  Whatever fails on the way -
\* the message never produced, a planner dead holding the lock - it is at
\* least planned, unless its message is lost and RepairBatch older events keep
\* the repair scan from its own.
EveryPublishSettled ==
    \A p \in Publishes :
       p \in log ~> \/ status[p].state \in TerminalStates
                    \/ status[p].state = "dispatching" /\ faults < MaxFaults
                    \/ Stranded(p) /\ faults < MaxFaults

\* "The monolith repair worker also scans durable publish-log entries that
\* remain `queued` [...] and recreates missing `push.publish.v1` work": no
\* logged publish stays queued.
LostWorkRecreated == \A p \in Publishes : p \in log ~> status[p].state # "queued"

=============================================================================
