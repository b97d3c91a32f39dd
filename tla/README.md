# A TLA+ model of Sockudo

Sockudo is a Pusher-compatible WebSocket server. Clients subscribe to channels,
publishers send messages over HTTP or WebSocket, several server nodes share the
channels through a broker, and protocol V2 lets a client that lost its
connection resume from a *position* (stream generation, serial) and receive what
it missed. Around that core the server keeps presence, queues background jobs
and delivers push notifications. This project models the parts that make the
promises hardest to test:

* ordered delivery and recovery: publish gate, hot replay buffer, durable history,
  fan-out, continuity gate, resume handshake, serial leases;
* the push notification pipeline, from the HTTP call to the provider and back;
* the reliable Redis job queue, shown to implement an abstract job life cycle;
* the in-memory presence registry at the granularity of its locks.

## 1. Inventory of the system

Paths are relative to `src/crates/` unless they start otherwise.

| Component | State | Operations | What makes it correct |
|---|---|---|---|
| Publish gate (`sockudo-adapter/src/handler/mod.rs`) | a map from channel to `Arc<gate>` (semaphore of one permit, waiter counter) | acquire, reject, cancel, release, remove the entry on last use | one broadcast per channel and node at a time; the line is bounded; everyone is answered |
| Publish path (`handler/connection_management.rs`) | none of its own | reserve position, store in replay buffer, append to history, fan out | a position is reserved once, and stored before fan-out |
| Replay buffer (`replay_buffer.rs`) | per channel: stream, next serial, bounded queue | `current_position`, `ensure_position`, `try_ensure_position`, `next_position`, `store`, lookup, eviction | a lookup that answers Recovered returns exactly what was stored after the serial |
| History stores (`sockudo-core/src/history/memory.rs`, `sockudo-server/src/history/*`) | stream, next serial, retained records, degraded flag | reserve, append, read page, inspect, reset, purge, retention | contiguous serials per stream; a hole is never served as continuity |
| Subscription (`handler/message_handlers.rs`, `handler/subscription_management.rs`) | channel membership, per-socket channel state | open gate, join, capture head, acknowledge with a checkpoint, update state, drain | nothing after the checkpoint is missed |
| Continuity gate (`sockudo-core/src/websocket/{buffer,reference}.rs`) | held messages, limits, open/closed/overflowed | admit, overflow, drain a batch, finish | live messages wait for the replay, none is lost, none is held forever |
| Recovery (`handler/recovery.rs`) | locals of the handler | hot lookup, state check, frozen head, pages, replay, answer, drain | `resume_success` is never false; the handler ends |
| Local fan-out (`local_adapter/*`, `v2_broadcast.rs`) | sockets per channel | target, split on gate, enqueue | a subscriber's socket is offered every message |
| Horizontal adapter (`horizontal_adapter_base/*`) | pending requests, heartbeats, presence of other nodes | local send, publish to the bus, requests, dead-node cleanup | every node's subscribers are reached; requests end |
| JavaScript client (`src/client-sdks/sockudo-js/src/core/sockudo.ts`) | stored position per channel, seen message ids | store position, drop duplicates, resume on reconnect | a stored position is backed by received messages |
| Version store and serial leases (`sockudo-core/src/version_store*`) | versions per message, leased blocks, in-flight refills | reserve, lease, mutate, replay | serials unique and increasing; a refill's waiters wake |
| Presence registry (`sockudo-core/src/presence_registry.rs`) | per app: connections with their channels, channels with their members, capacity shards | register, enter, leave, detach, unregister, remove_client_except | a member is visible and removable until it leaves; `max_members` holds; no two calls wait for each other |
| Presence service and history (`presence.rs`, `presence_history`) | members of other nodes, transitions | replicate, announce, record | first/last transitions are announced exactly once |
| Idempotency (`sockudo-core/src/idempotency.rs`) | claims by key | claim, complete, release | a key publishes at most once |
| Outgoing queue (`sockudo-core/src/websocket/{sender,buffer}.rs`) | one FIFO with two pending counters and a byte counter | try_send, write, close | a slow consumer is disconnected or told, counters return to zero |
| Redis queue (`sockudo-queue/src/redis_{backend,scripts}.rs`) | in Redis: jobs, ready list, inline frames, delayed set, leases with tokens, dead letters, deduplication keys; per node: prefetched jobs and the lease registry | enqueue, claim, renew, acknowledge, NACK, replay dead letters, retention | a job is in one place; a delivery settles only what it holds; every job ends |
| Other queue backends, webhooks (`sockudo-queue`, `sockudo-webhook`) | jobs, batches | enqueue, batch, deliver | at-least-once without loss at shutdown |
| Push pipeline (`sockudo-push`, `sockudo-server/src/push_http.rs`) | publish status and log, idempotency records, TTL locks, devices; a leased queue per stage | accept, plan, shard, dispatch, feedback, retry, repair the log, replay | at-least-once; results counted once; statuses never go back; every publish settles |
| Caches, rate limiter | entries, windows, mode of the fallback cache | get, set, switch to fallback and back | limits hold across the switch |
| AI transport, delta, annotations, filters | rollups, base messages, summaries | aggregate, diff, fold, evaluate | the reader can rebuild the full value |
| Disconnect cleanup (`sockudo-server/src/cleanup`) | batched queue | enqueue, flush, fall back | every disconnect is cleaned up once |

How they interact: a publish takes the channel's gate, reserves a position (from
the history store if the channel has history, otherwise from the replay buffer),
stores the message in the node's replay buffer, appends it to the history, sends
it to its own sockets and then publishes it on the bus; each other node handles
it in a task of its own. A subscribe and a resume run in the socket's message
loop, one frame after the other, and race all of that. The hard behaviours are
the interleavings between fan-out tasks and the handler's `await` points, the two
tiers of recovery that may disagree (a node's buffer knows nothing of what other
nodes published), crashes between reservation and append, expiry and retention at
any moment, and the client's second disconnect before the first recovery ended.

A push publish is written to the store and the publish log by the HTTP handler and
handed to a planner through a queue; planner, shard worker, provider worker,
feedback processor and retry scheduler only share the store and the queue, whose
leases expire under slow workers as well as dead ones, and a repair scan replays
publishes that were logged and never planned, as far as they are among the oldest
events of the log. The Redis queue's state moves only in
Lua scripts, but claims, renewals and settlements of different nodes, and of two
deliveries of one job on one node, interleave freely. The presence registry is
called by every connection's task at once and takes four kinds of locks.
`PROJECT.json` lists the hazards at their lines.

## 2. Modules

| Module | Models | State and actions |
|---|---|---|
| `ReplayBufferOps` | `replay_buffer.rs` as operators on a channel's entry | no variables; one operator per method, `Lookup` for `get_messages_after_position` |
| `ReplayBuffer` | one channel's entry under all its callers | `buf` is the DashMap entry; `durable` stands for the position authority; `pending` are publishers between reservation and store; `stored` is a ghost. One action per method |
| `PublishGate` | `acquire_channel_publish_permit` and the two `Drop` implementations | `map`, `waiters`, `permits` are the shared state, `pc` and `gate` the local state of each task. One action per map access, atomic operation, semaphore operation and Arc drop |
| `Recovery` | composes the operators with the publish path, history, fan-out, gate, subscribe, resume and the client | `hist`, `hot`, `pub`, `tasks` are the server; `conn` the connection with its handler's program counter and locals; `client` the SDK. One action per step between two `await`s that another task can see |
| `LeasedVersionStore` | the serial leases of every node over one shared version store (`version_store/leased.rs`, `memory.rs`) | `inner` is the store's next serial, `lease` and `inFlight` each node's mutex-protected state, the rest the locals of each request. One action per critical section of the mutex and per call of the store |
| `PushPipeline` | `push_http.rs` (accept), `planner.rs`, `pipeline.rs` (memory queue), `dispatch/worker.rs`, `feedback.rs`, `retry.rs`, `reconcile.rs` (repair), `memory.rs` (store), `domain.rs` (status) | `status`, `idem`, `log`, `locks`, `registered` are the store; `ready`, `inflight`, `dlq` the queue; `wk` what each worker holds and its program counter; `sent` and `counted` are ghosts. One action per store or queue call of a handler, plus crash, store error, expiry of leases and locks, replay |
| `JobQueue` | the abstract promise of Queue v2 | the phase of each job and its deliveries; one edge of the life cycle per job and step |
| `RedisQueue` | `redis_scripts.rs`, the Lua scripts, and `redis_backend.rs`, the tasks of a node | `q` are the keys of a queue; `held` the deliveries in a node's memory, `leases` its registry. One action per script call or registry access |
| `PresenceRegistry` | `presence_registry.rs` for one app | `channels`, `link`, `members`, `active`, `reserved`, `total` are the maps and counters, `lock` the connection mutexes, `thread` the calls. One action per lock operation |
| `ReplayBufferOpsProofs` | lemmas | what each method of the replay buffer returns; used by the next two |
| `ReplayBufferProofs`, `RecoveryProofs`, `PublishGateProofs`, `LeasedVersionStoreProofs`, `PushPipelineProofs`, `RedisQueueProofs`, `PresenceRegistryProofs` | theorems | inductive invariants and lemmas, see section 4 |
| `MC...` | instances for TLC | |

`ReplayBuffer`'s methods are atomic because each holds the DashMap shard and the
entry's mutex for its whole body. Time is abstracted: timestamps grow with the
insertion order, so expiry removes some prefix of the queue. A message is its
position; bytes, names and formats are left out.

In `Recovery` a publish occupies its node from `Reserve` to `Forward` because it
runs under the gate's permit: that is what `PublishGate` establishes. The frames
a handler enqueues and the live frames of fan-out go into one queue per socket
(`sender.rs` has a single FIFO for both), so `conn.wire` is one sequence. A lost
connection delivers some prefix of it. `backend` is chosen once per behaviour:
`none` (recovery from the buffer only), `memory` (the store lives in the process
and creates a stream when it is first looked at) and `sql` (shared, survives a
restart, creates the stream at the first reservation, may be marked degraded).

`LeasedVersionStore` stands on its own: versioned messages draw delivery serials
from it, and commits and mutations draw theirs from the shared store directly. A
request makes one call; `ReserveAfter` is bounded by the serial of an existing
version, as the orphan janitor's call is. The call of the shared store is two
steps, so that it can fail or be dropped after the store has reserved the block.

In `PushPipeline` a worker can take any role, so two workers are two tasks of any
roles on any nodes. A lease or a lock whose holder is gone expires freely; one whose
holder is merely slow costs a unit of `faults`, as do crashes, failed calls,
deferrals, and replays. A status mutation is one step, because the CAS loop
linearizes it. A message id that left the queue voids the tokens other workers hold
for it, so a late acknowledgement acknowledges nothing.

In `RedisQueue` a script is one step and time is not a variable: each node writes
and reads deadlines with its own clock, so any lease may be found expired and any
delay over by any script. Tokens are fresh among those still in use. The renewal
loop's two halves are one step: a token is never issued again, so an entry that was
stale when Redis was asked is stale when it is removed.

In `PresenceRegistry` a channel's state is an `Arc` with a number of its own, so
that a cached, pruned and re-created state can be told apart, and the reference
count that pruning looks at is computed from who holds it. The channel map is taken
as one shard of the DashMap, which is the worst case of its hashing.

Assumptions about time that the code does not enforce, but that its defaults give
by orders of magnitude: `buffer_ttl` is longer than one publish and than one
subscribe-and-resume on the entry that they touch (`Untouched`), and retention is
longer than one publish (`EvictRetained`'s guard).

## 3. Runs

| Run | Question | Result |
|---|---|---|
| `replay_buffer` | Does the buffer ever claim a recovery that it cannot back, whatever the order of reservations, stores, expiry, eviction, checkpoints and stream resets? | holds: `LookupExact`, `BufferSound`, `HeadNeverRetreats` |
| `publish_gate` | Can two broadcasts of one channel overlap while gates are removed and re-created? Is every publisher answered? | holds: `OnePublisher`, `GateShared`, `WaitersExact`, `EveryPublishAnswered` |
| `recovery_faults` | One node, each backend, with one failed append, one crash, one expiry and one eviction anywhere: is `resume_success` true, in order, and does the handler end? | holds: `ResumeCovers`, `ReplayContiguous`, `GateHolds`, `StreamResumes`, `HandlerFinishes` |
| `recovery_nodes` | Two publishing nodes over a shared history, messages overtaking each other on the bus: are checkpoints and resumes covered? | holds: `AckCovers`, `ResumeCovers` |
| `leased_store` | Do leases of several nodes, refills, failures, dropped refills and commits ever hand out a serial twice, too early or out of a node's order? Does every request end? | holds: `SerialsUnique`, `AfterRespected`, `SingleFlight`, `NodeOrdered`, `EveryRequestAnswered` |
| `push_delivery` | Two devices, fast and shard path, two workers and one fault anywhere: is any recipient's work lost while its publish is active, a result counted twice, a status moved back? | holds: `WorkNotLost`, `CountersExact`, `NeverReactivated` |
| `push_progress` | Two attempts, terminal and retryable answers, an expiring delivery, one fault: does every logged publish that the repair can reach settle, and is the provider asked twice only after a fault? | holds: `DuplicatesBounded`, `EveryPublishSettled` |
| `push_retry` | Is delivery still at-least-once when a retry overtakes a planner that died between two batches? | violated: `WorkNotLost` |
| `redis_queue` | Two nodes, expiring leases, late settlements, repeated enqueues, deduplication, retention, a replay and a fault: is each job in one place, and is every step one of the abstract life cycle? | holds: `OnePlace`, `DeliveriesRenewed`, `NoOrphanLease`, `ImplementsJobQueue` |
| `redis_settles` | Is every job acknowledged or dead-lettered in the end, with a node dying or a call lost? | holds: `EveryJobSettled` |
| `presence_registry` | Two threads in any interleaving of their lock operations: is every member reachable and the capacity account exact? | holds: `Reachable`, `CapacityExact` |
| `presence_deadlock` | Can the callers of the registry wait for each other? | violated: `NoDeadlock` |

The two violations (quotes are in `PROJECT.json`):

* **`push_retry`**: the planner dies after the first of two batches. The first
  recipient's answer is retryable, and its retry sets the publish to `Dispatching`
  (`retry.rs`) before the plan's message is redelivered. The redelivered message is
  then taken as already planned, and the second recipient is never sent to.
  `push_delivery` shows that with a single attempt, hence without successors of
  retries, the work is never lost.
* **`presence_deadlock`**: `remove_client_except` waits for the old connection's
  mutex while it holds the read guard of the channel map; an enter of that
  connection into another channel holds the mutex and waits to write the same shard
  of that map. It needs two channels whose keys fall into one shard.

### Known divergences outside the regular runs

Seven more disagreements between the code and its documentation are reproduced by
configurations that are kept in this directory and are not part of the regular runs
(`tlc -config <cfg> MCRecovery`, `MCLeasedVersionStore` for the fifth,
`MCPushPipeline` for the last two):

* `MCRecoveryIdle.cfg` (`CheckpointResumes`): with a SQL history and no message yet, the store has no
  stream row, so the acknowledgement falls back to the replay buffer, which makes
  up a stream of its own. The first publish moves the channel to the store's
  stream, and the resume is refused as `stream_reset`. `StreamResumes`, which
  holds, is the same claim for streams that messages were published on.
* `MCRecoveryAttach.cfg` (`AckCovers`): without history no gate opens, and the acknowledgement
  precedes `update_connection_subscription_state`, which creates the channel state
  that fan-out requires. A message published in between is dropped for the socket.
  With history, `set_attach_serial` creates that state before the acknowledgement,
  and `recovery_nodes` shows `AckCovers` there.
* `MCRecoveryDegraded.cfg` (`ResumeCovers`): the hot tier is asked before the stream's state. A node
  that did not publish the later messages, and whose head was not refreshed
  because the stream is degraded, answers Recovered with nothing to replay.
* `MCRecoveryClient.cfg` (`NoSilentLoss`): on reconnect the acknowledgement's position overwrites
  the stored one before the resume of the older position is answered. A second
  disconnect in between makes the client resume past messages it never received.
* `MCLeasedVersionStoreGap.cfg` (`Gapless`): a request misses the lease, a refill that was under way is
  installed, and only then does the request look at `in_flight`: it leads a second
  refill, whose block replaces the unused one. The lost serials are a gap, not a
  duplicate: `leased_store` shows that the rest holds.
* `MCPushClientScope.cfg` (`WorkNotLost`): a client-scoped subscription expands to several
  devices. If they fill the shard in the middle of a page, `stream_shard` returns
  the cursor behind the page (`planner.rs:590`), and the subscriptions between are
  never planned. No fault is needed. `WorkKept` proves the property for
  device-scoped subscriptions, where a page is never longer than what the shard can
  still take.
* `MCPushRepairWindow.cfg` (`LostWorkRecreated`): `docs/content/docs/server/push-notifications.mdx`
  says "The monolith repair worker also scans durable publish-log entries that remain
  `queued` [...] and recreates missing `push.publish.v1` work". Every pass starts at the oldest
  event and ends after `batch_size` of them, 100 by default (`reconcile.rs:86-101`,
  `148-151`), and no store prunes the log. A publish whose node dies between log and
  queue is therefore never recreated once that many older events exist, settled ones
  included. In the configuration the window is one event and an older publish fills
  it; with a window of two (`RepairBatch = 2`) the property holds there.

### Bounds

Every bound is a constant: `MaxSerial`, `MaxPending`, `MaxConnects`, one bound per
kind of fault, `GateCapacity`, `PageSize`, `MaxBufferSize`, `MaxWaiters`, `MaxFaults`,
`MaxReplays`, `MaxHeld`, `RepairBatch`, `PruneLimit`.

* `replay_buffer`: two streams, three serials each, a queue of two: the queue
  overflows, stores overtake, and a reset happens with both streams' positions
  pending.
* `publish_gate`: four tasks and a line of two, so one task is refused while one
  holds the permit and two wait; three gate allocations, so that a removed gate
  still referenced by a leaving task coexists with two newer ones.
* `recovery_faults`: two serials, two connections, pages of one record (two pages,
  so a cursor), a gate of one (overflow happens), a recovery window of two, one
  fault of each kind in any combination.
* `recovery_nodes`: two nodes, a buffer of one message, so that the resume falls
  through to the durable tier; one expiry and one eviction.
* `leased_store`: two nodes, three requests in every distribution over them, blocks
  of two and two attempts: a lease runs out, is skipped in part or dropped as
  stale, a waiter is woken by a failed leader, and a bounded request gives up. The
  real block is 128 and the real number of attempts 256; the proofs cover both.

* `push_delivery`: two devices in batches of one, so a plan is two calls with a crash
  in between; estimates below and at the fast threshold, so that both paths run and
  an estimate is wrong; shards of one recipient, so a shard has a continuation; two
  workers, so that a message is handled twice at once; one fault of any kind.
* `push_progress`: one device, two attempts, so that retries, the retry limit and
  the expiry of the delivery all reach the counters; liveness needs the smaller
  audience. The estimate is right here: with a wrong one the code never resolves
  the state, which `EveryPublishSettled` does not claim. One publish is always within
  the repair's window, so the property's exception for publishes outside it
  (`Stranded`) is not used: the publish must be repaired. The instance of
  `MCPushRepairWindow.cfg`, where two publishes share a window of one, satisfies
  `EveryPublishSettled` too, with two attempts and accepted and retryable answers as
  well (433,000 states); it is not a regular run because two publishes
  with everything `push_progress` has are beyond a few minutes.
* `redis_queue`: two jobs that share a deduplication key, one of them delayed, two
  nodes, two attempts, retention of one completed and one dead job (both evict), two
  deliveries in memory, which may be two of the same job; one replay and one fault.
* `redis_settles`: one frame of two generated jobs and a prefetch of one, so a claim
  puts the rest of the frame back; delayed retries.
* `presence_registry`: two threads, two connections of one client, two channels over
  a cache of one, so pruning happens under every other operation; two capacity
  shards, batches and a limit of two, so a slot must be reclaimed from the other
  shard. A keeper that is none of the connections makes a supersession go through
  both.

Deadlock is not checked where the system may rightly stop: publishers that stop and
a client that stays away, requests, jobs and publishes that have all ended. In
`PresenceRegistry` callers may start again at any time, so a deadlock is stated as
the invariant `NoDeadlock` instead. `push_delivery`, `redis_queue` and
`presence_registry` use the symmetry of workers, nodes and threads, which are
interchangeable in the model; the runs with liveness properties use none. Streams
are drawn in order as numbers, which removes the symmetry of UUIDs by construction.

### Fairness

`PublishGate`: weak fairness on every step of running code. Strong fairness on
`AcquirePermit`, since tokio's semaphore serves its waiters first come, first
served, and a waiter is therefore not overtaken forever. Starting a publish and
cancelling it are never assumed. That a broadcast returns is assumed (weak fairness
of `ReleasePermit`). `Recovery`: weak fairness of the socket's handler only: its
steps are code between awaits whose answers arrive; publishers, fan-out, faults and
the client are not assumed to act. `LeasedVersionStore`: weak fairness of each
request's own steps, the answer of the shared store included. `EveryRequestAnswered`
excepts requests of a node whose refill was dropped at its await: nothing then
removes the `in_flight` entry, and the code has no guard against it.

`PushPipeline`: weak fairness of each handler's steps and each idle worker's poll,
of the repair's produce, and of the expiry of leases and locks, which have TTLs.
Strong fairness of the repair's look at each publish: a pass runs on an interval and
visits every event of its window in turn, so one event that is queued again and again
does not keep it from the next. Faults, replays and deadlines are never assumed.
`EveryPublishSettled` promises a terminal state only when no fault happened; after
one it promises that the publish is at least planned, or lost outside the repair's
window, because a result that is lost
between its idempotency record and the counters is not counted again.
`RedisQueue`: weak fairness of a claim that is answered and finds the leases nobody
renews expired and the delays over (the prefetch loop polls at an interval, and the
clock goes on), of registration, of the end of a processor, of settlement and of
giving the lease up. Producers, crashes and replays are not assumed.

### Refinement

`ImplementsJobQueue` maps the Redis keys and the deliveries in memory to a phase per
job (`Phase`) and the attempts to `tries`, and checks that each step of `RedisQueue`
is a step of `JobQueue` or a stutter: a job is completed only from a delivery that
succeeded and still holds it, is dead-lettered only after `MaxAttempts` deliveries,
and nothing else forgets it.

## 4. Proofs

TLAPS proves the following for every value of the constants that satisfies the
named assumptions: bounds are natural numbers, sentinels are outside the sets they
mark, the sets of publishers, threads, connections, subscribers, jobs and nodes are
finite, and the ids of generated jobs are new (`QueueAssumption`: they are UUIDs, or
start with one). TLC evaluates each assumption on the instances of the runs.

`ReplayBufferProofs`. The inductive invariant is `TypeOK /\ BufferSound`:
the queue holds stored messages of the entry's stream only, within its limit, and
the head is above everything stored, evicted messages included. That last part is
what `LookupExact` needs: Recovered is answered only if every serial between the
client's and the head is in the queue, and the head is above every stored message,
so nothing stored can be missing. The lemmas of `ReplayBufferOpsProofs` say what expiry, `DropOldest`,
`RaiseNextSerial`, `GetOrInsert`, `AdoptPosition`, `StoreBuffer`, `NextPositionBuffer`
and `Lookup` do to, or read from, an entry.

* `TypeCorrect`, `BufferAlwaysSound`: the two parts of the invariant.
* `HotRecoveryExact`: a hot recovery is exact, for every queue bound and any number
  of publishers in any order.
* `HeadMonotone`: no method moves a living entry's head back.

`RecoveryProofs`. The inductive invariant has three layers. `Server` is about history,
replay buffers and publishers: what was published is in the history, or was evicted
and is then older than every record and every publish under way (`Logged`); a stream
about to be drawn is in use nowhere (`Drawn`); without history a stream belongs to one
node (`OwnStreams`); the buffer of the only publisher of a stream is above everything
published on it (`BelowHead`), and several nodes over one history share its stream
(`OneStream`). `Session` is about the connection: what each step of the handler says of
its locals (`Control`), that what is still to be replayed continues what has been
(`Follows`), and that only tasks that passed the gate check earlier can send past an open
gate (`Targets`). `Coverage` follows a message from its fan-out to the wire: in every
state after the join it `Arrives`, is below the head the handler has read, is within
the reach of its node's buffer until the lookup, is above the frozen head only if it
arrives, and is in what is to be replayed otherwise. Nothing that arrives is ever lost
by a publish, a task, a gate or a drain (`PublishArrives`, `FanoutArrives`,
`HandlerArrives`). `Covered` alone is not inductive, because a resume is vouched for
many steps after the lookup that justified it.

* `TypeCorrect`, `ReplayGapless` (`ReplayContiguous`) and `GateAlwaysHolds` (`GateHolds`),
  for any number of nodes, messages, connections and faults.
* `ResumesCover` (`ResumeCovers`) and, for channels with history, `CheckpointsCover`
  (`AckCovers`), under `Reliable`: one node with any faults, or any number of nodes
  without failed appends and crashes. The conditions are needed, not a convenience:
  `MCRecoveryDegraded.cfg` refutes `ResumeCovers` for two nodes with a failed append,
  `MCRecoveryAttach.cfg` refutes `AckCovers` without history, and a publisher that
  crashes between its own fan-out and the bus leaves the other nodes without the message.

* `ResumesSucceed` (`StreamResumes`), for one node (`Solo`) in a behaviour without faults.
  `Calm` is the invariant while nothing fails: the history holds every serial but the
  one a publish owes (`Complete`); without history the buffer's queue is the newest
  messages without a hole, as many as it has room for (`Window`); every position that
  is on the wire, to be replayed, wanted or stored by the client was handed out on a
  stream the buffer is still on, below its head (`Handed`, `Known`); and a handler that
  asks the history wants more than the buffer's newest message (`Looking`). So no
  tier can refuse: `WindowLookup` for the buffer, `FreezeFails` for the frozen head,
  `PageFails` for the pages. One node is needed: with two nodes over one history, TLC
  finds an acknowledged serial that a publish has reserved and not yet appended; on
  the other node, whose buffer lags, the resume goes to the history and is refused,
  because the newest record is below the client's position.

`PublishGateProofs`. `OnePublisher` alone is not inductive: two tasks in the
section could use two gates. The invariant adds that whoever can wait or hold uses
the map's current gate (`GateShared`) and that its permit is then taken
(`PermitTaken`). The heart is `LastUserAlone`: when `remove_if` counts two Arcs,
the map's and the task's own, a third holder would make three distinct handles of a
set of cardinality two.

* `TypeCorrect`, `MutualExclusion` (`OnePublisher`) and `EntryNotRemovedInUse`
  (`GateShared`).
* `LineExact` (`WaitersExact`): each gate's waiter counter is the number of tasks that
  are in its line. A step moves one task in or out of one line, so the argument is
  about the cardinality of a set with one element added or removed.

`LeasedVersionStoreProofs`. Uniqueness of what was handed out is not inductive: a
lease could hold such a serial. The invariant gives every serial below the store's
next one a single owner: requests' serials, leases and blocks not yet installed are
pairwise disjoint (`GotApart`, `RangesApart`) and below `inner` (`Below`), where
commits and new blocks start. For the order on a node it adds that serials handed
out, lease and pending block follow one another (`NodePast`), which needs that a
node has one pending block (`SingleFlight`, kept by `LeaderMarked`).

* `TypeCorrect`, `NoSerialTwice`, `AfterAlwaysRespected`, `OneRefill`,
  `NodeAlwaysOrdered`, for every number of nodes and requests, every block size and
  every bound on the attempts, with faults anywhere.

`PresenceRegistryProofs`. `Reachable` is not inductive: whether a membership stays
reachable depends on what the calls under way are about to do. The invariant
(`Control`) says what each call has established at each of its lock operations: a
call in its critical section holds its connection's mutex (`Holds`), a join past
`link` is in the state the channel map links to (`Joins`), a detach has everything it
must remove on its list (`Leaves`), and the connection's link is the channel map's
(`LinkCurrent`), because pruning removes a state only when nobody refers to it.
`Account` relates the three kinds of counters to the slots that members and calls in
flight own, shard by shard.

* `TypeCorrect`, `MembersReachable` (`Reachable`), `CapacityAccount`
  (`CapacityExact`), for any number of threads, connections, channels and shards.

`PushPipelineProofs`. The typing invariant carries the weight: every message, job and
log entry is about a publish with a row; a produced key is in the queue once
(`QueueOK`); a lock has one owner (`LocksOK`). For the counters it adds `Once`: a
worker that is about to apply a result has written the result's idempotency record,
no other worker is about to apply it, and what was counted keeps its record, so no
redelivery can count it again. A crash between the record and the counter loses the
result rather than counting it twice, and the invariant allows that.

* `TypeCorrect`, `LifecycleForward` (`NeverReactivated`), `ResultsCountedOnce`
  (`CountersExact`), for any number of publishes, devices, workers, attempts and faults.
* `RequestsBounded` (`DuplicatesBounded`), if no device has two subscriptions to the
  channel: with two of them, two shards really request the device twice. `Budget`
  counts units per attempt of a delivery: the publish while its message can still be
  produced, a message in the queue that leads to the request, a worker that still has
  to do what leads to it, and the requests made. Each step turns one unit into
  another, and only a fault makes one. It rests on what a plan produces (`PlanOK`), on
  a device being in one batch of one shard (`BatchOne`) and on a key being queued once
  (`Singles`).
* `WorkKept` (`WorkNotLost`), for one attempt per delivery, answers that delete no device,
  and device-scoped subscriptions; `push_delivery` runs such an instance. Each
  hypothesis is needed: `push_retry` refutes the property with two attempts; a deleted
  device shifts the batches of the next plan, whose ids are positional, so a batch of
  other devices is taken for one already produced; and `MCPushClientScope.cfg` refutes
  it with a client-scoped subscription. The invariant says that the log and the
  workers' jobs account for each recipient (`Logged`, `Claims`): who acknowledges a
  message has produced what it led to, or has found it in the queue under its key.
  That the shards of a plan reach every subscription (`NoSkip`, `ShardProduces`,
  `PlanProduces`), that batches cover their recipients (`BatchesCover`) and that ids
  determine contents (`IdsDetermine`) are lemmas about the operators, for every size of
  pages, shards and batches.

`RedisQueueProofs`. `Sound` states how the keys of one job agree with each other in
every stage of its life. What each script does to one job is stated separately and
named: the job is `Kept`, `Added`, `Leased`, `Freed`, `Finished`, `Dropped` or
`Revived`. The scripts' loops are recursive functions over their input; that they
keep an invariant is proved with a least counterexample (`Rounds`). The deliveries
need three more facts: a generated batch that was not sent has ids nobody has seen
(`Unseen`); a token stands for one delivery (`HeldOnce`); and while a delivery waits in
the prefetch loop, its node holds no other delivery of the job under the current token
(`Newest`), so its registration never replaces a lease that is still in use.

* `TypeCorrect`, `StoredInOnePlace` (`OnePlace`), `CurrentRenewed`
  (`DeliveriesRenewed`), `LeasesOwned` (`NoOrphanLease`).
* `LifeCycle` (`ImplementsJobQueue`): every step of the queue is a step of `JobQueue`
  or a stutter, for any number of jobs, nodes, attempts, replays and faults.

Only model-checked: the liveness properties (`EveryPublishAnswered`, `HandlerFinishes`,
`EveryRequestAnswered`, `EveryPublishSettled`, `EveryJobSettled`), because fairness is out of
the prover's reach. Every invariant and action property of a passing run is a
theorem, under the hypotheses named above.

## 5. What is not modelled

* In `Recovery`: private and presence channels, where authorization makes the
  resume overtake the subscribe; the versioned tier and legacy serial-only
  positions; rewind; delta compression; several channels in one resume; a full
  outgoing queue, whose errors fan-out only logs; loss on the bus, and a publisher
  that dies between its local fan-out and the bus (nothing in the code repairs
  either; the two-node runs therefore have no crashes); PostgreSQL's queued
  appends, and reset and purge of a stream.
* In `LeasedVersionStore`: several channels (the state is keyed by channel), stream
  resets, and `reserve_delivery_positions` of the wrapper, which only tests call.
* In `PushPipeline`: scheduled publishes and targets other than a channel; payloads
  found invalid for good (`mark_failed`); dead letters of markers; the age deadline
  in the runs; two requests for one publish id in the runs; the audience a plan
  reads twice, when devices come and go between (a batch's id is positional, so a
  replan may reuse it for other devices, `planner.rs`); the rate limiter's slots
  (`dispatch/worker.rs`); the database stores and broker queues behind the same
  traits; lock owner ids shared by workers of one role (the constant `Owner` allows
  it, the runs give each worker its own). `Batches` lists the audience in one step and
  as a set: the code reads a page, produces its batches and reads the next, and a
  device with two subscriptions is in its output twice (`RequestsBounded` assumes there
  is none). The repair's minimum age and its lock only delay a look, so neither is a
  variable.
* In `RedisQueue`: quarantine of malformed envelopes, attempt limits per job,
  life-cycle events, legacy inline records, the round robin over a node's workers,
  the order among jobs requeued by one script. Ids on the generated path are fresh,
  as the code draws them (an assumption on the constants). The other brokers only see the same trait.
* In `PresenceRegistry`: the payload and sequence of a member, the read-only
  snapshots, and the service above it, which replicates and announces. Several apps
  have separate registries.
* Broker and database clients, app managers, HTTP routing, metrics, wire formats,
  the MCP server, the simulator and the other SDKs: I/O or translation without
  shared state of their own.

## 6. Plan

In this order; each item names its module, its question and what can be proved.

1. `HistoryStore`: reserve, append, reset, purge and retention of the in-memory and
   SQL stores, with PostgreSQL's queued writers and a crash between queueing and
   writing; contiguity of what a page returns, and reset racing a publish.
   Invariant proofs of stream and serial uniqueness.
2. `OutboundQueue`: the pending counters, the byte counter, slow consumers and
   close; counters exact (proof), what `disconnect_on_buffer_full` promises.
3. `VersionStore`: version chains and `compare_and_apply` over the serials of
   `LeasedVersionStore`, with the orphan janitor and its claims as a caller.
4. `Idempotency`: claim, completion, expiry and two nodes.
5. An abstract `RecoverySpec` (a channel as a sequence; a resume is exact or
   refused) and `ReplayBuffer` as an implementation of its hot tier, checked and
   then proved by refinement; a `Recovery` run for private channels.
6. Horizontal requests and dead-node presence, the fallback cache, webhook
   batching, the push scheduler, disconnect cleanup, as far as each has
   interleavings worth a run.

The repository has some 200,000 lines. Most of them are protocol front ends, clients
of brokers and databases, SDKs, HTTP routing, configuration and a simulator, which
have no shared state of their own; the modules follow the state, so they stand for a
small share of the lines.
