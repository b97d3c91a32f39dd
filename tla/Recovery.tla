------------------------------ MODULE Recovery ------------------------------
(***************************************************************************)
(* Connection recovery of one channel, end to end: publishers on every     *)
(* node, the durable history, the nodes' replay buffers, fan-out between   *)
(* nodes, the continuity gate of a subscriber's connection, and a client   *)
(* that loses its connection, reconnects to any node, subscribes again and *)
(* resumes from the position it stored.                                    *)
(*                                                                         *)
(* A publish on a node runs under the channel's permit (PublishGate), so a *)
(* node has one publish under way at a time.  The frames of one socket are *)
(* handled one after the other, so the subscriber's handler is one process *)
(* with a program counter.  Fan-out runs in tasks of its own.              *)
(***************************************************************************)
EXTENDS ReplayBufferOps, FiniteSetsExt, SequencesExt

CONSTANTS
    Nodes,
    NoPosition,
    Backends,           \* history backends to consider, one per behaviour
    MaxFailures,        \* bound on failed appends
    MaxRestarts,        \* bound on node crashes
    MaxExpiries,        \* bound on TTL expiry of a replay buffer
    MaxEvictions,       \* bound on durable records dropped by retention
    MaxSerial,          \* bound on the serials of a stream
    MaxConnects,        \* bound on connections of the client
    GateCapacity,       \* RewindGate.max_messages
    PageSize            \* history max_page_size

ASSUME NodesAssumption == Nodes # {}

ASSUME NoPositionAssumption == NoPosition \notin Position

\* "none": history is disabled for the channel.  "memory": the store lives in
\* the process and creates the stream at the first look.  "sql": the store is
\* shared and survives, and creates the stream at the first reservation.
ASSUME BackendsAssumption ==
    /\ Backends \subseteq {"none", "memory", "sql"}
    /\ Backends # {}
    /\ "memory" \in Backends => \A m, n \in Nodes : m = n

ASSUME BoundsAssumption ==
    /\ {MaxFailures, MaxRestarts, MaxExpiries, MaxEvictions, MaxSerial, MaxConnects}
          \subseteq Nat
    /\ {GateCapacity, PageSize} \subseteq Nat \ {0}
    /\ Streams \subseteq Nat

VARIABLES
    backend,    \* the channel's history backend
    hist,       \* the durable history of the channel
    hot,        \* each node's replay buffer entry
    pub,        \* each node's publish under the permit
    tasks,      \* fan-out tasks
    published,  \* ghost: positions whose fan-out has begun
    conn,       \* the client's connection and its handler
    client,     \* the client's recovery state
    fresh,      \* last stream UUID drawn
    faults      \* faults injected so far, by kind

vars == << backend, hist, hot, pub, tasks, published, conn, client, fresh, faults >>

At(s, n) == [stream |-> s, serial |-> n]

Idle == [pc |-> "idle", pos |-> NoPosition]

EmptyHistory == [stream |-> NoStream, next |-> 1, records |-> {}, degraded |-> FALSE]

\* member: in the channel's socket set.  filter: has the channel state fan-out
\* filters on.  gate, held: the continuity gate.  wire: frames enqueued.  want:
\* the position of the resume frame.  head, target, replay: the handler's
\* locals.  acked, resumed, passed are ghosts: the positions the server vouched
\* for, and the messages past the gate check when the resume gate opened.
NoConn(id) ==
    [id |-> id, node |-> CHOOSE n \in Nodes : TRUE, pc |-> "closed",
     member |-> FALSE, filter |-> FALSE, gate |-> FALSE, held |-> << >>,
     wire |-> << >>, want |-> NoPosition, head |-> NoPosition, target |-> 0,
     replay |-> << >>, failed |-> FALSE,
     acked |-> NoPosition, resumed |-> NoPosition, passed |-> {}]

Init ==
    /\ backend \in Backends
    /\ hist = EmptyHistory
    /\ hot = [n \in Nodes |-> NoBuffer]
    /\ pub = [n \in Nodes |-> Idle]
    /\ tasks = {}
    /\ published = {}
    /\ conn = NoConn(0)
    /\ client = [pos |-> NoPosition, base |-> NoPosition, got |-> {}]
    /\ fresh = 0
    /\ faults = [fail |-> 0, restart |-> 0, expiry |-> 0, eviction |-> 0]

HistoryEnabled == backend # "none"

\* s is the last stream UUID drawn after a step that may have to draw one.
Draw(needed, s) == s = IF needed THEN fresh + 1 ELSE fresh

Fault(kind, bound) ==
    /\ faults[kind] < bound
    /\ faults' = [faults EXCEPT ![kind] = @ + 1]

-----------------------------------------------------------------------------
(* The client: what it knows after the frames it has received.             *)

Frame(kind, p) == [kind |-> kind, pos |-> p]

\* Duplicates are dropped by message id.  Any other frame with a serial, the
\* subscription acknowledgement included, overwrites the stored position;
\* resume_success carries the last position replayed, resume_failed makes the
\* client forget.  base is a ghost: where the stored position's coverage began.
OnFrame(c, f) ==
    IF f.kind \in {"live", "replay"} /\ f.pos \in c.got THEN c
    ELSE IF f.kind = "failed" THEN [c EXCEPT !.pos = NoPosition, !.base = NoPosition]
    ELSE IF f.pos = NoPosition THEN c
    ELSE [pos  |-> f.pos,
          base |-> IF c.base = NoPosition \/ c.base.stream # f.pos.stream
                   THEN f.pos ELSE c.base,
          got  |-> IF f.kind \in {"live", "replay"} THEN c.got \cup {f.pos} ELSE c.got]

\* The client after each number of the frames enqueued.
ClientAfter ==
    LET after[k \in 0 .. Len(conn.wire)] ==
            IF k = 0 THEN client ELSE OnFrame(after[k - 1], conn.wire[k])
    IN  after

\* The connection goes away with the last frames still in transit.
Hangup ==
    /\ conn' = NoConn(conn.id)
    /\ \E k \in 0 .. Len(conn.wire) : client' = ClientAfter[k]

Disconnect ==
    /\ conn.pc # "closed"
    /\ Hangup
    /\ UNCHANGED << backend, hist, hot, pub, tasks, published, fresh, faults >>

\* On "connected" the SDK sends subscribe, then resume with the position it
\* holds at that moment.
Connect(n) ==
    /\ conn.pc = "closed"
    /\ conn.id < MaxConnects
    /\ conn' = [NoConn(conn.id + 1) EXCEPT !.node = n, !.pc = "subscribe",
                                           !.want = client.pos]
    /\ UNCHANGED << backend, hist, hot, pub, tasks, published, client, fresh, faults >>

-----------------------------------------------------------------------------
(* Publishing: broadcast_to_channel_internal under the permit.             *)

\* reserve_publish_position, which creates the stream, or next_position.
ReserveDurable(n, s) ==
    /\ Draw(hist.stream = NoStream, s)
    /\ hist.next <= MaxSerial
    /\ hist' = [hist EXCEPT !.next = @ + 1,
                            !.stream = IF @ = NoStream THEN s ELSE @]
    /\ pub' = [pub EXCEPT ![n] = [pc |-> "reserved", pos |-> At(hist'.stream, hist.next)]]
    /\ UNCHANGED hot

ReserveHot(n, s) ==
    /\ Draw(hot[n] = NoBuffer, s)
    /\ NextPositionOf(hot[n], s).serial <= MaxSerial
    /\ pub' = [pub EXCEPT ![n] = [pc |-> "reserved", pos |-> NextPositionOf(hot[n], s)]]
    /\ hot' = [hot EXCEPT ![n] = NextPositionBuffer(@, s)]
    /\ UNCHANGED hist

Reserve(n) ==
    /\ pub[n].pc = "idle"
    /\ fresh' \in Streams \cup {0}
    /\ \/ HistoryEnabled /\ ReserveDurable(n, fresh')
       \/ ~HistoryEnabled /\ ReserveHot(n, fresh')
    /\ UNCHANGED << backend, tasks, published, conn, client, faults >>

\* The mutant of StoreHot: the message is never put in the replay buffer.
SkipHotStore(n) ==
    /\ pub[n].pc = "reserved"
    /\ pub' = [pub EXCEPT ![n].pc = IF HistoryEnabled THEN "stored" ELSE "appended"]
    /\ UNCHANGED << backend, hist, hot, tasks, published, conn, client, fresh, faults >>

StoreHot(n) ==
    /\ pub[n].pc = "reserved"
    /\ hot' = [hot EXCEPT ![n] = StoreBuffer(@, pub[n].pos)]
    /\ pub' = [pub EXCEPT ![n].pc = IF HistoryEnabled THEN "stored" ELSE "appended"]
    /\ UNCHANGED << backend, hist, tasks, published, conn, client, fresh, faults >>

AppendHistory(n) ==
    /\ pub[n].pc = "stored"
    /\ hist' = [hist EXCEPT !.records = @ \cup {pub[n].pos.serial}]
    /\ pub' = [pub EXCEPT ![n].pc = "appended"]
    /\ UNCHANGED << backend, hot, tasks, published, conn, client, fresh, faults >>

\* The store marks the stream degraded and the publish returns the error,
\* after the message has already been stored in the replay buffer.
AppendFails(n) ==
    /\ pub[n].pc = "stored"
    /\ backend = "sql"
    /\ Fault("fail", MaxFailures)
    /\ hist' = [hist EXCEPT !.degraded = TRUE]
    /\ pub' = [pub EXCEPT ![n] = Idle]
    /\ UNCHANGED << backend, hot, tasks, published, conn, client, fresh >>

Task(n, p, step, id) == [node |-> n, pos |-> p, step |-> step, target |-> id]

\* The publisher fans out to its own sockets first ...
StartFanout(n) ==
    /\ pub[n].pc = "appended"
    /\ pub' = [pub EXCEPT ![n].pc = "sending"]
    /\ published' = published \cup {pub[n].pos}
    /\ tasks' = tasks \cup {Task(n, pub[n].pos, "snapshot", 0)}
    /\ UNCHANGED << backend, hist, hot, conn, client, fresh, faults >>

\* ... then hands the message to the other nodes, each of which runs a task
\* for it, and releases the permit.
Forward(n) ==
    /\ pub[n].pc = "sending"
    /\ \A t \in tasks : ~(t.node = n /\ t.pos = pub[n].pos)
    /\ tasks' = tasks \cup {Task(m, pub[n].pos, "snapshot", 0) : m \in Nodes \ {n}}
    /\ pub' = [pub EXCEPT ![n] = Idle]
    /\ UNCHANGED << backend, hist, hot, published, conn, client, fresh, faults >>

-----------------------------------------------------------------------------
(* Fan-out on one node: LocalAdapter::send.                                *)

\* The sockets of the channel whose subscription state admits the message.
Targeted(n) == conn.pc # "closed" /\ conn.node = n /\ conn.member /\ conn.filter

Snapshot(t) ==
    /\ t.step = "snapshot"
    /\ tasks' = IF Targeted(t.node)
                THEN (tasks \ {t}) \cup {Task(t.node, t.pos, "split", conn.id)}
                ELSE tasks \ {t}
    /\ UNCHANGED << backend, hist, hot, pub, published, conn, client, fresh, faults >>

OnConnection(t) == conn.pc # "closed" /\ conn.id = t.target

\* The mutant of Gated: fan-out asks for the gate of the attach only.
GatedAtAttach(t) == OnConnection(t) /\ conn.gate /\ conn.want = NoPosition

Gated(t) == OnConnection(t) /\ conn.gate

\* The mutant of GateFull: one message too many is admitted.
GateFullOffByOne == Len(conn.held) > GateCapacity

\* try_buffer: `buffered.len() >= max_messages`
GateFull == Len(conn.held) >= GateCapacity

\* A gated socket holds the message; a full gate shuts the socket down.
Split(t) ==
    /\ t.step = "split"
    /\ \/ /\ Gated(t)
          /\ ~GateFull
          /\ conn' = [conn EXCEPT !.held = Append(@, t.pos)]
          /\ tasks' = tasks \ {t}
          /\ UNCHANGED client
       \/ /\ Gated(t)
          /\ GateFull
          /\ Hangup
          /\ tasks' = tasks \ {t}
       \/ /\ ~Gated(t)
          /\ tasks' = (tasks \ {t}) \cup {[t EXCEPT !.step = "send"]}
          /\ UNCHANGED << conn, client >>
    /\ UNCHANGED << backend, hist, hot, pub, published, fresh, faults >>

SendLive(t) ==
    /\ t.step = "send"
    /\ tasks' = tasks \ {t}
    /\ conn' = IF OnConnection(t)
               THEN [conn EXCEPT !.wire = Append(@, Frame("live", t.pos))]
               ELSE conn
    /\ UNCHANGED << backend, hist, hot, pub, published, client, fresh, faults >>

-----------------------------------------------------------------------------
(* Subscribing: handle_subscribe_request and handle_post_subscription.     *)

HandlerOnly ==
    UNCHANGED << backend, hist, hot, pub, tasks, published, client, fresh, faults >>

\* With history the gate opens before the socket becomes a member.
Subscribe ==
    /\ conn.pc = "subscribe"
    /\ conn' = [conn EXCEPT !.gate = HistoryEnabled, !.member = TRUE,
                            !.pc = IF HistoryEnabled THEN "head" ELSE "ack"]
    /\ HandlerOnly

\* The mutant of CaptureHead: set_attach_serial only updates existing state.
CaptureHeadOnly ==
    /\ conn.pc = "head"
    /\ conn' = [conn EXCEPT !.pc = "inspect"]
    /\ HandlerOnly

\* channel_head, and set_attach_serial: the first write of the subscription
\* state that fan-out filters on.
CaptureHead ==
    /\ conn.pc = "head"
    /\ conn' = [conn EXCEPT !.filter = TRUE, !.pc = "inspect"]
    /\ HandlerOnly

NewestSerial == IF hist.records = {} THEN hist.next - 1 ELSE Max(hist.records)

\* stream_inspection, as subscription_recovery_position reads it.
InspectStream ==
    /\ conn.pc = "inspect"
    /\ fresh' \in Streams \cup {0}
    /\ Draw(backend = "memory" /\ hist.stream = NoStream, fresh')
    /\ hist' = IF fresh' = fresh THEN hist ELSE [hist EXCEPT !.stream = fresh']
    /\ conn' = [conn EXCEPT !.pc = "ack",
                            !.head = IF hist'.stream # NoStream /\ ~hist.degraded
                                     THEN At(hist'.stream, NewestSerial)
                                     ELSE NoPosition]
    /\ UNCHANGED << backend, hot, pub, tasks, published, client, faults >>

\* The acknowledgement carries the checkpoint.
AckPosition(p) ==
    conn' = [conn EXCEPT !.pc = "update", !.acked = p, !.head = NoPosition,
                         !.wire = Append(@, Frame("ack", p))]

\* ensure_position: the replay buffer adopts the durable head.
AckDurable ==
    /\ conn.pc = "ack"
    /\ conn.head # NoPosition
    /\ hot' = [hot EXCEPT ![conn.node] = EnsurePositionBuffer(@, conn.head)]
    /\ AckPosition(conn.head)
    /\ UNCHANGED << backend, hist, pub, tasks, published, client, fresh, faults >>

\* current_position: no durable head to use.
AckHot ==
    /\ conn.pc = "ack"
    /\ conn.head = NoPosition
    /\ fresh' \in Streams \cup {0}
    /\ Draw(hot[conn.node] = NoBuffer, fresh')
    /\ hot' = [hot EXCEPT ![conn.node] = CurrentPositionBuffer(@, fresh')]
    /\ AckPosition(HeadPosition(hot'[conn.node]))
    /\ UNCHANGED << backend, hist, pub, tasks, published, client, faults >>

\* update_connection_subscription_state, after the acknowledgement.
UpdateState ==
    /\ conn.pc = "update"
    /\ conn' = [conn EXCEPT !.filter = TRUE,
                            !.pc = IF HistoryEnabled THEN "drain" ELSE "subscribed"]
    /\ HandlerOnly

\* Held messages by serial, those with the same serial as they came.
Before(held, i, j) ==
    \/ held[i].serial < held[j].serial
    \/ held[i].serial = held[j].serial /\ i < j

Rank(held, j) == Cardinality({i \in DOMAIN held : Before(held, i, j)})

BySerial(held) ==
    [k \in DOMAIN held |-> held[CHOOSE j \in DOMAIN held : Rank(held, j) = k - 1]]

\* The mutant of DrainRound: the gate is finished and what it held discarded.
DiscardHeld(done) == conn' = [conn EXCEPT !.gate = FALSE, !.held = << >>, !.pc = done]

\* One round of drain_attach_gate or drain_recovery_gate: enqueue what is held,
\* in serial order, or close the gate when nothing is.
DrainRound(done) ==
    IF conn.held = << >>
    THEN conn' = [conn EXCEPT !.gate = FALSE, !.pc = done]
    ELSE conn' = [conn EXCEPT !.held = << >>,
                              !.wire = @ \o [i \in DOMAIN conn.held |->
                                               Frame("live", BySerial(conn.held)[i])]]

DrainAttach ==
    /\ conn.pc = "drain"
    /\ DrainRound("subscribed")
    /\ HandlerOnly

-----------------------------------------------------------------------------
(* Resuming: handle_resume, resume_channel, collect_resume_from_history.   *)

\* Without a stored position there is no resume frame.
NothingToResume ==
    /\ conn.pc = "subscribed"
    /\ conn.want = NoPosition
    /\ conn' = [conn EXCEPT !.pc = "attached"]
    /\ HandlerOnly

\* The gate opens again for the channel the socket has subscribed to.
StartResume ==
    /\ conn.pc = "subscribed"
    /\ conn.want # NoPosition
    /\ conn' = [conn EXCEPT !.gate = TRUE, !.pc = "hot",
                            !.passed = {t.pos : t \in {u \in tasks : u.step = "send"}}]
    /\ HandlerOnly

Fails == conn' = [conn EXCEPT !.pc = "answer", !.failed = TRUE, !.replay = << >>]

\* The positions of a set of serials, lowest first.
InOrder(s, serials) ==
    [k \in 1 .. Cardinality(serials) |->
        At(s, CHOOSE n \in serials : Cardinality({m \in serials : m < n}) = k - 1)]

Replays(serials) ==
    conn' = [conn EXCEPT !.pc = "answer",
                         !.replay = InOrder(conn.want.stream, serials)]

HotLookup ==
    /\ conn.pc = "hot"
    /\ LET answer == Lookup(hot[conn.node], conn.want.stream, conn.want.serial)
       IN  \/ answer.kind = "Recovered" /\ Replays(answer.serials)
           \/ answer.kind = "StreamReset" /\ Fails
           \/ /\ answer.kind \in {"Expired", "Ahead", "ContinuityGap"}
              /\ IF HistoryEnabled
                 THEN conn' = [conn EXCEPT !.pc = "state"]
                 ELSE Fails
    /\ HandlerOnly

\* stream_runtime_state: recovery is not allowed on a degraded stream.
CheckState ==
    /\ conn.pc = "state"
    /\ IF hist.degraded THEN Fails ELSE conn' = [conn EXCEPT !.pc = "freeze"]
    /\ HandlerOnly

\* The durable head is frozen before the pages are read.
FreezeHead ==
    /\ conn.pc = "freeze"
    /\ LET last   == conn.want.serial
           newest == Max(hist.records)
           oldest == Min(hist.records)
       IN  IF conn.want.stream # hist.stream THEN Fails
           ELSE IF hist.records = {}
           THEN IF last + 1 = hist.next THEN Replays({}) ELSE Fails
           ELSE IF last > newest \/ last + 1 < oldest THEN Fails
           ELSE IF last = newest THEN Replays({})
           ELSE IF newest - last > MaxBufferSize THEN Fails
           ELSE conn' = [conn EXCEPT !.pc = "page", !.target = newest]
    /\ HandlerOnly

\* What is in the store within the query's bounds, from a serial on.
InBounds(from) == {r \in hist.records : r >= from /\ r <= conn.target}

\* read_page, oldest first.
Page(from) ==
    {r \in InBounds(from) : Cardinality({q \in InBounds(from) : q < r}) < PageSize}

ExpectedSerials(page, from) == page = from .. (from + Cardinality(page) - 1)

\* A mutant of ReadPage: the cursor is dropped, every page is the first one.
ReadFirstPage ==
    /\ conn.pc = "page"
    /\ LET first == conn.want.serial + 1
           page  == Page(first)
       IN  conn' = [conn EXCEPT
                      !.pc = IF page = InBounds(first) THEN "answer" ELSE "page",
                      !.replay = InOrder(hist.stream, page)]
    /\ HandlerOnly

\* A mutant of ReadPage: the pages' items are taken as they come.
ReadUnchecked ==
    /\ conn.pc = "page"
    /\ LET from == conn.want.serial + Len(conn.replay) + 1
           page == Page(from)
       IN  conn' = [conn EXCEPT
                      !.pc = IF page = InBounds(from) THEN "answer" ELSE "page",
                      !.replay = @ \o InOrder(hist.stream, page)]
    /\ HandlerOnly

\* The oldest retained record is above the serial.
Retired(serial) == hist.records # {} /\ \A r \in hist.records : r > serial

\* One page.  The read fails if the record at the cursor is gone.  A range whose
\* start is gone on the first or the last page, a serial that is not the expected
\* one, and a last page that ends below the frozen head are failures as well.
ReadPage ==
    /\ conn.pc = "page"
    /\ LET from  == conn.want.serial + Len(conn.replay) + 1
           page  == Page(from)
           more  == page # InBounds(from)
           first == conn.replay = << >>
       IN  IF \/ ~first /\ Retired(from - 1)
              \/ (first \/ ~more) /\ Retired(conn.want.serial + 1)
              \/ ~ExpectedSerials(page, from)
              \/ ~more /\ from + Cardinality(page) <= conn.target
           THEN Fails
           ELSE conn' = [conn EXCEPT !.pc = IF more THEN "page" ELSE "answer",
                                     !.replay = @ \o InOrder(hist.stream, page)]
    /\ HandlerOnly

\* The replayed messages are sent one by one, or resume_failed is.
SendReplayed ==
    /\ conn.pc = "answer"
    /\ ~conn.failed
    /\ conn.replay # << >>
    /\ conn' = [conn EXCEPT !.wire = Append(@, Frame("replay", Head(conn.replay))),
                            !.replay = Tail(@)]
    /\ HandlerOnly

SendResumeFailed ==
    /\ conn.pc = "answer"
    /\ conn.failed
    /\ conn' = [conn EXCEPT !.pc = "success",
                            !.wire = Append(@, Frame("failed", NoPosition))]
    /\ HandlerOnly

\* Where the replayed frames are on the wire.
Replayed == {i \in DOMAIN conn.wire : conn.wire[i].kind = "replay"}

LastReplayed ==
    IF Replayed = {} THEN NoPosition ELSE conn.wire[Max(Replayed)].pos

\* The aggregate resume_success, with the position of a recovered channel.
SendResumeSuccess ==
    /\ \/ conn.pc = "success"
       \/ conn.pc = "answer" /\ ~conn.failed /\ conn.replay = << >>
    /\ conn' = [conn EXCEPT !.pc = "redrain", !.target = 0,
                            !.resumed = IF conn.failed THEN NoPosition ELSE conn.want,
                            !.wire = Append(@, Frame("resumed", LastReplayed))]
    /\ HandlerOnly

DrainResume ==
    /\ conn.pc = "redrain"
    /\ DrainRound("attached")
    /\ HandlerOnly

-----------------------------------------------------------------------------
(* Crashes and time.                                                       *)

\* A node loses its replay buffer, its publish, its fan-out tasks, its
\* connections and a history kept in memory.
Restart(n) ==
    /\ Fault("restart", MaxRestarts)
    /\ hot' = [hot EXCEPT ![n] = NoBuffer]
    /\ pub' = [pub EXCEPT ![n] = Idle]
    /\ tasks' = {t \in tasks : t.node # n}
    /\ hist' = IF backend = "sql" THEN hist ELSE EmptyHistory
    /\ IF conn.pc # "closed" /\ conn.node = n THEN Hangup ELSE UNCHANGED << conn, client >>
    /\ UNCHANGED << backend, published, fresh >>

\* buffer_ttl outlives the publish and the subscribe-and-resume that touch the
\* entry: it never runs out between two of their steps.
Untouched(n) ==
    /\ pub[n].pc = "idle"
    /\ conn.node = n => conn.pc \in {"closed", "subscribe", "attached"}

\* prune_expired_locked and evict_expired: some prefix, or the whole entry.
ExpireHot(n) ==
    /\ hot[n] # NoBuffer
    /\ Untouched(n)
    /\ Fault("expiry", MaxExpiries)
    /\ \/ \E k \in 1 .. Len(hot[n].msgs) : hot' = [hot EXCEPT ![n] = PruneExpired(@, k)]
       \/ hot' = [hot EXCEPT ![n] = NoBuffer]
    /\ UNCHANGED << backend, hist, pub, tasks, published, conn, client, fresh >>

\* Retention drops the oldest durable record, never one that is newer than a
\* publish still under way: retention outlives a publish.
EvictRetained ==
    /\ hist.records # {}
    /\ \A n \in Nodes : pub[n].pc # "idle" => pub[n].pos.serial > Min(hist.records)
    /\ Fault("eviction", MaxEvictions)
    /\ hist' = [hist EXCEPT !.records = @ \ {Min(@)}]
    /\ UNCHANGED << backend, hot, pub, tasks, published, conn, client, fresh >>

-----------------------------------------------------------------------------

Publish(n) ==
    \/ Reserve(n) \/ StoreHot(n) \/ AppendHistory(n) \/ AppendFails(n)
    \/ StartFanout(n) \/ Forward(n)

Fanout == \E t \in tasks : Snapshot(t) \/ Split(t) \/ SendLive(t)

Handler ==
    \/ Subscribe \/ CaptureHead \/ InspectStream \/ AckDurable \/ AckHot
    \/ UpdateState \/ DrainAttach \/ NothingToResume \/ StartResume \/ HotLookup
    \/ CheckState \/ FreezeHead \/ ReadPage \/ SendReplayed \/ SendResumeFailed
    \/ SendResumeSuccess \/ DrainResume

Next ==
    \/ \E n \in Nodes : Publish(n) \/ Connect(n) \/ Restart(n) \/ ExpireHot(n)
    \/ Fanout
    \/ Handler
    \/ Disconnect
    \/ EvictRetained

Spec == Init /\ [][Next]_vars

\* The tasks of the runtime keep running: a handler takes its next step.
FairSpec == Spec /\ WF_vars(Handler)

-----------------------------------------------------------------------------
(* Properties.                                                             *)

HandlerSteps ==
    {"closed", "subscribe", "head", "inspect", "ack", "update", "drain", "subscribed",
     "hot", "state", "freeze", "page", "answer", "success", "redrain", "attached"}

\* Every variable has its type, and the gate never holds more than its capacity.
TypeOK ==
    /\ hot \in [Nodes -> Entry \cup {NoBuffer}]
    /\ hist.stream \in Streams \cup {NoStream}
    /\ hist.records \subseteq 1 .. MaxSerial
    /\ \A n \in Nodes : pub[n].pc # "idle" => pub[n].pos \in Position
    /\ published \subseteq Position
    /\ conn.pc \in HandlerSteps
    /\ conn.held \in Seq(Position) /\ Len(conn.held) <= GateCapacity
    /\ conn.replay \in Seq(Position) /\ Len(conn.replay) <= MaxBufferSize
    /\ \A i \in DOMAIN conn.wire : conn.wire[i].pos \in Position \cup {NoPosition}
    /\ {client.pos, conn.want, conn.acked, conn.resumed} \subseteq Position \cup {NoPosition}

Sent(p) == \E i \in DOMAIN conn.wire :
               conn.wire[i].kind \in {"live", "replay"} /\ conn.wire[i].pos = p

\* The message is held by the gate, or a task will still offer it to the
\* connection, or its publisher has yet to forward it to the node.
OnItsWay(p) ==
    \/ \E i \in DOMAIN conn.held : conn.held[i] = p
    \/ \E t \in tasks :
          /\ t.pos = p
          /\ t.node = conn.node
          /\ t.step = "snapshot" \/ t.target = conn.id
    \/ \E n \in Nodes \ {conn.node} : pub[n].pc = "sending" /\ pub[n].pos = p

\* Every message of the stream published after the position has been sent on
\* the connection, or is on its way to it.
Covered(c) ==
    c # NoPosition =>
        \A p \in published :
            p.stream = c.stream /\ p.serial > c.serial => Sent(p) \/ OnItsWay(p)

\* The checkpoint of subscription_succeeded is a true starting point: nothing
\* of its stream published after it is missed by the connection, whatever
\* publishers do between the join, the head capture and the acknowledgement.
AckCovers == Covered(conn.acked)

\* resume_success is never false: every message published after the position
\* the client resumed from is on the wire or on its way, whichever tier
\* answered, whatever expired, failed or crashed before.
ResumeCovers == Covered(conn.resumed)

\* Replayed messages are enqueued in serial order and without a hole, starting
\* right after the position the client asked for.
ReplayContiguous ==
    \A i \in Replayed :
        conn.wire[i].pos =
            At(conn.want.stream, conn.want.serial + Cardinality({j \in Replayed : j <= i}))

\* While a gate is open and not yet being drained, no live frame is enqueued,
\* except for a message that had passed fan-out's gate check before the gate
\* of the resume opened.
GateHolds ==
    [][ /\ conn'.id = conn.id
        /\ conn.gate
        /\ conn.pc \notin {"drain", "redrain"}
        /\ Len(conn'.wire) > Len(conn.wire)
        /\ Last(conn'.wire).kind = "live"
        => Last(conn'.wire).pos \in conn.passed ]_vars

NoFault == \A kind \in DOMAIN faults : faults[kind] = 0

\* With nothing expired, evicted, failed or restarted, a resume on a stream
\* that messages were published on, and that is within the recovery window,
\* does not fail, unless a publish stands between reserving its serial and
\* storing its message at that moment.
StreamResumes ==
    [][ /\ NoFault
        /\ conn'.failed /\ ~conn.failed
        /\ \E p \in published : p.stream = conn.want.stream
        => \/ \E n \in Nodes : pub[n].pc = "reserved"
           \/ hot[conn.node].next - conn.want.serial > MaxBufferSize + 1 ]_vars

\* With nothing expired, evicted, failed or restarted, a resume from a position
\* that the server handed out does not fail.
CheckpointResumes == NoFault => ~conn.failed

\* What the client's stored position says is true: it has received every
\* message of the stream from its first checkpoint up to that position.
NoSilentLoss ==
    \A k \in 0 .. Len(conn.wire) :
        LET c == ClientAfter[k]
        IN  c.pos # NoPosition =>
                \A p \in published :
                    /\ p.stream = c.pos.stream
                    /\ p.serial > c.base.serial
                    /\ p.serial <= c.pos.serial
                    => p \in c.got

\* A subscribe and resume that started come to their end, gate released, or
\* the connection closes.
HandlerFinishes ==
    conn.pc = "subscribe" ~> conn.pc \in {"attached", "closed"} /\ ~conn.gate
=============================================================================
