---------------------------- MODULE ReplayBuffer ----------------------------
(***************************************************************************)
(* One channel of one node's replay buffer under everything its callers    *)
(* do: publishers that reserve a delivery position and store the message   *)
(* later (or give up in between, or in another order), subscribers that    *)
(* ask for a checkpoint, resumes that look messages up, and the eviction   *)
(* task.  Positions come from the durable authority (history or version    *)
(* store) or, without one, from the buffer itself; the authority may reset *)
(* the stream at any time.                                                 *)
(***************************************************************************)
EXTENDS ReplayBufferOps, FiniteSets

CONSTANTS
    MaxSerial,      \* bound on the serials reserved in one stream
    MaxPending      \* bound on publishers between reservation and store

ASSUME MaxSerialAssumption == MaxSerial \in Nat
ASSUME MaxPendingAssumption == MaxPending \in Nat
ASSUME StreamsAssumption == Streams # {}

VARIABLES
    buf,        \* the channel's entry in `buffers`, or NoBuffer
    durable,    \* the durable authority: current stream and next serial
    minted,     \* stream generations already handed out
    pending,    \* positions reserved by publishers and not stored yet
    stored      \* ghost: positions stored since the entry was created

vars == << buf, durable, minted, pending, stored >>

Init ==
    \E s \in Streams :
        /\ buf = NoBuffer
        /\ durable = [stream |-> s, next |-> 1]
        /\ minted = {s}
        /\ pending = {}
        /\ stored = {}

\* Uuid::new_v4 is drawn only where the entry has to be created.
FreshStream(s) == IF buf = NoBuffer THEN s \notin minted ELSE s = buf.stream

-----------------------------------------------------------------------------
(* The durable position authority (external to the buffer).                *)

Reserve ==
    /\ durable.next <= MaxSerial
    /\ Cardinality(pending) < MaxPending
    /\ pending' = pending \cup
          {[stream |-> durable.stream, serial |-> durable.next]}
    /\ durable' = [durable EXCEPT !.next = @ + 1]
    /\ UNCHANGED << buf, minted, stored >>

ResetStream ==
    \E s \in Streams \ minted :
        /\ durable' = [stream |-> s, next |-> 1]
        /\ minted' = minted \cup {s}
        /\ UNCHANGED << buf, pending, stored >>

-----------------------------------------------------------------------------
(* ReplayBuffer's methods.                                                 *)

CurrentPosition ==
    \E s \in Streams :
        /\ FreshStream(s)
        /\ buf' = CurrentPositionBuffer(buf, s)
        /\ minted' = minted \cup {s}
        /\ UNCHANGED << durable, pending, stored >>

\* The subscriber's checkpoint: the stream head as the durable store last
\* reported it, which may lag behind what has been reserved.
EnsurePosition ==
    \E n \in 0 .. (durable.next - 1) :
        /\ buf' = EnsurePositionBuffer(buf, [stream |-> durable.stream, serial |-> n])
        /\ UNCHANGED << durable, minted, pending, stored >>

\* A publish that carries its reserved position; a conflict fails the publish.
TryEnsurePosition ==
    \E p \in pending :
        /\ buf' = TryEnsurePositionBuffer(buf, p)
        /\ pending' = IF PositionConflict(buf, p) THEN pending \ {p} ELSE pending
        /\ UNCHANGED << durable, minted, stored >>

NextPosition ==
    \E s \in Streams :
        /\ FreshStream(s)
        /\ Cardinality(pending) < MaxPending
        /\ NextPositionOf(buf, s).serial <= MaxSerial
        /\ buf' = NextPositionBuffer(buf, s)
        /\ pending' = pending \cup {NextPositionOf(buf, s)}
        /\ minted' = minted \cup {s}
        /\ UNCHANGED << durable, stored >>

Store ==
    \E p \in pending :
        /\ buf' = StoreBuffer(buf, p)
        /\ pending' = pending \ {p}
        /\ stored' = stored \cup {p}
        /\ UNCHANGED << durable, minted >>

\* The publisher fails or is cancelled between its reservation and the store.
Abandon ==
    \E p \in pending :
        /\ pending' = pending \ {p}
        /\ UNCHANGED << buf, durable, minted, stored >>

\* A resume prunes what has expired before it looks at the queue; the eviction
\* task does the same to an entry that it then keeps.
LookupPrunes ==
    /\ buf # NoBuffer
    /\ \E k \in 1 .. Len(buf.msgs) : buf' = PruneExpired(buf, k)
    /\ UNCHANGED << durable, minted, pending, stored >>

\* The eviction task removes an entry nobody has touched for buffer_ttl: the
\* whole queue has expired then, since a store touches the entry too.
EvictExpired ==
    /\ buf # NoBuffer
    /\ buf' = NoBuffer
    /\ stored' = {}
    /\ UNCHANGED << durable, minted, pending >>

Next ==
    \/ Reserve
    \/ ResetStream
    \/ CurrentPosition
    \/ EnsurePosition
    \/ TryEnsurePosition
    \/ NextPosition
    \/ Store
    \/ Abandon
    \/ LookupPrunes
    \/ EvictExpired

Spec == Init /\ [][Next]_vars

-----------------------------------------------------------------------------
(* Properties.                                                             *)

\* Every variable has its type.
TypeOK ==
    /\ buf \in Entry \cup {NoBuffer}
    /\ durable \in [stream : Streams, next : Nat]
    /\ minted \subseteq Streams
    /\ pending \subseteq Position
    /\ stored \subseteq Position

\* The queue holds only stored messages, all of the entry's own stream, never
\* more than max_buffer_size of them, and the head is above every message the
\* entry has seen, those it has already evicted included.
BufferSound ==
    IF buf = NoBuffer
    THEN stored = {}
    ELSE /\ Len(buf.msgs) <= MaxBufferSize
         /\ \A i \in DOMAIN buf.msgs :
               buf.msgs[i] \in stored /\ buf.msgs[i].stream = buf.stream
         /\ \A p \in stored : p.serial < buf.next

\* What a hot recovery from serial `last` owes the client.
Owed(last) ==
    {n \in {p.serial : p \in {q \in stored : q.stream = buf.stream}} : n > last}

\* get_messages_after_position never claims a recovery it cannot back: if it
\* answers Recovered, the messages are exactly those stored after the client's
\* serial in the entry's stream, whatever order the publishers stored them in,
\* whatever was evicted or expired, and whoever raised the head in between.
LookupExact ==
    buf # NoBuffer =>
        \A s \in Streams \cup {NoStream}, last \in 0 .. buf.next,
           k \in 0 .. Len(buf.msgs) :
            LET answer == Lookup(PruneExpired(buf, k), s, last)
            IN  answer.kind = "Recovered" => answer.serials = Owed(last)

\* While an entry lives its head never moves back: a checkpoint handed to a
\* subscriber stays at or below the head, so it is never refused as Ahead.
HeadNeverRetreats ==
    [][(buf # NoBuffer /\ buf' # NoBuffer) => buf'.next >= buf.next]_vars
=============================================================================
