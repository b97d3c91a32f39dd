-------------------------- MODULE ReplayBufferOps --------------------------
(***************************************************************************)
(* The per-channel replay buffer of one node                               *)
(* (crates/sockudo-adapter/src/replay_buffer.rs) as operators on values:   *)
(* every public method of ReplayBuffer is a function from the channel's    *)
(* entry to the new entry, the position it returns or the lookup's answer. *)
(* The methods hold the entry's DashMap shard and its mutex for their      *)
(* whole body, so each is one atomic step of the modules that use them.    *)
(*                                                                         *)
(* A message is the position it was stored under; its bytes are left out.  *)
(* The clock is left out too: timestamps grow with the insertion order, so *)
(* expiry removes some prefix of the queue, and which prefix is the        *)
(* caller's choice (the parameter k of Prune).                             *)
(***************************************************************************)
EXTENDS Integers, Sequences

CONSTANTS
    Streams,        \* stream generations (UUIDs)
    NoStream,       \* a resume request that names no stream (legacy form)
    NoBuffer,       \* the channel has no entry in the map
    MaxBufferSize   \* max_buffer_size

ASSUME MaxBufferSizeAssumption == MaxBufferSize \in Nat \ {0}
ASSUME NoStreamAssumption == NoStream \notin Streams

\* ReplayPosition
Position == [stream : Streams, serial : Nat]

\* ChannelBuffer with its ChannelBufferState
Entry == [stream : Streams, next : Nat, msgs : Seq(Position)]

ASSUME NoBufferAssumption == NoBuffer \notin Entry

\* The mutant of NewChannelBuffer: the entry starts without its stream.
NewUnnamedBuffer(s, n) == [stream |-> NoStream, next |-> n, msgs |-> << >>]

NewChannelBuffer(s, n) == [stream |-> s, next |-> n, msgs |-> << >>]

GetOrInsert(b, s, n) == IF b = NoBuffer THEN NewChannelBuffer(s, n) ELSE b

\* The mutant of RaiseNextSerial: a plain store of the new value.
OverwriteNextSerial(b, n) == [b EXCEPT !.next = n]

\* The compare-and-exchange loop: next_serial only ever grows.
RaiseNextSerial(b, n) == [b EXCEPT !.next = IF @ < n THEN n ELSE @]

\* The first k messages have outlived buffer_ttl.
PruneExpired(b, k) == [b EXCEPT !.msgs = SubSeq(@, k + 1, Len(@))]

-----------------------------------------------------------------------------
(* Positions.                                                              *)

\* current_position: the entry is created on a fresh stream when missing.
CurrentPositionBuffer(b, fresh) == GetOrInsert(b, fresh, 1)

HeadPosition(b) == [stream |-> b.stream, serial |-> b.next - 1]

\* An empty buffer adopts the caller's stream, a populated one keeps its own;
\* either way the head is raised to the caller's serial.
AdoptPosition(b, p) ==
    LET entry == GetOrInsert(b, p.stream, p.serial + 1)
        named == IF entry.msgs = << >>
                 THEN [entry EXCEPT !.stream = p.stream]
                 ELSE entry
    IN  RaiseNextSerial(named, p.serial + 1)

EnsurePositionBuffer(b, p) == AdoptPosition(b, p)

\* try_ensure_position refuses a populated buffer of another stream and a
\* position that is not after the message stored last.
PositionConflict(b, p) ==
    /\ b # NoBuffer
    /\ b.msgs # << >>
    /\ \/ b.stream # p.stream
       \/ p.serial <= b.msgs[Len(b.msgs)].serial

TryEnsurePositionBuffer(b, p) ==
    IF PositionConflict(b, p) THEN b ELSE AdoptPosition(b, p)

\* next_position takes the head of the entry and moves it (fetch_add).
NextPositionBuffer(b, fresh) == [GetOrInsert(b, fresh, 1) EXCEPT !.next = @ + 1]

NextPositionOf(b, fresh) ==
    LET entry == GetOrInsert(b, fresh, 1)
    IN  [stream |-> entry.stream, serial |-> entry.next]

-----------------------------------------------------------------------------
(* Storing and looking up.                                                 *)

\* A mutant of DropOldest: `while len > max_buffer_size`.
DropOldestOffByOne(q) ==
    IF Len(q) <= MaxBufferSize
    THEN q
    ELSE SubSeq(q, Len(q) - MaxBufferSize + 1, Len(q))

\* `while len >= max_buffer_size { pop_front }`
DropOldest(q) ==
    IF Len(q) < MaxBufferSize
    THEN q
    ELSE SubSeq(q, Len(q) - MaxBufferSize + 2, Len(q))

\* A store on another stream clears the queue first.
StoreBuffer(b, p) ==
    LET entry == GetOrInsert(b, p.stream, p.serial + 1)
        kept  == IF entry.stream = p.stream THEN entry.msgs ELSE << >>
    IN  RaiseNextSerial([entry EXCEPT !.stream = p.stream,
                                      !.msgs = Append(DropOldest(kept), p)],
                        p.serial + 1)

LookupResults ==
    {"Recovered", "Expired", "StreamReset", "Ahead", "ContinuityGap"}

Refused(kind) == [kind |-> kind, serials |-> {}]

\* Queue indices of the messages after `last`, in no particular order.
Candidates(b, last) == {i \in DOMAIN b.msgs : b.msgs[i].serial > last}

\* Sorted by serial, the candidates read last+1, last+2, ... : one stream, no
\* duplicate, nothing missing below any of them.
Contiguous(b, last) ==
    \A i \in Candidates(b, last) :
        /\ b.msgs[i].stream = b.stream
        /\ \A j \in Candidates(b, last) :
              b.msgs[i].serial = b.msgs[j].serial => i = j
        /\ \A n \in (last + 1) .. b.msgs[i].serial :
              \E j \in Candidates(b, last) : b.msgs[j].serial = n

\* A mutant of ReachesHead: the loop's result is returned without the final test.
ReachesAnything(b, last) == TRUE

\* `expected_serial <= newest_serial` is false after the loop: no reserved
\* serial is missing above the last candidate.
ReachesHead(b, last) ==
    \A n \in (last + 1) .. (b.next - 1) :
        \E i \in Candidates(b, last) : b.msgs[i].serial >= n

\* get_messages_after_position on an entry whose expired prefix is gone.  The
\* recovered messages are sent in serial order, so their serials say it all.
Lookup(b, s, last) ==
    IF b = NoBuffer THEN Refused("Expired")
    ELSE IF s # NoStream /\ b.stream # s THEN Refused("StreamReset")
    ELSE IF last > b.next - 1 THEN Refused("Ahead")
    ELSE IF last = b.next - 1 THEN [kind |-> "Recovered", serials |-> {}]
    ELSE IF \A i \in DOMAIN b.msgs : last + 1 < b.msgs[i].serial
         THEN Refused("Expired")      \* empty, or the oldest is too new
    ELSE IF Contiguous(b, last) /\ ReachesHead(b, last)
         THEN [kind |-> "Recovered",
               serials |-> {b.msgs[i].serial : i \in Candidates(b, last)}]
    ELSE Refused("ContinuityGap")
=============================================================================
