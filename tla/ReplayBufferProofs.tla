------------------------- MODULE ReplayBufferProofs -------------------------
(***************************************************************************)
(* Proofs about the replay buffer, for every queue bound, every set of     *)
(* stream generations and every number of concurrent publishers.           *)
(***************************************************************************)
EXTENDS ReplayBuffer, ReplayBufferOpsProofs, TLAPS

USE MaxBufferSizeAssumption

-----------------------------------------------------------------------------
(* The inductive invariant: TypeOK and BufferSound together.               *)

IInv == TypeOK /\ BufferSound

\* The channel starts without an entry.
LEMMA InitIInv == Init => IInv
  BY DEF Init, IInv, TypeOK, BufferSound

\* Steps that leave the queue alone, or keep part of it, and do not lower the
\* head preserve BufferSound.
LEMMA KeepsSound ==
    ASSUME IInv,
           buf # NoBuffer,
           NEW c \in Entry,
           c.next >= buf.next,
           Len(c.msgs) <= Len(buf.msgs),
           \A i \in DOMAIN c.msgs : \E j \in DOMAIN buf.msgs : c.msgs[i] = buf.msgs[j],
           \A i \in DOMAIN c.msgs : c.stream = buf.stream,
           buf' = c,
           stored' = stored
    PROVE  BufferSound'
  <1>1. buf \in Entry /\ buf' # NoBuffer
    BY NoBufferAssumption DEF IInv, TypeOK
  <1>2. Len(c.msgs) <= MaxBufferSize
    BY <1>1 DEF IInv, BufferSound, Entry
  <1>3. ASSUME NEW i \in DOMAIN c.msgs
        PROVE  c.msgs[i] \in stored /\ c.msgs[i].stream = c.stream
    BY <1>3 DEF IInv, BufferSound
  <1>4. \A p \in stored : p.serial < c.next
    BY <1>1 DEF IInv, BufferSound, TypeOK, Entry, Position
  <1> QED
    BY <1>1, <1>2, <1>3, <1>4 DEF BufferSound

\* Adopting a position, as a subscriber or a publisher does.
Adopted(p) == buf' = AdoptPosition(buf, p)

\* Whoever adopts a position, the invariant survives.
LEMMA AdoptPreserves ==
    ASSUME IInv, NEW p \in Position, Adopted(p),
           UNCHANGED << durable, minted, stored >>, pending' \subseteq pending
    PROVE  IInv'
  <1>1. buf \in Entry \cup {NoBuffer}
    BY DEF IInv, TypeOK
  <1>2. /\ buf' \in Entry
        /\ buf = NoBuffer => buf'.msgs = << >>
        /\ buf # NoBuffer => /\ buf'.msgs = buf.msgs
                            /\ buf'.next >= buf.next
                            /\ \A i \in DOMAIN buf.msgs : buf'.stream = buf.stream
    BY <1>1, AdoptFacts DEF Adopted
  <1>3. TypeOK'
    BY <1>2 DEF IInv, TypeOK
  <1>4. CASE buf = NoBuffer
    BY <1>2, <1>3, <1>4, NoBufferAssumption DEF IInv, BufferSound
  <1>5. CASE buf # NoBuffer
    <2>1. buf'.msgs = buf.msgs /\ Len(buf.msgs) \in Nat
      <3>1. buf \in Entry
        BY <1>1, <1>5
      <3>2. buf.msgs \in Seq(Position)
        BY <3>1 DEF Entry
      <3> QED
        BY <1>2, <1>5, <3>2
    <2>2. BufferSound'
      <3> DEFINE c == buf'
      <3>1. /\ c \in Entry
            /\ c.next >= buf.next
            /\ Len(c.msgs) <= Len(buf.msgs)
            /\ \A i \in DOMAIN c.msgs :
                  \E j \in DOMAIN buf.msgs : c.msgs[i] = buf.msgs[j]
            /\ \A i \in DOMAIN c.msgs : c.stream = buf.stream
        BY <1>2, <1>5, <2>1
      <3> QED
        BY <1>5, <3>1, KeepsSound
    <2> QED
      BY <1>3, <2>2 DEF IInv
  <1> QED
    BY <1>4, <1>5

\* Each operation preserves the invariant.
LEMMA StepIInv == IInv /\ [Next]_vars => IInv'
  <1> SUFFICES ASSUME IInv, [Next]_vars
               PROVE  IInv'
    OBVIOUS
  <1>a. buf \in Entry \cup {NoBuffer} /\ (buf # NoBuffer => Len(buf.msgs) \in Nat)
    BY DEF IInv, TypeOK, Entry
  <1>b. /\ durable \in [stream : Streams, next : Nat]
        /\ minted \subseteq Streams
        /\ pending \subseteq Position
        /\ stored \subseteq Position
    BY DEF IInv, TypeOK
  <1>1. CASE Reserve
    <2>1. [stream |-> durable.stream, serial |-> durable.next] \in Position
      BY <1>b DEF Position
    <2>2. durable' \in [stream : Streams, next : Nat]
      BY <1>1, <1>b DEF Reserve
    <2> QED
      BY <1>1, <1>a, <1>b, <2>1, <2>2 DEF Reserve, IInv, TypeOK, BufferSound
  <1>2. CASE ResetStream
    BY <1>2, <1>a, <1>b DEF ResetStream, IInv, TypeOK, BufferSound
  <1>3. CASE CurrentPosition
    <2>1. PICK s \in Streams : /\ buf' = GetOrInsert(buf, s, 1)
                               /\ minted' = minted \cup {s}
                               /\ UNCHANGED << durable, pending, stored >>
      BY <1>3 DEF CurrentPosition, CurrentPositionBuffer
    <2>2. /\ buf' \in Entry
          /\ buf # NoBuffer => buf' = buf
          /\ buf = NoBuffer => buf'.msgs = << >>
      BY <1>a, <2>1, GetOrInsertFacts
    <2>3. TypeOK'
      BY <1>b, <2>1, <2>2 DEF TypeOK
    <2>4. BufferSound'
      BY <2>1, <2>2, NoBufferAssumption DEF IInv, BufferSound
    <2> QED
      BY <2>3, <2>4 DEF IInv
  <1>4. CASE EnsurePosition
    <2>1. PICK n \in 0 .. (durable.next - 1) :
            /\ buf' = AdoptPosition(buf, [stream |-> durable.stream, serial |-> n])
            /\ UNCHANGED << durable, minted, pending, stored >>
      BY <1>4 DEF EnsurePosition, EnsurePositionBuffer
    <2>2. [stream |-> durable.stream, serial |-> n] \in Position
      BY <1>b, <2>1 DEF Position
    <2>3. Adopted([stream |-> durable.stream, serial |-> n])
      BY <2>1, <2>2 DEF Adopted
    <2> QED
      BY <1>b, <2>1, <2>2, <2>3, AdoptPreserves
  <1>5. CASE TryEnsurePosition
    <2>1. PICK p \in pending :
            /\ buf' = TryEnsurePositionBuffer(buf, p)
            /\ pending' \subseteq pending
            /\ UNCHANGED << durable, minted, stored >>
      BY <1>5 DEF TryEnsurePosition
    <2>2. p \in Position
      BY <1>b, <2>1
    <2>3. CASE PositionConflict(buf, p)
      BY <1>a, <1>b, <2>1, <2>3 DEF TryEnsurePositionBuffer, IInv, TypeOK, BufferSound
    <2>4. CASE ~PositionConflict(buf, p)
      <3>1. Adopted(p)
        BY <2>1, <2>4 DEF TryEnsurePositionBuffer, Adopted
      <3> QED
        BY <1>b, <2>1, <2>2, <3>1, AdoptPreserves
    <2> QED
      BY <2>3, <2>4
  <1>6. CASE NextPosition
    <2>1. PICK s \in Streams :
            /\ buf' = [GetOrInsert(buf, s, 1) EXCEPT !.next = @ + 1]
            /\ pending' = pending \cup {NextPositionOf(buf, s)}
            /\ minted' = minted \cup {s}
            /\ UNCHANGED << durable, stored >>
      BY <1>6 DEF NextPosition, NextPositionBuffer
    <2> DEFINE entry == GetOrInsert(buf, s, 1)
    <2>2. /\ entry \in Entry
          /\ buf # NoBuffer => entry = buf
          /\ buf = NoBuffer => entry.msgs = << >>
      BY <1>a, GetOrInsertFacts
    <2>3. NextPositionOf(buf, s) = [stream |-> entry.stream, serial |-> entry.next]
      BY DEF NextPositionOf
    <2> HIDE DEF entry
    <2>4. NextPositionOf(buf, s) \in Position
      BY <2>2, <2>3 DEF Entry, Position
    <2>5. /\ buf' \in Entry
          /\ buf'.stream = entry.stream
          /\ buf'.msgs = entry.msgs
          /\ buf'.next >= entry.next
      BY <2>1, <2>2 DEF Entry, entry
    <2>6. TypeOK'
      BY <1>b, <2>1, <2>4, <2>5 DEF TypeOK
    <2>7. CASE buf = NoBuffer
      <3>1. buf' # NoBuffer /\ buf'.msgs = << >> /\ stored' = {}
        BY <2>1, <2>2, <2>5, <2>7, NoBufferAssumption DEF IInv, BufferSound
      <3>2. BufferSound'
        BY <3>1 DEF BufferSound
      <3> QED
        BY <2>6, <3>2 DEF IInv
    <2>8. CASE buf # NoBuffer
      <3>1. BufferSound'
        BY <1>a, <2>1, <2>2, <2>5, <2>8, KeepsSound DEF Entry
      <3> QED
        BY <2>6, <3>1 DEF IInv
    <2> QED
      BY <2>6, <2>7, <2>8 DEF IInv
  <1>7. CASE Store
    <2>1. PICK p \in pending :
            /\ buf' = StoreBuffer(buf, p)
            /\ pending' = pending \ {p}
            /\ stored' = stored \cup {p}
            /\ UNCHANGED << durable, minted >>
      BY <1>7 DEF Store
    <2>2. p \in Position
      BY <1>b, <2>1
    <2>3. /\ buf' \in Entry
          /\ buf'.stream = p.stream
          /\ buf'.next > p.serial
          /\ buf # NoBuffer => buf'.next >= buf.next
          /\ Len(buf'.msgs) <= MaxBufferSize
          /\ \A i \in DOMAIN buf'.msgs :
                \/ buf'.msgs[i] = p
                \/ /\ buf # NoBuffer
                   /\ buf.stream = p.stream
                   /\ \E j \in DOMAIN buf.msgs : buf'.msgs[i] = buf.msgs[j]
      BY <1>a, <2>1, <2>2, StoreFacts
    <2>4. TypeOK'
      BY <1>b, <2>1, <2>2, <2>3 DEF TypeOK
    <2>5. \A i \in DOMAIN buf'.msgs :
             buf'.msgs[i] \in stored' /\ buf'.msgs[i].stream = buf'.stream
      BY <2>1, <2>3 DEF IInv, BufferSound
    <2>6. \A q \in stored' : q.serial < buf'.next
      <3> SUFFICES ASSUME NEW q \in stored' PROVE q.serial < buf'.next
        OBVIOUS
      <3>1. CASE q = p
        BY <2>2, <2>3, <3>1 DEF Entry, Position
      <3>2. CASE q # p
        <4>1. q \in stored /\ buf # NoBuffer /\ q.serial < buf.next
          BY <2>1, <3>2 DEF IInv, BufferSound
        <4>2. q.serial \in Nat /\ buf.next \in Nat /\ buf'.next \in Nat
          BY <1>a, <1>b, <2>3, <4>1 DEF Entry, Position
        <4> QED
          BY <2>3, <4>1, <4>2
      <3> QED
        BY <3>1, <3>2
    <2>7. BufferSound'
      BY <2>3, <2>5, <2>6, NoBufferAssumption DEF BufferSound
    <2> QED
      BY <2>4, <2>7 DEF IInv
  <1>8. CASE Abandon
    BY <1>8, <1>a, <1>b DEF Abandon, IInv, TypeOK, BufferSound
  <1>9. CASE LookupPrunes
    <2>1. PICK k \in 1 .. Len(buf.msgs) : buf' = PruneExpired(buf, k)
      BY <1>9 DEF LookupPrunes
    <2>2. buf \in Entry /\ k \in 0 .. Len(buf.msgs)
      BY <1>9, <1>a, <2>1 DEF LookupPrunes
    <2>3. /\ buf' \in Entry
          /\ buf'.stream = buf.stream
          /\ buf'.next = buf.next
          /\ Len(buf'.msgs) <= Len(buf.msgs)
          /\ \A i \in DOMAIN buf'.msgs :
                \E j \in DOMAIN buf.msgs : buf'.msgs[i] = buf.msgs[j]
      BY <2>1, <2>2, PruneFacts
    <2>4. TypeOK'
      BY <1>9, <1>b, <2>3 DEF LookupPrunes, TypeOK
    <2>5. BufferSound'
      BY <1>9, <2>2, <2>3, KeepsSound DEF LookupPrunes, Entry
    <2> QED
      BY <2>4, <2>5 DEF IInv
  <1>10. CASE EvictExpired
    BY <1>10, <1>b DEF EvictExpired, IInv, TypeOK, BufferSound
  <1>11. CASE UNCHANGED vars
    BY <1>11 DEF vars, IInv, TypeOK, BufferSound
  <1> QED
    BY <1>1, <1>2, <1>3, <1>4, <1>5, <1>6, <1>7, <1>8, <1>9, <1>10, <1>11 DEF Next

-----------------------------------------------------------------------------
(* The theorems.                                                           *)

\* Type correctness of the replay buffer under all its callers.
THEOREM TypeCorrect == Spec => []TypeOK
  <1>1. IInv => TypeOK
    BY DEF IInv
  <1> QED
    BY <1>1, InitIInv, StepIInv, PTL DEF Spec

\* The queue is bounded, of one stream, made of stored messages, and below the
\* head, in every reachable state.
THEOREM BufferAlwaysSound == Spec => []BufferSound
  <1>1. IInv => BufferSound
    BY DEF IInv
  <1> QED
    BY <1>1, InitIInv, StepIInv, PTL DEF Spec

\* A Recovered answer from a sound buffer is exact.
LEMMA SoundIsExact == IInv => LookupExact
  <1> SUFFICES ASSUME IInv, buf # NoBuffer,
                      NEW s \in Streams \cup {NoStream},
                      NEW last \in 0 .. buf.next,
                      NEW k \in 0 .. Len(buf.msgs),
                      Lookup(PruneExpired(buf, k), s, last).kind = "Recovered"
               PROVE  Lookup(PruneExpired(buf, k), s, last).serials = Owed(last)
    BY DEF LookupExact
  <1> DEFINE c == PruneExpired(buf, k)
             answer == Lookup(c, s, last)
  <1>1. buf \in Entry /\ buf.next \in Nat /\ last \in Nat
    BY DEF IInv, TypeOK, Entry
  <1>2. /\ c \in Entry
        /\ c # NoBuffer
        /\ c.stream = buf.stream
        /\ c.next = buf.next
        /\ \A i \in DOMAIN c.msgs :
              \E j \in DOMAIN buf.msgs : c.msgs[i] = buf.msgs[j]
    BY <1>1, PruneFacts, NoBufferAssumption
  <1>3. \A p \in stored : p.serial \in Nat /\ p.serial < buf.next
    BY DEF IInv, TypeOK, BufferSound, Position
  <1>4. \A i \in DOMAIN c.msgs :
            /\ c.msgs[i] \in stored
            /\ c.msgs[i].stream = buf.stream
            /\ c.msgs[i].serial \in Nat
    BY <1>2, <1>3 DEF IInv, BufferSound
  <1> HIDE DEF c
  <1>5. CASE last = c.next - 1
    <2>1. answer.serials = {}
      BY <1>1, <1>2, <1>5 DEF Lookup, Refused
    <2>2. Owed(last) = {}
      BY <1>1, <1>2, <1>3, <1>5 DEF Owed
    <2> QED
      BY <2>1, <2>2 DEF c
  <1>6. CASE last # c.next - 1
    <2>1. /\ Contiguous(c, last)
          /\ ReachesHead(c, last)
          /\ answer.serials = {c.msgs[i].serial : i \in Candidates(c, last)}
      BY <1>6 DEF Lookup, Refused, c
    <2>2. ASSUME NEW n \in answer.serials
          PROVE  n \in Owed(last)
      <3>1. PICK i \in DOMAIN c.msgs : c.msgs[i].serial = n /\ n > last
        BY <2>1 DEF Candidates
      <3> QED
        BY <1>4, <3>1 DEF Owed
    <2>3. ASSUME NEW n \in Owed(last)
          PROVE  n \in answer.serials
      <3>1. n \in Nat /\ n > last /\ n < c.next
        BY <1>2, <1>3 DEF Owed
      <3>2. n \in (last + 1) .. (c.next - 1)
        BY <1>1, <1>2, <3>1
      <3>3. PICK i \in Candidates(c, last) : c.msgs[i].serial >= n
        BY <2>1, <3>2 DEF ReachesHead
      <3>4. c.msgs[i].serial \in Nat
        BY <1>4, <3>3 DEF Candidates
      <3>5. n \in (last + 1) .. c.msgs[i].serial
        BY <1>1, <3>1, <3>3, <3>4
      <3>6. PICK j \in Candidates(c, last) : c.msgs[j].serial = n
        BY <2>1, <3>3, <3>5 DEF Contiguous
      <3> QED
        BY <2>1, <3>6
    <2> QED
      BY <2>2, <2>3 DEF c
  <1> QED
    BY <1>5, <1>6

\* A hot recovery replays exactly the messages stored after the client's
\* serial, for every buffer size and every interleaving of publishers,
\* subscribers, resets and eviction.
THEOREM HotRecoveryExact == Spec => []LookupExact
  BY SoundIsExact, InitIInv, StepIInv, PTL DEF Spec

\* Adopting a position never lowers the head of a living entry.
LEMMA AdoptRaises ==
    ASSUME NEW b \in Entry, NEW p \in Position
    PROVE  AdoptPosition(b, p).next >= b.next
  <1>1. b \in Entry \cup {NoBuffer} /\ b # NoBuffer
    BY NoBufferAssumption
  <1> QED
    BY <1>1, AdoptFacts

\* No operation on a living entry lowers its head.
THEOREM HeadMonotone == Spec => HeadNeverRetreats
  <1>1. IInv /\ [Next]_vars =>
            [(buf # NoBuffer /\ buf' # NoBuffer) => buf'.next >= buf.next]_vars
    <2> SUFFICES ASSUME IInv, Next, buf # NoBuffer, buf' # NoBuffer
                 PROVE  buf'.next >= buf.next
      OBVIOUS
    <2>1. buf \in Entry /\ buf.next \in Nat /\ pending \subseteq Position
      BY DEF IInv, TypeOK, Entry
    <2>2. CASE EnsurePosition
      <3>1. PICK n \in 0 .. (durable.next - 1) :
              buf' = AdoptPosition(buf, [stream |-> durable.stream, serial |-> n])
        BY <2>2 DEF EnsurePosition, EnsurePositionBuffer
      <3>2. [stream |-> durable.stream, serial |-> n] \in Position
        BY <3>1 DEF Position, IInv, TypeOK
      <3> QED
        BY <2>1, <3>1, <3>2, AdoptRaises
    <2>3. CASE TryEnsurePosition
      BY <2>1, <2>3, AdoptRaises DEF TryEnsurePosition, TryEnsurePositionBuffer
    <2>4. CASE NextPosition
      BY <2>1, <2>4 DEF NextPosition, NextPositionBuffer, GetOrInsert, Entry
    <2>5. CASE Store
      BY <2>1, <2>5, StoreFacts DEF Store
    <2>6. CASE LookupPrunes
      BY <2>1, <2>6 DEF LookupPrunes, PruneExpired, Entry
    <2>7. CASE CurrentPosition
      BY <2>1, <2>7 DEF CurrentPosition, CurrentPositionBuffer, GetOrInsert
    <2>8. CASE Reserve \/ ResetStream \/ Abandon \/ EvictExpired
      BY <2>1, <2>8 DEF Reserve, ResetStream, Abandon, EvictExpired
    <2> QED
      BY <2>2, <2>3, <2>4, <2>5, <2>6, <2>7, <2>8 DEF Next
  <1> QED
    BY <1>1, InitIInv, StepIInv, PTL DEF Spec, HeadNeverRetreats
=============================================================================
