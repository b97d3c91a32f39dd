------------------------ MODULE ReplayBufferOpsProofs -----------------------
(***************************************************************************)
(* What the methods of the replay buffer return, for every queue bound and *)
(* every set of stream generations.                                        *)
(***************************************************************************)
EXTENDS ReplayBufferOps, FiniteSetTheorems, TLAPS

USE MaxBufferSizeAssumption

(* What the queue helpers return.                                          *)

\* Expiry keeps a suffix: what remains was there before.
LEMMA PruneFacts ==
    ASSUME NEW b \in Entry, NEW k \in 0 .. Len(b.msgs)
    PROVE  LET c == PruneExpired(b, k)
           IN  /\ c \in Entry
               /\ c.stream = b.stream
               /\ c.next = b.next
               /\ Len(c.msgs) <= Len(b.msgs)
               /\ \A i \in DOMAIN c.msgs :
                     \E j \in DOMAIN b.msgs : c.msgs[i] = b.msgs[j]
  <1>1. b.msgs \in Seq(Position) /\ Len(b.msgs) \in Nat
    BY DEF Entry
  <1> DEFINE q == SubSeq(b.msgs, k + 1, Len(b.msgs))
  <1>2. q \in Seq(Position) /\ Len(q) = Len(b.msgs) - k
    BY <1>1
  <1>3. \A i \in 1 .. Len(q) : q[i] = b.msgs[i + k] /\ i + k \in 1 .. Len(b.msgs)
    BY <1>1, <1>2
  <1>4. PruneExpired(b, k) = [b EXCEPT !.msgs = q]
    BY DEF PruneExpired
  <1> HIDE DEF q
  <1>5. \A i \in DOMAIN q : \E j \in DOMAIN b.msgs : q[i] = b.msgs[j]
    BY <1>1, <1>2, <1>3
  <1>6. /\ PruneExpired(b, k) \in Entry
        /\ PruneExpired(b, k).stream = b.stream
        /\ PruneExpired(b, k).next = b.next
        /\ PruneExpired(b, k).msgs = q
    BY <1>2, <1>4 DEF Entry
  <1> QED
    BY <1>1, <1>2, <1>5, <1>6

\* The eviction loop leaves room for one message.
LEMMA DropOldestFacts ==
    ASSUME NEW q \in Seq(Position)
    PROVE  /\ DropOldest(q) \in Seq(Position)
           /\ Len(DropOldest(q)) < MaxBufferSize
           /\ \A i \in DOMAIN DropOldest(q) :
                 \E j \in DOMAIN q : DropOldest(q)[i] = q[j]
  <1>1. CASE Len(q) < MaxBufferSize
    BY <1>1 DEF DropOldest
  <1>2. CASE ~(Len(q) < MaxBufferSize)
    <2> DEFINE d == Len(q) - MaxBufferSize + 1
               r == SubSeq(q, d + 1, Len(q))
    <2>1. d \in 0 .. Len(q) /\ Len(q) \in Nat
      BY <1>2
    <2>2. r \in Seq(Position) /\ Len(r) = Len(q) - d
      BY <2>1
    <2>3. \A i \in 1 .. Len(r) : r[i] = q[i + d] /\ i + d \in 1 .. Len(q)
      BY <2>1, <2>2
    <2>4. DropOldest(q) = r
      BY <1>2, <2>1 DEF DropOldest
    <2> HIDE DEF r
    <2>5. \A i \in DOMAIN r : \E j \in DOMAIN q : r[i] = q[j]
      BY <2>1, <2>2, <2>3
    <2> QED
      BY <2>1, <2>2, <2>4, <2>5
  <1> QED
    BY <1>1, <1>2

\* Raising the head changes nothing else, and never lowers it.
LEMMA RaiseFacts ==
    ASSUME NEW b \in Entry, NEW n \in Nat
    PROVE  LET c == RaiseNextSerial(b, n)
           IN  /\ c \in Entry
               /\ c.stream = b.stream
               /\ c.msgs = b.msgs
               /\ c.next >= n
               /\ c.next >= b.next
  <1> DEFINE m == IF b.next < n THEN n ELSE b.next
  <1>1. m \in Nat /\ m >= n /\ m >= b.next
    BY DEF Entry
  <1>2. RaiseNextSerial(b, n) = [b EXCEPT !.next = m]
    BY DEF RaiseNextSerial
  <1> HIDE DEF m
  <1>3. /\ [b EXCEPT !.next = m] \in Entry
        /\ [b EXCEPT !.next = m].stream = b.stream
        /\ [b EXCEPT !.next = m].msgs = b.msgs
        /\ [b EXCEPT !.next = m].next = m
    BY <1>1 DEF Entry
  <1> QED
    BY <1>1, <1>2, <1>3

\* The entry a method works on is the channel's own, or a new and empty one.
LEMMA GetOrInsertFacts ==
    ASSUME NEW b \in Entry \cup {NoBuffer}, NEW s \in Streams, NEW n \in Nat
    PROVE  LET c == GetOrInsert(b, s, n)
           IN  /\ c \in Entry
               /\ b # NoBuffer => c = b
               /\ b = NoBuffer => c.msgs = << >> /\ c.stream = s /\ c.next = n
  <1>1. CASE b = NoBuffer
    <2>1. GetOrInsert(b, s, n) = [stream |-> s, next |-> n, msgs |-> << >>]
      BY <1>1 DEF GetOrInsert, NewChannelBuffer
    <2>2. << >> \in Seq(Position)
      OBVIOUS
    <2> QED
      BY <1>1, <2>1, <2>2 DEF Entry
  <1>2. CASE b # NoBuffer
    BY <1>2 DEF GetOrInsert
  <1> QED
    BY <1>1, <1>2

\* Adopting a position keeps the queue, names only an empty one, and never
\* lowers the head.
LEMMA AdoptFacts ==
    ASSUME NEW b \in Entry \cup {NoBuffer}, NEW p \in Position
    PROVE  LET c == AdoptPosition(b, p)
           IN  /\ c \in Entry
               /\ c.next > p.serial
               /\ c.msgs = << >> => c.stream = p.stream
               /\ b = NoBuffer => c.msgs = << >>
               /\ b # NoBuffer => /\ c.msgs = b.msgs
                                 /\ c.next >= b.next
                                 /\ \A i \in DOMAIN b.msgs : c.stream = b.stream
  <1> DEFINE entry == GetOrInsert(b, p.stream, p.serial + 1)
             named == IF entry.msgs = << >>
                      THEN [entry EXCEPT !.stream = p.stream]
                      ELSE entry
  <1>1. p.stream \in Streams /\ p.serial + 1 \in Nat
    BY DEF Position
  <1>2. /\ entry \in Entry
        /\ b # NoBuffer => entry = b
        /\ b = NoBuffer => entry.msgs = << >>
    BY <1>1, GetOrInsertFacts
  <1>3. AdoptPosition(b, p) = RaiseNextSerial(named, p.serial + 1)
    BY DEF AdoptPosition
  <1> HIDE DEF entry
  <1>4. /\ named \in Entry
        /\ named.msgs = entry.msgs
        /\ named.next = entry.next
        /\ entry.msgs = << >> => named.stream = p.stream
        /\ \A i \in DOMAIN entry.msgs : named.stream = entry.stream
    <2>1. CASE entry.msgs = << >>
      BY <1>1, <1>2, <2>1 DEF Entry
    <2>2. CASE entry.msgs # << >>
      BY <1>1, <1>2, <2>2 DEF Entry
    <2> QED
      BY <2>1, <2>2
  <1> HIDE DEF named
  <1>5. LET c == RaiseNextSerial(named, p.serial + 1)
        IN  /\ c \in Entry
            /\ c.stream = named.stream
            /\ c.msgs = named.msgs
            /\ c.next >= p.serial + 1
            /\ c.next >= named.next
    BY <1>1, <1>4, RaiseFacts
  <1>6. AdoptPosition(b, p).next > p.serial
    BY <1>3, <1>5 DEF Entry, Position
  <1> QED
    BY <1>2, <1>3, <1>4, <1>5, <1>6

\* Storing p leaves a bounded queue of p and older messages of p's stream, and
\* a head above p and not below the old one.
LEMMA StoreFacts ==
    ASSUME NEW b \in Entry \cup {NoBuffer}, NEW p \in Position
    PROVE  LET c == StoreBuffer(b, p)
           IN  /\ c \in Entry
               /\ c.stream = p.stream
               /\ c.next > p.serial
               /\ b # NoBuffer => c.next >= b.next
               /\ Len(c.msgs) <= MaxBufferSize
               /\ c.msgs # << >>
               /\ \A i \in DOMAIN c.msgs :
                     \/ c.msgs[i] = p
                     \/ /\ b # NoBuffer
                        /\ b.stream = p.stream
                        /\ \E j \in DOMAIN b.msgs : c.msgs[i] = b.msgs[j]
  <1> DEFINE entry == GetOrInsert(b, p.stream, p.serial + 1)
             kept  == IF entry.stream = p.stream THEN entry.msgs ELSE << >>
             d     == DropOldest(kept)
             c     == StoreBuffer(b, p)
  <1>1. /\ entry \in Entry
        /\ b # NoBuffer => entry = b
        /\ b = NoBuffer => entry.msgs = << >>
    BY GetOrInsertFacts DEF Position
  <1>2. kept \in Seq(Position)
    BY <1>1 DEF Entry
  <1>3. /\ d \in Seq(Position)
        /\ Len(d) < MaxBufferSize
        /\ \A i \in DOMAIN d : \E j \in DOMAIN kept : d[i] = kept[j]
    BY <1>2, DropOldestFacts
  <1>4. \A i \in DOMAIN kept :
            b # NoBuffer /\ b.stream = p.stream /\ kept = b.msgs
    BY <1>1
  <1> DEFINE e == [entry EXCEPT !.stream = p.stream, !.msgs = Append(d, p)]
  <1>5. c = RaiseNextSerial(e, p.serial + 1)
    BY DEF StoreBuffer
  <1> HIDE DEF entry, kept, d, c
  <1>6. /\ Append(d, p) \in Seq(Position)
        /\ Len(Append(d, p)) = Len(d) + 1
        /\ \A i \in 1 .. Len(d) : Append(d, p)[i] = d[i]
        /\ Append(d, p)[Len(d) + 1] = p
    BY <1>3
  <1>7. /\ e \in Entry
        /\ e.stream = p.stream
        /\ e.msgs = Append(d, p)
        /\ e.next = entry.next
    BY <1>1, <1>6 DEF Entry, Position
  <1> HIDE DEF e
  <1>8. /\ c \in Entry
        /\ c.stream = p.stream
        /\ c.msgs = Append(d, p)
        /\ c.next >= p.serial + 1
        /\ c.next >= entry.next
    <2>1. p.serial + 1 \in Nat
      BY DEF Position
    <2>2. LET r == RaiseNextSerial(e, p.serial + 1)
          IN  /\ r \in Entry
              /\ r.stream = e.stream
              /\ r.msgs = e.msgs
              /\ r.next >= p.serial + 1
              /\ r.next >= e.next
      BY <1>7, <2>1, RaiseFacts
    <2> QED
      BY <1>5, <1>7, <2>2
  <1>9. Len(c.msgs) <= MaxBufferSize
    BY <1>3, <1>6, <1>8
  <1>10. ASSUME NEW i \in DOMAIN c.msgs
         PROVE  \/ c.msgs[i] = p
                \/ /\ b # NoBuffer
                   /\ b.stream = p.stream
                   /\ \E j \in DOMAIN b.msgs : c.msgs[i] = b.msgs[j]
    <2>1. i \in 1 .. (Len(d) + 1) /\ Len(d) \in Nat
      BY <1>3, <1>6, <1>8
    <2>2. CASE i = Len(d) + 1
      BY <1>6, <1>8, <2>2
    <2>3. CASE i # Len(d) + 1
      <3>1. i \in DOMAIN d /\ c.msgs[i] = d[i]
        BY <1>3, <1>6, <1>8, <2>1, <2>3
      <3>2. PICK j \in DOMAIN kept : d[i] = kept[j]
        BY <1>3, <3>1
      <3> QED
        BY <1>4, <3>1, <3>2
    <2> QED
      BY <2>1, <2>2, <2>3
  <1>11. c.next > p.serial
    BY <1>8 DEF Entry, Position
  <1>12. c.msgs # << >>
    BY <1>3, <1>6, <1>8
  <1> QED
    BY <1>1, <1>8, <1>9, <1>10, <1>11, <1>12 DEF c

\* next_position hands out the head of the entry and moves it by one.
LEMMA NextPositionFacts ==
    ASSUME NEW b \in Entry \cup {NoBuffer}, NEW s \in Streams
    PROVE  LET c == NextPositionBuffer(b, s)
               p == NextPositionOf(b, s)
           IN  /\ c \in Entry
               /\ p \in Position
               /\ p.stream = c.stream
               /\ c.next = p.serial + 1
               /\ b = NoBuffer => p.stream = s /\ p.serial = 1 /\ c.msgs = << >>
               /\ b # NoBuffer => /\ p.stream = b.stream
                                 /\ p.serial = b.next
                                 /\ c.msgs = b.msgs
  <1> DEFINE e == GetOrInsert(b, s, 1)
  <1>1. /\ e \in Entry
        /\ b # NoBuffer => e = b
        /\ b = NoBuffer => e.msgs = << >> /\ e.stream = s /\ e.next = 1
    BY GetOrInsertFacts
  <1>2. /\ NextPositionBuffer(b, s) = [e EXCEPT !.next = e.next + 1]
        /\ NextPositionOf(b, s) = [stream |-> e.stream, serial |-> e.next]
    BY DEF NextPositionBuffer, NextPositionOf
  <1> HIDE DEF e
  <1>3. /\ [e EXCEPT !.next = e.next + 1] \in Entry
        /\ [e EXCEPT !.next = e.next + 1].stream = e.stream
        /\ [e EXCEPT !.next = e.next + 1].msgs = e.msgs
        /\ [e EXCEPT !.next = e.next + 1].next = e.next + 1
        /\ e.stream \in Streams /\ e.next \in Nat
    BY <1>1 DEF Entry
  <1> QED
    BY <1>1, <1>2, <1>3 DEF Position

\* Every message of the queue is below the head, and the queue is bounded.
Bounded(b) ==
    /\ b.next >= 1
    /\ Len(b.msgs) <= MaxBufferSize
    /\ \A i \in DOMAIN b.msgs : b.msgs[i].serial < b.next

\* A lookup that answers Recovered is on the entry's own stream and returns
\* every serial from the client's to the head.
LEMMA LookupFacts ==
    ASSUME NEW b \in Entry \cup {NoBuffer}, b # NoBuffer => Bounded(b),
           NEW s \in Streams, NEW last \in Nat,
           Lookup(b, s, last).kind = "Recovered"
    PROVE  /\ b # NoBuffer
           /\ b.stream = s
           /\ Lookup(b, s, last).serials = (last + 1) .. (b.next - 1)
           /\ Cardinality(Lookup(b, s, last).serials) <= MaxBufferSize
  <1>1. b # NoBuffer /\ b.stream = s
    BY NoStreamAssumption DEF Lookup, Refused
  <1>2. /\ b \in Entry /\ Bounded(b) /\ b.next \in Nat
        /\ b.msgs \in Seq(Position) /\ Len(b.msgs) \in Nat
    BY <1>1 DEF Entry
  <1>3. CASE last = b.next - 1
    <2>1. Lookup(b, s, last).serials = {}
      BY <1>1, <1>2, <1>3 DEF Lookup
    <2>2. (last + 1) .. (b.next - 1) = {}
      BY <1>2, <1>3
    <2> QED
      BY <1>1, <2>1, <2>2, FS_EmptySet
  <1>4. CASE last # b.next - 1
    <2> DEFINE C == Candidates(b, last)
               S == {b.msgs[i].serial : i \in C}
    <2>1. /\ Lookup(b, s, last).serials = S
          /\ Contiguous(b, last) /\ ReachesHead(b, last)
      BY <1>1, <1>4 DEF Lookup, Refused
    <2>2. /\ C \subseteq 1 .. Len(b.msgs)
          /\ \A i \in C : /\ b.msgs[i].serial \in Nat
                          /\ b.msgs[i].serial > last
                          /\ b.msgs[i].serial < b.next
      <3>1. \A i \in DOMAIN b.msgs : i \in 1 .. Len(b.msgs) /\ b.msgs[i] \in Position
        BY <1>2
      <3> QED
        BY <1>2, <3>1 DEF Candidates, Bounded, Position
    <2>3. ASSUME NEW n \in (last + 1) .. (b.next - 1) PROVE n \in S
      <3>1. PICK i \in C : b.msgs[i].serial >= n
        BY <2>1 DEF ReachesHead
      <3>2. n \in (last + 1) .. b.msgs[i].serial
        BY <1>2, <2>2, <3>1
      <3> QED
        BY <2>1, <3>1, <3>2 DEF Contiguous
    <2>4. S = (last + 1) .. (b.next - 1)
      BY <1>2, <2>2, <2>3
    <2>5. IsFiniteSet(C) /\ Cardinality(C) <= Len(b.msgs)
      <3>1. /\ IsFiniteSet(1 .. Len(b.msgs))
            /\ Cardinality(1 .. Len(b.msgs)) = Len(b.msgs)
        <4>1. Len(b.msgs) \in Int /\ 1 \in Int /\ Len(b.msgs) \in Nat
          BY <1>2
        <4>2. /\ IsFiniteSet(1 .. Len(b.msgs))
              /\ Cardinality(1 .. Len(b.msgs)) =
                   IF 1 > Len(b.msgs) THEN 0 ELSE Len(b.msgs) - 1 + 1
          BY <4>1, FS_Interval
        <4> QED
          BY <4>1, <4>2
      <3> QED
        BY <2>2, <3>1, FS_Subset
    <2>6. Cardinality(S) <= Cardinality(C) /\ IsFiniteSet(S)
      <3> DEFINE f == [i \in C |-> b.msgs[i].serial]
      <3>1. f \in Surjection(C, S)
        BY DEF Surjection
      <3> HIDE DEF f
      <3> QED
        BY <2>5, <3>1, FS_Surjection
    <2>7. Cardinality(S) \in Nat /\ Cardinality(C) \in Nat
      BY <2>5, <2>6, FS_CardinalityType
    <2> HIDE DEF S, C
    <2>8. Cardinality(S) <= MaxBufferSize
      BY <1>2, <2>5, <2>6, <2>7 DEF Bounded
    <2> QED
      BY <1>1, <2>1, <2>4, <2>8
  <1> QED
    BY <1>3, <1>4
=============================================================================
