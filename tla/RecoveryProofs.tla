--------------------------- MODULE RecoveryProofs ---------------------------
(***************************************************************************)
(* Connection recovery for every number of nodes, messages, connections    *)
(* and faults.  Replays are gapless and the gate holds live messages back  *)
(* without further conditions; that an acknowledgement and a resume cover  *)
(* everything published is proved for one node under any faults, and for   *)
(* several nodes without failed appends and crashes.  That a resume within *)
(* the recovery window succeeds is proved for one node without faults.     *)
(***************************************************************************)
EXTENDS Recovery, ReplayBufferOpsProofs, SequenceTheorems

(* Every non-empty set of natural numbers has a least element.             *)
LEMMA Least ==
  ASSUME NEW S \in SUBSET Nat, S # {}
  PROVE  \E x \in S : \A y \in S : x <= y
  <1> DEFINE R == OpToRel(<, Nat)
  <1>1. IsWellFoundedOn(R, Nat)
    BY NatLessThanWellFounded
  <1>2. \A x, y \in Nat : x < y => <<x, y>> \in R
    BY DEF OpToRel
  <1> HIDE DEF R
  <1>3. PICK x \in S : \A y \in S : ~(<<y, x>> \in R)
    BY <1>1, WFMin
  <1>4. \A y \in S : ~(y < x)
    BY <1>2, <1>3
  <1> QED
    BY <1>4

(* A set with 0 and with the successor of each of its numbers, to n, has   *)
(* every number to n.                                                      *)
LEMMA Rounds ==
  ASSUME NEW n \in Nat, NEW S, 0 \in S, \A k \in 1..n : k - 1 \in S => k \in S
  PROVE  0..n \subseteq S
  <1> DEFINE Bad == {k \in 0..n : k \notin S}
  <1>1. SUFFICES ASSUME Bad # {} PROVE FALSE
    OBVIOUS
  <1>2. Bad \in SUBSET Nat
    OBVIOUS
  <1>3. PICK x \in Bad : \A y \in Bad : x <= y
    BY <1>1, <1>2, Least
  <1>4. x \in 1..n /\ x - 1 \notin Bad
    BY <1>3
  <1> QED
    BY <1>3, <1>4

(* The greatest and the least of some serials.                             *)
LEMMA Extremes ==
  ASSUME NEW n \in Nat, NEW S \in SUBSET (1..n), S # {}
  PROVE  /\ Max(S) \in S /\ \A x \in S : x <= Max(S)
         /\ Min(S) \in S /\ \A x \in S : Min(S) <= x
  <1>1. PICK x \in S : \A y \in S : x <= y
    <2>1. S \in SUBSET Nat
      OBVIOUS
    <2> QED
      BY <2>1, Least
  <1>2. PICK y \in S : \A x1 \in S : x1 <= y
    <2> DEFINE T == {n - k : k \in S}
    <2>1. T \in SUBSET Nat /\ T # {}
      <3>1. \A k \in S : n - k \in Nat
        OBVIOUS
      <3>2. PICK k \in S : TRUE
        OBVIOUS
      <3>3. n - k \in T
        BY <3>2
      <3> QED
        BY <3>1, <3>3
    <2>2. PICK t \in T : \A u \in T : t <= u
      BY <2>1, Least
    <2>3. PICK k \in S : t = n - k
      BY <2>2
    <2>4. \A j \in S : n - k <= n - j
      BY <2>2, <2>3
    <2> QED
      BY <2>4
  <1> QED
    BY <1>1, <1>2 DEF Max, Min

-----------------------------------------------------------------------------
(* The client and the orders in which frames are enqueued.                 *)

(* The client handles the frames one by one.                               *)
LEMMA ClientRuns ==
  ASSUME Len(conn.wire) \in Nat
  PROVE  /\ ClientAfter[0] = client
         /\ \A k \in 1..Len(conn.wire) :
              ClientAfter[k] = OnFrame(ClientAfter[k - 1], conn.wire[k])
  <1> DEFINE n == Len(conn.wire)
             Runs(g, m) == g = [k \in 0..m |-> IF k = 0 THEN client
                                               ELSE OnFrame(g[k - 1], conn.wire[k])]
             Reached == {m \in 0..n : \E g : Runs(g, m)}
  <1> HIDE DEF OnFrame
  <1>1. 0 \in Reached
    <2>1. Runs([k \in 0..0 |-> client], 0)
      OBVIOUS
    <2> HIDE DEF Runs
    <2> QED
      BY <2>1
  <1>2. ASSUME NEW m \in 1..n, m - 1 \in Reached
        PROVE  m \in Reached
    <2>1. PICK g : Runs(g, m - 1)
      BY <1>2
    <2> DEFINE h == [k \in 0..m |-> IF k < m THEN g[k] ELSE OnFrame(g[m - 1], conn.wire[m])]
    <2>2. \A k \in 0..m : h[k] = IF k = 0 THEN client ELSE OnFrame(h[k - 1], conn.wire[k])
      BY <2>1
    <2>3. Runs(h, m)
      BY <2>2
    <2> HIDE DEF Runs, h
    <2> QED
      BY <2>3
  <1>3. 0..n \subseteq Reached
    <2> HIDE DEF Reached
    <2> QED
      BY <1>1, <1>2, Rounds
  <1>4. PICK g : Runs(g, n)
    BY <1>3
  <1>5. ClientAfter = CHOOSE f : Runs(f, n)
    BY DEF ClientAfter
  <1>6. Runs(ClientAfter, n)
    BY <1>4, <1>5
  <1> QED
    BY <1>6

(* A run of serials is listed from its first to its last.                  *)
LEMMA InOrderRun ==
  ASSUME NEW s \in Streams, NEW a \in Nat, NEW b \in Int
  PROVE  LET r == InOrder(s, a..b)
         IN  /\ r \in Seq(Position)
             /\ Len(r) = Cardinality(a..b)
             /\ Cardinality(a..b) = IF a > b THEN 0 ELSE b - a + 1
             /\ \A k \in DOMAIN r : r[k] = At(s, a + k - 1)
  <1> DEFINE S == a..b
             c == Cardinality(S)
             nth(k) == CHOOSE n \in S : Cardinality({m \in S : m < n}) = k - 1
             r == InOrder(s, S)
  <1>1. IsFiniteSet(S) /\ c = IF a > b THEN 0 ELSE b - a + 1
    <2>1. a \in Int
      OBVIOUS
    <2> QED
      BY <2>1, FS_Interval
  <1>2. \A n \in S : Cardinality({m \in S : m < n}) = n - a
    <2>1. SUFFICES ASSUME NEW n \in S PROVE Cardinality({m \in S : m < n}) = n - a
      OBVIOUS
    <2>2. {m \in S : m < n} = a..(n - 1) /\ a \in Int /\ n - 1 \in Int
      OBVIOUS
    <2>3. Cardinality(a..(n - 1)) = IF a > n - 1 THEN 0 ELSE (n - 1) - a + 1
      BY <2>2, FS_Interval
    <2>4. n \in Int /\ a <= n
      OBVIOUS
    <2> HIDE DEF S
    <2>5. Cardinality({m \in S : m < n}) = Cardinality(a..(n - 1))
      BY <2>2
    <2> QED
      BY <2>3, <2>4, <2>5
  <1>3. ASSUME NEW k \in 1..c PROVE nth(k) = a + k - 1
    <2>1. a + k - 1 \in S /\ Cardinality({m \in S : m < a + k - 1}) = k - 1
      BY <1>1, <1>2
    <2>2. \A n \in S : Cardinality({m \in S : m < n}) = k - 1 => n = a + k - 1
      BY <1>2
    <2> QED
      BY <2>1, <2>2
  <1>4. r = [k \in 1..c |-> At(s, nth(k))] /\ c \in Nat
    BY <1>1 DEF InOrder
  <1> HIDE DEF nth, S, r
  <1>5. r = [k \in 1..c |-> At(s, a + k - 1)]
    BY <1>3, <1>4
  <1>6. \A k \in 1..c : At(s, a + k - 1) \in Position
    BY <1>1, <1>4 DEF At, Position
  <1> QED
    BY <1>1, <1>4, <1>5, <1>6 DEF S, r

(* Sorting keeps every held message, and adds none.                        *)
LEMMA SortedHeld ==
  ASSUME NEW h \in Seq(Position)
  PROVE  LET r == BySerial(h)
         IN  /\ r \in Seq(Position)
             /\ DOMAIN r = DOMAIN h
             /\ \A i \in DOMAIN h : \E k \in DOMAIN h : r[k] = h[i]
             /\ \A k \in DOMAIN h : \E i \in DOMAIN h : r[k] = h[i]
  <1> DEFINE n == Len(h)
             D == 1..n
             L(j) == {i \in D : Before(h, i, j)}
             f == [j \in D |-> Rank(h, j)]
  <1>1. n \in Nat /\ DOMAIN h = D /\ \A i \in D : h[i] \in Position /\ h[i].serial \in Nat
    <2>1. n \in Nat /\ DOMAIN h = D /\ \A i \in D : h[i] \in Position
      OBVIOUS
    <2> HIDE DEF D
    <2> QED
      BY <2>1 DEF Position
  <1>2. IsFiniteSet(D) /\ Cardinality(D) = n
    <2>1. 1 \in Int /\ n \in Int
      BY <1>1
    <2>2. IsFiniteSet(D) /\ Cardinality(D) = IF 1 > n THEN 0 ELSE n - 1 + 1
      BY <2>1, FS_Interval
    <2> QED
      BY <1>1, <2>2
  <1>3. \A j \in D : Rank(h, j) = Cardinality(L(j)) /\ IsFiniteSet(L(j))
    <2>1. \A j \in D : L(j) \subseteq D
      OBVIOUS
    <2>2. \A j \in D : IsFiniteSet(L(j))
      BY <1>2, <2>1, FS_Subset
    <2> QED
      BY <1>1, <2>2 DEF Rank
  <1>4. \A i, j \in D : Before(h, i, j) => Rank(h, i) < Rank(h, j)
    <2> SUFFICES ASSUME NEW i \in D, NEW j \in D, Before(h, i, j)
                 PROVE  Rank(h, i) < Rank(h, j)
      OBVIOUS
    <2>1. L(i) \subseteq L(j) /\ i \in L(j) /\ i \notin L(i)
      BY <1>1 DEF Before
    <2>2. L(i) \subseteq L(j) /\ L(i) # L(j) /\ IsFiniteSet(L(j)) /\ IsFiniteSet(L(i))
      BY <1>3, <2>1
    <2>3. Cardinality(L(i)) < Cardinality(L(j))
      <3> HIDE DEF L
      <3>1. /\ Cardinality(L(i)) <= Cardinality(L(j))
            /\ Cardinality(L(i)) # Cardinality(L(j))
        BY <2>2, FS_Subset
      <3>2. Cardinality(L(i)) \in Nat /\ Cardinality(L(j)) \in Nat
        BY <2>2, FS_CardinalityType
      <3> QED
        BY <3>1, <3>2
    <2> QED
      BY <1>3, <2>3
  <1>5. \A j \in D : Rank(h, j) \in 0..(n - 1)
    <2> SUFFICES ASSUME NEW j \in D PROVE Rank(h, j) \in 0..(n - 1)
      OBVIOUS
    <2>1. L(j) \subseteq D /\ j \notin L(j)
      BY <1>1 DEF Before
    <2>2. L(j) \subseteq D /\ L(j) # D
      BY <2>1
    <2>3. /\ Cardinality(L(j)) <= Cardinality(D)
          /\ Cardinality(L(j)) # Cardinality(D)
      <3> HIDE DEF L, D
      <3> QED
        BY <1>2, <2>2, FS_Subset
    <2>4. Cardinality(L(j)) \in Nat
      BY <1>3, FS_CardinalityType
    <2> QED
      BY <1>1, <1>2, <1>3, <2>3, <2>4
  <1>6. \A i, j \in D : Rank(h, i) = Rank(h, j) => i = j
    <2>1. \A i, j \in D : i = j \/ Before(h, i, j) \/ Before(h, j, i)
      BY <1>1 DEF Before
    <2>2. \A i \in D : Rank(h, i) \in Nat
      BY <1>5
    <2> QED
      BY <1>4, <2>1, <2>2
  <1>7. \A k \in D : \E j \in D : Rank(h, j) = k - 1
    <2> DEFINE T == 0..(n - 1)
    <2>1. IsFiniteSet(T) /\ Cardinality(T) = n
      <3>1. 0 \in Int /\ n - 1 \in Int
        BY <1>1
      <3>2. IsFiniteSet(T) /\ Cardinality(T) = IF 0 > n - 1 THEN 0 ELSE n - 1 - 0 + 1
        BY <3>1, FS_Interval
      <3> QED
        BY <1>1, <3>2
    <2>2. f \in Injection(D, T)
      BY <1>5, <1>6 DEF Injection, IsInjective
    <2>3. f \in Surjection(D, T)
      <3> HIDE DEF f, D, T
      <3> QED
        BY <1>2, <2>1, <2>2, FS_Injection
    <2>4. \A t \in T : \E j \in D : f[j] = t
      BY <2>3 DEF Surjection
    <2> QED
      BY <1>1, <2>4
  <1> DEFINE at(k) == CHOOSE j \in D : Rank(h, j) = k - 1
  <1>8. \A k \in D : at(k) \in D /\ Rank(h, at(k)) = k - 1
    BY <1>7
  <1>9. BySerial(h) = [k \in D |-> h[at(k)]]
    BY <1>1 DEF BySerial
  <1> HIDE DEF at, D
  <1>10. BySerial(h) \in Seq(Position) /\ DOMAIN BySerial(h) = D
    BY <1>1, <1>8, <1>9 DEF D
  <1>11. ASSUME NEW i \in D PROVE \E k \in D : BySerial(h)[k] = h[i]
    <2> DEFINE k == Rank(h, i) + 1
    <2>1. k \in D /\ k - 1 = Rank(h, i)
      BY <1>1, <1>5 DEF D
    <2>2. at(k) = i
      BY <1>6, <1>8, <2>1
    <2> QED
      BY <1>9, <2>1, <2>2
  <1>12. \A k \in D : \E i \in D : BySerial(h)[k] = h[i]
    BY <1>8, <1>9
  <1> QED
    BY <1>1, <1>10, <1>11, <1>12

-----------------------------------------------------------------------------
(* Types.                                                                  *)

PositionOrNone == Position \cup {NoPosition}

FrameOnWire == [kind : {"live", "replay", "ack", "failed", "resumed"},
                pos : PositionOrNone]

HistoryState == [stream : Streams \cup {NoStream}, next : Nat \ {0},
                 records : SUBSET (1..MaxSerial), degraded : BOOLEAN]

Publishing == [pc : {"idle", "reserved", "stored", "appended", "sending"},
               pos : PositionOrNone]

FanoutTask == [node : Nodes, pos : Position, step : {"snapshot", "split", "send"},
               target : Nat]

ClientState == [pos : PositionOrNone, base : PositionOrNone, got : SUBSET Position]

Connection ==
  [id : Nat, node : Nodes, pc : HandlerSteps, member : BOOLEAN, filter : BOOLEAN,
   gate : BOOLEAN, held : Seq(Position), wire : Seq(FrameOnWire),
   want : PositionOrNone, head : PositionOrNone, target : Nat,
   replay : Seq(Position), failed : BOOLEAN, acked : PositionOrNone,
   resumed : PositionOrNone, passed : SUBSET Position]

(* A publish is under way on the node.                                     *)
Busy(n) == pub[n].pc # "idle"

ServerTypes ==
  /\ backend \in Backends
  /\ hist \in HistoryState
  /\ hot \in [Nodes -> Entry \cup {NoBuffer}]
  /\ pub \in [Nodes -> Publishing]
  /\ \A n \in Nodes : Busy(n) => pub[n].pos \in Position
                                 /\ pub[n].pos.serial \in 1..MaxSerial
  /\ published \subseteq Position
  /\ fresh \in Nat

SessionTypes ==
  /\ tasks \subseteq FanoutTask
  /\ conn \in Connection
  /\ client \in ClientState

(* A closed connection is typed.                                           *)
LEMMA NoConnType ==
  ASSUME NEW id \in Nat
  PROVE  NoConn(id) \in Connection
  <1>1. (CHOOSE n \in Nodes : TRUE) \in Nodes
    BY NodesAssumption
  <1>2. <<>> \in Seq(Position) /\ <<>> \in Seq(FrameOnWire)
    OBVIOUS
  <1> QED
    BY <1>1, <1>2 DEF NoConn, Connection, HandlerSteps, PositionOrNone

(* A frame leaves the client typed.                                        *)
LEMMA OnFrameType ==
  ASSUME NEW c \in ClientState, NEW f \in FrameOnWire
  PROVE  OnFrame(c, f) \in ClientState
  <1>1. CASE f.kind \in {"live", "replay"} /\ f.pos \in c.got
    BY <1>1 DEF OnFrame
  <1>2. CASE ~(f.kind \in {"live", "replay"} /\ f.pos \in c.got) /\ f.kind = "failed"
    BY <1>2 DEF OnFrame, ClientState, PositionOrNone
  <1>3. CASE /\ ~(f.kind \in {"live", "replay"} /\ f.pos \in c.got)
             /\ f.kind # "failed" /\ f.pos = NoPosition
    BY <1>3 DEF OnFrame
  <1>4. CASE /\ ~(f.kind \in {"live", "replay"} /\ f.pos \in c.got)
             /\ f.kind # "failed" /\ f.pos # NoPosition
    <2> DEFINE base == IF c.base = NoPosition \/ c.base.stream # f.pos.stream
                       THEN f.pos ELSE c.base
               got  == IF f.kind \in {"live", "replay"} THEN c.got \cup {f.pos} ELSE c.got
    <2>1. f.pos \in Position
      BY <1>4 DEF FrameOnWire, PositionOrNone
    <2>2. base \in PositionOrNone /\ got \in SUBSET Position
      BY <2>1 DEF ClientState, PositionOrNone
    <2>3. OnFrame(c, f) = [pos |-> f.pos, base |-> base, got |-> got]
      BY <1>4 DEF OnFrame
    <2> HIDE DEF base, got
    <2> QED
      BY <2>1, <2>2, <2>3 DEF ClientState, PositionOrNone
  <1> QED
    BY <1>1, <1>2, <1>3, <1>4

(* What is left when the connection goes away.                             *)
LEMMA HangupEffect ==
  ASSUME SessionTypes, Hangup
  PROVE  /\ conn' = NoConn(conn.id)
         /\ conn' \in Connection
         /\ client' \in ClientState
  <1>1. conn.id \in Nat /\ conn.wire \in Seq(FrameOnWire) /\ Len(conn.wire) \in Nat
    BY DEF SessionTypes, Connection
  <1> DEFINE S == {k \in 0..Len(conn.wire) : ClientAfter[k] \in ClientState}
  <1>2. 0 \in S
    BY <1>1, ClientRuns DEF SessionTypes
  <1>3. ASSUME NEW k \in 1..Len(conn.wire), k - 1 \in S
        PROVE  k \in S
    <2>1. conn.wire[k] \in FrameOnWire
      BY <1>1
    <2>2. ClientAfter[k] = OnFrame(ClientAfter[k - 1], conn.wire[k])
      BY <1>1, ClientRuns
    <2> QED
      BY <1>3, <2>1, <2>2, OnFrameType
  <1> HIDE DEF S
  <1>4. 0..Len(conn.wire) \subseteq S
    BY <1>1, <1>2, <1>3, Rounds
  <1>5. conn' = NoConn(conn.id) /\ \E k \in 0..Len(conn.wire) : client' = ClientAfter[k]
    BY DEF Hangup
  <1> QED
    BY <1>1, <1>4, <1>5, NoConnType DEF S

-----------------------------------------------------------------------------
(* The server: history, replay buffers and publishers.                     *)

Solo == \A m, n \in Nodes : m = n

(* The queues are bounded and below their heads.                           *)
Buffered == \A n \in Nodes : hot[n] # NoBuffer => Bounded(hot[n])

(* What is published on the stream is in the history or was evicted, and   *)
(* then it is older than every record and every publish under way.         *)
Logged ==
  HistoryEnabled =>
    /\ \A r \in hist.records : r < hist.next
    /\ \A n \in Nodes : Busy(n) => /\ pub[n].pos.stream = hist.stream
                                   /\ pub[n].pos.serial < hist.next
    /\ \A n \in Nodes : pub[n].pc \in {"appended", "sending"} =>
         pub[n].pos.serial \in hist.records
    /\ \A p \in published : p.stream = hist.stream =>
         /\ p.serial < hist.next
         /\ \/ p.serial \in hist.records
            \/ /\ \A r \in hist.records : p.serial < r
               /\ \A n \in Nodes : Busy(n) => p.serial < pub[n].pos.serial

Unlogged ==
  ~HistoryEnabled => hist = EmptyHistory /\ \A n \in Nodes : pub[n].pc # "stored"

(* A stream that will be drawn is in use nowhere.                          *)
Drawn ==
  /\ \A p \in published : p.stream <= fresh
  /\ \A n \in Nodes : hot[n] # NoBuffer => hot[n].stream <= fresh
  /\ \A n \in Nodes : Busy(n) => pub[n].pos.stream <= fresh
  /\ hist.stream # NoStream => hist.stream <= fresh

(* Without history a stream belongs to one node, whose buffer has handed   *)
(* its positions out.                                                      *)
OwnStreams ==
  ~HistoryEnabled =>
    /\ \A n \in Nodes : Busy(n) => /\ hot[n] # NoBuffer
                                   /\ hot[n].stream = pub[n].pos.stream
                                   /\ pub[n].pos.serial < hot[n].next
    /\ \A m, n \in Nodes : m # n /\ hot[m] # NoBuffer /\ hot[n] # NoBuffer =>
         hot[m].stream # hot[n].stream

(* A publish that has stored its message finds it in the buffer.           *)
StoredHot ==
  \A n \in Nodes : pub[n].pc \in {"stored", "appended", "sending"} =>
    /\ hot[n] # NoBuffer
    /\ hot[n].stream = pub[n].pos.stream
    /\ pub[n].pos.serial < hot[n].next
    /\ hot[n].msgs # <<>>

(* A single node's publish has the serial reserved last.                   *)
Latest ==
  Solo /\ HistoryEnabled => \A n \in Nodes : Busy(n) => pub[n].pos.serial = hist.next - 1

(* The buffer of the only publisher of a stream has seen every message.    *)
BelowHead ==
  Solo \/ ~HistoryEnabled =>
    \A n \in Nodes, p \in published :
      hot[n] # NoBuffer /\ hot[n].stream = p.stream => p.serial < hot[n].next

(* Several nodes share the stream of the history.                          *)
OneStream ==
  ~Solo /\ HistoryEnabled =>
    /\ \A p \in published : p.stream = hist.stream
    /\ \A n \in Nodes : hot[n] # NoBuffer /\ hot[n].msgs # <<>> =>
         hot[n].stream = hist.stream

Server == /\ ServerTypes /\ Buffered /\ Logged /\ Unlogged /\ Drawn /\ OwnStreams
          /\ StoredHot /\ Latest /\ BelowHead /\ OneStream

serverVars == <<backend, hist, hot, pub, published, fresh>>

(* A step that leaves the server alone.                                    *)
LEMMA ServerSame ==
  ASSUME Server, UNCHANGED serverVars
  PROVE  Server'
  BY DEF Server, serverVars, ServerTypes, Buffered, Logged, Unlogged, Drawn, OwnStreams,
         StoredHot, Latest, BelowHead, OneStream, Busy, HistoryEnabled, Solo

(* The durable reservation, which may create the stream.                   *)
LEMMA ReserveDurableServer ==
  ASSUME Server, NEW n \in Nodes, Reserve(n), HistoryEnabled
  PROVE  Server'
  <1>1. /\ ReserveDurable(n, fresh') /\ fresh' \in Streams \cup {0}
        /\ pub[n].pc = "idle"
        /\ UNCHANGED <<backend, published, hot>>
    BY DEF Reserve, ReserveDurable
  <1>2. /\ ServerTypes /\ Logged /\ Drawn /\ fresh \in Nat /\ hist \in HistoryState
        /\ hist.next \in Nat \ {0} /\ hist.stream \in Streams \cup {NoStream}
        /\ hist.records \subseteq 1..MaxSerial
    BY DEF Server, ServerTypes, HistoryState
  <1> DEFINE s == IF hist.stream = NoStream THEN fresh' ELSE hist.stream
  <1>3. /\ hist.stream = NoStream => fresh' = fresh + 1 /\ fresh' \in Streams
        /\ hist.stream # NoStream => fresh' = fresh
        /\ hist.next <= MaxSerial
    BY <1>1, <1>2 DEF ReserveDurable, Draw
  <1>4. /\ hist' \in HistoryState
        /\ hist'.stream = s /\ hist'.next = hist.next + 1
        /\ hist'.records = hist.records
    <2>1. hist' = [hist EXCEPT !.next = hist.next + 1, !.stream = s]
      BY <1>1 DEF ReserveDurable
    <2>2. s \in Streams \cup {NoStream} /\ hist.next + 1 \in Nat \ {0}
      BY <1>2, <1>3
    <2> HIDE DEF s
    <2> QED
      BY <1>2, <2>1, <2>2 DEF HistoryState
  <1>5. pub' = [pub EXCEPT ![n] = [pc |-> "reserved", pos |-> At(hist'.stream, hist.next)]]
    BY <1>1 DEF ReserveDurable
  <1>6. /\ s \in Streams
        /\ At(s, hist.next) \in Position /\ hist.next \in 1..MaxSerial
        /\ At(s, hist.next).stream = s /\ At(s, hist.next).serial = hist.next
    BY <1>2, <1>3, BoundsAssumption DEF At, Position
  <1>7. /\ pub' \in [Nodes -> Publishing]
        /\ pub'[n].pc = "reserved" /\ pub'[n].pos = At(s, hist.next)
        /\ \A m \in Nodes \ {n} : pub'[m] = pub[m]
    BY <1>2, <1>4, <1>5, <1>6 DEF ServerTypes, Publishing, PositionOrNone
  <1>8. HistoryEnabled' = HistoryEnabled /\ Solo' = Solo
    BY <1>1 DEF HistoryEnabled, Solo
  <1> HIDE DEF s
  <1>9. ServerTypes'
    BY <1>1, <1>2, <1>3, <1>4, <1>6, <1>7 DEF ServerTypes, Busy
  <1>10. \A m \in Nodes : Busy(m) => pub[m].pos.stream \in Streams /\ hist.stream # NoStream
    BY <1>2, NoStreamAssumption DEF Logged, ServerTypes, Position
  <1>11. \A p \in published : p.stream \in Streams /\ p.stream <= fresh /\ p.stream \in Nat
    BY <1>2, BoundsAssumption DEF ServerTypes, Drawn, Position
  <1>12. Logged'
    <2>1. \A r \in hist'.records : r < hist'.next
      <3>1. \A r \in hist.records : r < hist.next /\ r \in Nat
        BY <1>2 DEF Logged
      <3> QED
        BY <1>2, <1>4, <3>1
    <2>2. ASSUME NEW m \in Nodes, Busy(m)'
          PROVE  pub'[m].pos.stream = hist'.stream /\ pub'[m].pos.serial < hist'.next
      <3>1. CASE m = n
        BY <1>2, <1>4, <1>6, <1>7, <3>1
      <3>2. CASE m # n
        <4>1. Busy(m) /\ pub'[m] = pub[m] /\ pub[m].pos.serial \in Nat
          BY <1>2, <1>7, <2>2, <3>2 DEF Busy, ServerTypes, Position
        <4>2. hist'.stream = hist.stream
          BY <1>4, <1>10, <4>1 DEF s
        <4> QED
          BY <1>2, <1>4, <4>1, <4>2 DEF Logged
      <3> QED
        BY <3>1, <3>2
    <2>3. \A m \in Nodes : pub'[m].pc \in {"appended", "sending"} =>
            pub'[m].pos.serial \in hist'.records
      BY <1>2, <1>4, <1>7 DEF Logged
    <2>4. ASSUME NEW p \in published', p.stream = hist'.stream
          PROVE  /\ p.serial < hist'.next
                 /\ \/ p.serial \in hist'.records
                    \/ /\ \A r \in hist'.records : p.serial < r
                       /\ \A m \in Nodes : Busy(m)' => p.serial < pub'[m].pos.serial
      <3>1. p \in published /\ hist.stream # NoStream /\ p.stream = hist.stream /\ p.serial \in Nat
        BY <1>1, <1>2, <1>3, <1>4, <1>11, <2>4 DEF s, ServerTypes, Position
      <3>2. /\ p.serial < hist.next
            /\ \/ p.serial \in hist.records
               \/ /\ \A r \in hist.records : p.serial < r
                  /\ \A m \in Nodes : Busy(m) => p.serial < pub[m].pos.serial
        BY <1>2, <3>1 DEF Logged
      <3>3. \A m \in Nodes \ {n} : Busy(m)' => Busy(m)
        BY <1>7 DEF Busy
      <3>4. p.serial < pub'[n].pos.serial /\ p.serial < hist'.next
        BY <1>2, <1>4, <1>6, <1>7, <3>1, <3>2
      <3> QED
        BY <1>4, <1>7, <3>2, <3>3, <3>4
    <2> QED
      BY <2>1, <2>2, <2>3, <2>4 DEF Logged
  <1>13. Drawn'
    <2>1. fresh <= fresh' /\ fresh' \in Nat /\ (hist.stream = NoStream => s <= fresh')
          /\ (hist.stream # NoStream => s <= fresh)
      BY <1>2, <1>3 DEF s, Drawn
    <2>2. \A m \in Nodes : hot[m] # NoBuffer => hot[m].stream \in Nat
      BY <1>2, BoundsAssumption DEF ServerTypes, Entry
    <2>3. \A m \in Nodes : Busy(m)' => m = n \/ (Busy(m) /\ pub'[m] = pub[m])
      BY <1>7 DEF Busy
    <2>4. s \in Nat /\ \A m \in Nodes : Busy(m) => pub[m].pos.stream \in Nat
      BY <1>6, <1>10, BoundsAssumption
    <2> QED
      BY <1>1, <1>2, <1>4, <1>6, <1>7, <1>11, <2>1, <2>2, <2>3, <2>4 DEF Drawn
  <1>14. StoredHot'
    BY <1>1, <1>7 DEF Server, StoredHot
  <1>15. Latest'
    <2>1. ASSUME Solo PROVE \A m \in Nodes : pub'[m].pos.serial = hist'.next - 1
      <3>1. \A m \in Nodes : m = n
        BY <2>1 DEF Solo
      <3> QED
        BY <1>2, <1>4, <1>6, <1>7, <3>1
    <2> QED
      BY <1>8, <2>1 DEF Latest
  <1>16. OneStream'
    <2>1. ASSUME ~Solo PROVE /\ \A p \in published : p.stream = hist'.stream
                            /\ \A m \in Nodes : hot[m] # NoBuffer /\ hot[m].msgs # <<>> =>
                                 hot[m].stream = hist'.stream
      <3>1. /\ \A p \in published : p.stream = hist.stream
            /\ \A m \in Nodes : hot[m] # NoBuffer /\ hot[m].msgs # <<>> =>
                 hot[m].stream = hist.stream
        BY <2>1 DEF Server, OneStream
      <3>2. \A m \in Nodes : hot[m] # NoBuffer => hot[m].stream \in Streams
        BY <1>2 DEF ServerTypes, Entry
      <3> QED
        BY <1>4, <1>11, <3>1, <3>2, NoStreamAssumption DEF s
    <2> QED
      BY <1>1, <1>8, <2>1 DEF OneStream
  <1>17. Buffered' /\ Unlogged' /\ OwnStreams' /\ BelowHead'
    BY <1>1, <1>8 DEF Server, Buffered, Unlogged, OwnStreams, BelowHead
  <1> QED
    BY <1>9, <1>12, <1>13, <1>14, <1>15, <1>16, <1>17 DEF Server

(* Without history the replay buffer hands the position out.               *)
LEMMA ReserveHotServer ==
  ASSUME Server, NEW n \in Nodes, Reserve(n), ~HistoryEnabled
  PROVE  Server'
  <1> DEFINE p == NextPositionOf(hot[n], fresh')
             b == NextPositionBuffer(hot[n], fresh')
  <1>1. /\ fresh' \in Streams \cup {0} /\ Draw(hot[n] = NoBuffer, fresh')
        /\ p.serial <= MaxSerial
        /\ pub' = [pub EXCEPT ![n] = [pc |-> "reserved", pos |-> p]]
        /\ hot' = [hot EXCEPT ![n] = b]
        /\ pub[n].pc = "idle"
        /\ UNCHANGED <<backend, published, hist>>
    BY DEF Reserve, ReserveHot
  <1>2. /\ ServerTypes /\ Drawn /\ OwnStreams /\ Buffered /\ BelowHead /\ fresh \in Nat
        /\ hot[n] \in Entry \cup {NoBuffer} /\ hot \in [Nodes -> Entry \cup {NoBuffer}]
        /\ pub \in [Nodes -> Publishing]
    BY DEF Server, ServerTypes
  <1>3. /\ hot[n] = NoBuffer => fresh' = fresh + 1 /\ fresh' \in Streams
        /\ hot[n] # NoBuffer => fresh' = fresh
    BY <1>1, <1>2 DEF Draw
  <1>4. PICK s \in Streams : hot[n] = NoBuffer => s = fresh'
    <2>1. hot[n] # NoBuffer => hot[n].stream \in Streams
      BY <1>2 DEF Entry
    <2> QED
      BY <1>3, <2>1
  <1>5. /\ b \in Entry /\ p \in Position /\ p.stream = b.stream /\ b.next = p.serial + 1
        /\ hot[n] = NoBuffer => p.stream = fresh' /\ p.serial = 1 /\ b.msgs = <<>>
        /\ hot[n] # NoBuffer => /\ p.stream = hot[n].stream
                                /\ p.serial = hot[n].next
                                /\ b.msgs = hot[n].msgs
    <2>1. /\ NextPositionBuffer(hot[n], s) = b /\ NextPositionOf(hot[n], s) = p
      BY <1>4 DEF NextPositionBuffer, NextPositionOf, GetOrInsert
    <2> HIDE DEF b, p
    <2>2. LET c == NextPositionBuffer(hot[n], s)
              q == NextPositionOf(hot[n], s)
          IN  /\ c \in Entry
              /\ q \in Position
              /\ q.stream = c.stream
              /\ c.next = q.serial + 1
              /\ hot[n] = NoBuffer => q.stream = s /\ q.serial = 1 /\ c.msgs = <<>>
              /\ hot[n] # NoBuffer => /\ q.stream = hot[n].stream
                                      /\ q.serial = hot[n].next
                                      /\ c.msgs = hot[n].msgs
      BY <1>2, NextPositionFacts
    <2> QED
      BY <1>4, <2>1, <2>2
  <1>6. b # NoBuffer /\ b.next \in Nat /\ p.serial \in Nat /\ p.stream \in Streams /\ p.stream \in Nat
    BY <1>5, NoBufferAssumption, BoundsAssumption DEF Entry, Position
  <1> HIDE DEF b, p
  <1>7. /\ pub' \in [Nodes -> Publishing] /\ hot' \in [Nodes -> Entry \cup {NoBuffer}]
        /\ pub'[n].pc = "reserved" /\ pub'[n].pos = p /\ hot'[n] = b
        /\ \A m \in Nodes \ {n} : pub'[m] = pub[m] /\ hot'[m] = hot[m]
    BY <1>1, <1>2, <1>5 DEF Publishing, PositionOrNone
  <1>8. ~HistoryEnabled'
    BY <1>1 DEF HistoryEnabled
  <1>9. /\ hot[n] # NoBuffer => /\ hot[n].next \in Nat /\ hot[n].next >= 1
                                /\ hot[n].msgs \in Seq(Position)
                                /\ Len(hot[n].msgs) <= MaxBufferSize
                                /\ \A i \in DOMAIN hot[n].msgs : hot[n].msgs[i].serial < hot[n].next
    BY <1>2 DEF Buffered, Bounded, Entry
  <1>10. Bounded(b) /\ p.serial \in 1..MaxSerial
    <2>1. CASE hot[n] = NoBuffer
      BY <1>1, <1>5, <1>6, <2>1, MaxBufferSizeAssumption, BoundsAssumption DEF Bounded
    <2>2. CASE hot[n] # NoBuffer
      <3>1. \A i \in DOMAIN hot[n].msgs : hot[n].msgs[i].serial \in Nat
        <4>1. \A i \in DOMAIN hot[n].msgs : hot[n].msgs[i] \in Position
          BY <1>9, <2>2
        <4> QED
          BY <4>1 DEF Position
      <3>2. b.msgs = hot[n].msgs /\ b.next = hot[n].next + 1 /\ p.serial = hot[n].next
        BY <1>5, <2>2
      <3>3. \A i \in DOMAIN b.msgs : b.msgs[i].serial < b.next
        BY <1>9, <2>2, <3>1, <3>2
      <3>4. p.serial \in 1..MaxSerial
        BY <1>1, <1>9, <2>2, <3>2, BoundsAssumption
      <3> QED
        BY <1>9, <2>2, <3>2, <3>3, <3>4 DEF Bounded
    <2> QED
      BY <2>1, <2>2
  <1>11. ServerTypes'
    <2>1. fresh' \in Nat
      BY <1>2, <1>3
    <2> QED
      BY <1>1, <1>2, <1>5, <1>7, <1>10, <2>1 DEF ServerTypes, Busy
  <1>12. Buffered'
    BY <1>2, <1>7, <1>10 DEF Buffered
  <1>13. /\ fresh <= fresh' /\ p.stream <= fresh' /\ fresh' \in Nat
         /\ hot[n] = NoBuffer => p.stream > fresh
    BY <1>2, <1>3, <1>5, <1>6 DEF Drawn
  <1>14. Drawn'
    <2>1. /\ \A m \in Nodes : hot[m] # NoBuffer => hot[m].stream \in Nat
          /\ \A m \in Nodes : Busy(m) => pub[m].pos.stream \in Nat
          /\ \A q \in published : q.stream \in Nat
          /\ hist.stream # NoStream => hist.stream \in Nat
      BY <1>2, BoundsAssumption DEF ServerTypes, Entry, Position, HistoryState
    <2>2. \A m \in Nodes : Busy(m)' => m = n \/ (Busy(m) /\ pub'[m] = pub[m])
      BY <1>7 DEF Busy
    <2> QED
      BY <1>1, <1>2, <1>5, <1>6, <1>7, <1>13, <2>1, <2>2 DEF Drawn
  <1>15. OwnStreams'
    <2>1. \A m \in Nodes : Busy(m)' => /\ hot'[m] # NoBuffer
                                       /\ hot'[m].stream = pub'[m].pos.stream
                                       /\ pub'[m].pos.serial < hot'[m].next
      BY <1>2, <1>5, <1>6, <1>7 DEF OwnStreams, Busy
    <2>2. \A m \in Nodes \ {n} : hot[m] # NoBuffer => hot[m].stream # b.stream
      <3>1. \A m \in Nodes : hot[m] # NoBuffer => hot[m].stream <= fresh /\ hot[m].stream \in Nat
        BY <1>2, BoundsAssumption DEF Drawn, ServerTypes, Entry
      <3> QED
        BY <1>2, <1>5, <1>6, <1>13, <3>1 DEF OwnStreams
    <2>3. \A m, k \in Nodes : m # k /\ hot'[m] # NoBuffer /\ hot'[k] # NoBuffer =>
            hot'[m].stream # hot'[k].stream
      BY <1>2, <1>7, <2>2 DEF OwnStreams
    <2> QED
      BY <2>1, <2>3 DEF OwnStreams
  <1>16. BelowHead'
    <2>1. ASSUME NEW m \in Nodes, NEW q \in published, hot'[m] # NoBuffer, hot'[m].stream = q.stream
          PROVE  q.serial < hot'[m].next
      <3>1. q.stream <= fresh /\ q.stream \in Nat /\ q.serial \in Nat
        BY <1>2, BoundsAssumption DEF ServerTypes, Drawn, Position
      <3>2. CASE m # n
        BY <1>2, <1>7, <2>1, <3>2 DEF BelowHead
      <3>3. CASE m = n /\ hot[n] = NoBuffer
        BY <1>2, <1>5, <1>6, <1>7, <1>13, <2>1, <3>1, <3>3
      <3>4. CASE m = n /\ hot[n] # NoBuffer
        <4>1. q.serial < hot[n].next
          BY <1>2, <1>5, <1>7, <2>1, <3>4 DEF BelowHead
        <4> QED
          BY <1>5, <1>6, <1>7, <1>9, <3>1, <3>4, <4>1
      <3> QED
        BY <3>2, <3>3, <3>4
    <2> QED
      BY <1>1, <2>1 DEF BelowHead
  <1>17. StoredHot'
    BY <1>7 DEF Server, StoredHot
  <1>18. Unlogged'
    BY <1>1, <1>7 DEF Server, Unlogged, HistoryEnabled
  <1>19. Logged' /\ Latest' /\ OneStream'
    BY <1>8 DEF Logged, Latest, OneStream
  <1> QED
    BY <1>11, <1>12, <1>14, <1>15, <1>16, <1>17, <1>18, <1>19 DEF Server

(* A position is reserved.                                                 *)
LEMMA ReserveServer ==
  ASSUME Server, NEW n \in Nodes, Reserve(n)
  PROVE  Server'
  BY ReserveDurableServer, ReserveHotServer

(* The message is put in the replay buffer.                                *)
LEMMA StoreHotServer ==
  ASSUME Server, NEW n \in Nodes, StoreHot(n)
  PROVE  Server'
  <1> DEFINE p == pub[n].pos
             b == StoreBuffer(hot[n], p)
             c == IF HistoryEnabled THEN "stored" ELSE "appended"
  <1>1. /\ pub[n].pc = "reserved"
        /\ pub' = [pub EXCEPT ![n].pc = c]
        /\ hot' = [hot EXCEPT ![n] = b]
        /\ UNCHANGED <<backend, published, hist, fresh>>
    BY DEF StoreHot
  <1>2. /\ ServerTypes /\ Drawn /\ OwnStreams /\ Buffered /\ BelowHead /\ Logged /\ fresh \in Nat
        /\ hot[n] \in Entry \cup {NoBuffer} /\ hot \in [Nodes -> Entry \cup {NoBuffer}]
        /\ pub \in [Nodes -> Publishing] /\ Busy(n) /\ p \in Position
        /\ p.stream \in Streams /\ p.serial \in Nat /\ p.stream <= fresh
    BY <1>1 DEF Server, ServerTypes, Busy, Position, Drawn
  <1>3. /\ b \in Entry /\ b.stream = p.stream /\ b.next > p.serial
        /\ hot[n] # NoBuffer => b.next >= hot[n].next
        /\ Len(b.msgs) <= MaxBufferSize
        /\ b.msgs # <<>>
        /\ \A i \in DOMAIN b.msgs :
              \/ b.msgs[i] = p
              \/ /\ hot[n] # NoBuffer
                 /\ hot[n].stream = p.stream
                 /\ \E j \in DOMAIN hot[n].msgs : b.msgs[i] = hot[n].msgs[j]
    BY <1>2, StoreFacts
  <1>4. b # NoBuffer /\ b.next \in Nat /\ b.stream \in Streams
    BY <1>3, NoBufferAssumption DEF Entry
  <1>5. /\ pub' \in [Nodes -> Publishing] /\ hot' \in [Nodes -> Entry \cup {NoBuffer}]
        /\ pub'[n].pc = c /\ pub'[n].pos = p /\ hot'[n] = b
        /\ \A m \in Nodes \ {n} : pub'[m] = pub[m] /\ hot'[m] = hot[m]
    BY <1>1, <1>2, <1>3 DEF Publishing
  <1>6. HistoryEnabled' = HistoryEnabled /\ Solo' = Solo
    BY <1>1 DEF HistoryEnabled, Solo
  <1>7. /\ \A m \in Nodes : Busy(m)' = Busy(m) /\ pub'[m].pos = pub[m].pos
        /\ c \in {"stored", "appended"} /\ (c = "stored" <=> HistoryEnabled)
    BY <1>2, <1>5 DEF Busy
  <1> HIDE DEF b, p
  <1>8. ServerTypes'
    BY <1>1, <1>2, <1>5, <1>7 DEF ServerTypes
  <1>9. Bounded(b)
    <2>1. ASSUME NEW i \in DOMAIN b.msgs PROVE b.msgs[i].serial < b.next
      <3>1. CASE b.msgs[i] = p
        BY <1>2, <1>3, <1>4, <3>1
      <3>2. CASE /\ hot[n] # NoBuffer
                 /\ \E j \in DOMAIN hot[n].msgs : b.msgs[i] = hot[n].msgs[j]
        <4>1. PICK j \in DOMAIN hot[n].msgs : b.msgs[i] = hot[n].msgs[j]
          BY <3>2
        <4>2. /\ hot[n].msgs[j].serial < hot[n].next /\ hot[n].next \in Nat
              /\ hot[n].msgs[j] \in Position
          BY <1>2, <3>2, <4>1 DEF Buffered, Bounded, Entry
        <4> QED
          BY <1>3, <1>4, <3>2, <4>1, <4>2 DEF Position
      <3> QED
        BY <1>3, <3>1, <3>2
    <2> QED
      BY <1>2, <1>3, <1>4, <2>1 DEF Bounded
  <1>10. Buffered'
    BY <1>2, <1>5, <1>9 DEF Buffered
  <1>11. Logged'
    BY <1>1, <1>2, <1>5, <1>6, <1>7 DEF Logged
  <1>12. Unlogged'
    <2>1. hist' = hist /\ EmptyHistory' = EmptyHistory
      BY <1>1 DEF EmptyHistory
    <2> QED
      BY <1>5, <1>6, <1>7, <2>1 DEF Server, Unlogged
  <1>13. Drawn'
    BY <1>1, <1>2, <1>3, <1>5, <1>7 DEF Drawn
  <1>14. OwnStreams'
    <2>1. ASSUME ~HistoryEnabled
          PROVE  /\ hot[n] # NoBuffer /\ hot[n].stream = p.stream
                 /\ \A m \in Nodes \ {n} : hot[m] # NoBuffer => hot[m].stream # p.stream
      BY <1>2, <2>1 DEF OwnStreams, p
    <2> QED
      BY <1>2, <1>3, <1>4, <1>5, <1>6, <1>7, <2>1 DEF OwnStreams, p
  <1>15. StoredHot'
    BY <1>3, <1>4, <1>5 DEF Server, StoredHot
  <1>16. Latest'
    BY <1>1, <1>6, <1>7 DEF Server, Latest
  <1>17. BelowHead'
    <2>1. ASSUME Solo \/ ~HistoryEnabled, NEW m \in Nodes, NEW q \in published,
                 hot'[m] # NoBuffer, hot'[m].stream = q.stream
          PROVE  q.serial < hot'[m].next
      <3>1. q.serial \in Nat
        BY <1>2 DEF ServerTypes, Position
      <3>2. CASE m # n
        BY <1>2, <1>5, <2>1, <3>2 DEF BelowHead
      <3>3. CASE m = n /\ ~HistoryEnabled
        <4>1. hot[n] # NoBuffer /\ hot[n].stream = p.stream
          BY <1>2, <3>3 DEF OwnStreams, p
        <4>2. q.serial < hot[n].next /\ hot[n].next \in Nat
          BY <1>2, <1>3, <1>5, <2>1, <3>3, <4>1 DEF BelowHead, Entry
        <4> QED
          BY <1>3, <1>4, <1>5, <3>1, <3>3, <4>1, <4>2
      <3>4. CASE m = n /\ HistoryEnabled
        <4>1. p.stream = hist.stream /\ p.serial = hist.next - 1 /\ hist.next \in Nat
          BY <1>2, <2>1, <3>4 DEF Server, Logged, Latest, p, ServerTypes, HistoryState
        <4>2. q.serial < hist.next
          BY <1>2, <1>3, <1>5, <2>1, <3>4, <4>1 DEF Logged
        <4> QED
          BY <1>2, <1>3, <1>4, <1>5, <3>1, <3>4, <4>1, <4>2
      <3> QED
        BY <3>2, <3>3, <3>4
    <2> QED
      BY <1>1, <1>6, <2>1 DEF BelowHead
  <1>18. OneStream'
    <2>1. HistoryEnabled => p.stream = hist.stream
      BY <1>2 DEF Logged, p
    <2> QED
      BY <1>1, <1>3, <1>5, <1>6, <2>1 DEF Server, OneStream
  <1> QED
    BY <1>8, <1>10, <1>11, <1>12, <1>13, <1>14, <1>15, <1>16, <1>17, <1>18 DEF Server

(* The message is appended to the history.                                 *)
LEMMA AppendServer ==
  ASSUME Server, NEW n \in Nodes, AppendHistory(n)
  PROVE  Server'
  <1> DEFINE p == pub[n].pos
  <1>1. /\ pub[n].pc = "stored"
        /\ pub' = [pub EXCEPT ![n].pc = "appended"]
        /\ hist' = [hist EXCEPT !.records = hist.records \cup {p.serial}]
        /\ UNCHANGED <<backend, published, hot, fresh>>
    BY DEF AppendHistory
  <1>2. /\ ServerTypes /\ Logged /\ hist \in HistoryState /\ pub \in [Nodes -> Publishing]
        /\ Busy(n) /\ p.serial \in 1..MaxSerial /\ HistoryEnabled
    BY <1>1 DEF Server, ServerTypes, Busy, Unlogged
  <1>3. /\ hist' \in HistoryState /\ hist'.stream = hist.stream /\ hist'.next = hist.next
        /\ hist'.records = hist.records \cup {p.serial}
    BY <1>1, <1>2 DEF HistoryState
  <1>4. /\ pub' \in [Nodes -> Publishing]
        /\ pub'[n].pc = "appended" /\ pub'[n].pos = p
        /\ \A m \in Nodes \ {n} : pub'[m] = pub[m]
    BY <1>1, <1>2 DEF Publishing
  <1>5. HistoryEnabled' = HistoryEnabled /\ Solo' = Solo
    BY <1>1 DEF HistoryEnabled, Solo
  <1>6. \A m \in Nodes : Busy(m)' = Busy(m) /\ pub'[m].pos = pub[m].pos
    BY <1>2, <1>4 DEF Busy
  <1>7. ServerTypes'
    BY <1>1, <1>2, <1>3, <1>4, <1>6 DEF ServerTypes
  <1>8. Logged'
    <2>1. p.stream = hist.stream /\ p.serial < hist.next
      BY <1>2 DEF Logged
    <2> HIDE DEF p
    <2>2. \A r \in hist'.records : r < hist'.next
      BY <1>2, <1>3, <2>1 DEF Logged
    <2>3. \A m \in Nodes : Busy(m)' => /\ pub'[m].pos.stream = hist'.stream
                                       /\ pub'[m].pos.serial < hist'.next
      BY <1>2, <1>3, <1>6 DEF Logged
    <2>4. \A m \in Nodes : pub'[m].pc \in {"appended", "sending"} =>
            pub'[m].pos.serial \in hist'.records
      BY <1>2, <1>3, <1>4 DEF Logged
    <2>5. ASSUME NEW q \in published', q.stream = hist'.stream
          PROVE  /\ q.serial < hist'.next
                 /\ \/ q.serial \in hist'.records
                    \/ /\ \A r \in hist'.records : q.serial < r
                       /\ \A m \in Nodes : Busy(m)' => q.serial < pub'[m].pos.serial
      <3>1. /\ q.serial < hist.next
            /\ \/ q.serial \in hist.records
               \/ /\ \A r \in hist.records : q.serial < r
                  /\ \A m \in Nodes : Busy(m) => q.serial < pub[m].pos.serial
        BY <1>1, <1>2, <1>3, <2>5 DEF Logged
      <3> QED
        BY <1>2, <1>3, <1>6, <3>1 DEF p
    <2> QED
      BY <2>2, <2>3, <2>4, <2>5 DEF Logged
  <1>9. Drawn'
    BY <1>1, <1>3, <1>6 DEF Server, Drawn
  <1>10. StoredHot'
    BY <1>1, <1>4, <1>6 DEF Server, StoredHot
  <1>11. Latest'
    BY <1>3, <1>5, <1>6 DEF Server, Latest
  <1>12. Unlogged' /\ OwnStreams'
    BY <1>2, <1>5 DEF Unlogged, OwnStreams
  <1>13. Buffered' /\ BelowHead' /\ OneStream'
    BY <1>1, <1>3, <1>5 DEF Server, Buffered, BelowHead, OneStream
  <1> QED
    BY <1>7, <1>8, <1>9, <1>10, <1>11, <1>12, <1>13 DEF Server

(* A publish that ends, whatever it leaves in the history.                 *)
LEMMA EndServer ==
  ASSUME Server, NEW n \in Nodes, pub' = [pub EXCEPT ![n] = Idle],
         hist' \in HistoryState, hist'.stream = hist.stream, hist'.next = hist.next,
         hist'.records = hist.records, HistoryEnabled \/ hist' = hist,
         UNCHANGED <<backend, published, hot, fresh>>
  PROVE  Server'
  <1>1. pub \in [Nodes -> Publishing]
    BY DEF Server, ServerTypes
  <1>2. /\ pub' \in [Nodes -> Publishing] /\ pub'[n].pc = "idle"
        /\ \A m \in Nodes \ {n} : pub'[m] = pub[m]
    BY <1>1 DEF Idle, Publishing, PositionOrNone
  <1>3. HistoryEnabled' = HistoryEnabled /\ Solo' = Solo /\ EmptyHistory' = EmptyHistory
    BY DEF HistoryEnabled, Solo, EmptyHistory
  <1>4. \A m \in Nodes : /\ Busy(m)' => Busy(m) /\ pub'[m] = pub[m]
                         /\ pub'[m].pc # "idle" => pub'[m] = pub[m]
    BY <1>2 DEF Busy
  <1>5. ServerTypes'
    BY <1>2, <1>4 DEF Server, ServerTypes
  <1>6. Logged'
    BY <1>3, <1>4 DEF Server, Logged
  <1>7. Unlogged'
    BY <1>2, <1>3, <1>4 DEF Server, Unlogged
  <1>8. Drawn'
    BY <1>4 DEF Server, Drawn
  <1>9. OwnStreams'
    BY <1>3, <1>4 DEF Server, OwnStreams
  <1>10. StoredHot'
    BY <1>4 DEF Server, StoredHot
  <1>11. Latest'
    BY <1>3, <1>4 DEF Server, Latest
  <1>12. Buffered' /\ BelowHead' /\ OneStream'
    BY <1>3 DEF Server, Buffered, BelowHead, OneStream
  <1> QED
    BY <1>5, <1>6, <1>7, <1>8, <1>9, <1>10, <1>11, <1>12 DEF Server

(* The append fails.                                                       *)
LEMMA AppendFailsServer ==
  ASSUME Server, NEW n \in Nodes, AppendFails(n)
  PROVE  Server'
  <1>1. /\ backend = "sql" /\ hist' = [hist EXCEPT !.degraded = TRUE]
        /\ pub' = [pub EXCEPT ![n] = Idle]
        /\ UNCHANGED <<backend, published, hot, fresh>>
    BY DEF AppendFails
  <1>2. hist \in HistoryState /\ HistoryEnabled
    BY <1>1 DEF Server, ServerTypes, HistoryEnabled
  <1>3. /\ hist' \in HistoryState /\ hist'.stream = hist.stream /\ hist'.next = hist.next
        /\ hist'.records = hist.records
    BY <1>1, <1>2 DEF HistoryState
  <1> QED
    BY <1>1, <1>2, <1>3, EndServer

(* The message is handed to the other nodes.                               *)
LEMMA ForwardServer ==
  ASSUME Server, NEW n \in Nodes, Forward(n)
  PROVE  Server'
  <1>1. /\ pub' = [pub EXCEPT ![n] = Idle]
        /\ UNCHANGED <<backend, published, hot, fresh, hist>>
    BY DEF Forward
  <1>2. hist \in HistoryState
    BY DEF Server, ServerTypes
  <1> QED
    BY <1>1, <1>2, EndServer

(* Fan-out begins: the message is published.                               *)
LEMMA StartFanoutServer ==
  ASSUME Server, NEW n \in Nodes, StartFanout(n)
  PROVE  Server'
  <1> DEFINE p == pub[n].pos
  <1>1. /\ pub[n].pc = "appended"
        /\ pub' = [pub EXCEPT ![n].pc = "sending"]
        /\ published' = published \cup {p}
        /\ UNCHANGED <<backend, hist, hot, fresh>>
    BY DEF StartFanout
  <1>2. /\ ServerTypes /\ Logged /\ StoredHot /\ pub \in [Nodes -> Publishing] /\ Busy(n)
        /\ p \in Position
    BY <1>1 DEF Server, ServerTypes, Busy
  <1>3. /\ pub' \in [Nodes -> Publishing]
        /\ pub'[n].pc = "sending" /\ pub'[n].pos = p
        /\ \A m \in Nodes \ {n} : pub'[m] = pub[m]
    BY <1>1, <1>2 DEF Publishing
  <1>4. HistoryEnabled' = HistoryEnabled /\ Solo' = Solo /\ EmptyHistory' = EmptyHistory
    BY <1>1 DEF HistoryEnabled, Solo, EmptyHistory
  <1>5. \A m \in Nodes : /\ Busy(m)' = Busy(m) /\ pub'[m].pos = pub[m].pos
                         /\ pub'[m].pc = "stored" => pub[m].pc = "stored"
                         /\ pub'[m].pc \in {"appended", "sending"} =>
                              pub[m].pc \in {"appended", "sending"}
    BY <1>1, <1>2, <1>3 DEF Busy
  <1>6. /\ hot[n] # NoBuffer /\ hot[n].stream = p.stream /\ p.serial < hot[n].next
    BY <1>1, <1>2 DEF StoredHot
  <1>7. HistoryEnabled => /\ p.stream = hist.stream /\ p.serial < hist.next
                          /\ p.serial \in hist.records
    BY <1>1, <1>2 DEF Logged
  <1>8. p.stream <= fresh
    BY <1>2 DEF Server, Drawn
  <1> HIDE DEF p
  <1>9. ServerTypes'
    BY <1>1, <1>2, <1>3, <1>5 DEF ServerTypes
  <1>10. Logged'
    BY <1>1, <1>2, <1>4, <1>5, <1>7 DEF Logged
  <1>11. Unlogged'
    BY <1>1, <1>4, <1>5 DEF Server, Unlogged
  <1>12. Drawn'
    BY <1>1, <1>5, <1>8 DEF Server, Drawn
  <1>13. OwnStreams'
    BY <1>1, <1>4, <1>5 DEF Server, OwnStreams
  <1>14. StoredHot'
    BY <1>1, <1>2, <1>5 DEF StoredHot
  <1>15. Latest'
    BY <1>1, <1>4, <1>5 DEF Server, Latest
  <1>16. BelowHead'
    <2>1. ASSUME Solo \/ ~HistoryEnabled, NEW m \in Nodes, hot[m] # NoBuffer,
                 hot[m].stream = p.stream
          PROVE  p.serial < hot[m].next
      <3>1. m = n
        BY <1>6, <2>1 DEF Server, OwnStreams, Solo
      <3> QED
        BY <1>6, <3>1
    <2> QED
      BY <1>1, <1>4, <2>1 DEF Server, BelowHead
  <1>17. OneStream'
    BY <1>1, <1>4, <1>7 DEF Server, OneStream
  <1>18. Buffered'
    BY <1>1 DEF Server, Buffered
  <1> QED
    BY <1>9, <1>10, <1>11, <1>12, <1>13, <1>14, <1>15, <1>16, <1>17, <1>18 DEF Server

(* A look at the stream may create it, in memory.                          *)
LEMMA InspectServer ==
  ASSUME Server, InspectStream
  PROVE  /\ Server'
         /\ hist'.stream # hist.stream =>
              /\ Solo /\ hist.stream = NoStream
              /\ \A p \in published : p.stream # hist'.stream
         /\ hist'.stream \in Streams \cup {NoStream}
         /\ hist'.records = hist.records /\ hist'.next = hist.next
         /\ hist'.degraded = hist.degraded
  <1>1. /\ fresh' \in Streams \cup {0}
        /\ Draw(backend = "memory" /\ hist.stream = NoStream, fresh')
        /\ hist' = IF fresh' = fresh THEN hist ELSE [hist EXCEPT !.stream = fresh']
        /\ UNCHANGED <<backend, hot, pub, published>>
    BY DEF InspectStream
  <1>2. hist \in HistoryState /\ fresh \in Nat /\ backend \in Backends
    BY DEF Server, ServerTypes
  <1>3. CASE ~(backend = "memory" /\ hist.stream = NoStream)
    <2>1. fresh' = fresh /\ hist' = hist
      BY <1>1, <1>3 DEF Draw
    <2>2. Server'
      BY <1>1, <2>1, ServerSame DEF serverVars
    <2> QED
      BY <1>2, <2>1, <2>2 DEF HistoryState
  <1>4. CASE backend = "memory" /\ hist.stream = NoStream
    <2>1. fresh' = fresh + 1 /\ fresh' \in Streams /\ fresh' # fresh
      BY <1>1, <1>2, <1>4 DEF Draw
    <2>2. hist' = [hist EXCEPT !.stream = fresh']
      BY <1>1, <2>1
    <2>3. /\ hist' \in HistoryState /\ hist'.stream = fresh' /\ hist'.records = hist.records
          /\ hist'.next = hist.next /\ hist'.degraded = hist.degraded
      BY <1>2, <2>1, <2>2 DEF HistoryState
    <2>4. HistoryEnabled /\ Solo /\ HistoryEnabled' = HistoryEnabled /\ Solo' = Solo
      BY <1>1, <1>2, <1>4, BackendsAssumption DEF HistoryEnabled, Solo
    <2>5. \A n \in Nodes : ~Busy(n)
      BY <1>4, <2>4, NoStreamAssumption DEF Server, Logged, ServerTypes, Position
    <2>6. \A n \in Nodes : ~Busy(n)' /\ pub'[n].pc = "idle"
      BY <1>1, <2>5 DEF Busy
    <2>7. \A p \in published : p.stream \in Nat /\ p.stream <= fresh /\ p.stream # fresh'
      <3>1. \A p \in published : p.stream \in Nat
        BY BoundsAssumption DEF Server, ServerTypes, Position
      <3>2. \A p \in published : p.stream <= fresh
        BY DEF Server, Drawn
      <3> QED
        BY <1>2, <2>1, <3>1, <3>2
    <2>8. ServerTypes'
      BY <1>1, <2>1, <2>3, <2>6 DEF Server, ServerTypes
    <2>9. Logged'
      BY <1>1, <2>3, <2>4, <2>6, <2>7 DEF Server, Logged
    <2>10. Drawn'
      <3>1. \A n \in Nodes : hot[n] # NoBuffer => hot[n].stream \in Nat
        BY BoundsAssumption DEF Server, ServerTypes, Entry
      <3> QED
        BY <1>1, <1>2, <2>1, <2>3, <2>6, <2>7, <3>1 DEF Server, Drawn
    <2>11. Unlogged' /\ OwnStreams' /\ OneStream'
      BY <2>4 DEF Unlogged, OwnStreams, OneStream
    <2>12. StoredHot' /\ Latest'
      BY <2>6 DEF StoredHot, Latest
    <2>13. Buffered' /\ BelowHead'
      BY <1>1, <2>4 DEF Server, Buffered, BelowHead
    <2> QED
      BY <1>4, <2>1, <2>3, <2>4, <2>7, <2>8, <2>9, <2>10, <2>11, <2>12, <2>13 DEF Server
  <1> QED
    BY <1>3, <1>4

(* The checkpoint the handler has read: everything published on its stream *)
(* is below it or, on a single node, in the buffer's reach.                *)
HeadKnown ==
  conn.head # NoPosition =>
    /\ conn.pc = "ack"
    /\ HistoryEnabled
    /\ conn.head.stream = hist.stream
    /\ Solo => \A p \in published : p.stream = hist.stream =>
         \/ p.serial <= conn.head.serial
         \/ /\ hot[conn.node] # NoBuffer
            /\ hot[conn.node].stream = p.stream
            /\ p.serial < hot[conn.node].next

(* The acknowledgement with the durable head.                              *)
LEMMA AckDurableServer ==
  ASSUME Server, SessionTypes, HeadKnown, AckDurable
  PROVE  /\ Server'
         /\ hot'[conn.node] # NoBuffer /\ hot'[conn.node].next > conn.head.serial
         /\ ~Solo => hot'[conn.node].stream = conn.head.stream
  <1> DEFINE n == conn.node
             p == conn.head
             b == AdoptPosition(hot[n], p)
  <1>1. /\ hot' = [hot EXCEPT ![n] = b] /\ p # NoPosition
        /\ UNCHANGED <<backend, hist, pub, published, fresh>>
    BY DEF AckDurable, EnsurePositionBuffer
  <1>2. /\ n \in Nodes /\ p \in Position /\ hot[n] \in Entry \cup {NoBuffer}
        /\ hot \in [Nodes -> Entry \cup {NoBuffer}]
        /\ p.stream = hist.stream /\ p.stream \in Streams /\ p.serial \in Nat
        /\ HistoryEnabled
    BY <1>1 DEF Server, ServerTypes, SessionTypes, Connection, PositionOrNone, HeadKnown, Position
  <1>3. /\ b \in Entry /\ b.next > p.serial
        /\ b.msgs = <<>> => b.stream = p.stream
        /\ hot[n] = NoBuffer => b.msgs = <<>>
        /\ hot[n] # NoBuffer => /\ b.msgs = hot[n].msgs
                                /\ b.next >= hot[n].next
                                /\ \A i \in DOMAIN hot[n].msgs : b.stream = hot[n].stream
    BY <1>2, AdoptFacts
  <1>4. b # NoBuffer /\ b.next \in Nat /\ b.stream \in Streams /\ b.msgs \in Seq(Position)
    BY <1>3, NoBufferAssumption DEF Entry
  <1>5. /\ hot' \in [Nodes -> Entry \cup {NoBuffer}] /\ hot'[n] = b
        /\ \A m \in Nodes \ {n} : hot'[m] = hot[m]
    BY <1>1, <1>2, <1>3
  <1>6. HistoryEnabled' = HistoryEnabled /\ Solo' = Solo
    BY <1>1 DEF HistoryEnabled, Solo
  <1> HIDE DEF b
  <1>7. b.msgs # <<>> => hot[n] # NoBuffer /\ b.stream = hot[n].stream
    <2>1. ASSUME b.msgs # <<>> PROVE hot[n] # NoBuffer /\ 1 \in DOMAIN hot[n].msgs
      BY <1>3, <1>4, <2>1
    <2> QED
      BY <1>3, <2>1
  <1>8. Bounded(b)
    <2>1. CASE b.msgs = <<>>
      BY <1>2, <1>3, <1>4, <2>1, MaxBufferSizeAssumption DEF Bounded
    <2>2. CASE b.msgs # <<>>
      <3>1. Bounded(hot[n]) /\ hot[n].next \in Nat /\ b.msgs = hot[n].msgs
        BY <1>2, <1>3, <1>7, <2>2 DEF Server, Buffered, Entry
      <3>2. \A i \in DOMAIN b.msgs : b.msgs[i].serial \in Nat
        <4>1. \A i \in DOMAIN b.msgs : b.msgs[i] \in Position
          BY <1>4
        <4> QED
          BY <4>1 DEF Position
      <3>3. b.next >= hot[n].next
        BY <1>3, <1>7, <2>2
      <3> QED
        BY <1>4, <3>1, <3>2, <3>3 DEF Bounded
    <2> QED
      BY <2>1, <2>2
  <1>9. ServerTypes'
    BY <1>1, <1>5 DEF Server, ServerTypes, Busy
  <1>10. Buffered'
    BY <1>5, <1>8 DEF Server, Buffered
  <1>11. Drawn'
    <2>1. hist.stream <= fresh
      BY <1>2, NoStreamAssumption DEF Server, Drawn
    <2>2. b.stream <= fresh
      BY <1>2, <1>3, <1>7, <2>1 DEF Server, Drawn
    <2> QED
      BY <1>1, <1>5, <2>2 DEF Server, Drawn, Busy
  <1>12. StoredHot'
    <2>1. ASSUME NEW m \in Nodes, pub[m].pc \in {"stored", "appended", "sending"}
          PROVE  /\ hot'[m] # NoBuffer /\ hot'[m].stream = pub[m].pos.stream
                 /\ pub[m].pos.serial < hot'[m].next /\ hot'[m].msgs # <<>>
      <3>1. /\ hot[m] # NoBuffer /\ hot[m].stream = pub[m].pos.stream
            /\ pub[m].pos.serial < hot[m].next /\ hot[m].msgs # <<>>
        BY <2>1 DEF Server, StoredHot
      <3>2. pub[m].pos.serial \in Nat /\ hot[m].next \in Nat
        BY <2>1, <3>1 DEF Server, ServerTypes, Busy, Entry
      <3>3. CASE m # n
        BY <1>5, <3>1, <3>3
      <3>4. CASE m = n
        BY <1>3, <1>4, <1>5, <1>7, <3>1, <3>2, <3>4
      <3> QED
        BY <3>3, <3>4
    <2> QED
      BY <1>1, <2>1 DEF StoredHot
  <1>13. BelowHead'
    <2>1. ASSUME Solo, NEW m \in Nodes, NEW q \in published, hot'[m] # NoBuffer,
                 hot'[m].stream = q.stream
          PROVE  q.serial < hot'[m].next
      <3>1. q.serial \in Nat /\ m = n
        BY <1>2, <2>1 DEF Server, ServerTypes, Position, Solo
      <3>2. hot[n] # NoBuffer => hot[n].next \in Nat
        BY <1>2 DEF Entry
      <3>3. CASE b.msgs # <<>>
        <4>1. q.serial < hot[n].next /\ hot[n] # NoBuffer
          BY <1>5, <1>7, <2>1, <3>1, <3>3 DEF Server, BelowHead
        <4> QED
          BY <1>3, <1>4, <1>5, <3>1, <3>2, <4>1
      <3>4. CASE b.msgs = <<>>
        <4>1. q.stream = hist.stream
          BY <1>2, <1>3, <1>5, <2>1, <3>1, <3>4
        <4>2. \/ q.serial <= p.serial
              \/ hot[n] # NoBuffer /\ q.serial < hot[n].next
          BY <1>1, <2>1, <4>1 DEF HeadKnown
        <4> QED
          BY <1>2, <1>3, <1>4, <1>5, <3>1, <3>2, <4>2
      <3> QED
        BY <3>3, <3>4
    <2> QED
      BY <1>1, <1>2, <1>6, <2>1 DEF BelowHead
  <1>14. OneStream'
    BY <1>1, <1>5, <1>6, <1>3, <1>7 DEF Server, OneStream
  <1>15. Logged' /\ Latest' /\ Unlogged' /\ OwnStreams'
    BY <1>1, <1>2, <1>6 DEF Server, Logged, Latest, Unlogged, OwnStreams, Busy
  <1>16. ~Solo => b.stream = p.stream
    BY <1>2, <1>3, <1>7 DEF Server, OneStream
  <1> QED
    BY <1>3, <1>4, <1>5, <1>9, <1>10, <1>11, <1>12, <1>13, <1>14, <1>15, <1>16 DEF Server

(* The acknowledgement with the buffer's head.                             *)
LEMMA AckHotServer ==
  ASSUME Server, SessionTypes, AckHot
  PROVE  /\ Server'
         /\ hot'[conn.node] \in Entry /\ hot'[conn.node] # NoBuffer
         /\ hot'[conn.node].next \in Nat \ {0}
         /\ hot[conn.node] # NoBuffer => hot' = hot
         /\ hot[conn.node] = NoBuffer => hot'[conn.node].stream > fresh
  <1> DEFINE n == conn.node
             b == CurrentPositionBuffer(hot[n], fresh')
  <1>1. /\ hot' = [hot EXCEPT ![n] = b]
        /\ fresh' \in Streams \cup {0} /\ Draw(hot[n] = NoBuffer, fresh')
        /\ UNCHANGED <<backend, hist, pub, published>>
    BY DEF AckHot
  <1>2. /\ n \in Nodes /\ hot[n] \in Entry \cup {NoBuffer}
        /\ hot \in [Nodes -> Entry \cup {NoBuffer}] /\ fresh \in Nat
    BY DEF Server, ServerTypes, SessionTypes, Connection
  <1>3. CASE hot[n] # NoBuffer
    <2>1. b = hot[n] /\ fresh' = fresh
      BY <1>1, <1>3 DEF CurrentPositionBuffer, GetOrInsert, Draw
    <2>2. hot' = hot
      BY <1>1, <1>2, <2>1
    <2>3. Server'
      BY <1>1, <2>1, <2>2, ServerSame DEF serverVars
    <2>4. hot[n] \in Entry /\ hot[n].next \in Nat /\ hot[n].next >= 1
      BY <1>2, <1>3 DEF Server, Buffered, Bounded, Entry
    <2> QED
      BY <1>3, <2>2, <2>3, <2>4
  <1>4. CASE hot[n] = NoBuffer
    <2>1. fresh' = fresh + 1 /\ fresh' \in Streams
      BY <1>1, <1>2, <1>4 DEF Draw
    <2>2. /\ b \in Entry /\ b.msgs = <<>> /\ b.stream = fresh' /\ b.next = 1
      <3>1. b = [stream |-> fresh', next |-> 1, msgs |-> <<>>]
        BY <1>4 DEF CurrentPositionBuffer, GetOrInsert, NewChannelBuffer
      <3>2. <<>> \in Seq(Position)
        OBVIOUS
      <3>3. PICK s \in Streams : s = fresh'
        BY <2>1
      <3> HIDE DEF b
      <3>4. b = [stream |-> s, next |-> 1, msgs |-> <<>>]
        BY <3>1, <3>3
      <3>5. b \in Entry /\ b.msgs = <<>> /\ b.stream = s /\ b.next = 1
        BY <3>2, <3>4 DEF Entry
      <3> QED
        BY <3>3, <3>5
    <2>3. b # NoBuffer
      BY <2>2, NoBufferAssumption
    <2> HIDE DEF b
    <2>4. /\ hot' \in [Nodes -> Entry \cup {NoBuffer}] /\ hot'[n] = b
          /\ \A m \in Nodes \ {n} : hot'[m] = hot[m]
      BY <1>1, <1>2, <2>2
    <2>5. HistoryEnabled' = HistoryEnabled /\ Solo' = Solo /\ \A m \in Nodes : Busy(m)' = Busy(m)
      BY <1>1 DEF HistoryEnabled, Solo, Busy
    <2>6. ServerTypes'
      BY <1>1, <1>2, <2>1, <2>4, <2>5 DEF Server, ServerTypes
    <2>7. Bounded(b)
      BY <2>2, MaxBufferSizeAssumption DEF Bounded
    <2>8. Buffered'
      BY <2>4, <2>7 DEF Server, Buffered
    <2>9. /\ \A m \in Nodes : hot[m] # NoBuffer => hot[m].stream \in Nat /\ hot[m].stream <= fresh
          /\ \A m \in Nodes : Busy(m) => pub[m].pos.stream \in Nat /\ pub[m].pos.stream <= fresh
          /\ \A p \in published : p.stream \in Nat /\ p.stream <= fresh
          /\ hist.stream # NoStream => hist.stream \in Nat /\ hist.stream <= fresh
      BY BoundsAssumption DEF Server, ServerTypes, Entry, Position, HistoryState, Drawn
    <2>10. Drawn'
      BY <1>1, <1>2, <2>1, <2>2, <2>4, <2>5, <2>9 DEF Drawn
    <2>11. OwnStreams'
      <3>1. ~HistoryEnabled => ~Busy(n)
        BY <1>2, <1>4 DEF Server, OwnStreams
      <3>2. \A m \in Nodes \ {n} : hot[m] # NoBuffer => hot[m].stream # b.stream
        BY <1>2, <2>1, <2>2, <2>9
      <3> QED
        BY <1>1, <2>4, <2>5, <3>1, <3>2 DEF Server, OwnStreams
    <2>12. StoredHot'
      BY <1>1, <1>2, <1>4, <2>4 DEF Server, StoredHot
    <2>13. BelowHead'
      <3>1. \A p \in published : p.stream # b.stream
        BY <1>2, <2>1, <2>2, <2>9
      <3> QED
        BY <1>1, <2>4, <2>5, <3>1 DEF Server, BelowHead
    <2>14. OneStream'
      BY <1>1, <2>2, <2>4, <2>5 DEF Server, OneStream
    <2>15. Logged' /\ Latest' /\ Unlogged'
      BY <1>1, <2>5 DEF Server, Logged, Latest, Unlogged, EmptyHistory
    <2> QED
      BY <1>2, <1>4, <2>1, <2>2, <2>3, <2>4, <2>6, <2>8, <2>10, <2>11, <2>12, <2>13, <2>14, <2>15
         DEF Server
  <1> QED
    BY <1>3, <1>4

(* A crash.                                                                *)
LEMMA RestartServer ==
  ASSUME Server, NEW n \in Nodes, Restart(n)
  PROVE  /\ Server'
         /\ hist' # hist => Solo /\ HistoryEnabled
  <1>1. /\ hot' = [hot EXCEPT ![n] = NoBuffer]
        /\ pub' = [pub EXCEPT ![n] = Idle]
        /\ hist' = IF backend = "sql" THEN hist ELSE EmptyHistory
        /\ UNCHANGED <<backend, published, fresh>>
    BY DEF Restart
  <1>2. /\ hot \in [Nodes -> Entry \cup {NoBuffer}] /\ pub \in [Nodes -> Publishing]
        /\ hist \in HistoryState /\ backend \in Backends
    BY DEF Server, ServerTypes
  <1>3. /\ hot' \in [Nodes -> Entry \cup {NoBuffer}] /\ pub' \in [Nodes -> Publishing]
        /\ hot'[n] = NoBuffer /\ pub'[n].pc = "idle"
        /\ \A m \in Nodes \ {n} : hot'[m] = hot[m] /\ pub'[m] = pub[m]
    BY <1>1, <1>2 DEF Idle, Publishing, PositionOrNone
  <1>4. /\ HistoryEnabled' = HistoryEnabled /\ Solo' = Solo /\ EmptyHistory' = EmptyHistory
        /\ \A m \in Nodes : Busy(m)' => m # n /\ Busy(m)
        /\ \A m \in Nodes : pub'[m].pc # "idle" => m # n
        /\ \A m \in Nodes : hot'[m] # NoBuffer => m # n
    BY <1>1, <1>3 DEF HistoryEnabled, Solo, Busy, EmptyHistory
  <1>5. /\ EmptyHistory \in HistoryState
        /\ EmptyHistory.stream = NoStream /\ EmptyHistory.next = 1 /\ EmptyHistory.records = {}
    BY DEF EmptyHistory, HistoryState
  <1>6. hist' # hist => backend = "memory" /\ Solo /\ HistoryEnabled
    <2>1. backend = "none" => hist = EmptyHistory
      BY DEF Server, Unlogged, HistoryEnabled
    <2> QED
      BY <1>1, <1>2, <2>1, BackendsAssumption DEF HistoryEnabled, Solo
  <1>7. hist' = hist \/ (hist' = EmptyHistory /\ Solo /\ \A m \in Nodes : ~Busy(m)')
    BY <1>1, <1>4, <1>6 DEF Solo
  <1>8. ServerTypes'
    BY <1>1, <1>2, <1>3, <1>4, <1>5 DEF Server, ServerTypes
  <1>9. Buffered'
    BY <1>3, <1>4 DEF Server, Buffered
  <1>10. Logged'
    <2>1. CASE hist' = hist
      BY <1>1, <1>3, <1>4, <2>1 DEF Server, Logged
    <2>2. CASE hist' = EmptyHistory /\ \A m \in Nodes : ~Busy(m)'
      <3>1. \A p \in published' : p.stream # hist'.stream
        BY <1>1, <1>5, <2>2, NoStreamAssumption DEF Server, ServerTypes, Position
      <3>2. \A m \in Nodes : pub'[m].pc = "idle"
        BY <2>2 DEF Busy
      <3> QED
        BY <1>5, <2>2, <3>1, <3>2 DEF Logged
    <2> QED
      BY <1>7, <2>1, <2>2
  <1>11. Unlogged'
    BY <1>1, <1>3, <1>4, <1>6 DEF Server, Unlogged
  <1>12. Drawn'
    BY <1>1, <1>3, <1>4, <1>5, <1>7 DEF Server, Drawn
  <1>13. OwnStreams'
    BY <1>3, <1>4 DEF Server, OwnStreams
  <1>14. StoredHot'
    BY <1>3, <1>4 DEF Server, StoredHot
  <1>15. Latest'
    BY <1>3, <1>4, <1>7 DEF Server, Latest
  <1>16. BelowHead'
    BY <1>1, <1>3, <1>4 DEF Server, BelowHead
  <1>17. OneStream'
    BY <1>1, <1>3, <1>4, <1>6 DEF Server, OneStream
  <1> QED
    BY <1>6, <1>8, <1>9, <1>10, <1>11, <1>12, <1>13, <1>14, <1>15, <1>16, <1>17 DEF Server

(* Expiry of a prefix of the queue, or of the entry.                       *)
LEMMA ExpireServer ==
  ASSUME Server, NEW n \in Nodes, ExpireHot(n)
  PROVE  Server'
  <1>1. /\ hot[n] # NoBuffer /\ pub[n].pc = "idle"
        /\ UNCHANGED <<backend, hist, pub, published, fresh>>
    BY DEF ExpireHot, Untouched
  <1>2. /\ hot \in [Nodes -> Entry \cup {NoBuffer}] /\ hot[n] \in Entry
        /\ Bounded(hot[n])
    BY <1>1 DEF Server, ServerTypes, Buffered
  <1>3. PICK b \in Entry \cup {NoBuffer} :
          /\ hot' = [hot EXCEPT ![n] = b]
          /\ b # NoBuffer => Bounded(b) /\ b.stream = hot[n].stream /\ b.next = hot[n].next
                             /\ (b.msgs # <<>> => hot[n].msgs # <<>>)
    <2>1. CASE hot' = [hot EXCEPT ![n] = NoBuffer]
      BY <2>1
    <2>2. CASE \E k \in 1..Len(hot[n].msgs) : hot' = [hot EXCEPT ![n] = PruneExpired(hot[n], k)]
      <3>1. PICK k \in 1..Len(hot[n].msgs) : hot' = [hot EXCEPT ![n] = PruneExpired(hot[n], k)]
        BY <2>2
      <3> DEFINE c == PruneExpired(hot[n], k)
      <3>2. Len(hot[n].msgs) \in Nat /\ hot[n].msgs # <<>> /\ k \in 0..Len(hot[n].msgs)
        <4>1. hot[n].msgs \in Seq(Position)
          BY <1>2 DEF Entry
        <4> QED
          BY <3>1, <4>1
      <3>3. /\ c \in Entry /\ c.stream = hot[n].stream /\ c.next = hot[n].next
            /\ Len(c.msgs) <= Len(hot[n].msgs)
            /\ \A i \in DOMAIN c.msgs : \E j \in DOMAIN hot[n].msgs : c.msgs[i] = hot[n].msgs[j]
        BY <1>2, <3>2, PruneFacts
      <3> HIDE DEF c
      <3>4. Bounded(c)
        <4>1. Len(c.msgs) \in Nat
          BY <3>3 DEF Entry
        <4>2. Len(c.msgs) <= MaxBufferSize
          BY <1>2, <3>2, <3>3, <4>1, MaxBufferSizeAssumption DEF Bounded
        <4> QED
          BY <1>2, <3>3, <4>2 DEF Bounded
      <3> QED
        BY <3>1, <3>2, <3>3, <3>4 DEF c
    <2> QED
      BY <2>1, <2>2 DEF ExpireHot
  <1>4. /\ hot' \in [Nodes -> Entry \cup {NoBuffer}] /\ hot'[n] = b
        /\ \A m \in Nodes \ {n} : hot'[m] = hot[m]
    BY <1>2, <1>3
  <1>5. HistoryEnabled' = HistoryEnabled /\ Solo' = Solo /\ \A m \in Nodes : Busy(m)' = Busy(m)
    BY <1>1 DEF HistoryEnabled, Solo, Busy
  <1>6. ServerTypes' /\ Logged' /\ Latest' /\ Unlogged'
    BY <1>1, <1>4, <1>5 DEF Server, ServerTypes, Logged, Latest, Unlogged, EmptyHistory
  <1>7. Buffered'
    BY <1>3, <1>4 DEF Server, Buffered
  <1>8. Drawn'
    BY <1>1, <1>3, <1>4, <1>5 DEF Server, Drawn
  <1>9. OwnStreams'
    BY <1>1, <1>3, <1>4, <1>5 DEF Server, OwnStreams, Busy
  <1>10. StoredHot'
    BY <1>1, <1>4 DEF Server, StoredHot
  <1>11. BelowHead'
    BY <1>1, <1>3, <1>4, <1>5 DEF Server, BelowHead
  <1>12. OneStream'
    BY <1>1, <1>3, <1>4, <1>5 DEF Server, OneStream
  <1> QED
    BY <1>6, <1>7, <1>8, <1>9, <1>10, <1>11, <1>12 DEF Server

(* Retention drops the oldest record.                                      *)
LEMMA EvictServer ==
  ASSUME Server, EvictRetained
  PROVE  Server'
  <1> DEFINE k == Min(hist.records)
  <1>1. /\ hist.records # {}
        /\ \A n \in Nodes : pub[n].pc # "idle" => pub[n].pos.serial > k
        /\ hist' = [hist EXCEPT !.records = hist.records \ {k}]
        /\ UNCHANGED <<backend, hot, pub, published, fresh>>
    BY DEF EvictRetained
  <1>2. hist \in HistoryState /\ hist.records \in SUBSET (1..MaxSerial) /\ MaxSerial \in Nat
    BY BoundsAssumption DEF Server, ServerTypes, HistoryState
  <1>3. k \in hist.records /\ k \in Nat /\ \A r \in hist.records : k <= r /\ r \in Nat
    BY <1>1, <1>2, Extremes
  <1> HIDE DEF k
  <1>4. /\ hist' \in HistoryState /\ hist'.stream = hist.stream /\ hist'.next = hist.next
        /\ hist'.records = hist.records \ {k}
    BY <1>1, <1>2 DEF HistoryState
  <1>5. HistoryEnabled' = HistoryEnabled /\ Solo' = Solo /\ \A m \in Nodes : Busy(m)' = Busy(m)
    BY <1>1 DEF HistoryEnabled, Solo, Busy
  <1>6. HistoryEnabled
    BY <1>1 DEF Server, Unlogged, EmptyHistory
  <1>7. Logged'
    <2>1. \A r \in hist'.records : r < hist'.next
      BY <1>4, <1>6 DEF Server, Logged
    <2>2. \A m \in Nodes : Busy(m)' => /\ pub'[m].pos.stream = hist'.stream
                                       /\ pub'[m].pos.serial < hist'.next
      BY <1>1, <1>4, <1>5, <1>6 DEF Server, Logged
    <2>3. ASSUME NEW m \in Nodes, pub[m].pc \in {"appended", "sending"}
          PROVE  pub[m].pos.serial \in hist'.records
      <3>1. pub[m].pos.serial \in hist.records /\ pub[m].pos.serial > k
        BY <1>1, <1>6, <2>3 DEF Server, Logged
      <3> QED
        BY <1>3, <1>4, <3>1
    <2>4. ASSUME NEW p \in published, p.stream = hist'.stream
          PROVE  /\ p.serial < hist'.next
                 /\ \/ p.serial \in hist'.records
                    \/ /\ \A r \in hist'.records : p.serial < r
                       /\ \A m \in Nodes : Busy(m)' => p.serial < pub'[m].pos.serial
      <3>1. /\ p.serial < hist.next
            /\ \/ p.serial \in hist.records
               \/ /\ \A r \in hist.records : p.serial < r
                  /\ \A m \in Nodes : Busy(m) => p.serial < pub[m].pos.serial
        BY <1>4, <1>6, <2>4 DEF Server, Logged
      <3>2. CASE p.serial = k
        <4>1. \A r \in hist'.records : p.serial < r
          BY <1>3, <1>4, <3>2
        <4>2. \A m \in Nodes : Busy(m)' => p.serial < pub'[m].pos.serial
          <5>1. \A m \in Nodes : Busy(m) => pub[m].pos.serial \in Nat
            BY DEF Server, ServerTypes, Position
          <5> QED
            BY <1>1, <1>3, <1>5, <3>2, <5>1 DEF Busy
        <4> QED
          BY <1>4, <3>1, <4>1, <4>2
      <3>3. CASE p.serial # k
        BY <1>1, <1>4, <1>5, <3>1, <3>3
      <3> QED
        BY <3>2, <3>3
    <2> QED
      BY <1>1, <2>1, <2>2, <2>3, <2>4 DEF Logged
  <1>8. ServerTypes' /\ Buffered' /\ Drawn' /\ StoredHot'
    BY <1>1, <1>4, <1>5 DEF Server, ServerTypes, Buffered, Drawn, StoredHot
  <1>9. Unlogged' /\ OwnStreams' /\ Latest'
    BY <1>1, <1>4, <1>5, <1>6 DEF Server, Unlogged, OwnStreams, Latest
  <1>10. BelowHead' /\ OneStream'
    BY <1>1, <1>4, <1>5 DEF Server, BelowHead, OneStream
  <1> QED
    BY <1>7, <1>8, <1>9, <1>10 DEF Server

-----------------------------------------------------------------------------
(* The connection.                                                         *)

Attaching == {"head", "inspect", "ack", "update", "drain"}

Answering == {"answer", "success", "redrain"}

Resuming == {"hot", "state", "freeze", "page"} \cup Answering

(* What the handler's step says of the connection's fields.                *)
Control ==
  /\ conn.pc \in {"closed", "subscribe"} => ~conn.member /\ ~conn.gate
  /\ conn.pc \notin {"closed", "subscribe"} => conn.member
  /\ conn.pc \in {"drain", "subscribed", "attached"} \cup Resuming => conn.filter
  /\ conn.pc \in {"inspect", "ack", "update"} /\ HistoryEnabled => conn.filter
  /\ conn.pc \in {"head", "inspect", "state", "freeze", "page", "drain"} => HistoryEnabled
  /\ conn.pc \in Resuming => conn.want # NoPosition /\ conn.gate
  /\ conn.pc \in Attaching /\ HistoryEnabled => conn.gate
  /\ conn.pc \notin {"redrain", "attached"} => conn.resumed = NoPosition
  /\ conn.pc \notin {"answer", "success", "redrain", "attached"} => ~conn.failed
  /\ conn.pc = "success" => conn.failed
  /\ conn.pc \notin {"page", "answer"} => conn.replay = <<>>
  /\ conn.failed => conn.replay = <<>>
  /\ conn.pc # "ack" => conn.head = NoPosition
  /\ conn.pc \in {"closed", "subscribe", "head", "inspect", "ack"} => conn.acked = NoPosition
  /\ conn.pc = "closed" => conn = NoConn(conn.id)
  /\ conn.pc # "closed" => conn.id > 0

(* What is still to be replayed follows what has been.                     *)
Follows ==
  \A i \in DOMAIN conn.replay :
    conn.replay[i] = At(conn.want.stream, conn.want.serial + Cardinality(Replayed) + i)

Replaying ==
  /\ Len(conn.replay) <= MaxBufferSize
  /\ conn.pc \notin Answering \cup {"attached"} => Replayed = {}
  /\ Follows
  /\ ReplayContiguous

Conn ==
  /\ conn \in Connection
  /\ Len(conn.held) <= GateCapacity
  /\ Control
  /\ Replaying

(* The replayed frames are finitely many.                                  *)
LEMMA ReplayedFinite ==
  ASSUME conn \in Connection
  PROVE  /\ IsFiniteSet(Replayed) /\ Cardinality(Replayed) \in Nat
         /\ Replayed \subseteq 1..Len(conn.wire) /\ Len(conn.wire) \in Nat
  <1>1. conn.wire \in Seq(FrameOnWire) /\ Len(conn.wire) \in Nat
        /\ DOMAIN conn.wire = 1..Len(conn.wire)
    BY DEF Connection
  <1>2. Replayed \subseteq 1..Len(conn.wire)
    BY <1>1 DEF Replayed
  <1>3. IsFiniteSet(1..Len(conn.wire))
    <2>1. 1 \in Int /\ Len(conn.wire) \in Int
      BY <1>1
    <2> QED
      BY <2>1, FS_Interval
  <1>4. IsFiniteSet(Replayed)
    BY <1>2, <1>3, FS_Subset
  <1>5. Cardinality(Replayed) \in Nat
    BY <1>4, FS_CardinalityType
  <1> QED
    BY <1>1, <1>2, <1>4, <1>5

(* The frames of g are enqueued after the others.                          *)
Enqueued(g) ==
  /\ DOMAIN conn'.wire = 1..(Len(conn.wire) + Len(g))
  /\ Len(conn'.wire) = Len(conn.wire) + Len(g)
  /\ \A i \in 1..Len(conn.wire) : conn'.wire[i] = conn.wire[i]
  /\ \A i \in 1..Len(g) : conn'.wire[Len(conn.wire) + i] = g[i]

(* One frame is enqueued.                                                  *)
LEMMA EnqueuedOne ==
  ASSUME conn \in Connection, NEW f \in FrameOnWire, conn'.wire = Append(conn.wire, f)
  PROVE  Enqueued(<<f>>)
  <1>1. conn.wire \in Seq(FrameOnWire)
    BY DEF Connection
  <1> DEFINE w == conn.wire
             v == conn'.wire
  <1>2. v = Append(w, f) /\ w \in Seq(FrameOnWire)
    BY <1>1
  <1> HIDE DEF w, v
  <1>3. Len(<<f>>) = 1 /\ <<f>>[1] = f /\ Len(w) \in Nat
    BY <1>2
  <1>4. /\ DOMAIN v = 1..(Len(w) + 1) /\ Len(v) = Len(w) + 1
        /\ \A i \in 1..Len(w) : v[i] = w[i]
        /\ v[Len(w) + 1] = f
    BY <1>2
  <1>5. \A i \in 1..Len(<<f>>) : v[Len(w) + i] = <<f>>[i]
    BY <1>3, <1>4
  <1> QED
    BY <1>3, <1>4, <1>5 DEF Enqueued, w, v

(* Several frames are enqueued.                                            *)
LEMMA EnqueuedSome ==
  ASSUME conn \in Connection, NEW g \in Seq(FrameOnWire), conn'.wire = conn.wire \o g
  PROVE  Enqueued(g)
  <1> DEFINE w == conn.wire
             v == conn'.wire
  <1>1. w \in Seq(FrameOnWire) /\ v = w \o g
    BY DEF Connection
  <1> HIDE DEF w, v
  <1>2. /\ DOMAIN v = 1..(Len(w) + Len(g)) /\ Len(v) = Len(w) + Len(g)
        /\ \A i \in 1..Len(w) : v[i] = w[i]
    BY <1>1
  <1>3. \A i \in 1..Len(g) : v[Len(w) + i] = g[i]
    BY <1>1
  <1> QED
    BY <1>2, <1>3 DEF Enqueued, w, v

(* Frames of other kinds leave the replayed ones alone.                    *)
LEMMA OthersEnqueued ==
  ASSUME conn \in Connection, NEW g \in Seq(FrameOnWire), Enqueued(g),
         \A i \in 1..Len(g) : g[i].kind # "replay"
  PROVE  Replayed' = Replayed /\ \A i \in Replayed : conn'.wire[i] = conn.wire[i]
  <1>1. /\ Len(conn.wire) \in Nat /\ Replayed \subseteq 1..Len(conn.wire)
        /\ DOMAIN conn.wire = 1..Len(conn.wire) /\ Len(g) \in Nat
    BY ReplayedFinite DEF Connection
  <1>2. ASSUME NEW i \in DOMAIN conn'.wire
        PROVE  \/ i \in DOMAIN conn.wire /\ conn'.wire[i] = conn.wire[i]
               \/ i \notin DOMAIN conn.wire /\ conn'.wire[i].kind # "replay"
    <2>1. CASE i <= Len(conn.wire)
      BY <1>1, <2>1 DEF Enqueued
    <2>2. CASE i > Len(conn.wire)
      <3> DEFINE j == i - Len(conn.wire)
      <3>1. j \in 1..Len(g) /\ i = Len(conn.wire) + j
        BY <1>1, <2>2 DEF Enqueued
      <3> HIDE DEF j
      <3>2. conn'.wire[i] = g[j]
        BY <3>1 DEF Enqueued
      <3> QED
        BY <1>1, <2>2, <3>1, <3>2
    <2> QED
      BY <1>1, <2>1, <2>2 DEF Enqueued
  <1>3. \A i \in DOMAIN conn.wire : i \in DOMAIN conn'.wire
    BY <1>1 DEF Enqueued
  <1> QED
    BY <1>1, <1>2, <1>3 DEF Replayed, Enqueued

(* A step that replays nothing.                                            *)
LEMMA ReplayingKept ==
  ASSUME Conn, Replayed' = Replayed, \A i \in Replayed : conn'.wire[i] = conn.wire[i],
         conn'.want = conn.want, conn'.replay = conn.replay \/ conn'.replay = <<>>,
         conn'.pc \notin Answering \cup {"attached"} => conn.pc \notin Answering \cup {"attached"}
  PROVE  Replaying'
  <1>1. Len(conn.replay) \in Nat /\ Len(conn'.replay) <= MaxBufferSize
    BY MaxBufferSizeAssumption DEF Conn, Replaying, Connection
  <1>2. Follows'
    <2>1. CASE conn'.replay = conn.replay
      BY <2>1 DEF Conn, Replaying, Follows
    <2>2. CASE conn'.replay = <<>>
      <3>1. DOMAIN conn'.replay = {}
        BY <2>2
      <3> QED
        BY <3>1 DEF Follows
    <2> QED
      BY <2>1, <2>2
  <1>3. ReplayContiguous'
    BY DEF Conn, Replaying, ReplayContiguous
  <1> QED
    BY <1>1, <1>2, <1>3 DEF Conn, Replaying, Answering

(* A step that finds what to replay.                                       *)
LEMMA ReplayingSet ==
  ASSUME Conn, Replayed = {}, conn'.wire = conn.wire, conn'.want = conn.want,
         conn.want \in Position,
         Len(conn'.replay) <= MaxBufferSize,
         \A i \in DOMAIN conn'.replay :
           i \in Nat /\ conn'.replay[i] = At(conn.want.stream, conn.want.serial + i)
  PROVE  Replaying'
  <1>1. Replayed' = {}
    BY DEF Replayed
  <1>2. Cardinality(Replayed') = 0
    BY <1>1, FS_EmptySet
  <1>3. conn.want.serial \in Nat
    BY DEF Position
  <1>4. Follows'
    <2>1. \A i \in DOMAIN conn'.replay : conn.want.serial + 0 + i = conn.want.serial + i
      BY <1>3
    <2> QED
      BY <1>2, <2>1 DEF Follows
  <1> QED
    BY <1>1, <1>4 DEF Replaying, ReplayContiguous

(* A step of the handler that enqueues nothing.                            *)
LEMMA QuietConn ==
  ASSUME Conn, conn' \in Connection, Control', conn'.wire = conn.wire,
         conn'.held = conn.held, conn'.want = conn.want,
         conn'.replay = conn.replay \/ conn'.replay = <<>>,
         conn'.pc \notin Answering \cup {"attached"} => conn.pc \notin Answering \cup {"attached"}
  PROVE  Conn'
  <1>1. Replayed' = Replayed /\ \A i \in Replayed : conn'.wire[i] = conn.wire[i]
    BY DEF Replayed
  <1>2. Replaying'
    BY <1>1, ReplayingKept
  <1> QED
    BY <1>2 DEF Conn

(* A step of the handler that enqueues one frame of its own.               *)
LEMMA NoticeConn ==
  ASSUME Conn, conn' \in Connection, Control',
         NEW f \in FrameOnWire, f.kind # "replay", conn'.wire = Append(conn.wire, f),
         conn'.held = conn.held, conn'.want = conn.want,
         conn'.replay = conn.replay \/ conn'.replay = <<>>,
         conn'.pc \notin Answering \cup {"attached"} => conn.pc \notin Answering \cup {"attached"}
  PROVE  Conn' /\ Enqueued(<<f>>)
  <1>1. Enqueued(<<f>>)
    BY EnqueuedOne DEF Conn
  <1>2. <<f>> \in Seq(FrameOnWire) /\ \A i \in 1..Len(<<f>>) : <<f>>[i].kind # "replay"
    OBVIOUS
  <1>3. Replayed' = Replayed /\ \A i \in Replayed : conn'.wire[i] = conn.wire[i]
    BY <1>1, <1>2, OthersEnqueued DEF Conn
  <1>4. Replaying'
    BY <1>3, ReplayingKept
  <1> QED
    BY <1>1, <1>4 DEF Conn

(* The connection is as it was.                                            *)
LEMMA SameConn ==
  ASSUME Conn, UNCHANGED <<conn, backend>>
  PROVE  Conn'
  BY DEF Conn, Control, Replaying, Follows, ReplayContiguous, Replayed, HistoryEnabled

(* The connection goes away.                                               *)
LEMMA ClosedConn ==
  ASSUME NEW id \in Nat, conn' = NoConn(id)
  PROVE  Conn'
  <1>1. conn' \in Connection
    BY NoConnType
  <1>2. /\ conn'.id = id /\ conn'.pc = "closed" /\ conn'.wire = <<>> /\ conn'.replay = <<>>
        /\ conn'.held = <<>> /\ ~conn'.member /\ ~conn'.gate /\ ~conn'.failed
        /\ conn'.resumed = NoPosition /\ conn'.acked = NoPosition /\ conn'.head = NoPosition
    BY DEF NoConn
  <1>3. Control'
    BY <1>2 DEF Control, Resuming, Answering, Attaching
  <1>4. Replayed' = {}
    BY <1>2 DEF Replayed
  <1>5. Len(conn'.held) = 0 /\ Len(conn'.replay) = 0 /\ DOMAIN conn'.replay = {}
    BY <1>2
  <1>6. Replaying'
    BY <1>4, <1>5, MaxBufferSizeAssumption DEF Replaying, Follows, ReplayContiguous
  <1> QED
    BY <1>1, <1>3, <1>5, <1>6, BoundsAssumption DEF Conn

(* A new connection subscribes.                                            *)
LEMMA ConnectConn ==
  ASSUME SessionTypes, NEW n \in Nodes, Connect(n)
  PROVE  Conn'
  <1> DEFINE z == NoConn(conn.id + 1)
  <1>1. /\ conn' = [z EXCEPT !.node = n, !.pc = "subscribe", !.want = client.pos]
    BY DEF Connect
  <1>2. /\ z \in Connection /\ conn.id + 1 > 0
        /\ z.id = conn.id + 1 /\ z.wire = <<>> /\ z.replay = <<>>
        /\ z.held = <<>> /\ ~z.member /\ ~z.gate /\ ~z.failed
        /\ z.resumed = NoPosition /\ z.acked = NoPosition /\ z.head = NoPosition
    <2>1. conn.id \in Nat
      BY DEF SessionTypes, Connection
    <2> QED
      BY <2>1, NoConnType DEF NoConn
  <1>3. client.pos \in PositionOrNone
    BY DEF SessionTypes, ClientState
  <1> HIDE DEF z
  <1>4. /\ conn' \in Connection
        /\ conn'.id = z.id /\ conn'.pc = "subscribe" /\ conn'.wire = <<>> /\ conn'.replay = <<>>
        /\ conn'.held = <<>> /\ ~conn'.member /\ ~conn'.gate /\ ~conn'.failed
        /\ conn'.resumed = NoPosition /\ conn'.acked = NoPosition /\ conn'.head = NoPosition
    BY <1>1, <1>2, <1>3 DEF Connection, HandlerSteps
  <1>5. Control'
    BY <1>2, <1>4 DEF Control, Resuming, Answering, Attaching
  <1>6. Replayed' = {}
    BY <1>4 DEF Replayed
  <1>7. Len(conn'.held) = 0 /\ Len(conn'.replay) = 0 /\ DOMAIN conn'.replay = {}
    BY <1>4
  <1>8. Replaying'
    BY <1>6, <1>7, MaxBufferSizeAssumption DEF Replaying, Follows, ReplayContiguous
  <1> QED
    BY <1>4, <1>5, <1>7, <1>8, BoundsAssumption DEF Conn

(* The first steps of the subscription.                                    *)
LEMMA SubscribeConn ==
  ASSUME Conn, Subscribe
  PROVE  Conn'
  <1> DEFINE pc == IF HistoryEnabled THEN "head" ELSE "ack"
  <1>1. /\ conn.pc = "subscribe" /\ backend' = backend
        /\ conn' = [conn EXCEPT !.gate = HistoryEnabled, !.member = TRUE, !.pc = pc]
    BY DEF Subscribe, HandlerOnly
  <1>2. HistoryEnabled \in BOOLEAN /\ pc \in {"head", "ack"} /\ (pc = "head" <=> HistoryEnabled)
    BY DEF HistoryEnabled
  <1>3. conn \in Connection
    BY DEF Conn
  <1> HIDE DEF pc
  <1>4. conn' \in Connection
    BY <1>1, <1>2, <1>3 DEF Connection, HandlerSteps
  <1>5. Control'
    <2>1. HistoryEnabled' = HistoryEnabled
      BY <1>1 DEF HistoryEnabled
    <2> HIDE DEF HistoryEnabled
    <2> QED
      BY <1>1, <1>2, <1>3, <2>1 DEF Conn, Control, Resuming, Answering, Attaching, Connection
  <1> QED
    BY <1>1, <1>2, <1>3, <1>4, <1>5, QuietConn DEF Connection, Answering

(* The head is captured.                                                   *)
LEMMA CaptureHeadConn ==
  ASSUME Conn, CaptureHead
  PROVE  Conn'
  <1>1. /\ conn.pc = "head" /\ backend' = backend
        /\ conn' = [conn EXCEPT !.filter = TRUE, !.pc = "inspect"]
    BY DEF CaptureHead, HandlerOnly
  <1>3. conn \in Connection
    BY DEF Conn
  <1>4. conn' \in Connection
    BY <1>1, <1>3 DEF Connection, HandlerSteps
  <1>5. Control'
    BY <1>1, <1>3 DEF Conn, Control, Resuming, Answering, Attaching, Connection, HistoryEnabled
  <1> QED
    BY <1>1, <1>3, <1>4, <1>5, QuietConn DEF Connection, Answering

(* The newest serial that the inspection reports is not below any message  *)
(* published on the stream.                                                *)
LEMMA NewestCovers ==
  ASSUME Server
  PROVE  /\ NewestSerial \in Nat
         /\ HistoryEnabled => \A p \in published : p.stream = hist.stream =>
                                p.serial <= NewestSerial
  <1>1. /\ hist.next \in Nat \ {0} /\ hist.records \in SUBSET (1..MaxSerial) /\ MaxSerial \in Nat
        /\ \A p \in published : p.serial \in Nat
    BY BoundsAssumption DEF Server, ServerTypes, HistoryState, Position
  <1>2. CASE hist.records = {}
    BY <1>1, <1>2 DEF NewestSerial, Server, Logged
  <1>3. CASE hist.records # {}
    <2> DEFINE k == Max(hist.records)
    <2>1. k \in hist.records /\ k \in Nat /\ \A r \in hist.records : r <= k /\ r \in Nat
      <3>1. Max(hist.records) \in hist.records /\ \A r \in hist.records : r <= Max(hist.records)
        BY <1>1, <1>3, Extremes
      <3> QED
        BY <1>1, <3>1
    <2>2. NewestSerial = k
      BY <1>3 DEF NewestSerial
    <2> HIDE DEF k
    <2>3. ASSUME HistoryEnabled, NEW p \in published, p.stream = hist.stream
          PROVE  p.serial <= k
      <3>1. \/ p.serial \in hist.records
            \/ \A r \in hist.records : p.serial < r
        BY <2>3 DEF Server, Logged
      <3> QED
        BY <1>1, <2>1, <3>1
    <2> QED
      BY <2>1, <2>2, <2>3
  <1> QED
    BY <1>2, <1>3

(* The head that the inspection reports.                                   *)
InspectedHead ==
  IF hist'.stream # NoStream /\ ~hist.degraded
  THEN At(hist'.stream, NewestSerial) ELSE NoPosition

(* The inspection of the stream.                                           *)
LEMMA InspectConn ==
  ASSUME Server, Conn, InspectStream
  PROVE  /\ Conn'
         /\ InspectedHead \in PositionOrNone
         /\ conn' = [conn EXCEPT !.pc = "ack", !.head = InspectedHead]
  <1>1. /\ conn.pc = "inspect" /\ backend' = backend
        /\ conn' = [conn EXCEPT !.pc = "ack", !.head = InspectedHead]
    BY DEF InspectStream, InspectedHead
  <1>2. InspectedHead \in PositionOrNone
    <2>1. hist'.stream \in Streams \cup {NoStream} /\ NewestSerial \in Nat
      BY InspectServer, NewestCovers
    <2> HIDE DEF NewestSerial
    <2> QED
      BY <2>1 DEF InspectedHead, At, Position, PositionOrNone
  <1> HIDE DEF InspectedHead
  <1>3. conn \in Connection
    BY DEF Conn
  <1>4. conn' \in Connection
    BY <1>1, <1>2, <1>3 DEF Connection, HandlerSteps
  <1>5. Control'
    BY <1>1, <1>3 DEF Conn, Control, Resuming, Answering, Attaching, Connection, HistoryEnabled
  <1> QED
    BY <1>1, <1>2, <1>3, <1>4, <1>5, QuietConn DEF Connection, Answering

(* The acknowledgement.                                                    *)
LEMMA AckConn ==
  ASSUME Conn, conn.pc = "ack", NEW p \in Position, AckPosition(p), backend' = backend
  PROVE  /\ Conn'
         /\ Enqueued(<<Frame("ack", p)>>)
  <1> DEFINE f == Frame("ack", p)
  <1>1. conn' = [conn EXCEPT !.pc = "update", !.acked = p, !.head = NoPosition,
                             !.wire = Append(conn.wire, f)]
    BY DEF AckPosition
  <1>2. f \in FrameOnWire /\ f.kind # "replay" /\ p \in PositionOrNone
    BY DEF Frame, FrameOnWire, PositionOrNone
  <1> HIDE DEF f
  <1>3. conn \in Connection /\ Append(conn.wire, f) \in Seq(FrameOnWire)
    BY <1>2 DEF Conn, Connection
  <1>4. conn' \in Connection
    BY <1>1, <1>2, <1>3 DEF Connection, HandlerSteps, PositionOrNone
  <1>5. Control'
    BY <1>1, <1>3 DEF Conn, Control, Resuming, Answering, Attaching, Connection, HistoryEnabled
  <1>6. /\ conn'.wire = Append(conn.wire, f) /\ conn'.held = conn.held
        /\ conn'.want = conn.want /\ conn'.replay = conn.replay /\ conn'.pc = "update"
    BY <1>1, <1>3 DEF Connection
  <1>7. Conn' /\ Enqueued(<<f>>)
    BY <1>2, <1>4, <1>5, <1>6, NoticeConn DEF Answering
  <1> QED
    BY <1>7 DEF f

(* The subscription state is written.                                      *)
LEMMA UpdateConn ==
  ASSUME Conn, UpdateState
  PROVE  Conn'
  <1> DEFINE pc == IF HistoryEnabled THEN "drain" ELSE "subscribed"
  <1>1. /\ conn.pc = "update" /\ backend' = backend
        /\ conn' = [conn EXCEPT !.filter = TRUE, !.pc = pc]
    BY DEF UpdateState, HandlerOnly
  <1>2. pc \in {"drain", "subscribed"} /\ (pc = "drain" => HistoryEnabled)
    OBVIOUS
  <1>3. conn \in Connection
    BY DEF Conn
  <1> HIDE DEF pc
  <1>4. conn' \in Connection
    BY <1>1, <1>2, <1>3 DEF Connection, HandlerSteps
  <1>5. Control'
    <2>1. HistoryEnabled' = HistoryEnabled
      BY <1>1 DEF HistoryEnabled
    <2> QED
      BY <1>1, <1>2, <1>3, <2>1 DEF Conn, Control, Resuming, Answering, Attaching, Connection
  <1> QED
    BY <1>1, <1>2, <1>3, <1>4, <1>5, QuietConn DEF Connection, Answering

(* The frames a round of draining enqueues.                                *)
Drained == [i \in DOMAIN conn.held |-> Frame("live", BySerial(conn.held)[i])]

(* A round of draining.                                                    *)
LEMMA DrainConn ==
  ASSUME Conn, NEW done, backend' = backend, DrainRound(done),
         \/ conn.pc = "drain" /\ done = "subscribed"
         \/ conn.pc = "redrain" /\ done = "attached"
  PROVE  /\ Conn'
         /\ conn.held = <<>> => conn' = [conn EXCEPT !.gate = FALSE, !.pc = done]
         /\ conn.held # <<>> => /\ Enqueued(Drained)
                                /\ Drained \in Seq(FrameOnWire)
                                /\ conn' = [conn EXCEPT !.held = <<>>,
                                                        !.wire = conn.wire \o Drained]
  <1>1. conn \in Connection /\ conn.held \in Seq(Position) /\ conn.wire \in Seq(FrameOnWire)
    BY DEF Conn, Connection
  <1>2. CASE conn.held = <<>>
    <2>1. conn' = [conn EXCEPT !.gate = FALSE, !.pc = done]
      BY <1>2 DEF DrainRound
    <2>2. conn' \in Connection
      BY <1>1, <2>1 DEF Connection, HandlerSteps
    <2>3. Control'
      BY <1>1, <2>1 DEF Conn, Control, Resuming, Answering, Attaching, Connection, HistoryEnabled
    <2>4. Conn'
      BY <1>1, <2>1, <2>2, <2>3, QuietConn DEF Connection, Answering
    <2> QED
      BY <1>2, <2>1, <2>4
  <1>3. CASE conn.held # <<>>
    <2>1. conn' = [conn EXCEPT !.held = <<>>, !.wire = conn.wire \o Drained]
      BY <1>3 DEF DrainRound, Drained
    <2>2. /\ Drained \in Seq(FrameOnWire)
          /\ \A i \in 1..Len(Drained) : Drained[i].kind # "replay"
      <3> DEFINE r == BySerial(conn.held)
                 n == Len(conn.held)
      <3>1. n \in Nat /\ DOMAIN conn.held = 1..n
        BY <1>1
      <3>2. r \in Seq(Position) /\ DOMAIN r = DOMAIN conn.held
        BY <1>1, SortedHeld
      <3> HIDE DEF r
      <3>3. \A i \in 1..n : r[i] \in Position
        BY <3>1, <3>2
      <3>4. \A i \in 1..n : /\ Frame("live", r[i]) \in FrameOnWire
                            /\ Frame("live", r[i]).kind # "replay"
        BY <3>3 DEF Frame, FrameOnWire, PositionOrNone
      <3>5. Drained = [i \in 1..n |-> Frame("live", r[i])]
        BY <3>1 DEF Drained, r
      <3> HIDE DEF n
      <3>6. Drained \in Seq(FrameOnWire) /\ Len(Drained) = n
        BY <3>1, <3>4, <3>5
      <3> QED
        BY <3>4, <3>5, <3>6
    <2> HIDE DEF Drained
    <2>3. /\ conn' \in Connection /\ conn'.wire = conn.wire \o Drained /\ conn'.held = <<>>
          /\ conn'.want = conn.want /\ conn'.replay = conn.replay /\ conn'.pc = conn.pc
      <3>1. conn.wire \o Drained \in Seq(FrameOnWire) /\ <<>> \in Seq(Position)
        BY <1>1, <2>2
      <3> QED
        BY <1>1, <2>1, <3>1 DEF Connection
    <2>4. Control'
      BY <1>1, <2>1 DEF Conn, Control, Resuming, Answering, Attaching, Connection, HistoryEnabled
    <2>5. Enqueued(Drained)
      BY <1>1, <2>2, <2>3, EnqueuedSome
    <2>6. Replayed' = Replayed /\ \A i \in Replayed : conn'.wire[i] = conn.wire[i]
      BY <1>1, <2>2, <2>5, OthersEnqueued
    <2>7. Replaying'
      BY <2>3, <2>6, ReplayingKept
    <2>8. Len(conn'.held) <= GateCapacity
      BY <2>3, BoundsAssumption
    <2> QED
      BY <1>3, <2>1, <2>2, <2>3, <2>4, <2>5, <2>7, <2>8 DEF Conn
  <1> QED
    BY <1>2, <1>3

(* There is nothing to resume.                                             *)
LEMMA NothingConn ==
  ASSUME Conn, NothingToResume
  PROVE  Conn'
  <1>1. /\ conn.pc = "subscribed" /\ backend' = backend
        /\ conn' = [conn EXCEPT !.pc = "attached"]
    BY DEF NothingToResume, HandlerOnly
  <1>2. conn \in Connection
    BY DEF Conn
  <1>3. conn' \in Connection
    BY <1>1, <1>2 DEF Connection, HandlerSteps
  <1>4. Control'
    BY <1>1, <1>2 DEF Conn, Control, Resuming, Answering, Attaching, Connection, HistoryEnabled
  <1> QED
    BY <1>1, <1>2, <1>3, <1>4, QuietConn DEF Connection, Answering

(* The resume opens the gate.                                              *)
LEMMA StartResumeConn ==
  ASSUME Conn, tasks \subseteq FanoutTask, StartResume
  PROVE  /\ Conn'
         /\ conn.pc = "subscribed" /\ conn.want # NoPosition
         /\ \E q : /\ conn' = [conn EXCEPT !.gate = TRUE, !.pc = "hot", !.passed = q]
                   /\ \A t \in tasks : t.step = "send" => t.pos \in q
  <1> DEFINE q == {t.pos : t \in {u \in tasks : u.step = "send"}}
  <1>1. /\ conn.pc = "subscribed" /\ backend' = backend /\ conn.want # NoPosition
        /\ conn' = [conn EXCEPT !.gate = TRUE, !.pc = "hot", !.passed = q]
    BY DEF StartResume, HandlerOnly
  <1>2. conn \in Connection /\ q \in SUBSET Position /\ \A t \in tasks : t.step = "send" => t.pos \in q
    BY DEF Conn, FanoutTask
  <1> HIDE DEF q
  <1>3. conn' \in Connection
    BY <1>1, <1>2 DEF Connection, HandlerSteps
  <1>4. Control'
    BY <1>1, <1>2 DEF Conn, Control, Resuming, Answering, Attaching, Connection, HistoryEnabled
  <1>5. Conn'
    BY <1>1, <1>2, <1>3, <1>4, QuietConn DEF Connection, Answering
  <1> QED
    BY <1>1, <1>2, <1>5

(* The resume fails.                                                       *)
LEMMA FailsConn ==
  ASSUME Conn, Fails, backend' = backend, conn.pc \in {"hot", "state", "freeze", "page"}
  PROVE  Conn'
  <1>1. conn' = [conn EXCEPT !.pc = "answer", !.failed = TRUE, !.replay = <<>>]
    BY DEF Fails
  <1>2. conn \in Connection /\ <<>> \in Seq(Position)
    BY DEF Conn
  <1>3. conn' \in Connection
    BY <1>1, <1>2 DEF Connection, HandlerSteps
  <1>4. Control'
    BY <1>1, <1>2 DEF Conn, Control, Resuming, Answering, Attaching, Connection, HistoryEnabled
  <1> QED
    BY <1>1, <1>2, <1>3, <1>4, QuietConn DEF Connection, Answering

(* The position to resume from, and that nothing has been replayed yet.    *)
LEMMA Wanted ==
  ASSUME Conn, conn.pc \in Resuming
  PROVE  /\ conn.want \in Position /\ conn.want.stream \in Streams /\ conn.want.serial \in Nat
         /\ conn.pc \notin Answering => Replayed = {}
         /\ conn.pc \notin {"page"} \cup Answering => conn.replay = <<>>
  <1>1. conn.want \in Position
    BY DEF Conn, Control, Connection, PositionOrNone
  <1> QED
    BY <1>1 DEF Position, Conn, Replaying, Control, Resuming, Answering

(* The resume replays a run of serials.                                    *)
LEMMA ReplaysConn ==
  ASSUME Conn, backend' = backend, conn.pc \in {"hot", "freeze"}, NEW b \in Int,
         Replays((conn.want.serial + 1)..b),
         Cardinality((conn.want.serial + 1)..b) <= MaxBufferSize
  PROVE  /\ Conn'
         /\ \E r \in Seq(Position) :
              /\ conn' = [conn EXCEPT !.pc = "answer", !.replay = r]
              /\ \A k \in (conn.want.serial + 1)..b :
                   \E i \in DOMAIN r : r[i] = At(conn.want.stream, k)
  <1> DEFINE a == conn.want.serial + 1
             r == InOrder(conn.want.stream, a..b)
  <1>1. conn' = [conn EXCEPT !.pc = "answer", !.replay = r]
    BY DEF Replays
  <1>2. /\ conn.want \in Position /\ conn.want.stream \in Streams /\ conn.want.serial \in Nat
        /\ Replayed = {}
    BY Wanted DEF Resuming, Answering
  <1>3. /\ r \in Seq(Position) /\ Len(r) = Cardinality(a..b)
        /\ Cardinality(a..b) = IF a > b THEN 0 ELSE b - a + 1
        /\ \A k \in DOMAIN r : r[k] = At(conn.want.stream, a + k - 1)
    <2>1. a \in Nat
      BY <1>2
    <2> HIDE DEF a
    <2> QED
      BY <1>2, <2>1, InOrderRun
  <1>4. a \in Nat /\ a - 1 = conn.want.serial
    BY <1>2
  <1> HIDE DEF r
  <1>5. DOMAIN r = 1..Len(r) /\ Len(r) \in Nat
    BY <1>3
  <1>6. \A i \in DOMAIN r : i \in Nat /\ r[i] = At(conn.want.stream, conn.want.serial + i)
    <2>1. \A i \in DOMAIN r : i \in Nat /\ a + i - 1 = conn.want.serial + i
      BY <1>2, <1>5
    <2> QED
      BY <1>3, <2>1
  <1>7. conn \in Connection
    BY DEF Conn
  <1>8. conn' \in Connection
    BY <1>1, <1>3, <1>7 DEF Connection, HandlerSteps
  <1>9. Control'
    BY <1>1, <1>7 DEF Conn, Control, Resuming, Answering, Attaching, Connection, HistoryEnabled
  <1>10. /\ conn'.wire = conn.wire /\ conn'.want = conn.want /\ conn'.replay = r
         /\ conn'.held = conn.held
    BY <1>1, <1>7 DEF Connection
  <1>11. Len(r) <= MaxBufferSize
    BY <1>3
  <1>12. Replaying'
    BY <1>2, <1>6, <1>10, <1>11, ReplayingSet
  <1>13. ASSUME NEW k \in a..b PROVE \E i \in DOMAIN r : r[i] = At(conn.want.stream, k)
    <2> HIDE DEF a
    <2>1. k \in Int /\ a <= k /\ k <= b
      BY <1>4
    <2>2. Len(r) = b - a + 1
      BY <1>3, <1>4, <2>1
    <2>3. k - conn.want.serial \in 1..Len(r) /\ conn.want.serial + (k - conn.want.serial) = k
      <3> DEFINE w == conn.want.serial
      <3>1. w \in Nat /\ a = w + 1 /\ w + 1 <= k /\ Len(r) = b - w /\ b \in Int
        BY <1>2, <1>4, <2>1, <2>2 DEF a
      <3> HIDE DEF w
      <3>2. k - w \in 1..Len(r) /\ w + (k - w) = k
        BY <2>1, <3>1
      <3> QED
        BY <3>2 DEF w
    <2> QED
      BY <1>5, <1>6, <2>3
  <1> QED
    BY <1>1, <1>3, <1>8, <1>9, <1>10, <1>12, <1>13 DEF Conn

(* The durable read stays on the history's stream and within the window.   *)
Paging ==
  conn.pc = "page" =>
    /\ conn.want.stream = hist.stream
    /\ conn.target - conn.want.serial <= MaxBufferSize
    /\ Len(conn.replay) <= conn.target - conn.want.serial

(* The lookup in the replay buffer.                                        *)
LEMMA HotLookupConn ==
  ASSUME Server, Conn, HotLookup
  PROVE  /\ Conn' /\ Paging'
         /\ conn'.pc = "answer" /\ ~conn'.failed =>
              LET b == hot[conn.node]
              IN  /\ b # NoBuffer /\ b.stream = conn.want.stream /\ b.next \in Nat
                  /\ \E r \in Seq(Position) :
                       /\ conn' = [conn EXCEPT !.pc = "answer", !.replay = r]
                       /\ \A k \in (conn.want.serial + 1)..(b.next - 1) :
                            \E i \in DOMAIN r : r[i] = At(conn.want.stream, k)
  <1> DEFINE b == hot[conn.node]
             answer == Lookup(b, conn.want.stream, conn.want.serial)
  <1>1. /\ conn.pc = "hot" /\ backend' = backend
        /\ \/ answer.kind = "Recovered" /\ Replays(answer.serials)
           \/ Fails
           \/ HistoryEnabled /\ conn' = [conn EXCEPT !.pc = "state"]
    BY DEF HotLookup, HandlerOnly
  <1>2. conn \in Connection /\ conn.node \in Nodes /\ b \in Entry \cup {NoBuffer}
        /\ (b # NoBuffer => Bounded(b) /\ b.next \in Nat)
    BY DEF Conn, Connection, Server, ServerTypes, Buffered, Entry
  <1>3. /\ conn.want \in Position /\ conn.want.stream \in Streams /\ conn.want.serial \in Nat
    BY <1>1, Wanted DEF Resuming
  <1> HIDE DEF b
  <1>4. CASE answer.kind = "Recovered" /\ Replays(answer.serials)
    <2>1. /\ b # NoBuffer /\ b.stream = conn.want.stream
          /\ answer.serials = (conn.want.serial + 1)..(b.next - 1)
          /\ Cardinality(answer.serials) <= MaxBufferSize
      BY <1>2, <1>3, <1>4, LookupFacts
    <2> HIDE DEF answer
    <2>2. b.next - 1 \in Int
      BY <1>2, <2>1
    <2>3. /\ Conn'
          /\ \E r \in Seq(Position) :
               /\ conn' = [conn EXCEPT !.pc = "answer", !.replay = r]
               /\ \A k \in (conn.want.serial + 1)..(b.next - 1) :
                    \E i \in DOMAIN r : r[i] = At(conn.want.stream, k)
      BY <1>1, <1>4, <2>1, <2>2, ReplaysConn
    <2>4. conn'.pc = "answer"
      BY <1>2, <2>3 DEF Connection
    <2> QED
      BY <1>2, <2>1, <2>3, <2>4 DEF b, Paging
  <1>5. CASE Fails
    <2>1. Conn'
      BY <1>1, <1>5, FailsConn
    <2>2. conn'.pc = "answer" /\ conn'.failed
      BY <1>2, <1>5 DEF Fails, Connection
    <2> QED
      BY <2>1, <2>2 DEF Paging
  <1>6. CASE HistoryEnabled /\ conn' = [conn EXCEPT !.pc = "state"]
    <2>1. conn' \in Connection
      BY <1>2, <1>6 DEF Connection, HandlerSteps
    <2>2. Control'
      BY <1>1, <1>2, <1>6 DEF Conn, Control, Resuming, Answering, Attaching, Connection, HistoryEnabled
    <2>3. Conn' /\ conn'.pc = "state"
      BY <1>1, <1>2, <1>6, <2>1, <2>2, QuietConn DEF Connection, Answering
    <2> QED
      BY <2>3 DEF Paging
  <1> QED
    BY <1>1, <1>4, <1>5, <1>6

(* The state of the durable stream.                                        *)
LEMMA CheckStateConn ==
  ASSUME Conn, CheckState
  PROVE  Conn' /\ Paging' /\ (conn'.pc # "freeze" => conn'.pc = "answer" /\ conn'.failed)
  <1>1. /\ conn.pc = "state" /\ backend' = backend
        /\ Fails \/ conn' = [conn EXCEPT !.pc = "freeze"]
    BY DEF CheckState, HandlerOnly
  <1>2. conn \in Connection
    BY DEF Conn
  <1>3. CASE Fails
    <2>1. Conn'
      BY <1>1, <1>3, FailsConn
    <2>2. conn'.pc = "answer" /\ conn'.failed
      BY <1>2, <1>3 DEF Fails, Connection
    <2> QED
      BY <2>1, <2>2 DEF Paging
  <1>4. CASE conn' = [conn EXCEPT !.pc = "freeze"]
    <2>1. conn' \in Connection
      BY <1>2, <1>4 DEF Connection, HandlerSteps
    <2>2. Control'
      BY <1>1, <1>2, <1>4 DEF Conn, Control, Resuming, Answering, Attaching, Connection, HistoryEnabled
    <2>3. Conn' /\ conn'.pc = "freeze"
      BY <1>1, <1>2, <1>4, <2>1, <2>2, QuietConn DEF Connection, Answering
    <2> QED
      BY <2>3 DEF Paging
  <1> QED
    BY <1>1, <1>3, <1>4

(* The durable head is frozen.                                             *)
LEMMA FreezeConn ==
  ASSUME Server, Conn, FreezeHead
  PROVE  /\ Conn' /\ Paging'
         /\ conn'.pc = "answer" /\ ~conn'.failed =>
              /\ conn.want.stream = hist.stream
              /\ \A p \in published : p.stream = hist.stream => p.serial <= conn.want.serial
         /\ conn'.pc = "page" =>
              \A p \in published : p.stream = hist.stream => p.serial <= conn'.target
         /\ conn'.pc \in {"answer", "page"}
         /\ conn'.wire = conn.wire /\ conn'.held = conn.held
  <1> DEFINE last == conn.want.serial
             newest == Max(hist.records)
             oldest == Min(hist.records)
  <1>1. conn.pc = "freeze" /\ backend' = backend
    BY DEF FreezeHead, HandlerOnly
  <1>2. /\ conn \in Connection /\ HistoryEnabled
        /\ hist.records \in SUBSET (1..MaxSerial) /\ MaxSerial \in Nat /\ hist.next \in Nat \ {0}
        /\ \A p \in published : p.serial \in Nat
    BY <1>1, BoundsAssumption DEF Conn, Control, Server, ServerTypes, HistoryState, Position
  <1>3. /\ conn.want \in Position /\ conn.want.stream \in Streams /\ last \in Nat
        /\ Replayed = {} /\ conn.replay = <<>>
    BY <1>1, Wanted DEF Resuming, Answering
  <1>4. \A p \in published : p.stream = hist.stream => p.serial <= NewestSerial
    BY <1>2, NewestCovers
  <1>5. hist.records = {} => NewestSerial = hist.next - 1
    BY DEF NewestSerial
  <1>6. hist.records # {} => newest \in Nat /\ NewestSerial = newest
    <2>1. hist.records # {} => Max(hist.records) \in hist.records
      BY <1>2, Extremes
    <2> QED
      BY <1>2, <2>1 DEF NewestSerial
  <1>7. \/ Fails
        \/ /\ Replays({}) /\ conn.want.stream = hist.stream /\ last = NewestSerial
        \/ /\ conn' = [conn EXCEPT !.pc = "page", !.target = newest]
           /\ conn.want.stream = hist.stream /\ hist.records # {}
           /\ newest - last <= MaxBufferSize /\ last <= newest
    <2>1. CASE conn.want.stream # hist.stream
      BY <2>1 DEF FreezeHead
    <2>2. CASE conn.want.stream = hist.stream /\ hist.records = {}
      <3>1. IF last + 1 = hist.next THEN Replays({}) ELSE Fails
        BY <2>2 DEF FreezeHead
      <3> HIDE DEF last
      <3>2. last + 1 = hist.next => last = NewestSerial
        BY <1>2, <1>3, <1>5, <2>2
      <3> QED
        BY <2>2, <3>1, <3>2
    <2>3. CASE conn.want.stream = hist.stream /\ hist.records # {}
      <3>1. IF last > newest \/ last + 1 < oldest THEN Fails
            ELSE IF last = newest THEN Replays({})
            ELSE IF newest - last > MaxBufferSize THEN Fails
            ELSE conn' = [conn EXCEPT !.pc = "page", !.target = newest]
        BY <2>3 DEF FreezeHead
      <3>2. newest \in Nat /\ NewestSerial = newest
        BY <1>6, <2>3
      <3> HIDE DEF last, newest, oldest
      <3> QED
        BY <1>3, <2>3, <3>1, <3>2, MaxBufferSizeAssumption
    <2> QED
      BY <2>1, <2>2, <2>3
  <1> HIDE DEF newest, oldest
  <1>8. CASE Fails
    <2>1. Conn'
      BY <1>1, <1>8, FailsConn
    <2>2. conn'.pc = "answer" /\ conn'.failed /\ conn'.wire = conn.wire /\ conn'.held = conn.held
      BY <1>2, <1>8 DEF Fails, Connection
    <2> QED
      BY <2>1, <2>2 DEF Paging
  <1>9. CASE Replays({}) /\ conn.want.stream = hist.stream /\ last = NewestSerial
    <2>1. (last + 1)..0 = {} /\ 0 \in Int
      BY <1>3
    <2>2. Cardinality((last + 1)..0) <= MaxBufferSize
      <3> DEFINE S == (last + 1)..0
      <3>1. Cardinality({}) = 0 /\ S = {}
        BY <2>1, FS_EmptySet
      <3> HIDE DEF S
      <3>2. Cardinality(S) <= MaxBufferSize
        BY <3>1, MaxBufferSizeAssumption
      <3> QED
        BY <3>2 DEF S
    <2>3. /\ Conn'
          /\ \E r \in Seq(Position) : conn' = [conn EXCEPT !.pc = "answer", !.replay = r]
      BY <1>1, <1>9, <2>1, <2>2, ReplaysConn
    <2>4. conn'.pc = "answer" /\ conn'.wire = conn.wire /\ conn'.held = conn.held
      BY <1>2, <2>3 DEF Connection
    <2> QED
      BY <1>4, <1>9, <2>3, <2>4 DEF Paging
  <1>10. CASE /\ conn' = [conn EXCEPT !.pc = "page", !.target = newest]
              /\ conn.want.stream = hist.stream /\ hist.records # {}
              /\ newest - last <= MaxBufferSize /\ last <= newest
    <2>1. newest \in Nat /\ NewestSerial = newest
      BY <1>6, <1>10
    <2>2. conn' \in Connection
      BY <1>2, <1>10, <2>1 DEF Connection, HandlerSteps
    <2>3. Control'
      BY <1>1, <1>2, <1>10 DEF Conn, Control, Resuming, Answering, Attaching, Connection, HistoryEnabled
    <2>4. /\ conn'.pc = "page" /\ conn'.target = newest /\ conn'.want = conn.want
          /\ conn'.replay = conn.replay /\ conn'.wire = conn.wire /\ conn'.held = conn.held
      BY <1>2, <1>10 DEF Connection
    <2>5. Conn'
      BY <1>1, <2>2, <2>3, <2>4, QuietConn DEF Answering
    <2>6. Len(conn.replay) = 0 /\ newest - last >= 0 /\ hist' = hist
      BY <1>3, <1>10, <2>1 DEF FreezeHead, HandlerOnly
    <2>7. Paging'
      BY <1>10, <2>1, <2>4, <2>6 DEF Paging
    <2> QED
      BY <1>4, <2>1, <2>4, <2>5, <2>7
  <1> QED
    BY <1>7, <1>8, <1>9, <1>10

(* A page of the durable history.                                          *)
LEMMA ReadPageConn ==
  ASSUME Server, Conn, Paging, ReadPage
  PROVE  /\ Conn' /\ Paging'
         /\ conn'.pc = "answer" /\ ~conn'.failed =>
              \A k \in (conn.want.serial + 1)..conn.target :
                 \E i \in DOMAIN conn'.replay : conn'.replay[i] = At(conn.want.stream, k)
         /\ conn'.pc \in {"answer", "page"}
         /\ conn'.target = conn.target
         /\ conn'.wire = conn.wire /\ conn'.held = conn.held
  <1> DEFINE w == conn.want.serial
             n == Len(conn.replay)
             from == w + n + 1
             page == Page(from)
             c == Cardinality(page)
             more == page # InBounds(from)
             add == InOrder(hist.stream, page)
  <1>1. conn.pc = "page" /\ backend' = backend /\ hist' = hist
    BY DEF ReadPage, HandlerOnly
  <1>2. /\ conn \in Connection /\ conn.replay \in Seq(Position) /\ n \in Nat /\ conn.target \in Nat
        /\ hist.records \in SUBSET (1..MaxSerial)
    BY DEF Conn, Connection, Server, ServerTypes, HistoryState
  <1>3. /\ conn.want \in Position /\ conn.want.stream \in Streams /\ w \in Nat
        /\ Replayed = {} /\ ~conn.failed
    BY <1>1, Wanted DEF Resuming, Answering, Conn, Control
  <1>4. /\ conn.want.stream = hist.stream /\ conn.target - w <= MaxBufferSize
        /\ n <= conn.target - w
    BY <1>1 DEF Paging
  <1>5. \/ Fails
        \/ /\ page = from..(from + c - 1)
           /\ ~more => conn.target < from + c
           /\ conn' = [conn EXCEPT !.pc = IF more THEN "page" ELSE "answer",
                                   !.replay = conn.replay \o add]
    <2>1. \/ Fails
          \/ /\ ExpectedSerials(page, from) /\ ~(~more /\ from + c <= conn.target)
             /\ conn' = [conn EXCEPT !.pc = IF more THEN "page" ELSE "answer",
                                     !.replay = conn.replay \o add]
      BY DEF ReadPage
    <2>2. ExpectedSerials(page, from) => page = from..(from + c - 1)
      BY DEF ExpectedSerials
    <2>3. /\ page \subseteq 1..MaxSerial
      BY <1>2 DEF Page, InBounds
    <2>4. c \in Nat
      <3>1. IsFiniteSet(1..MaxSerial)
        BY BoundsAssumption, FS_Interval
      <3> QED
        BY <2>3, <3>1, FS_Subset, FS_CardinalityType
    <2> HIDE DEF more, add, page
    <2>5. ~(from + c <= conn.target) => conn.target < from + c
      BY <1>2, <1>3, <2>4 DEF c
    <2> QED
      BY <2>1, <2>2, <2>5
  <1>6. page \subseteq InBounds(from)
    BY DEF Page
  <1> HIDE DEF w, n
  <1>7. CASE Fails
    <2>1. Conn'
      BY <1>1, <1>7, FailsConn
    <2>2. /\ conn'.pc = "answer" /\ conn'.failed /\ conn'.wire = conn.wire
          /\ conn'.held = conn.held /\ conn'.target = conn.target
      BY <1>2, <1>7 DEF Fails, Connection
    <2> QED
      BY <2>1, <2>2 DEF Paging
  <1>8. CASE /\ page = from..(from + c - 1)
             /\ ~more => conn.target < from + c
             /\ conn' = [conn EXCEPT !.pc = IF more THEN "page" ELSE "answer",
                                     !.replay = conn.replay \o add]
    <2> DEFINE pc == IF more THEN "page" ELSE "answer"
               r == conn.replay \o add
    <2>1. from \in Nat /\ c \in Nat /\ hist.stream \in Streams
      <3>1. page \subseteq 1..MaxSerial
        BY <1>2 DEF Page, InBounds
      <3>2. IsFiniteSet(1..MaxSerial)
        BY BoundsAssumption, FS_Interval
      <3>3. c \in Nat
        BY <3>1, <3>2, FS_Subset, FS_CardinalityType
      <3> QED
        BY <1>2, <1>3, <1>4, <3>3
    <2>2. /\ add \in Seq(Position) /\ Len(add) = c
          /\ \A k \in DOMAIN add : add[k] = At(hist.stream, from + k - 1)
      <3> DEFINE top == from + c - 1
      <3>1. top \in Int /\ page = from..top
        BY <1>8, <2>1
      <3> HIDE DEF from, c, page, top
      <3>2. LET o == InOrder(hist.stream, from..top)
            IN  /\ o \in Seq(Position)
                /\ Len(o) = Cardinality(from..top)
                /\ \A k \in DOMAIN o : o[k] = At(hist.stream, from + k - 1)
        BY <2>1, <3>1, InOrderRun
      <3> QED
        BY <3>1, <3>2 DEF c
    <2>3. n + c <= conn.target - w
      <3>1. CASE c = 0
        BY <1>2, <1>3, <1>4, <3>1
      <3>2. CASE c > 0
        <4>1. from + c - 1 \in page
          BY <1>8, <2>1, <3>2
        <4>2. from + c - 1 <= conn.target
          BY <1>6, <4>1 DEF InBounds
        <4> QED
          BY <1>2, <1>3, <2>1, <4>2
      <3> QED
        BY <2>1, <3>1, <3>2
    <2> HIDE DEF page, more, add, c
    <2>4. /\ r \in Seq(Position) /\ Len(r) = n + c /\ DOMAIN r = 1..(n + c)
          /\ \A i \in 1..n : r[i] = conn.replay[i]
          /\ \A i \in 1..c : r[n + i] = add[i]
      <3> DEFINE old == conn.replay
      <3>1. old \in Seq(Position) /\ Len(old) = n /\ r = old \o add
        BY <1>2 DEF n
      <3> HIDE DEF old, r
      <3>4. add \in Seq(Position)
        BY <2>2
      <3>5. /\ r \in Seq(Position) /\ Len(r) = Len(old) + Len(add)
            /\ DOMAIN r = 1..(Len(old) + Len(add))
            /\ \A i \in 1..Len(old) : r[i] = old[i]
        <4>1. old \in Seq(Position) /\ r = old \o add
          BY <3>1
        <4>2. r \in Seq(Position) /\ Len(r) = Len(old) + Len(add)
          BY <3>4, <4>1
        <4>3. DOMAIN r = 1..(Len(old) + Len(add))
          BY <4>2
        <4>4. \A i \in 1..Len(old) : r[i] = old[i]
          BY <3>4, <4>1
        <4> QED
          BY <4>2, <4>3, <4>4
      <3>2. /\ r \in Seq(Position) /\ Len(r) = n + c /\ DOMAIN r = 1..(n + c)
            /\ \A i \in 1..n : r[i] = old[i]
        BY <2>2, <3>1, <3>5
      <3>3. \A i \in 1..c : r[n + i] = add[i]
        <4>1. \A i \in 1..Len(add) : (old \o add)[Len(old) + i] = add[i]
          BY <3>1, <3>4, ConcatProperties
        <4> QED
          BY <2>2, <3>1, <4>1
      <3> QED
        BY <3>2, <3>3 DEF old
    <2>5. \A i \in DOMAIN r : i \in Nat /\ r[i] = At(conn.want.stream, w + i)
      <3> SUFFICES ASSUME NEW i \in DOMAIN r
                   PROVE  i \in Nat /\ r[i] = At(conn.want.stream, w + i)
        OBVIOUS
      <3> HIDE DEF r
      <3>1. i \in Nat
        BY <2>4
      <3>2. CASE i <= n
        <4>1. i \in DOMAIN conn.replay
          BY <1>2, <2>4, <3>2 DEF n
        <4>2. conn.replay[i] = At(conn.want.stream, w + Cardinality(Replayed) + i)
          BY <4>1 DEF Conn, Replaying, Follows, w
        <4>3. Cardinality(Replayed) = 0
          BY <1>3, FS_EmptySet
        <4>4. w + Cardinality(Replayed) + i = w + i
          BY <1>3, <3>1, <4>3
        <4>5. i \in 1..n
          BY <1>2, <2>4, <3>2
        <4> QED
          BY <2>4, <3>1, <4>2, <4>4, <4>5
      <3>3. CASE i > n
        <4> DEFINE j == i - n
        <4>1. j \in 1..c /\ i = n + j /\ from + j - 1 = w + i
          BY <1>2, <1>3, <2>1, <2>4, <3>3
        <4> HIDE DEF j
        <4>2. r[i] = add[j] /\ j \in DOMAIN add
          BY <2>2, <2>4, <4>1
        <4> QED
          BY <1>4, <2>2, <3>1, <4>1, <4>2
      <3> QED
        BY <1>2, <3>1, <3>2, <3>3
    <2> HIDE DEF r, pc
    <2>6. pc \in {"page", "answer"} /\ conn' = [conn EXCEPT !.pc = pc, !.replay = r]
      BY <1>8 DEF pc, r
    <2>7. /\ conn' \in Connection /\ conn'.wire = conn.wire /\ conn'.held = conn.held
          /\ conn'.want = conn.want /\ conn'.target = conn.target /\ conn'.replay = r
          /\ conn'.pc = pc
      BY <1>2, <2>4, <2>6 DEF Connection, HandlerSteps
    <2>8. Control'
      BY <1>1, <1>2, <2>6 DEF Conn, Control, Resuming, Answering, Attaching, Connection, HistoryEnabled
    <2>9. Len(r) <= MaxBufferSize
      BY <1>2, <1>3, <1>4, <2>1, <2>3, <2>4, MaxBufferSizeAssumption
    <2>10. Replaying'
      BY <1>3, <2>5, <2>7, <2>9, ReplayingSet DEF w
    <2>11. Conn'
      BY <2>7, <2>8, <2>10 DEF Conn
    <2>12. Paging'
      BY <1>1, <1>4, <2>3, <2>4, <2>7 DEF Paging, w
    <2>13. ASSUME pc = "answer", NEW k \in (w + 1)..conn.target
           PROVE  \E i \in DOMAIN r : r[i] = At(conn.want.stream, k)
      <3>1. conn.target < from + c
        BY <1>8, <2>13 DEF pc
      <3>2. k - w \in 1..(n + c) /\ w + (k - w) = k
        BY <1>2, <1>3, <2>1, <3>1
      <3> QED
        BY <2>4, <2>5, <3>2
    <2> QED
      BY <2>6, <2>7, <2>11, <2>12, <2>13 DEF w
  <1> QED
    BY <1>5, <1>7, <1>8

(* One replayed message is sent.                                           *)
LEMMA SendReplayedConn ==
  ASSUME Conn, SendReplayed
  PROVE  /\ Conn'
         /\ conn.replay \in Seq(Position) /\ conn.replay # <<>>
         /\ conn.pc = "answer" /\ ~conn.failed
         /\ conn' = [conn EXCEPT !.wire = Append(conn.wire, Frame("replay", Head(conn.replay))),
                                 !.replay = Tail(conn.replay)]
         /\ Enqueued(<<Frame("replay", Head(conn.replay))>>)
  <1> DEFINE q == conn.replay
             f == Frame("replay", Head(q))
             w == conn.want.serial
             s == conn.want.stream
             k == Cardinality(Replayed)
             m == Len(conn.wire) + 1
  <1>1. /\ conn.pc = "answer" /\ ~conn.failed /\ backend' = backend /\ q # <<>>
        /\ conn' = [conn EXCEPT !.wire = Append(conn.wire, f), !.replay = Tail(q)]
    BY DEF SendReplayed, HandlerOnly
  <1>2. /\ conn \in Connection /\ q \in Seq(Position) /\ conn.wire \in Seq(FrameOnWire)
        /\ w \in Nat
    BY <1>1, Wanted DEF Conn, Connection, Resuming, Answering
  <1>3. /\ Head(q) \in Position /\ Head(q) = q[1] /\ 1 \in DOMAIN q /\ Len(q) \in Nat
        /\ Tail(q) \in Seq(Position) /\ Len(Tail(q)) = Len(q) - 1
        /\ DOMAIN Tail(q) = 1..(Len(q) - 1)
        /\ \A i \in 1..(Len(q) - 1) : Tail(q)[i] = q[i + 1] /\ i + 1 \in DOMAIN q
    <2> DEFINE p == q
    <2>1. p \in Seq(Position) /\ p # <<>>
      BY <1>1, <1>2
    <2> HIDE DEF p
    <2>2. /\ Head(p) \in Position /\ Head(p) = p[1] /\ 1 \in DOMAIN p /\ Len(p) \in Nat
          /\ Tail(p) \in Seq(Position) /\ Len(Tail(p)) = Len(p) - 1
      BY <2>1
    <2>3. /\ DOMAIN Tail(p) = 1..(Len(p) - 1)
          /\ \A i \in 1..(Len(p) - 1) : Tail(p)[i] = p[i + 1] /\ i + 1 \in DOMAIN p
      BY <2>1, <2>2
    <2> QED
      BY <2>2, <2>3 DEF p
  <1>4. f \in FrameOnWire /\ f.kind = "replay" /\ f.pos = q[1]
    BY <1>3 DEF Frame, FrameOnWire, PositionOrNone
  <1> HIDE DEF f
  <1>5. Append(conn.wire, f) \in Seq(FrameOnWire)
    BY <1>2, <1>4
  <1>6. /\ conn' \in Connection /\ conn'.wire = Append(conn.wire, f) /\ conn'.replay = Tail(q)
        /\ conn'.want = conn.want /\ conn'.held = conn.held /\ conn'.pc = conn.pc
    BY <1>1, <1>2, <1>3, <1>5 DEF Connection
  <1>7. Control'
    BY <1>1, <1>2 DEF Conn, Control, Resuming, Answering, Attaching, Connection, HistoryEnabled
  <1>8. Enqueued(<<f>>)
    BY <1>2, <1>4, <1>6, EnqueuedOne
  <1>9. /\ DOMAIN conn'.wire = 1..m /\ conn'.wire[m] = f
        /\ \A i \in 1..Len(conn.wire) : conn'.wire[i] = conn.wire[i]
    <2>1. Len(<<f>>) = 1 /\ <<f>>[1] = f
      OBVIOUS
    <2> QED
      BY <1>8, <2>1 DEF Enqueued
  <1>10. /\ IsFiniteSet(Replayed) /\ k \in Nat /\ Replayed \subseteq 1..Len(conn.wire)
         /\ Len(conn.wire) \in Nat /\ DOMAIN conn.wire = 1..Len(conn.wire)
    BY <1>2, ReplayedFinite
  <1>11. Replayed' = Replayed \cup {m} /\ m \notin Replayed
    <2>1. \A i \in 1..m : i \in 1..Len(conn.wire) \/ i = m
      BY <1>10
    <2>2. m \in 1..m /\ m \notin 1..Len(conn.wire) /\ \A i \in 1..Len(conn.wire) : i \in 1..m
      BY <1>10
    <2> HIDE DEF m
    <2> QED
      BY <1>4, <1>9, <1>10, <2>1, <2>2 DEF Replayed
  <1>12. Cardinality(Replayed') = k + 1
    <2>1. Cardinality(Replayed \cup {m}) = Cardinality(Replayed) + 1
      BY <1>10, <1>11, FS_AddElement
    <2> QED
      BY <1>11, <2>1
  <1>13. \A i \in DOMAIN q : q[i] = At(s, w + k + i)
    BY DEF Conn, Replaying, Follows
  <1> HIDE DEF q, w, s, k
  <1>14. Follows'
    <2>1. ASSUME NEW i \in 1..(Len(q) - 1) PROVE Tail(q)[i] = At(s, w + (k + 1) + i)
      <3>1. Tail(q)[i] = At(s, w + k + (i + 1))
        BY <1>3, <1>13
      <3>2. w + k + (i + 1) = w + (k + 1) + i
        BY <1>2, <1>3, <1>10
      <3> QED
        BY <3>1, <3>2
    <2> QED
      BY <1>3, <1>6, <1>12, <2>1 DEF Follows, s, w
  <1>15. ReplayContiguous'
    <2>1. ASSUME NEW i \in Replayed
          PROVE  {j \in Replayed' : j <= i} = {j \in Replayed : j <= i}
      BY <1>10, <1>11
    <2>2. {j \in Replayed' : j <= m} = Replayed'
      <3>1. \A j \in Replayed : j <= m
        BY <1>10
      <3>2. m <= m
        BY <1>10
      <3> HIDE DEF m
      <3> QED
        BY <1>11, <3>1, <3>2
    <2>3. ASSUME NEW i \in Replayed
          PROVE  conn'.wire[i].pos = At(s, w + Cardinality({j \in Replayed' : j <= i}))
      <3>1. conn.wire[i].pos = At(s, w + Cardinality({j \in Replayed : j <= i}))
        BY DEF Conn, Replaying, ReplayContiguous, s, w
      <3> QED
        BY <1>9, <1>10, <2>1, <3>1
    <2>4. conn'.wire[m].pos = At(s, w + Cardinality({j \in Replayed' : j <= m}))
      <3>1. conn'.wire[m].pos = At(s, w + k + 1)
        BY <1>3, <1>4, <1>9, <1>13
      <3>2. w + k + 1 = w + (k + 1)
        BY <1>2, <1>10
      <3> QED
        BY <1>12, <2>2, <3>1, <3>2
    <2> HIDE DEF m
    <2> QED
      BY <1>6, <1>11, <2>3, <2>4 DEF ReplayContiguous, s, w
  <1>16. Len(Tail(q)) <= MaxBufferSize
    BY <1>3, MaxBufferSizeAssumption DEF Conn, Replaying, q
  <1>17. Replaying'
    BY <1>1, <1>6, <1>14, <1>15, <1>16 DEF Replaying, Answering
  <1> QED
    BY <1>1, <1>2, <1>6, <1>7, <1>8, <1>17 DEF Conn, f, q

(* The failure is sent.                                                    *)
LEMMA SendFailedConn ==
  ASSUME Conn, SendResumeFailed
  PROVE  Conn' /\ Enqueued(<<Frame("failed", NoPosition)>>)
  <1> DEFINE f == Frame("failed", NoPosition)
  <1>1. /\ conn.pc = "answer" /\ conn.failed /\ backend' = backend
        /\ conn' = [conn EXCEPT !.pc = "success", !.wire = Append(conn.wire, f)]
    BY DEF SendResumeFailed, HandlerOnly
  <1>2. f \in FrameOnWire /\ f.kind # "replay"
    BY DEF Frame, FrameOnWire, PositionOrNone
  <1> HIDE DEF f
  <1>3. conn \in Connection /\ Append(conn.wire, f) \in Seq(FrameOnWire)
    BY <1>2 DEF Conn, Connection
  <1>4. /\ conn' \in Connection /\ conn'.wire = Append(conn.wire, f) /\ conn'.held = conn.held
        /\ conn'.want = conn.want /\ conn'.replay = conn.replay /\ conn'.pc = "success"
    BY <1>1, <1>3 DEF Connection, HandlerSteps
  <1>5. Control'
    BY <1>1, <1>3 DEF Conn, Control, Resuming, Answering, Attaching, Connection, HistoryEnabled
  <1>6. Conn' /\ Enqueued(<<f>>)
    BY <1>2, <1>4, <1>5, NoticeConn DEF Answering
  <1> QED
    BY <1>6 DEF f

(* The aggregate answer is sent.                                           *)
LEMMA SendSuccessConn ==
  ASSUME Conn, SendResumeSuccess
  PROVE  /\ Conn'
         /\ conn.pc \in {"answer", "success"}
         /\ conn.pc = "answer" => conn.replay = <<>>
         /\ \E f \in FrameOnWire :
              /\ conn' = [conn EXCEPT !.pc = "redrain", !.target = 0,
                            !.resumed = IF conn.failed THEN NoPosition ELSE conn.want,
                            !.wire = Append(conn.wire, f)]
              /\ f.kind = "resumed" /\ Enqueued(<<f>>)
  <1> DEFINE f == Frame("resumed", LastReplayed)
             r == IF conn.failed THEN NoPosition ELSE conn.want
  <1>1. /\ \/ conn.pc = "success"
           \/ conn.pc = "answer" /\ ~conn.failed /\ conn.replay = <<>>
        /\ backend' = backend
        /\ conn' = [conn EXCEPT !.pc = "redrain", !.target = 0, !.resumed = r,
                                !.wire = Append(conn.wire, f)]
    BY DEF SendResumeSuccess, HandlerOnly
  <1>2. /\ conn \in Connection /\ conn.wire \in Seq(FrameOnWire)
        /\ r \in PositionOrNone
    BY DEF Conn, Connection, PositionOrNone
  <1>3. LastReplayed \in PositionOrNone
    <2>1. CASE Replayed = {}
      BY <2>1 DEF LastReplayed, PositionOrNone
    <2>2. CASE Replayed # {}
      <3>1. Replayed \in SUBSET (1..Len(conn.wire)) /\ Len(conn.wire) \in Nat
        BY <1>2, ReplayedFinite
      <3>2. Max(Replayed) \in Replayed
        BY <2>2, <3>1, Extremes
      <3>3. conn.wire[Max(Replayed)] \in FrameOnWire
        BY <1>2, <3>1, <3>2
      <3>4. LastReplayed = conn.wire[Max(Replayed)].pos
        BY <2>2 DEF LastReplayed
      <3> QED
        BY <3>3, <3>4 DEF FrameOnWire
    <2> QED
      BY <2>1, <2>2
  <1>4. f \in FrameOnWire /\ f.kind = "resumed"
    BY <1>3 DEF Frame, FrameOnWire
  <1> HIDE DEF f, r
  <1>5. Append(conn.wire, f) \in Seq(FrameOnWire)
    BY <1>2, <1>4
  <1>6. /\ conn' \in Connection /\ conn'.wire = Append(conn.wire, f) /\ conn'.held = conn.held
        /\ conn'.want = conn.want /\ conn'.replay = conn.replay /\ conn'.pc = "redrain"
    BY <1>1, <1>2, <1>5 DEF Connection, HandlerSteps
  <1>7. Control'
    BY <1>1, <1>2 DEF Conn, Control, Resuming, Answering, Attaching, Connection, HistoryEnabled
  <1>8. Conn' /\ Enqueued(<<f>>)
    BY <1>4, <1>6, <1>7, NoticeConn DEF Answering
  <1> QED
    BY <1>1, <1>4, <1>8 DEF r

(* The gate holds a message.                                               *)
LEMMA HoldConn ==
  ASSUME Conn, NEW t \in FanoutTask, backend' = backend, ~GateFull, conn.pc # "closed",
         conn' = [conn EXCEPT !.held = Append(conn.held, t.pos)]
  PROVE  /\ Conn'
         /\ conn'.held = Append(conn.held, t.pos) /\ conn.held \in Seq(Position)
         /\ t.pos \in Position
  <1>1. conn \in Connection /\ conn.held \in Seq(Position) /\ t.pos \in Position
    BY DEF Conn, Connection, FanoutTask
  <1> DEFINE h == Append(conn.held, t.pos)
  <1>2. h \in Seq(Position) /\ Len(h) = Len(conn.held) + 1 /\ Len(conn.held) \in Nat
    BY <1>1
  <1> HIDE DEF h
  <1>3. /\ conn' \in Connection /\ conn'.held = h /\ conn'.wire = conn.wire
        /\ conn'.want = conn.want /\ conn'.replay = conn.replay /\ conn'.pc = conn.pc
    BY <1>1, <1>2 DEF Connection, h
  <1>4. Control'
    BY <1>1 DEF Conn, Control, Resuming, Answering, Attaching, Connection, HistoryEnabled
  <1>5. Len(h) <= GateCapacity
    BY <1>2, BoundsAssumption DEF GateFull
  <1>6. Replayed' = Replayed /\ \A i \in Replayed : conn'.wire[i] = conn.wire[i]
    BY <1>3 DEF Replayed
  <1>7. Replaying'
    BY <1>3, <1>6, ReplayingKept
  <1> QED
    BY <1>1, <1>3, <1>4, <1>5, <1>7 DEF Conn, h

(* A live message is enqueued.                                             *)
LEMMA LiveConn ==
  ASSUME Conn, NEW t \in FanoutTask, backend' = backend, conn.pc # "closed",
         conn' = [conn EXCEPT !.wire = Append(conn.wire, Frame("live", t.pos))]
  PROVE  Conn' /\ Enqueued(<<Frame("live", t.pos)>>)
  <1> DEFINE f == Frame("live", t.pos)
  <1>1. f \in FrameOnWire /\ f.kind # "replay"
    BY DEF Frame, FrameOnWire, FanoutTask, PositionOrNone
  <1>2. conn' = [conn EXCEPT !.wire = Append(conn.wire, f)]
    OBVIOUS
  <1> HIDE DEF f
  <1>3. conn \in Connection /\ Append(conn.wire, f) \in Seq(FrameOnWire)
    BY <1>1 DEF Conn, Connection
  <1>4. /\ conn' \in Connection /\ conn'.wire = Append(conn.wire, f) /\ conn'.held = conn.held
        /\ conn'.want = conn.want /\ conn'.replay = conn.replay /\ conn'.pc = conn.pc
    BY <1>2, <1>3 DEF Connection
  <1>5. Control'
    BY <1>2, <1>3 DEF Conn, Control, Resuming, Answering, Attaching, Connection, HistoryEnabled
  <1>6. Conn' /\ Enqueued(<<f>>)
    BY <1>1, <1>4, <1>5, NoticeConn
  <1> QED
    BY <1>6 DEF f

-----------------------------------------------------------------------------
(* Fan-out tasks, the head and the durable read.                           *)

(* A task is for this connection or an earlier one, no task is for a       *)
(* connection that has not joined, and a message past the gate check while *)
(* the gate is open passed it before the gate of the resume opened.        *)
Targets ==
  /\ \A t \in tasks : t.target <= conn.id
  /\ conn.pc = "subscribe" => \A t \in tasks : t.target # conn.id
  /\ conn.gate => \A t \in tasks : t.step = "send" /\ t.target = conn.id =>
                    t.pos \in conn.passed

Session == SessionTypes /\ Conn /\ Targets /\ HeadKnown /\ Paging

(* A step that starts no task past the gate check.                         *)
LEMMA TargetsKept ==
  ASSUME Targets, conn'.id = conn.id, conn'.pc = "subscribe" => conn.pc = "subscribe",
         conn'.gate => conn.gate /\ conn'.passed = conn.passed,
         \A t \in tasks' :
           \/ t \in tasks
           \/ /\ t.target <= conn.id
              /\ conn.pc = "subscribe" => t.target # conn.id
              /\ conn.gate => t.step # "send" \/ t.target # conn.id
  PROVE  Targets'
  BY DEF Targets

(* No head is remembered and no page is read.                              *)
LEMMA NothingKnown ==
  ASSUME conn'.head = NoPosition, conn'.pc # "page"
  PROVE  HeadKnown' /\ Paging'
  BY DEF HeadKnown, Paging

(* The connection and the stream are as they were.                         *)
LEMMA KnownKept ==
  ASSUME Server, Session, backend' = backend,
         conn'.head = conn.head, conn'.pc = conn.pc, conn'.node = conn.node,
         conn'.want = conn.want, conn'.target = conn.target, conn'.replay = conn.replay,
         hist.stream # NoStream => hist'.stream = hist.stream, published' \subseteq Position,
         Solo => \A p \in published' : \/ p \in published
                                       \/ /\ hot[conn.node] # NoBuffer
                                          /\ hot[conn.node].stream = p.stream
                                          /\ p.serial < hot[conn.node].next,
         Solo /\ conn.head # NoPosition /\ hot[conn.node] # NoBuffer
              /\ hot[conn.node].stream = hist.stream =>
           /\ hot'[conn.node] # NoBuffer
           /\ hot'[conn.node].stream = hot[conn.node].stream
           /\ hot'[conn.node].next >= hot[conn.node].next
           /\ hot'[conn.node].next \in Nat
  PROVE  HeadKnown' /\ Paging'
  <1>1. /\ conn \in Connection /\ conn.node \in Nodes
        /\ conn.head # NoPosition => conn.head.stream \in Streams
        /\ conn.pc = "page" => conn.want.stream \in Streams
    BY Wanted DEF Session, SessionTypes, Connection, PositionOrNone, Position, Resuming
  <1>2. Paging'
    BY <1>1, NoStreamAssumption DEF Session, Paging
  <1>3. ASSUME conn.head # NoPosition
        PROVE  HeadKnown'
    <2>1. /\ conn.pc = "ack" /\ HistoryEnabled /\ conn.head.stream = hist.stream
          /\ hist'.stream = hist.stream
      BY <1>1, <1>3, NoStreamAssumption DEF Session, HeadKnown
    <2>2. ASSUME Solo, NEW p \in published', p.stream = hist.stream
          PROVE  \/ p.serial <= conn.head.serial
                 \/ /\ hot'[conn.node] # NoBuffer
                    /\ hot'[conn.node].stream = p.stream
                    /\ p.serial < hot'[conn.node].next
      <3>1. \/ p.serial <= conn.head.serial
            \/ /\ hot[conn.node] # NoBuffer
               /\ hot[conn.node].stream = p.stream
               /\ p.serial < hot[conn.node].next
        BY <1>3, <2>2 DEF Session, HeadKnown
      <3>2. CASE /\ hot[conn.node] # NoBuffer
                 /\ hot[conn.node].stream = p.stream
                 /\ p.serial < hot[conn.node].next
        <4>1. /\ hot'[conn.node] # NoBuffer
              /\ hot'[conn.node].stream = p.stream
              /\ hot'[conn.node].next >= hot[conn.node].next
              /\ hot'[conn.node].next \in Nat
          BY <1>3, <2>2, <3>2
        <4>2. hot[conn.node].next \in Nat
          BY <1>1, <3>2 DEF Server, ServerTypes, Entry
        <4>3. p.serial \in Nat
          BY <2>2 DEF Position
        <4> QED
          BY <3>2, <4>1, <4>2, <4>3
      <3> QED
        BY <3>1, <3>2
    <2>3. HistoryEnabled' = HistoryEnabled /\ Solo' = Solo
      BY DEF HistoryEnabled, Solo
    <2> QED
      BY <1>3, <2>1, <2>2, <2>3 DEF HeadKnown
  <1>4. ASSUME conn.head = NoPosition
        PROVE  HeadKnown'
    BY <1>4 DEF HeadKnown
  <1> QED
    BY <1>2, <1>3, <1>4

(* The client and the handler as they were, tasks and buffers may change.  *)
LEMMA SessionSame ==
  ASSUME Server, Session, Server', UNCHANGED <<backend, conn, client>>,
         tasks' \subseteq FanoutTask,
         \A t \in tasks' :
           \/ t \in tasks
           \/ /\ t.target <= conn.id
              /\ conn.pc = "subscribe" => t.target # conn.id
              /\ conn.gate => t.step # "send" \/ t.target # conn.id,
         hist.stream # NoStream => hist'.stream = hist.stream,
         Solo => \A p \in published' : \/ p \in published
                                       \/ /\ hot[conn.node] # NoBuffer
                                          /\ hot[conn.node].stream = p.stream
                                          /\ p.serial < hot[conn.node].next,
         Solo /\ conn.head # NoPosition /\ hot[conn.node] # NoBuffer
              /\ hot[conn.node].stream = hist.stream =>
           /\ hot'[conn.node] # NoBuffer
           /\ hot'[conn.node].stream = hot[conn.node].stream
           /\ hot'[conn.node].next >= hot[conn.node].next
  PROVE  Session'
  <1>1. Conn'
    BY SameConn DEF Session
  <1>2. Targets'
    BY TargetsKept DEF Session
  <1>3. HeadKnown' /\ Paging'
    <2>1. published' \subseteq Position /\ conn.node \in Nodes
      BY DEF Server, ServerTypes, Session, SessionTypes, Connection
    <2>2. hot'[conn.node] # NoBuffer => hot'[conn.node].next \in Nat
      BY <2>1 DEF Server, ServerTypes, Entry
    <2> QED
      BY <2>1, <2>2, KnownKept
  <1>4. SessionTypes'
    BY DEF Session, SessionTypes
  <1> QED
    BY <1>1, <1>2, <1>3, <1>4 DEF Session

(* The publisher's steps.                                                  *)
LEMMA PublishSession ==
  ASSUME Server, Session, NEW n \in Nodes, Publish(n)
  PROVE  Server' /\ Session'
  <1>1. /\ UNCHANGED <<backend, conn, client>> /\ conn.node \in Nodes /\ conn.id \in Nat
        /\ tasks \subseteq FanoutTask
    BY DEF Publish, Reserve, StoreHot, AppendHistory, AppendFails, StartFanout, Forward,
           Session, SessionTypes, Connection
  <1>2. \A m \in Nodes : hot[m] # NoBuffer => hot[m] \in Entry /\ hot[m].next \in Nat
    BY DEF Server, ServerTypes, Entry
  <1>3. Solo => conn.node = n
    BY <1>1 DEF Solo
  <1>4. ASSUME NEW p \in Position, NEW m \in Nodes
        PROVE  /\ Task(m, p, "snapshot", 0) \in FanoutTask
               /\ Task(m, p, "snapshot", 0).target <= conn.id
               /\ Task(m, p, "snapshot", 0).step # "send"
               /\ conn.pc = "subscribe" => Task(m, p, "snapshot", 0).target # conn.id
    BY <1>1 DEF Task, FanoutTask, Session, Conn, Control
  <1>5. CASE Reserve(n)
    <2>1. Server'
      BY <1>5, ReserveServer
    <2>2. UNCHANGED <<tasks, published>> /\ (hist.stream # NoStream => hist'.stream = hist.stream)
      <3>1. hist \in HistoryState
        BY DEF Server, ServerTypes
      <3> QED
        BY <1>5, <3>1 DEF Reserve, ReserveDurable, ReserveHot, HistoryState
    <2>3. Solo /\ conn.head # NoPosition => hot' = hot
      BY <1>5 DEF Reserve, ReserveDurable, Session, HeadKnown
    <2> QED
      BY <1>1, <1>2, <2>1, <2>2, <2>3, SessionSame
  <1>6. CASE StoreHot(n)
    <2>1. Server'
      BY <1>6, StoreHotServer
    <2>2. /\ UNCHANGED <<hist, tasks, published>> /\ pub[n].pc = "reserved"
          /\ hot' = [hot EXCEPT ![n] = StoreBuffer(hot[n], pub[n].pos)]
      BY <1>6 DEF StoreHot
    <2>3. /\ pub[n].pos \in Position /\ hot[n] \in Entry \cup {NoBuffer} /\ Busy(n)
          /\ hot \in [Nodes -> Entry \cup {NoBuffer}]
      BY <2>2 DEF Server, ServerTypes, Busy
    <2> DEFINE b == StoreBuffer(hot[n], pub[n].pos)
    <2>4. b \in Entry /\ b.stream = pub[n].pos.stream /\ (hot[n] # NoBuffer => b.next >= hot[n].next)
      BY <2>3, StoreFacts
    <2>5. b # NoBuffer /\ hot'[n] = b
      BY <2>2, <2>3, <2>4, NoBufferAssumption
    <2>6. Solo /\ conn.head # NoPosition => pub[n].pos.stream = hist.stream
      BY <2>3 DEF Session, HeadKnown, Server, Logged
    <2> HIDE DEF b
    <2>7. Solo /\ conn.head # NoPosition /\ hot[conn.node] # NoBuffer
              /\ hot[conn.node].stream = hist.stream =>
           /\ hot'[conn.node] # NoBuffer
           /\ hot'[conn.node].stream = hot[conn.node].stream
           /\ hot'[conn.node].next >= hot[conn.node].next
      BY <1>3, <2>4, <2>5, <2>6
    <2> QED
      BY <1>1, <2>1, <2>2, <2>7, SessionSame
  <1>7. CASE AppendHistory(n)
    <2>1. Server' /\ hist \in HistoryState
      BY <1>7, AppendServer DEF Server, ServerTypes
    <2>2. UNCHANGED <<hot, tasks, published>> /\ hist'.stream = hist.stream
      BY <1>7, <2>1 DEF AppendHistory, HistoryState
    <2> QED
      BY <1>1, <1>2, <2>1, <2>2, SessionSame
  <1>8. CASE AppendFails(n)
    <2>1. Server' /\ hist \in HistoryState
      BY <1>8, AppendFailsServer DEF Server, ServerTypes
    <2>2. UNCHANGED <<hot, tasks, published>> /\ hist'.stream = hist.stream
      BY <1>8, <2>1 DEF AppendFails, HistoryState
    <2> QED
      BY <1>1, <1>2, <2>1, <2>2, SessionSame
  <1>9. CASE StartFanout(n)
    <2> DEFINE p == pub[n].pos
               u == Task(n, p, "snapshot", 0)
    <2>1. Server'
      BY <1>9, StartFanoutServer
    <2>2. /\ UNCHANGED <<hot, hist>> /\ published' = published \cup {p} /\ tasks' = tasks \cup {u}
          /\ pub[n].pc = "appended"
      BY <1>9 DEF StartFanout
    <2>3. p \in Position
      BY <2>2 DEF Server, ServerTypes, Busy
    <2>4. hot[n] # NoBuffer /\ hot[n].stream = p.stream /\ p.serial < hot[n].next
      BY <2>2 DEF Server, StoredHot
    <2>5. /\ u \in FanoutTask /\ u.target <= conn.id /\ u.step # "send"
          /\ conn.pc = "subscribe" => u.target # conn.id
      BY <1>4, <2>3
    <2> HIDE DEF p, u
    <2>6. tasks' \subseteq FanoutTask
      BY <1>1, <2>2, <2>5
    <2> QED
      BY <1>1, <1>2, <1>3, <2>1, <2>2, <2>4, <2>5, <2>6, SessionSame
  <1>10. CASE Forward(n)
    <2> DEFINE p == pub[n].pos
    <2>1. Server'
      BY <1>10, ForwardServer
    <2>2. /\ UNCHANGED <<hot, hist, published>> /\ pub[n].pc = "sending"
          /\ tasks' = tasks \cup {Task(m, p, "snapshot", 0) : m \in Nodes \ {n}}
      BY <1>10 DEF Forward
    <2>3. p \in Position
      BY <2>2 DEF Server, ServerTypes, Busy
    <2> HIDE DEF p
    <2>4. \A t \in tasks' : t \in tasks \/ \E m \in Nodes : t = Task(m, p, "snapshot", 0)
      BY <2>2
    <2>5. \A t \in tasks' : \/ t \in tasks
                            \/ /\ t \in FanoutTask /\ t.target <= conn.id /\ t.step # "send"
                               /\ conn.pc = "subscribe" => t.target # conn.id
      BY <1>4, <2>3, <2>4
    <2>6. tasks' \subseteq FanoutTask
      BY <1>1, <2>5
    <2> QED
      BY <1>1, <1>2, <2>1, <2>2, <2>5, <2>6, SessionSame
  <1> QED
    BY <1>5, <1>6, <1>7, <1>8, <1>9, <1>10 DEF Publish

(* The connection goes away.                                               *)
LEMMA HangupSession ==
  ASSUME Session, Hangup, tasks' \subseteq tasks
  PROVE  Session'
  <1>1. conn' = NoConn(conn.id) /\ conn' \in Connection /\ client' \in ClientState
    BY HangupEffect DEF Session
  <1>2. conn.id \in Nat
    BY DEF Session, SessionTypes, Connection
  <1>3. Conn'
    BY <1>1, <1>2, ClosedConn
  <1>4. /\ conn'.id = conn.id /\ conn'.pc = "closed" /\ ~conn'.gate /\ conn'.head = NoPosition
    BY <1>1 DEF NoConn
  <1>5. Targets'
    BY <1>4, TargetsKept DEF Session
  <1>6. HeadKnown' /\ Paging'
    BY <1>4, NothingKnown
  <1> QED
    BY <1>1, <1>3, <1>5, <1>6 DEF Session, SessionTypes

(* A new connection.                                                       *)
LEMMA ConnectSession ==
  ASSUME Session, NEW n \in Nodes, Connect(n)
  PROVE  Session'
  <1>1. Conn'
    BY ConnectConn DEF Session
  <1>2. /\ conn.id \in Nat /\ conn.pc = "closed" /\ UNCHANGED <<tasks, client>>
        /\ \A t \in tasks : t.target \in Nat /\ t.target <= conn.id
    BY DEF Connect, Session, SessionTypes, Connection, FanoutTask, Targets
  <1>3. /\ conn'.id = conn.id + 1 /\ conn'.pc = "subscribe" /\ ~conn'.gate
        /\ conn'.head = NoPosition
    <2>1. NoConn(conn.id + 1) \in Connection
      BY <1>2, NoConnType
    <2> QED
      BY <2>1 DEF Connect, NoConn
  <1>4. Targets'
    BY <1>2, <1>3 DEF Targets
  <1>5. HeadKnown' /\ Paging'
    BY <1>3, NothingKnown
  <1>6. SessionTypes'
    BY <1>1, <1>2 DEF Session, SessionTypes, Conn
  <1> QED
    BY <1>1, <1>4, <1>5, <1>6 DEF Session

(* Fan-out on a node.                                                      *)
LEMMA FanoutSession ==
  ASSUME Server, Session, Fanout
  PROVE  Server' /\ Session'
  <1>1. PICK t \in tasks : Snapshot(t) \/ Split(t) \/ SendLive(t)
    BY DEF Fanout
  <1>2. /\ UNCHANGED <<backend, hist, hot, pub, published, fresh>>
    BY <1>1 DEF Snapshot, Split, SendLive
  <1>3. Server'
    BY <1>2, ServerSame DEF serverVars
  <1>4. /\ t \in FanoutTask /\ tasks \subseteq FanoutTask /\ conn \in Connection
        /\ conn.node \in Nodes /\ conn.id \in Nat /\ t.target <= conn.id
    BY DEF Session, SessionTypes, Connection, Targets
  <1>5. \A m \in Nodes : hot[m] # NoBuffer => hot[m].next \in Nat
    BY DEF Server, ServerTypes, Entry
  <1>6. CASE Snapshot(t)
    <2> DEFINE u == Task(t.node, t.pos, "split", conn.id)
    <2>1. /\ UNCHANGED <<conn, client>>
          /\ tasks' \subseteq tasks \/ (tasks' \subseteq tasks \cup {u} /\ Targeted(t.node))
      BY <1>6 DEF Snapshot
    <2>2. Targeted(t.node) => conn.pc # "subscribe"
      BY DEF Targeted, Session, Conn, Control
    <2>3. u \in FanoutTask /\ u.target <= conn.id /\ u.step # "send"
      BY <1>4 DEF Task, FanoutTask
    <2> HIDE DEF u
    <2>4. \A v \in tasks' : \/ v \in tasks
                            \/ /\ v \in FanoutTask /\ v.target <= conn.id /\ v.step # "send"
                               /\ conn.pc # "subscribe"
      BY <2>1, <2>2, <2>3
    <2>5. tasks' \subseteq FanoutTask
      BY <1>4, <2>4
    <2> QED
      BY <1>2, <1>3, <1>4, <1>5, <2>1, <2>4, <2>5, SessionSame
  <1>7. CASE Split(t)
    <2>1. CASE Gated(t) /\ ~GateFull
      <3>1. /\ conn' = [conn EXCEPT !.held = Append(conn.held, t.pos)]
            /\ tasks' = tasks \ {t} /\ UNCHANGED client
        BY <1>7, <2>1 DEF Split
      <3>2. Conn'
        BY <1>2, <1>4, <2>1, <3>1, HoldConn DEF Session, Gated, OnConnection
      <3>3. /\ conn'.id = conn.id /\ conn'.pc = conn.pc /\ conn'.gate = conn.gate
            /\ conn'.passed = conn.passed /\ conn'.head = conn.head /\ conn'.node = conn.node
            /\ conn'.want = conn.want /\ conn'.target = conn.target /\ conn'.replay = conn.replay
        BY <1>4, <3>1 DEF Connection
      <3>4. Targets'
        BY <3>1, <3>3, TargetsKept DEF Session
      <3>5. HeadKnown' /\ Paging'
        <4>1. published' \subseteq Position
          BY <1>2 DEF Server, ServerTypes
        <4> QED
          BY <1>2, <1>4, <1>5, <3>3, <4>1, KnownKept
      <3>6. SessionTypes'
        BY <1>4, <3>1, <3>2 DEF Session, SessionTypes, Conn
      <3> QED
        BY <1>3, <3>2, <3>4, <3>5, <3>6 DEF Session
    <2>2. CASE Gated(t) /\ GateFull
      <3>1. Hangup /\ tasks' \subseteq tasks
        BY <1>7, <2>2 DEF Split
      <3> QED
        BY <1>3, <3>1, HangupSession
    <2>3. CASE ~Gated(t)
      <3> DEFINE u == [t EXCEPT !.step = "send"]
      <3>1. UNCHANGED <<conn, client>> /\ tasks' = (tasks \ {t}) \cup {u}
        BY <1>7, <2>3 DEF Split
      <3>2. u \in FanoutTask /\ u.target = t.target
        BY <1>4 DEF FanoutTask
      <3>3. conn.gate => u.target # conn.id
        BY <2>3, <3>2 DEF Gated, OnConnection, Session, Conn, Control
      <3>4. conn.pc = "subscribe" => u.target # conn.id
        BY <3>2 DEF Session, Targets
      <3> HIDE DEF u
      <3>5. \A v \in tasks' : \/ v \in tasks
                              \/ /\ v \in FanoutTask /\ v.target <= conn.id
                                 /\ conn.gate => v.target # conn.id
                                 /\ conn.pc = "subscribe" => v.target # conn.id
        BY <1>4, <3>1, <3>2, <3>3, <3>4
      <3>6. tasks' \subseteq FanoutTask
        BY <1>4, <3>5
      <3> QED
        BY <1>2, <1>3, <1>4, <1>5, <3>1, <3>5, <3>6, SessionSame
    <2> QED
      BY <2>1, <2>2, <2>3
  <1>8. CASE SendLive(t)
    <2>1. tasks' \subseteq tasks /\ UNCHANGED client
      BY <1>8 DEF SendLive
    <2>2. CASE OnConnection(t)
      <3>1. conn' = [conn EXCEPT !.wire = Append(conn.wire, Frame("live", t.pos))]
        BY <1>8, <2>2 DEF SendLive
      <3>2. Conn'
        BY <1>2, <1>4, <2>2, <3>1, LiveConn DEF Session, OnConnection
      <3>3. /\ conn'.id = conn.id /\ conn'.pc = conn.pc /\ conn'.gate = conn.gate
            /\ conn'.passed = conn.passed /\ conn'.head = conn.head /\ conn'.node = conn.node
            /\ conn'.want = conn.want /\ conn'.target = conn.target /\ conn'.replay = conn.replay
        BY <1>4, <3>1 DEF Connection
      <3>4. Targets'
        BY <2>1, <3>3, TargetsKept DEF Session
      <3>5. HeadKnown' /\ Paging'
        <4>1. published' \subseteq Position
          BY <1>2 DEF Server, ServerTypes
        <4> QED
          BY <1>2, <1>4, <1>5, <3>3, <4>1, KnownKept
      <3>6. SessionTypes'
        BY <1>4, <2>1, <3>2 DEF Session, SessionTypes, Conn
      <3> QED
        BY <1>3, <3>2, <3>4, <3>5, <3>6 DEF Session
    <2>3. CASE ~OnConnection(t)
      <3>1. UNCHANGED conn
        BY <1>8, <2>3 DEF SendLive
      <3>2. tasks' \subseteq FanoutTask
        BY <1>4, <2>1
      <3> QED
        BY <1>2, <1>3, <1>4, <1>5, <2>1, <3>1, <3>2, SessionSame
    <2> QED
      BY <2>2, <2>3
  <1> QED
    BY <1>1, <1>6, <1>7, <1>8

(* Crashes, expiry and retention.                                          *)
LEMMA FaultSession ==
  ASSUME Server, Session,
         \/ \E n \in Nodes : Restart(n) \/ ExpireHot(n)
         \/ EvictRetained
  PROVE  Server' /\ Session'
  <1>1. conn \in Connection /\ conn.node \in Nodes /\ tasks \subseteq FanoutTask
    BY DEF Session, SessionTypes, Connection
  <1>2. \A m \in Nodes : hot[m] # NoBuffer => hot[m].next \in Nat
    BY DEF Server, ServerTypes, Entry
  <1>3. ASSUME NEW n \in Nodes, Restart(n) PROVE Server' /\ Session'
    <2>1. Server' /\ (hist' # hist => Solo)
      BY <1>3, RestartServer
    <2>2. /\ UNCHANGED <<backend, published>> /\ tasks' \subseteq tasks
          /\ hot' = [hot EXCEPT ![n] = NoBuffer]
          /\ IF conn.pc # "closed" /\ conn.node = n THEN Hangup ELSE UNCHANGED <<conn, client>>
      BY <1>3 DEF Restart
    <2>3. CASE conn.pc # "closed" /\ conn.node = n
      BY <2>1, <2>2, <2>3, HangupSession
    <2>4. CASE conn.pc = "closed"
      <3>1. UNCHANGED <<conn, client>>
        BY <2>2, <2>4
      <3>2. Conn'
        BY <2>2, <3>1, SameConn DEF Session
      <3>3. Targets'
        BY <2>2, <3>1, TargetsKept DEF Session
      <3>4. HeadKnown' /\ Paging'
        BY <2>4, <3>1, NothingKnown DEF Session, Conn, Control
      <3>5. SessionTypes'
        BY <1>1, <2>2, <3>1 DEF Session, SessionTypes
      <3> QED
        BY <2>1, <3>2, <3>3, <3>4, <3>5 DEF Session
    <2>5. CASE conn.pc # "closed" /\ conn.node # n
      <3>1. UNCHANGED <<conn, client>> /\ ~Solo /\ hist' = hist
        BY <1>1, <2>1, <2>2, <2>5 DEF Solo
      <3>2. tasks' \subseteq FanoutTask
        BY <1>1, <2>2
      <3> QED
        BY <1>1, <1>2, <2>1, <2>2, <3>1, <3>2, SessionSame
    <2> QED
      BY <2>3, <2>4, <2>5
  <1>4. ASSUME NEW n \in Nodes, ExpireHot(n) PROVE Server' /\ Session'
    <2>1. Server'
      BY <1>4, ExpireServer
    <2>2. /\ UNCHANGED <<backend, hist, published, tasks, conn, client>>
          /\ conn.node = n => conn.pc \in {"closed", "subscribe", "attached"}
      BY <1>4 DEF ExpireHot, Untouched
    <2>3. conn.head # NoPosition => ~Solo
      BY <1>1, <2>2 DEF Solo, Session, Conn, Control
    <2> QED
      BY <1>1, <2>1, <2>2, <2>3, SessionSame
  <1>5. ASSUME EvictRetained PROVE Server' /\ Session'
    <2>1. Server' /\ hist \in HistoryState
      BY <1>5, EvictServer DEF Server, ServerTypes
    <2>2. UNCHANGED <<backend, hot, published, tasks, conn, client>> /\ hist'.stream = hist.stream
      BY <1>5, <2>1 DEF EvictRetained, HistoryState
    <2> QED
      BY <1>1, <1>2, <2>1, <2>2, SessionSame
  <1> QED
    BY <1>3, <1>4, <1>5

(* A step of the handler that leaves the server and the gate alone.        *)
LEMMA HandlerSession ==
  ASSUME Server, Session, HandlerOnly, Conn', Paging', conn'.head = NoPosition,
         conn'.id = conn.id, conn.pc # "closed", conn'.pc # "subscribe",
         conn'.gate => conn.gate /\ conn'.passed = conn.passed
  PROVE  Server' /\ Session'
  <1>1. /\ UNCHANGED <<backend, hist, hot, pub, published, fresh>>
        /\ UNCHANGED <<tasks, client>>
    BY DEF HandlerOnly
  <1>2. Server'
    BY <1>1, ServerSame DEF serverVars
  <1>3. Targets'
    BY <1>1, TargetsKept DEF Session
  <1>4. HeadKnown'
    BY DEF HeadKnown
  <1>5. SessionTypes'
    BY <1>1 DEF Session, SessionTypes, Conn
  <1> QED
    BY <1>2, <1>3, <1>4, <1>5 DEF Session

(* Subscribing.                                                            *)
LEMMA SubscribingSession ==
  ASSUME Server, Session, Subscribe \/ CaptureHead \/ UpdateState
  PROVE  Server' /\ Session'
  <1>1. conn \in Connection /\ Conn /\ Control
    BY DEF Session, Conn
  <1>2. CASE Subscribe
    <2>1. Conn'
      BY <1>1, <1>2, SubscribeConn
    <2>2. /\ conn.pc = "subscribe" /\ HandlerOnly
          /\ conn'.id = conn.id /\ conn'.pc \in {"head", "ack"} /\ conn'.head = conn.head
      BY <1>1, <1>2 DEF Subscribe, Connection
    <2>3. UNCHANGED <<tasks, client>> /\ UNCHANGED serverVars
      BY <2>2 DEF HandlerOnly, serverVars
    <2>4. Server'
      BY <2>3, ServerSame
    <2>5. Targets'
      BY <2>2, <2>3 DEF Session, Targets
    <2>6. HeadKnown' /\ Paging'
      BY <1>1, <2>2, NothingKnown DEF Control
    <2>7. SessionTypes'
      BY <2>1, <2>3 DEF Session, SessionTypes, Conn
    <2> QED
      BY <2>1, <2>4, <2>5, <2>6, <2>7 DEF Session
  <1>3. CASE CaptureHead
    <2>1. Conn'
      BY <1>1, <1>3, CaptureHeadConn
    <2>2. /\ conn.pc = "head" /\ HandlerOnly /\ conn'.id = conn.id /\ conn'.pc = "inspect"
          /\ conn'.head = conn.head /\ conn'.gate = conn.gate /\ conn'.passed = conn.passed
      BY <1>1, <1>3 DEF CaptureHead, Connection
    <2>3. Paging' /\ conn'.head = NoPosition
      BY <1>1, <2>2 DEF Paging, Control
    <2> QED
      BY <2>1, <2>2, <2>3, HandlerSession
  <1>4. CASE UpdateState
    <2>1. Conn'
      BY <1>1, <1>4, UpdateConn
    <2>2. /\ conn.pc = "update" /\ HandlerOnly /\ conn'.id = conn.id
          /\ conn'.pc \in {"drain", "subscribed"}
          /\ conn'.head = conn.head /\ conn'.gate = conn.gate /\ conn'.passed = conn.passed
      BY <1>1, <1>4 DEF UpdateState, Connection
    <2>3. Paging' /\ conn'.head = NoPosition
      BY <1>1, <2>2 DEF Paging, Control
    <2> QED
      BY <2>1, <2>2, <2>3, HandlerSession
  <1> QED
    BY <1>2, <1>3, <1>4

(* The head is read and acknowledged.                                      *)
LEMMA HeadSession ==
  ASSUME Server, Session, InspectStream \/ AckDurable \/ AckHot
  PROVE  Server' /\ Session'
  <1>1. conn \in Connection /\ Conn /\ Control /\ conn.node \in Nodes
    BY DEF Session, Conn, Connection
  <1>2. CASE InspectStream
    <2>1. /\ conn.pc = "inspect" /\ UNCHANGED <<backend, hot, published, tasks, client>>
      BY <1>2 DEF InspectStream
    <2>2. /\ Conn' /\ InspectedHead \in PositionOrNone
          /\ conn' = [conn EXCEPT !.pc = "ack", !.head = InspectedHead]
      BY <1>1, <1>2, InspectConn
    <2>3. /\ Server'
          /\ hist'.stream # hist.stream => \A p \in published : p.stream # hist'.stream
          /\ hist'.next = hist.next /\ hist'.records = hist.records
      BY <1>2, InspectServer
    <2>4. HistoryEnabled /\ HistoryEnabled' /\ Solo' = Solo
      BY <1>1, <2>1 DEF Control, HistoryEnabled, Solo
    <2> HIDE DEF InspectedHead
    <2>5. /\ conn'.id = conn.id /\ conn'.pc = "ack" /\ conn'.gate = conn.gate
          /\ conn'.passed = conn.passed /\ conn'.head = InspectedHead
      BY <1>1, <2>2 DEF Connection
    <2>6. Targets'
      BY <2>1, <2>5, TargetsKept DEF Session
    <2>7. HeadKnown'
      <3>1. SUFFICES ASSUME conn'.head # NoPosition
                     PROVE  /\ conn'.head.stream = hist'.stream
                            /\ \A p \in published : p.stream = hist'.stream =>
                                 p.serial <= conn'.head.serial
        BY <2>1, <2>4, <2>5 DEF HeadKnown
      <3>2. /\ conn'.head = At(hist'.stream, NewestSerial)
            /\ conn'.head.stream = hist'.stream /\ conn'.head.serial = NewestSerial
        BY <2>5, <3>1 DEF InspectedHead, At
      <3>3. ASSUME NEW p \in published, p.stream = hist'.stream
            PROVE  p.serial <= NewestSerial
        <4>1. p.stream = hist.stream
          BY <2>3, <3>3
        <4> QED
          BY <2>4, <4>1, NewestCovers
      <3> QED
        BY <3>2, <3>3
    <2>8. Paging'
      BY <2>5 DEF Paging
    <2>9. SessionTypes'
      BY <2>1, <2>2 DEF Session, SessionTypes, Conn
    <2> QED
      BY <2>2, <2>3, <2>6, <2>7, <2>8, <2>9 DEF Session
  <1>3. ASSUME NEW p \in Position, AckPosition(p), conn.pc = "ack", Server',
               UNCHANGED <<backend, tasks, client>>
        PROVE  Session'
    <2>1. Conn'
      BY <1>1, <1>3, AckConn
    <2>2. /\ conn'.id = conn.id /\ conn'.pc = "update" /\ conn'.gate = conn.gate
          /\ conn'.passed = conn.passed /\ conn'.head = NoPosition
      BY <1>1, <1>3 DEF AckPosition, Connection
    <2>3. Targets'
      BY <1>3, <2>2, TargetsKept DEF Session
    <2>4. HeadKnown' /\ Paging'
      BY <2>2, NothingKnown
    <2>5. SessionTypes'
      BY <1>3, <2>1 DEF Session, SessionTypes, Conn
    <2> QED
      BY <2>1, <2>3, <2>4, <2>5 DEF Session
  <1>4. CASE AckDurable
    <2>1. Server'
      BY <1>4, AckDurableServer DEF Session
    <2>2. /\ AckPosition(conn.head) /\ conn.pc = "ack" /\ conn.head \in Position
          /\ UNCHANGED <<backend, tasks, client>>
      BY <1>1, <1>4 DEF AckDurable, Connection, PositionOrNone
    <2> QED
      BY <1>3, <2>1, <2>2
  <1>5. CASE AckHot
    <2>1. /\ Server' /\ hot'[conn.node] \in Entry /\ hot'[conn.node].next \in Nat \ {0}
      BY <1>5, AckHotServer DEF Session
    <2>2. /\ AckPosition(HeadPosition(hot'[conn.node])) /\ conn.pc = "ack"
          /\ UNCHANGED <<backend, tasks, client>>
      BY <1>5 DEF AckHot
    <2>3. HeadPosition(hot'[conn.node]) \in Position
      BY <2>1 DEF HeadPosition, Entry, Position
    <2> QED
      BY <1>3, <2>1, <2>2, <2>3
  <1> QED
    BY <1>2, <1>4, <1>5

(* Draining and the steps of a resume that only send.                      *)
LEMMA SendingSession ==
  ASSUME Server, Session,
         \/ DrainAttach \/ DrainResume \/ NothingToResume \/ SendReplayed
         \/ SendResumeFailed \/ SendResumeSuccess
  PROVE  Server' /\ Session'
  <1>1. conn \in Connection /\ Conn /\ Control
    BY DEF Session, Conn
  <1>2. CASE DrainAttach \/ DrainResume
    <2>1. PICK done : /\ DrainRound(done) /\ HandlerOnly
                      /\ \/ conn.pc = "drain" /\ done = "subscribed"
                         \/ conn.pc = "redrain" /\ done = "attached"
      BY <1>2 DEF DrainAttach, DrainResume
    <2>2. backend' = backend
      BY <2>1 DEF HandlerOnly
    <2>3. /\ Conn'
          /\ conn.held = <<>> => conn' = [conn EXCEPT !.gate = FALSE, !.pc = done]
          /\ conn.held # <<>> => conn' = [conn EXCEPT !.held = <<>>,
                                                     !.wire = conn.wire \o Drained]
      BY <1>1, <2>1, <2>2, DrainConn
    <2>4. /\ conn'.id = conn.id /\ conn'.pc \in {"drain", "redrain", "subscribed", "attached"}
          /\ conn'.head = conn.head /\ conn'.passed = conn.passed /\ (conn'.gate => conn.gate)
      BY <1>1, <2>1, <2>3 DEF Connection
    <2>5. Paging' /\ conn'.head = NoPosition
      BY <1>1, <2>1, <2>4 DEF Paging, Control
    <2> QED
      BY <2>1, <2>3, <2>4, <2>5, HandlerSession
  <1>3. CASE NothingToResume
    <2>1. Conn'
      BY <1>1, <1>3, NothingConn
    <2>2. /\ conn.pc = "subscribed" /\ HandlerOnly /\ conn'.id = conn.id /\ conn'.pc = "attached"
          /\ conn'.head = conn.head /\ conn'.gate = conn.gate /\ conn'.passed = conn.passed
      BY <1>1, <1>3 DEF NothingToResume, Connection
    <2>3. Paging' /\ conn'.head = NoPosition
      BY <1>1, <2>2 DEF Paging, Control
    <2> QED
      BY <2>1, <2>2, <2>3, HandlerSession
  <1>4. CASE SendReplayed
    <2>1. Conn'
      BY <1>1, <1>4, SendReplayedConn
    <2>2. /\ conn.pc = "answer" /\ HandlerOnly /\ conn'.id = conn.id /\ conn'.pc = "answer"
          /\ conn'.head = conn.head /\ conn'.gate = conn.gate /\ conn'.passed = conn.passed
      BY <1>1, <1>4 DEF SendReplayed, Connection
    <2>3. Paging' /\ conn'.head = NoPosition
      BY <1>1, <2>2 DEF Paging, Control
    <2> QED
      BY <2>1, <2>2, <2>3, HandlerSession
  <1>5. CASE SendResumeFailed
    <2>1. Conn'
      BY <1>1, <1>5, SendFailedConn
    <2>2. /\ conn.pc = "answer" /\ HandlerOnly /\ conn'.id = conn.id /\ conn'.pc = "success"
          /\ conn'.head = conn.head /\ conn'.gate = conn.gate /\ conn'.passed = conn.passed
      BY <1>1, <1>5 DEF SendResumeFailed, Connection
    <2>3. Paging' /\ conn'.head = NoPosition
      BY <1>1, <2>2 DEF Paging, Control
    <2> QED
      BY <2>1, <2>2, <2>3, HandlerSession
  <1>6. CASE SendResumeSuccess
    <2>1. Conn'
      BY <1>1, <1>6, SendSuccessConn
    <2>2. /\ conn.pc \in {"answer", "success"} /\ HandlerOnly /\ conn'.id = conn.id
          /\ conn'.pc = "redrain" /\ conn'.head = conn.head /\ conn'.gate = conn.gate
          /\ conn'.passed = conn.passed
      BY <1>1, <1>6 DEF SendResumeSuccess, Connection
    <2>3. Paging' /\ conn'.head = NoPosition
      BY <1>1, <2>2 DEF Paging, Control
    <2> QED
      BY <2>1, <2>2, <2>3, HandlerSession
  <1> QED
    BY <1>2, <1>3, <1>4, <1>5, <1>6

(* The steps of a resume that look for what was missed.                    *)
LEMMA LookingSession ==
  ASSUME Server, Session,
         StartResume \/ HotLookup \/ CheckState \/ FreezeHead \/ ReadPage
  PROVE  Server' /\ Session'
  <1>1. conn \in Connection /\ Conn /\ Control /\ tasks \subseteq FanoutTask /\ Paging
    BY DEF Session, Conn, SessionTypes
  <1>2. CASE StartResume
    <2>1. /\ Conn' /\ conn.pc = "subscribed"
          /\ \E q : /\ conn' = [conn EXCEPT !.gate = TRUE, !.pc = "hot", !.passed = q]
                    /\ \A t \in tasks : t.step = "send" => t.pos \in q
      BY <1>1, <1>2, StartResumeConn
    <2>2. /\ conn'.id = conn.id /\ conn'.pc = "hot" /\ conn'.head = conn.head
          /\ \A t \in tasks : t.step = "send" => t.pos \in conn'.passed
      BY <1>1, <2>1 DEF Connection
    <2>3. HandlerOnly /\ UNCHANGED <<tasks, client>> /\ UNCHANGED serverVars
      BY <1>2 DEF StartResume, HandlerOnly, serverVars
    <2>4. Server'
      BY <2>3, ServerSame
    <2>5. Targets'
      BY <2>2, <2>3 DEF Session, Targets
    <2>6. HeadKnown' /\ Paging'
      BY <1>1, <2>1, <2>2, NothingKnown DEF Control
    <2>7. SessionTypes'
      BY <2>1, <2>3 DEF Session, SessionTypes, Conn
    <2> QED
      BY <2>1, <2>4, <2>5, <2>6, <2>7 DEF Session
  <1> DEFINE Kept == /\ conn'.id = conn.id /\ conn'.head = conn.head /\ conn'.gate = conn.gate
                     /\ conn'.passed = conn.passed
  <1>3. ASSUME conn.pc \in {"hot", "state", "freeze", "page"}, HandlerOnly, Conn', Paging',
               Kept, conn'.pc \notin {"closed", "subscribe"}
        PROVE  Server' /\ Session'
    <2>1. conn'.head = NoPosition
      BY <1>1, <1>3 DEF Control
    <2> QED
      BY <1>3, <2>1, HandlerSession
  <1>4. Fails => Kept /\ conn'.pc = "answer"
    BY <1>1 DEF Fails, Connection
  <1>5. \A S : Replays(S) => Kept /\ conn'.pc = "answer"
    BY <1>1 DEF Replays, Connection
  <1>6. CASE HotLookup
    <2>1. Conn' /\ Paging'
      BY <1>1, <1>6, HotLookupConn
    <2>2. /\ conn.pc = "hot" /\ HandlerOnly
          /\ \/ Fails
             \/ \E S : Replays(S)
             \/ conn' = [conn EXCEPT !.pc = "state"]
      BY <1>6 DEF HotLookup
    <2>3. conn' = [conn EXCEPT !.pc = "state"] => Kept /\ conn'.pc = "state"
      BY <1>1 DEF Connection
    <2>4. Kept /\ conn'.pc \in {"answer", "state"}
      BY <1>4, <1>5, <2>2, <2>3
    <2> QED
      BY <1>3, <2>1, <2>2, <2>4
  <1>7. CASE CheckState
    <2>1. Conn' /\ Paging'
      BY <1>1, <1>7, CheckStateConn
    <2>2. /\ conn.pc = "state" /\ HandlerOnly
          /\ \/ Fails
             \/ conn' = [conn EXCEPT !.pc = "freeze"]
      BY <1>7 DEF CheckState
    <2>3. conn' = [conn EXCEPT !.pc = "freeze"] => Kept /\ conn'.pc = "freeze"
      BY <1>1 DEF Connection
    <2>4. Kept /\ conn'.pc \in {"answer", "freeze"}
      BY <1>4, <2>2, <2>3
    <2> QED
      BY <1>3, <2>1, <2>2, <2>4
  <1>8. CASE FreezeHead
    <2>1. Conn' /\ Paging' /\ conn'.pc \in {"answer", "page"}
      BY <1>1, <1>8, FreezeConn
    <2>2. /\ conn.pc = "freeze" /\ HandlerOnly
          /\ \/ Fails
             \/ \E S : Replays(S)
             \/ \E n : conn' = [conn EXCEPT !.pc = "page", !.target = n]
      BY <1>8 DEF FreezeHead
    <2>3. \A n : conn' = [conn EXCEPT !.pc = "page", !.target = n] => Kept
      BY <1>1 DEF Connection
    <2>4. Kept
      BY <1>4, <1>5, <2>2, <2>3
    <2> QED
      BY <1>3, <2>1, <2>2, <2>4
  <1>9. CASE ReadPage
    <2>1. Conn' /\ Paging' /\ conn'.pc \in {"answer", "page"}
      BY <1>1, <1>9, ReadPageConn
    <2>2. /\ conn.pc = "page" /\ HandlerOnly
          /\ \/ Fails
             \/ \E pc, r : conn' = [conn EXCEPT !.pc = pc, !.replay = r]
      BY <1>9 DEF ReadPage
    <2>3. \A pc, r : conn' = [conn EXCEPT !.pc = pc, !.replay = r] => Kept
      BY <1>1 DEF Connection
    <2>4. Kept
      BY <1>4, <2>2, <2>3
    <2> QED
      BY <1>3, <2>1, <2>2, <2>4
  <1> QED
    BY <1>2, <1>6, <1>7, <1>8, <1>9

-----------------------------------------------------------------------------
(* The inductive invariant, and what follows without further conditions.   *)

(* Every behaviour starts with the invariant.                              *)
LEMMA InitSession ==
  ASSUME Init
  PROVE  Server /\ Session
  <1>1. /\ EmptyHistory \in HistoryState /\ EmptyHistory.stream = NoStream
        /\ EmptyHistory.records = {} /\ EmptyHistory.next = 1
    BY DEF EmptyHistory, HistoryState
  <1>2. \A n \in Nodes : /\ hot[n] = NoBuffer /\ pub[n] = Idle /\ pub[n].pc = "idle" /\ ~Busy(n)
    BY DEF Init, Idle, Busy
  <1>3. ServerTypes
    <2>1. Idle \in Publishing
      BY DEF Idle, Publishing, PositionOrNone
    <2> QED
      BY <1>1, <1>2, <2>1 DEF Init, ServerTypes
  <1>4. Server
    BY <1>1, <1>2, <1>3 DEF Init, Server, Buffered, Logged, Unlogged, Drawn, OwnStreams,
       StoredHot, Latest, BelowHead, OneStream
  <1>5. conn = NoConn(0) /\ tasks = {} /\ client = [pos |-> NoPosition, base |-> NoPosition, got |-> {}]
    BY DEF Init
  <1>6. conn \in Connection /\ client \in ClientState
    BY <1>5, NoConnType DEF ClientState, PositionOrNone
  <1>7. /\ conn.id = 0 /\ conn.pc = "closed" /\ conn.wire = <<>> /\ conn.replay = <<>>
        /\ conn.held = <<>> /\ ~conn.member /\ ~conn.gate /\ ~conn.failed
        /\ conn.resumed = NoPosition /\ conn.acked = NoPosition /\ conn.head = NoPosition
    BY <1>5 DEF NoConn
  <1>8. Control
    BY <1>5, <1>7 DEF Control, Resuming, Answering, Attaching
  <1>9. Replayed = {}
    BY <1>7 DEF Replayed
  <1>10. Len(conn.held) = 0 /\ Len(conn.replay) = 0 /\ DOMAIN conn.replay = {}
    BY <1>7
  <1>11. Replaying
    BY <1>9, <1>10, MaxBufferSizeAssumption DEF Replaying, Follows, ReplayContiguous
  <1>12. Conn
    BY <1>6, <1>8, <1>10, <1>11, BoundsAssumption DEF Conn
  <1>13. Targets /\ HeadKnown /\ Paging
    BY <1>5, <1>7 DEF Targets, HeadKnown, Paging
  <1> QED
    BY <1>4, <1>5, <1>6, <1>12, <1>13 DEF Session, SessionTypes

(* Every step keeps the invariant.                                         *)
LEMMA NextSession ==
  ASSUME Server, Session, [Next]_vars
  PROVE  Server' /\ Session'
  <1>1. CASE UNCHANGED vars
    <2>1. UNCHANGED <<backend, hist, hot, pub, tasks, published, conn, client, fresh>>
      BY <1>1 DEF vars
    <2>2. Server'
      BY <2>1, ServerSame DEF serverVars
    <2>3. /\ tasks' \subseteq FanoutTask /\ conn.node \in Nodes
          /\ hot[conn.node] # NoBuffer => hot[conn.node].next \in Nat
      BY <2>1 DEF Session, SessionTypes, Connection, Server, ServerTypes, Entry
    <2> QED
      BY <2>1, <2>2, <2>3, SessionSame
  <1>2. CASE \E n \in Nodes : Publish(n)
    BY <1>2, PublishSession
  <1>3. CASE \E n \in Nodes : Connect(n)
    <2>1. UNCHANGED serverVars
      BY <1>3 DEF Connect, serverVars
    <2> QED
      BY <1>3, <2>1, ServerSame, ConnectSession
  <1>4. CASE (\E n \in Nodes : Restart(n) \/ ExpireHot(n)) \/ EvictRetained
    BY <1>4, FaultSession
  <1>5. CASE Fanout
    BY <1>5, FanoutSession
  <1>6. CASE Disconnect
    <2>1. Hangup /\ tasks' \subseteq tasks /\ UNCHANGED serverVars
      BY <1>6 DEF Disconnect, serverVars
    <2> QED
      BY <2>1, ServerSame, HangupSession
  <1>7. CASE Handler
    BY <1>7, SubscribingSession, HeadSession, SendingSession, LookingSession DEF Handler
  <1> QED
    BY <1>1, <1>2, <1>3, <1>4, <1>5, <1>6, <1>7 DEF Next

(* The invariant holds of every reachable state.                           *)
LEMMA Invariant == Spec => [](Server /\ Session)
  <1>1. Init => Server /\ Session
    BY InitSession
  <1>2. (Server /\ Session) /\ [Next]_vars => (Server /\ Session)'
    BY NextSession
  <1> QED
    BY <1>1, <1>2, PTL DEF Spec

(* Every variable has its type, the gate never holds more messages than    *)
(* max_messages and no replay is longer than the recovery window.          *)
THEOREM TypeCorrect == Spec => []TypeOK
  <1>1. Server /\ Session => TypeOK
    <2> SUFFICES ASSUME Server, Session PROVE TypeOK
      OBVIOUS
    <2>1. /\ conn \in Connection /\ client \in ClientState
          /\ Len(conn.held) <= GateCapacity /\ Len(conn.replay) <= MaxBufferSize
      BY DEF Session, SessionTypes, Conn, Replaying
    <2>2. /\ hot \in [Nodes -> Entry \cup {NoBuffer}] /\ hist \in HistoryState
          /\ published \subseteq Position
          /\ \A n \in Nodes : pub[n].pc # "idle" => pub[n].pos \in Position
      BY DEF Server, ServerTypes, Busy
    <2>3. \A i \in DOMAIN conn.wire : conn.wire[i].pos \in Position \cup {NoPosition}
      <3>1. \A i \in DOMAIN conn.wire : conn.wire[i] \in FrameOnWire
        BY <2>1 DEF Connection
      <3> QED
        BY <3>1 DEF FrameOnWire, PositionOrNone
    <2>4. {client.pos, conn.want, conn.acked, conn.resumed} \subseteq Position \cup {NoPosition}
      BY <2>1 DEF Connection, ClientState, PositionOrNone
    <2> QED
      BY <2>1, <2>2, <2>3, <2>4 DEF TypeOK, HistoryState, Connection
  <1> QED
    BY <1>1, Invariant, PTL

(* The replayed messages are enqueued in serial order and without a hole,  *)
(* right after the position the client asked for, whichever tier answers,  *)
(* whatever fails, crashes, expires or is published meanwhile.             *)
THEOREM ReplayGapless == Spec => []ReplayContiguous
  <1>1. Server /\ Session => ReplayContiguous
    BY DEF Session, Conn, Replaying
  <1> QED
    BY <1>1, Invariant, PTL

(* The frame enqueued last.                                                *)
LEMMA LastEnqueued ==
  ASSUME conn \in Connection, NEW f, Enqueued(<<f>>)
  PROVE  Last(conn'.wire) = f
  <1>1. Len(conn.wire) \in Nat
    BY DEF Connection
  <1>2. Len(<<f>>) = 1 /\ <<f>>[1] = f
    OBVIOUS
  <1>3. Len(conn'.wire) = Len(conn.wire) + 1 /\ conn'.wire[Len(conn.wire) + 1] = f
    BY <1>1, <1>2 DEF Enqueued
  <1> QED
    BY <1>3 DEF Last

(* A live frame enqueued behind a gate is of a message that had passed.    *)
LEMMA GateStep ==
  ASSUME Server, Session, Next, conn'.id = conn.id, conn.gate,
         conn.pc \notin {"drain", "redrain"}, Len(conn'.wire) > Len(conn.wire),
         Last(conn'.wire).kind = "live"
  PROVE  Last(conn'.wire).pos \in conn.passed
  <1>1. /\ conn \in Connection /\ Conn /\ conn.id \in Nat /\ Len(conn.wire) \in Nat
        /\ tasks \subseteq FanoutTask
    BY DEF Session, SessionTypes, Conn, Connection
  <1>2. conn'.wire # conn.wire /\ conn' # conn
    BY <1>1
  <1>3. ~Hangup
    <2>1. Hangup => Len(conn'.wire) = 0
      BY DEF Hangup, NoConn
    <2> QED
      BY <1>1, <2>1
  <1>4. \A f : Enqueued(<<f>>) => f.kind = "live"
    BY <1>1, LastEnqueued
  <1>5. CASE \E n \in Nodes : Publish(n) \/ Connect(n) \/ Restart(n) \/ ExpireHot(n)
    <2>1. PICK n \in Nodes : Publish(n) \/ Connect(n) \/ Restart(n) \/ ExpireHot(n)
      BY <1>5
    <2>2. CASE Publish(n) \/ ExpireHot(n)
      <3>1. conn' = conn
        BY <2>2 DEF Publish, Reserve, StoreHot, AppendHistory, AppendFails, StartFanout, Forward,
                    ExpireHot
      <3> QED
        BY <1>2, <3>1
    <2>3. CASE Connect(n)
      <3>1. conn'.id = conn.id + 1
        <4>1. NoConn(conn.id + 1) \in Connection
          BY <1>1, NoConnType
        <4> QED
          BY <2>3, <4>1 DEF Connect, NoConn
      <3> QED
        BY <1>1, <3>1
    <2>4. CASE Restart(n)
      BY <1>2, <1>3, <2>4 DEF Restart
    <2> QED
      BY <2>1, <2>2, <2>3, <2>4
  <1>6. CASE Disconnect \/ EvictRetained
    BY <1>2, <1>3, <1>6 DEF Disconnect, EvictRetained
  <1>7. CASE Fanout
    <2>1. PICK t \in tasks : Snapshot(t) \/ Split(t) \/ SendLive(t)
      BY <1>7 DEF Fanout
    <2>2. CASE Snapshot(t)
      BY <1>2, <2>2 DEF Snapshot
    <2>3. CASE Split(t)
      <3>1. Hangup \/ conn' = conn \/ conn' = [conn EXCEPT !.held = Append(conn.held, t.pos)]
        BY <2>3 DEF Split
      <3> QED
        BY <1>1, <1>2, <1>3, <3>1 DEF Connection
    <2>4. CASE SendLive(t)
      <3>1. /\ OnConnection(t) /\ t.step = "send" /\ backend' = backend
            /\ conn' = [conn EXCEPT !.wire = Append(conn.wire, Frame("live", t.pos))]
        BY <1>2, <2>4 DEF SendLive
      <3>2. Enqueued(<<Frame("live", t.pos)>>)
        BY <1>1, <2>1, <3>1, LiveConn DEF OnConnection
      <3>3. Last(conn'.wire) = Frame("live", t.pos)
        BY <1>1, <3>2, LastEnqueued
      <3>4. t.pos \in conn.passed
        BY <2>1, <3>1 DEF OnConnection, Session, Targets
      <3> QED
        BY <3>3, <3>4 DEF Frame
    <2> QED
      BY <2>1, <2>2, <2>3, <2>4
  <1>8. CASE Handler
    <2>1. CASE Subscribe \/ CaptureHead \/ InspectStream \/ UpdateState \/ NothingToResume
               \/ StartResume
      <3>1. conn'.wire = conn.wire
        BY <1>1, <2>1 DEF Subscribe, CaptureHead, InspectStream, UpdateState, NothingToResume,
           StartResume, Connection
      <3> QED
        BY <1>2, <3>1
    <2>2. CASE HotLookup \/ CheckState \/ FreezeHead \/ ReadPage
      <3>1. /\ Fails => conn'.wire = conn.wire
            /\ \A S : Replays(S) => conn'.wire = conn.wire
        BY <1>1 DEF Fails, Replays, Connection
      <3>2. HotLookup => \/ Fails
                         \/ \E S : Replays(S)
                         \/ conn' = [conn EXCEPT !.pc = "state"]
        BY DEF HotLookup
      <3>4. CheckState => Fails \/ conn' = [conn EXCEPT !.pc = "freeze"]
        BY DEF CheckState
      <3>5. FreezeHead => \/ Fails
                          \/ \E S : Replays(S)
                          \/ \E n : conn' = [conn EXCEPT !.pc = "page", !.target = n]
        BY DEF FreezeHead
      <3>6. ReadPage => \/ Fails
                        \/ \E pc, r : conn' = [conn EXCEPT !.pc = pc, !.replay = r]
        BY DEF ReadPage
      <3>3. conn'.wire = conn.wire
        BY <1>1, <2>2, <3>1, <3>2, <3>4, <3>5, <3>6 DEF Connection
      <3> QED
        BY <1>2, <3>3
    <2>3. CASE DrainAttach \/ DrainResume
      BY <2>3 DEF DrainAttach, DrainResume
    <2>4. CASE AckDurable \/ AckHot
      <3>1. PICK p \in Position : AckPosition(p) /\ conn.pc = "ack" /\ backend' = backend
        <4>1. CASE AckDurable
          BY <1>1, <4>1 DEF AckDurable, Connection, PositionOrNone
        <4>2. CASE AckHot
          <5>1. hot'[conn.node] \in Entry /\ hot'[conn.node].next \in Nat \ {0}
            BY <4>2, AckHotServer DEF Session
          <5>2. HeadPosition(hot'[conn.node]) \in Position
            BY <5>1 DEF HeadPosition, Entry, Position
          <5> QED
            BY <4>2, <5>2 DEF AckHot
        <4> QED
          BY <2>4, <4>1, <4>2
      <3>2. Enqueued(<<Frame("ack", p)>>)
        BY <1>1, <3>1, AckConn
      <3> QED
        BY <1>4, <3>2 DEF Frame
    <2>5. CASE SendReplayed
      <3>1. Enqueued(<<Frame("replay", Head(conn.replay))>>)
        BY <1>1, <2>5, SendReplayedConn
      <3> QED
        BY <1>4, <3>1 DEF Frame
    <2>6. CASE SendResumeFailed
      <3>1. Enqueued(<<Frame("failed", NoPosition)>>)
        BY <1>1, <2>6, SendFailedConn
      <3> QED
        BY <1>4, <3>1 DEF Frame
    <2>7. CASE SendResumeSuccess
      <3>1. \E f : f.kind = "resumed" /\ Enqueued(<<f>>)
        BY <1>1, <2>7, SendSuccessConn
      <3> QED
        BY <1>4, <3>1
    <2> QED
      BY <1>8, <2>1, <2>2, <2>3, <2>4, <2>5, <2>6, <2>7 DEF Handler
  <1> QED
    BY <1>5, <1>6, <1>7, <1>8 DEF Next

(* While a gate is open and not yet being drained, the only live messages  *)
(* enqueued on the socket are those that fan-out had let past the gate     *)
(* check before the gate of the resume opened.                             *)
THEOREM GateAlwaysHolds == Spec => GateHolds
  <1> DEFINE A == /\ conn'.id = conn.id
                  /\ conn.gate
                  /\ conn.pc \notin {"drain", "redrain"}
                  /\ Len(conn'.wire) > Len(conn.wire)
                  /\ Last(conn'.wire).kind = "live"
                  => Last(conn'.wire).pos \in conn.passed
  <1>1. (Server /\ Session) /\ [Next]_vars => [A]_vars
    BY GateStep
  <1>2. Spec => [][A]_vars
    BY <1>1, Invariant, PTL DEF Spec
  <1> QED
    BY <1>2 DEF GateHolds

-----------------------------------------------------------------------------
(* Coverage: no message is lost on its way to a subscriber.                *)

Arrives(p) == Sent(p) \/ OnItsWay(p)

(* Fan-out admits the socket.                                              *)
Joined == conn.pc # "closed" /\ conn.member /\ conn.filter

Counted == faults \in [fail : Nat, restart : Nat, expiry : Nat, eviction : Nat]

(* One node with any faults, or several without failed appends and crashes. *)
Reliable == Solo \/ (MaxFailures = 0 /\ MaxRestarts = 0)

(* The frames enqueued stay, with the same connection.                     *)
Growing ==
  /\ conn'.id = conn.id /\ conn'.node = conn.node
  /\ \A i \in DOMAIN conn.wire : i \in DOMAIN conn'.wire /\ conn'.wire[i] = conn.wire[i]

(* Frames added to the wire leave the earlier ones in place.               *)
LEMMA EnqueuedGrows ==
  ASSUME conn \in Connection, NEW g, Len(g) \in Nat, Enqueued(g)
  PROVE  \A i \in DOMAIN conn.wire : i \in DOMAIN conn'.wire /\ conn'.wire[i] = conn.wire[i]
  <1>1. Len(conn.wire) \in Nat /\ DOMAIN conn.wire = 1..Len(conn.wire)
    BY DEF Connection
  <1> QED
    BY <1>1 DEF Enqueued

(* What has arrived or is on its way stays so, as long as nothing is lost  *)
(* of the wire, of the gate, of the tasks and of the publishers.           *)
LEMMA ArrivesKept ==
  ASSUME NEW p, Growing, Arrives(p),
         \A i \in DOMAIN conn.held : conn.held[i] = p => Arrives(p)',
         \A t \in tasks : t.pos = p /\ t.node = conn.node
                          /\ (t.step = "snapshot" \/ t.target = conn.id) => Arrives(p)',
         \A n \in Nodes \ {conn.node} :
            pub[n].pc = "sending" /\ pub[n].pos = p => Arrives(p)'
  PROVE  Arrives(p)'
  <1>1. Sent(p) => Sent(p)'
    BY DEF Sent, Growing
  <1> QED
    BY <1>1 DEF Arrives, OnItsWay

(* A gate that still holds the message.                                    *)
LEMMA StillHeld ==
  ASSUME NEW p, conn'.held = conn.held
  PROVE  \A i \in DOMAIN conn.held : conn.held[i] = p => Arrives(p)'
  BY DEF Arrives, OnItsWay

(* A task that still has the message.                                      *)
LEMMA StillTasked ==
  ASSUME NEW p, tasks \subseteq tasks', conn'.node = conn.node, conn'.id = conn.id
  PROVE  \A t \in tasks : t.pos = p /\ t.node = conn.node
                          /\ (t.step = "snapshot" \/ t.target = conn.id) => Arrives(p)'
  BY DEF Arrives, OnItsWay

(* A publisher that has yet to forward the message.                        *)
LEMMA StillSending ==
  ASSUME NEW p, conn'.node = conn.node,
         \A n \in Nodes : pub[n].pc = "sending" => pub'[n] = pub[n]
  PROVE  \A n \in Nodes \ {conn.node} :
            pub[n].pc = "sending" /\ pub[n].pos = p => Arrives(p)'
  BY DEF Arrives, OnItsWay

(* A publish loses no message that was on its way to the connection, and   *)
(* the message it begins to fan out is.                                    *)
LEMMA PublishArrives ==
  ASSUME Server, Session, NEW n \in Nodes, Publish(n), Joined
  PROVE  /\ \A p : Arrives(p) => Arrives(p)'
         /\ \A p \in published' \ published : Arrives(p)'
         /\ conn' = conn
  <1>1. /\ conn' = conn /\ pub \in [Nodes -> Publishing] /\ conn.node \in Nodes
    BY DEF Publish, Reserve, StoreHot, AppendHistory, AppendFails, StartFanout, Forward,
           Server, ServerTypes, Session, SessionTypes, Connection
  <1>2. Growing
    BY <1>1 DEF Growing
  <1>3. CASE Forward(n)
    <2>1. /\ tasks' = tasks \cup {Task(m, pub[n].pos, "snapshot", 0) : m \in Nodes \ {n}}
          /\ pub' = [pub EXCEPT ![n] = Idle] /\ published' = published
      BY <1>3 DEF Forward
    <2>2. ASSUME NEW p, Arrives(p)
          PROVE  Arrives(p)'
      <3>1. ASSUME NEW m \in Nodes \ {conn.node}, pub[m].pc = "sending", pub[m].pos = p
            PROVE  Arrives(p)'
        <4>1. CASE m = n
          <5> DEFINE t == Task(conn.node, p, "snapshot", 0)
          <5>1. t \in tasks' /\ t.pos = p /\ t.node = conn.node /\ t.step = "snapshot"
            BY <1>1, <2>1, <3>1, <4>1 DEF Task
          <5> HIDE DEF t
          <5> QED
            BY <1>1, <5>1 DEF Arrives, OnItsWay
        <4>2. CASE m # n
          <5>1. pub'[m] = pub[m]
            BY <1>1, <2>1, <4>2
          <5> QED
            BY <1>1, <3>1, <5>1 DEF Arrives, OnItsWay
        <4> QED
          BY <4>1, <4>2
      <3>2. tasks \subseteq tasks'
        BY <2>1
      <3> QED
        BY <1>1, <1>2, <2>2, <3>1, <3>2, ArrivesKept, StillHeld, StillTasked
    <2> QED
      BY <1>1, <2>1, <2>2
  <1>4. CASE ~Forward(n)
    <2>1. /\ tasks \subseteq tasks' /\ pub[n].pc # "sending"
          /\ \A m \in Nodes : m # n => pub'[m] = pub[m]
      BY <1>1, <1>4 DEF Publish, Reserve, ReserveDurable, ReserveHot, StoreHot, AppendHistory,
                        AppendFails, StartFanout
    <2>2. \A p : Arrives(p) => Arrives(p)'
      BY <1>1, <1>2, <2>1, ArrivesKept, StillHeld, StillTasked, StillSending
    <2>3. CASE StartFanout(n)
      <3>5. PICK p : p = pub[n].pos
        OBVIOUS
      <3> DEFINE t == Task(n, p, "snapshot", 0)
      <3>1. /\ published' = published \cup {p} /\ t \in tasks'
            /\ pub'[n].pc = "sending" /\ pub'[n].pos = p
        BY <1>1, <2>3, <3>5 DEF StartFanout, Publishing
      <3>2. t.pos = p /\ t.node = n /\ t.step = "snapshot"
        BY DEF Task
      <3> HIDE DEF t
      <3>3. CASE n = conn.node
        <4>1. Arrives(p)'
          BY <1>1, <3>1, <3>2, <3>3 DEF Arrives, OnItsWay
        <4> QED
          BY <1>1, <2>2, <3>1, <4>1
      <3>4. CASE n # conn.node
        <4>1. Arrives(p)'
          BY <1>1, <3>1, <3>4 DEF Arrives, OnItsWay
        <4> QED
          BY <1>1, <2>2, <3>1, <4>1
      <3> QED
        BY <3>3, <3>4
    <2>4. CASE ~StartFanout(n)
      <3>1. published' = published
        BY <1>4, <2>4 DEF Publish, Reserve, StoreHot, AppendHistory, AppendFails
      <3> QED
        BY <1>1, <2>2, <3>1
    <2> QED
      BY <2>3, <2>4
  <1> QED
    BY <1>3, <1>4

(* Fan-out loses no message on its way to the connection, unless the gate  *)
(* is full and the socket shut down.                                       *)
LEMMA FanoutArrives ==
  ASSUME Session, NEW t \in tasks, Snapshot(t) \/ Split(t) \/ SendLive(t), Joined,
         conn'.pc # "closed"
  PROVE  /\ \A p : Arrives(p) => Arrives(p)'
         /\ conn'.pc = conn.pc /\ conn'.acked = conn.acked /\ conn'.resumed = conn.resumed
         /\ conn'.head = conn.head /\ conn'.want = conn.want /\ conn'.target = conn.target
         /\ conn'.failed = conn.failed /\ conn'.replay = conn.replay
         /\ conn'.node = conn.node
  <1>1. /\ conn \in Connection /\ Conn /\ t \in FanoutTask /\ pub' = pub /\ t.pos \in Position
        /\ backend' = backend /\ conn.wire \in Seq(FrameOnWire) /\ conn.held \in Seq(Position)
    BY DEF Session, SessionTypes, Conn, Connection, FanoutTask, Snapshot, Split, SendLive
  <1>2. CASE Snapshot(t)
    <2> DEFINE u == Task(t.node, t.pos, "split", conn.id)
    <2>1. /\ conn' = conn /\ t.step = "snapshot"
          /\ tasks' = IF Targeted(t.node) THEN (tasks \ {t}) \cup {u} ELSE tasks \ {t}
      BY <1>2 DEF Snapshot
    <2>2. u.pos = t.pos /\ u.node = t.node /\ u.target = conn.id
      BY DEF Task
    <2>3. t.node = conn.node => Targeted(t.node)
      BY DEF Joined, Targeted
    <2> HIDE DEF u
    <2>4. ASSUME NEW p, Arrives(p) PROVE Arrives(p)'
      <3>1. ASSUME NEW v \in tasks, v.pos = p, v.node = conn.node,
                   v.step = "snapshot" \/ v.target = conn.id
            PROVE  Arrives(p)'
        <4>1. CASE v = t
          <5>1. u \in tasks' /\ u.pos = p /\ u.node = conn.node /\ u.target = conn.id
            BY <2>1, <2>2, <2>3, <3>1, <4>1
          <5> QED
            BY <2>1, <5>1 DEF Arrives, OnItsWay
        <4>2. CASE v # t
          <5>1. v \in tasks'
            BY <2>1, <4>2
          <5> QED
            BY <2>1, <3>1, <5>1 DEF Arrives, OnItsWay
        <4> QED
          BY <4>1, <4>2
      <3>2. Growing
        BY <2>1 DEF Growing
      <3> QED
        BY <1>1, <2>1, <2>4, <3>1, <3>2, ArrivesKept, StillHeld, StillSending
    <2> QED
      BY <2>1, <2>4
  <1>3. CASE Split(t)
    <2>1. CASE Gated(t) /\ conn' = [conn EXCEPT !.held = Append(conn.held, t.pos)] /\ tasks' = tasks \ {t}
      <3> DEFINE n == Len(conn.held)
      <3>1. /\ conn'.held = Append(conn.held, t.pos) /\ conn'.wire = conn.wire
            /\ conn'.id = conn.id /\ conn'.node = conn.node
            /\ conn'.pc = conn.pc /\ conn'.acked = conn.acked /\ conn'.resumed = conn.resumed
            /\ conn'.head = conn.head /\ conn'.want = conn.want /\ conn'.target = conn.target
            /\ conn'.failed = conn.failed /\ conn'.replay = conn.replay
        BY <1>1, <2>1 DEF Connection
      <3>2. /\ \A i \in DOMAIN conn.held : i \in DOMAIN conn'.held /\ conn'.held[i] = conn.held[i]
            /\ n + 1 \in DOMAIN conn'.held /\ conn'.held[n + 1] = t.pos
        BY <1>1, <3>1
      <3> HIDE DEF n
      <3>3. Growing
        BY <3>1 DEF Growing
      <3>4. ASSUME NEW p, Arrives(p) PROVE Arrives(p)'
        <4>1. t.pos = p => Arrives(p)'
          BY <3>2 DEF Arrives, OnItsWay
        <4>2. \A i \in DOMAIN conn.held : conn.held[i] = p => Arrives(p)'
          BY <3>2 DEF Arrives, OnItsWay
        <4>3. ASSUME NEW v \in tasks, v.pos = p, v.node = conn.node,
                     v.step = "snapshot" \/ v.target = conn.id
              PROVE  Arrives(p)'
          <5>1. CASE v = t
            BY <3>1, <4>1, <4>3, <5>1
          <5>2. CASE v # t
            <6>1. v \in tasks'
              BY <2>1, <5>2
            <6> QED
              BY <3>1, <4>3, <6>1 DEF Arrives, OnItsWay
          <5> QED
            BY <5>1, <5>2
        <4> QED
          BY <1>1, <3>1, <3>3, <3>4, <4>2, <4>3, ArrivesKept, StillSending
      <3> QED
        BY <3>1, <3>4
    <2>2. CASE conn' = conn /\ tasks' = (tasks \ {t}) \cup {[t EXCEPT !.step = "send"]} /\ t.step = "split"
      <3> DEFINE u == [t EXCEPT !.step = "send"]
      <3>1. u.pos = t.pos /\ u.node = t.node /\ u.target = t.target /\ u \in tasks'
        BY <1>1, <2>2 DEF FanoutTask
      <3> HIDE DEF u
      <3>2. ASSUME NEW p, Arrives(p) PROVE Arrives(p)'
        <4>1. ASSUME NEW v \in tasks, v.pos = p, v.node = conn.node,
                     v.step = "snapshot" \/ v.target = conn.id
              PROVE  Arrives(p)'
          <5>1. CASE v = t
            BY <2>2, <3>1, <4>1, <5>1 DEF Arrives, OnItsWay
          <5>2. CASE v # t
            <6>1. v \in tasks'
              BY <2>2, <5>2
            <6> QED
              BY <2>2, <4>1, <6>1 DEF Arrives, OnItsWay
          <5> QED
            BY <5>1, <5>2
        <4>2. Growing
          BY <2>2 DEF Growing
        <4> QED
          BY <1>1, <2>2, <3>2, <4>1, <4>2, ArrivesKept, StillHeld, StillSending
      <3> QED
        BY <2>2, <3>2
    <2>3. ~Hangup
      BY DEF Hangup, NoConn
    <2> QED
      BY <1>3, <2>1, <2>2, <2>3 DEF Split
  <1>4. CASE SendLive(t)
    <2>1. CASE OnConnection(t)
      <3> DEFINE f == Frame("live", t.pos)
      <3>1. conn' = [conn EXCEPT !.wire = Append(conn.wire, f)] /\ tasks' = tasks \ {t}
        BY <1>4, <2>1 DEF SendLive
      <3>2. Enqueued(<<f>>)
        BY <1>1, <2>1, <3>1, LiveConn DEF OnConnection
      <3>3. /\ conn'.held = conn.held /\ conn'.id = conn.id /\ conn'.node = conn.node
            /\ conn'.pc = conn.pc /\ conn'.acked = conn.acked /\ conn'.resumed = conn.resumed
            /\ conn'.head = conn.head /\ conn'.want = conn.want /\ conn'.target = conn.target
            /\ conn'.failed = conn.failed /\ conn'.replay = conn.replay
        BY <1>1, <3>1 DEF Connection
      <3>4. f.kind = "live" /\ f.pos = t.pos /\ Len(<<f>>) = 1 /\ <<f>>[1] = f
        BY DEF Frame
      <3> HIDE DEF f
      <3>5. Growing
        BY <1>1, <3>2, <3>3, <3>4, EnqueuedGrows DEF Growing
      <3>6. Len(conn.wire) + 1 \in DOMAIN conn'.wire /\ conn'.wire[Len(conn.wire) + 1] = f
        <4>1. Len(conn.wire) \in Nat
          BY <1>1
        <4> QED
          BY <3>2, <3>4, <4>1 DEF Enqueued
      <3>7. Arrives(t.pos)'
        <4> DEFINE p == t.pos
                   q == Len(conn.wire) + 1
        <4>1. q \in DOMAIN conn'.wire /\ conn'.wire[q] = f
          BY <3>6
        <4> HIDE DEF p, q
        <4>2. f.pos = p
          BY <3>4 DEF p
        <4>3. Arrives(p)'
          BY <3>4, <4>1, <4>2 DEF Arrives, Sent
        <4> QED
          BY <4>3 DEF p
      <3>8. ASSUME NEW p, Arrives(p) PROVE Arrives(p)'
        <4>1. ASSUME NEW v \in tasks, v.pos = p, v.node = conn.node,
                     v.step = "snapshot" \/ v.target = conn.id
              PROVE  Arrives(p)'
          <5>1. CASE v = t
            BY <3>7, <4>1, <5>1
          <5>2. CASE v # t
            <6>1. v \in tasks'
              BY <3>1, <5>2
            <6> QED
              BY <3>3, <4>1, <6>1 DEF Arrives, OnItsWay
          <5> QED
            BY <5>1, <5>2
        <4> QED
          BY <1>1, <3>3, <3>5, <3>8, <4>1, ArrivesKept, StillHeld, StillSending
      <3> QED
        BY <3>3, <3>8
    <2>2. CASE ~OnConnection(t)
      <3>1. /\ conn' = conn /\ tasks' = tasks \ {t} /\ t.step = "send"
            /\ t.target # conn.id
        BY <1>4, <2>2 DEF SendLive, OnConnection, Joined
      <3>2. ASSUME NEW p, Arrives(p) PROVE Arrives(p)'
        <4>1. ASSUME NEW v \in tasks, v.pos = p, v.node = conn.node,
                     v.step = "snapshot" \/ v.target = conn.id
              PROVE  Arrives(p)'
          <5>1. v \in tasks'
            BY <3>1, <4>1
          <5> QED
            BY <3>1, <4>1, <5>1 DEF Arrives, OnItsWay
        <4>2. Growing
          BY <3>1 DEF Growing
        <4> QED
          BY <1>1, <3>1, <3>2, <4>1, <4>2, ArrivesKept, StillHeld, StillSending
      <3> QED
        BY <3>1, <3>2
    <2> QED
      BY <2>1, <2>2
  <1> QED
    BY <1>2, <1>3, <1>4

(* A step that leaves wire and gate alone.                                 *)
LEMMA SameStays ==
  ASSUME conn'.wire = conn.wire, conn'.id = conn.id, conn'.node = conn.node
  PROVE  Growing
  BY DEF Growing

(* The frames of a handler's step are added to the wire, and what it takes *)
(* out of the gate is among them.                                          *)
LEMMA HandlerArrives ==
  ASSUME Server, Session, Handler
  PROVE  /\ Growing
         /\ \A p : Arrives(p) => Arrives(p)'
         /\ tasks' = tasks /\ pub' = pub /\ published' = published /\ backend' = backend
         /\ faults' = faults
  <1>1. /\ conn \in Connection /\ Conn /\ Len(conn.wire) \in Nat /\ conn.held \in Seq(Position)
    BY DEF Session, Conn, Connection
  <1>2. /\ tasks' = tasks /\ pub' = pub /\ published' = published /\ backend' = backend
        /\ faults' = faults
    BY DEF Handler, HandlerOnly, Subscribe, CaptureHead, InspectStream, AckDurable, AckHot,
           UpdateState, DrainAttach, NothingToResume, StartResume, HotLookup, CheckState,
           FreezeHead, ReadPage, SendReplayed, SendResumeFailed, SendResumeSuccess, DrainResume
  <1>3. ASSUME Growing, conn'.held = conn.held
        PROVE  \A p : Arrives(p) => Arrives(p)'
    <2>1. tasks \subseteq tasks' /\ conn'.node = conn.node /\ conn'.id = conn.id
      BY <1>2, <1>3 DEF Growing
    <2> QED
      BY <1>2, <1>3, <2>1, ArrivesKept, StillHeld, StillTasked, StillSending
  <1>4. ASSUME NEW f, Enqueued(<<f>>), conn'.held = conn.held, conn'.id = conn.id,
               conn'.node = conn.node
        PROVE  Growing /\ \A p : Arrives(p) => Arrives(p)'
    <2>1. Len(<<f>>) \in Nat
      OBVIOUS
    <2>2. Growing
      BY <1>1, <1>4, <2>1, EnqueuedGrows DEF Growing
    <2> QED
      BY <1>3, <1>4, <2>2
  <1> DEFINE Same == /\ conn'.wire = conn.wire /\ conn'.held = conn.held
                     /\ conn'.id = conn.id /\ conn'.node = conn.node
  <1>5. CASE Subscribe \/ CaptureHead \/ InspectStream \/ UpdateState \/ NothingToResume
             \/ StartResume
    <2>1. CASE Subscribe
      BY <1>1, <1>2, <1>3, <2>1, SameStays DEF Subscribe, Connection
    <2>2. CASE CaptureHead
      BY <1>1, <1>2, <1>3, <2>2, SameStays DEF CaptureHead, Connection
    <2>3. CASE InspectStream
      BY <1>1, <1>2, <1>3, <2>3, SameStays DEF InspectStream, Connection
    <2>4. CASE UpdateState
      BY <1>1, <1>2, <1>3, <2>4, SameStays DEF UpdateState, Connection
    <2>5. CASE NothingToResume
      BY <1>1, <1>2, <1>3, <2>5, SameStays DEF NothingToResume, Connection
    <2>6. CASE StartResume
      BY <1>1, <1>2, <1>3, <2>6, SameStays DEF StartResume, Connection
    <2> QED
      BY <1>5, <2>1, <2>2, <2>3, <2>4, <2>5, <2>6
  <1>6. CASE HotLookup \/ CheckState \/ FreezeHead \/ ReadPage
    <2>1. Fails => Same
      BY <1>1 DEF Fails, Connection
    <2>2. ASSUME NEW S, Replays(S) PROVE Same
      BY <1>1, <2>2 DEF Replays, Connection
    <2>3. ASSUME HotLookup PROVE Same
      <3>1. Fails \/ (\E S : Replays(S)) \/ conn' = [conn EXCEPT !.pc = "state"]
        BY <2>3 DEF HotLookup
      <3>2. conn' = [conn EXCEPT !.pc = "state"] => Same
        BY <1>1 DEF Connection
      <3> QED
        BY <2>1, <2>2, <3>1, <3>2
    <2>4. ASSUME CheckState PROVE Same
      <3>1. Fails \/ conn' = [conn EXCEPT !.pc = "freeze"]
        BY <2>4 DEF CheckState
      <3>2. conn' = [conn EXCEPT !.pc = "freeze"] => Same
        BY <1>1 DEF Connection
      <3> QED
        BY <2>1, <3>1, <3>2
    <2>5. ASSUME FreezeHead PROVE Same
      <3> DEFINE n == Max(hist.records)
      <3>1. Fails \/ Replays({}) \/ conn' = [conn EXCEPT !.pc = "page", !.target = n]
        BY <2>5 DEF FreezeHead
      <3> HIDE DEF n
      <3>2. conn' = [conn EXCEPT !.pc = "page", !.target = n] => Same
        BY <1>1 DEF Connection
      <3> QED
        BY <2>1, <2>2, <3>1, <3>2
    <2>6. ASSUME ReadPage PROVE Same
      <3> DEFINE from == conn.want.serial + Len(conn.replay) + 1
                 pc == IF Page(from) # InBounds(from) THEN "page" ELSE "answer"
                 r == conn.replay \o InOrder(hist.stream, Page(from))
      <3>1. Fails \/ conn' = [conn EXCEPT !.pc = pc, !.replay = r]
        BY <2>6 DEF ReadPage
      <3> HIDE DEF pc, r
      <3>2. conn' = [conn EXCEPT !.pc = pc, !.replay = r] => Same
        BY <1>1 DEF Connection
      <3> QED
        BY <2>1, <3>1, <3>2
    <2>7. Same
      BY <1>6, <2>3, <2>4, <2>5, <2>6
    <2> QED
      BY <1>2, <1>3, <2>7, SameStays
  <1>7. CASE DrainAttach \/ DrainResume
    <2>1. PICK done : /\ DrainRound(done)
                      /\ \/ conn.pc = "drain" /\ done = "subscribed"
                         \/ conn.pc = "redrain" /\ done = "attached"
      BY <1>7 DEF DrainAttach, DrainResume
    <2>2. CASE conn.held = <<>>
      <3>1. conn' = [conn EXCEPT !.gate = FALSE, !.pc = done]
        BY <2>2, <2>1 DEF DrainRound
      <3>2. /\ conn'.wire = conn.wire /\ conn'.held = conn.held /\ conn'.id = conn.id
            /\ conn'.node = conn.node
        BY <1>1, <3>1 DEF Connection
      <3>3. Growing
        BY <3>2 DEF Growing
      <3> QED
        BY <1>2, <1>3, <3>2, <3>3
    <2>3. CASE conn.held # <<>>
      <3>1. /\ Enqueued(Drained) /\ Drained \in Seq(FrameOnWire)
            /\ conn' = [conn EXCEPT !.held = <<>>, !.wire = conn.wire \o Drained]
        <4>1. Conn /\ backend' = backend
          BY <1>1, <1>2
        <4>2. conn.held # <<>> => /\ Enqueued(Drained)
                                  /\ Drained \in Seq(FrameOnWire)
                                  /\ conn' = [conn EXCEPT !.held = <<>>,
                                                          !.wire = conn.wire \o Drained]
          BY <2>1, <4>1, DrainConn, Zenon
        <4> QED
          BY <2>3, <4>2
      <3>2. conn'.id = conn.id /\ conn'.node = conn.node
        BY <1>1, <3>1 DEF Connection
      <3>3. Len(Drained) \in Nat /\ DOMAIN Drained = 1..Len(Drained)
        BY <3>1
      <3>4. DOMAIN Drained = DOMAIN conn.held
        BY DEF Drained
      <3>5. \A i \in DOMAIN conn.held : \E k \in DOMAIN conn.held :
               Drained[k].kind = "live" /\ Drained[k].pos = conn.held[i]
        <4>1. \A i \in DOMAIN conn.held : \E k \in DOMAIN conn.held :
                 BySerial(conn.held)[k] = conn.held[i]
          BY <1>1, SortedHeld
        <4> DEFINE r == BySerial(conn.held)
        <4>2. \A k \in DOMAIN conn.held : Drained[k] = Frame("live", r[k])
          BY DEF Drained
        <4> HIDE DEF r, Drained
        <4>3. \A x : Frame("live", x).kind = "live" /\ Frame("live", x).pos = x
          BY DEF Frame
        <4>4. \A k \in DOMAIN conn.held : Drained[k].kind = "live" /\ Drained[k].pos = r[k]
          BY <4>2, <4>3
        <4> QED
          BY <4>1, <4>4 DEF r
      <3> HIDE DEF Drained
      <3>6. Growing
        BY <1>1, <3>1, <3>2, <3>3, EnqueuedGrows DEF Growing
      <3>7. ASSUME NEW p, Arrives(p) PROVE Arrives(p)'
        <4>1. ASSUME NEW i \in DOMAIN conn.held, conn.held[i] = p
              PROVE  Arrives(p)'
          <5>1. PICK k \in DOMAIN conn.held : Drained[k].kind = "live" /\ Drained[k].pos = p
            BY <3>5, <4>1
          <5>2. PICK j : j = Len(conn.wire) + k
            OBVIOUS
          <5>3. j \in DOMAIN conn'.wire /\ conn'.wire[j] = Drained[k]
            BY <1>1, <3>1, <3>3, <3>4, <5>2 DEF Enqueued
          <5> QED
            BY <5>1, <5>3 DEF Arrives, Sent
        <4>2. tasks \subseteq tasks'
          BY <1>2
        <4> QED
          BY <1>2, <3>2, <3>6, <3>7, <4>1, <4>2, ArrivesKept, StillTasked, StillSending
      <3> QED
        BY <1>2, <3>6, <3>7
    <2> QED
      BY <2>2, <2>3
  <1>8. CASE AckDurable \/ AckHot
    <2>1. PICK p \in Position : AckPosition(p) /\ conn.pc = "ack"
      <3>1. CASE AckDurable
        BY <1>1, <3>1 DEF AckDurable, Connection, PositionOrNone
      <3>2. CASE AckHot
        <4>1. hot'[conn.node] \in Entry /\ hot'[conn.node].next \in Nat \ {0}
          BY <3>2, AckHotServer DEF Session
        <4>2. HeadPosition(hot'[conn.node]) \in Position
          BY <4>1 DEF HeadPosition, Entry, Position
        <4> QED
          BY <3>2, <4>2 DEF AckHot
      <3> QED
        BY <1>8, <3>1, <3>2
    <2>2. Enqueued(<<Frame("ack", p)>>)
      BY <1>1, <1>2, <2>1, AckConn
    <2>3. conn'.held = conn.held /\ conn'.id = conn.id /\ conn'.node = conn.node
      BY <1>1, <2>1 DEF AckPosition, Connection
    <2> QED
      BY <1>2, <1>4, <2>2, <2>3
  <1>9. CASE SendReplayed
    <2>1. /\ Enqueued(<<Frame("replay", Head(conn.replay))>>)
      BY <1>1, <1>9, SendReplayedConn
    <2>2. conn'.held = conn.held /\ conn'.id = conn.id /\ conn'.node = conn.node
      BY <1>1, <1>9 DEF SendReplayed, Connection
    <2> QED
      BY <1>2, <1>4, <2>1, <2>2
  <1>10. CASE SendResumeFailed
    <2>1. Enqueued(<<Frame("failed", NoPosition)>>)
      BY <1>1, <1>10, SendFailedConn
    <2>2. conn'.held = conn.held /\ conn'.id = conn.id /\ conn'.node = conn.node
      BY <1>1, <1>10 DEF SendResumeFailed, Connection
    <2> QED
      BY <1>2, <1>4, <2>1, <2>2
  <1>11. CASE SendResumeSuccess
    <2>3. \E f : f.kind = "resumed" /\ Enqueued(<<f>>)
      <3>1. Conn
        BY <1>1
      <3> QED
        BY <1>11, <3>1, SendSuccessConn, Zenon
    <2>1. PICK f : Enqueued(<<f>>)
      BY <2>3
    <2>2. conn'.held = conn.held /\ conn'.id = conn.id /\ conn'.node = conn.node
      BY <1>1, <1>11 DEF SendResumeSuccess, Connection
    <2> QED
      BY <1>2, <1>4, <2>1, <2>2
  <1> QED
    BY <1>5, <1>6, <1>7, <1>8, <1>9, <1>10, <1>11 DEF Handler

(* The positions that the server has vouched for, or is about to.          *)
Vouched ==
  /\ HistoryEnabled => Covered(conn.acked)
  /\ Covered(conn.resumed)
  /\ Covered(conn.head)

Far == ~Solo /\ HistoryEnabled

(* The buffer of the connection's node has seen the message's serial.      *)
InReach(p) ==
  /\ hot[conn.node] # NoBuffer
  /\ hot[conn.node].stream = hist.stream
  /\ p.serial < hot[conn.node].next

(* The subscriber is acknowledged and its resume not looked up yet.        *)
Awaiting == {"update", "drain", "subscribed", "hot"}

(* Between its acknowledgement and the lookup of its resume, the subscriber *)
(* misses only what its node's buffer knows to be missing.                 *)
FarCovered ==
  Far =>
    /\ ~hist.degraded
    /\ conn.pc = "ack" /\ conn.head = NoPosition => \A p \in published : Arrives(p)
    /\ conn.pc \in Awaiting =>
         \A p \in published : Arrives(p) \/ InReach(p)

(* What comes after the frozen head arrives.                               *)
PageCovered ==
  conn.pc = "page" =>
    \A p \in published : p.stream = conn.want.stream /\ p.serial > conn.target => Arrives(p)

(* What comes after the client's position arrives or is to be replayed.    *)
AnswerCovered ==
  conn.pc = "answer" /\ ~conn.failed =>
    \A p \in published : p.stream = conn.want.stream /\ p.serial > conn.want.serial =>
      Arrives(p) \/ \E i \in DOMAIN conn.replay : conn.replay[i] = p

Coverage == Vouched /\ FarCovered /\ PageCovered /\ AnswerCovered

(* Nothing is vouched for before the subscriber has joined.                *)
LEMMA Unjoined ==
  ASSUME Session', ~Joined', Far' => ~hist'.degraded
  PROVE  Coverage'
  <1>1. /\ HistoryEnabled' => conn'.acked = NoPosition
        /\ conn'.resumed = NoPosition /\ conn'.head = NoPosition
        /\ conn'.pc \notin {"page", "answer"}
        /\ HistoryEnabled' => conn'.pc \notin {"ack", "update", "drain", "subscribed", "hot"}
    <2>1. conn' \in Connection
      BY DEF Session, Conn
    <2>2. Control' /\ HeadKnown'
      BY DEF Session, Conn
    <2>3. conn'.pc \in HandlerSteps /\ (conn'.pc = "closed" => conn'.head = NoPosition)
      BY <2>1, <2>2 DEF Connection, HeadKnown
    <2>4. CASE conn'.pc \in {"closed", "subscribe"}
      BY <2>2, <2>4 DEF Control, HeadKnown
    <2>5. CASE conn'.pc \notin {"closed", "subscribe"}
      <3>1. conn'.member /\ ~conn'.filter
        BY <2>2, <2>5 DEF Joined, Control
      <3>2. /\ conn'.pc \notin {"drain", "subscribed", "attached"} \cup Resuming
            /\ HistoryEnabled' => conn'.pc \notin {"inspect", "ack", "update"}
        BY <2>2, <3>1 DEF Control
      <3>3. conn'.pc \in {"head", "inspect", "ack", "update"}
        BY <2>3, <2>5, <3>2 DEF HandlerSteps, Resuming, Answering
      <3>4. conn'.resumed = NoPosition /\ (HistoryEnabled' => conn'.acked = NoPosition)
        BY <2>2, <3>2, <3>3 DEF Control
      <3>5. conn'.head # NoPosition => HistoryEnabled' /\ conn'.pc = "ack"
        BY <2>2 DEF HeadKnown
      <3> QED
        BY <3>2, <3>3, <3>4, <3>5
    <2> QED
      BY <2>4, <2>5
  <1>2. Vouched'
    BY <1>1 DEF Vouched, Covered
  <1>3. FarCovered'
    BY <1>1 DEF FarCovered, Far, Awaiting
  <1> QED
    BY <1>1, <1>2, <1>3 DEF Coverage, PageCovered, AnswerCovered

(* The positions vouched for stay covered.                                 *)
LEMMA VouchedKept ==
  ASSUME Vouched, \A p : Arrives(p) => Arrives(p)',
         \A p \in published' \ published : Arrives(p)', backend' = backend,
         conn'.acked = conn.acked, conn'.resumed = conn.resumed, conn'.head = conn.head
  PROVE  Vouched'
  <1>1. ASSUME NEW c, Covered(c) PROVE Covered(c)'
    BY <1>1 DEF Covered, Arrives
  <1>2. PICK a, r, h : a = conn.acked /\ r = conn.resumed /\ h = conn.head
    OBVIOUS
  <1>3. (HistoryEnabled => Covered(a)) /\ Covered(r) /\ Covered(h)
    BY <1>2 DEF Vouched
  <1>4. (HistoryEnabled' => Covered(a)') /\ Covered(r)' /\ Covered(h)'
    BY <1>1, <1>3 DEF HistoryEnabled
  <1>5. a = conn'.acked /\ r = conn'.resumed /\ h = conn'.head
    BY <1>2
  <1> QED
    BY <1>4, <1>5 DEF Vouched, Covered

(* A step of somebody else than the handler.                               *)
LEMMA CoverageKept ==
  ASSUME Coverage, \A p : Arrives(p) => Arrives(p)',
         \A p \in published' \ published : Arrives(p)', backend' = backend,
         conn'.pc = conn.pc, conn'.acked = conn.acked, conn'.resumed = conn.resumed,
         conn'.head = conn.head, conn'.want = conn.want, conn'.target = conn.target,
         conn'.failed = conn.failed, conn'.replay = conn.replay,
         Far => ~hist'.degraded,
         Far /\ conn.pc \in Awaiting =>
           \A p \in published : InReach(p) => InReach(p)'
  PROVE  Coverage'
  <1>1. Vouched'
    BY VouchedKept DEF Coverage
  <1>2. Far' = Far
    BY DEF Far, HistoryEnabled, Solo
  <1>3. FarCovered'
    <2>1. Far => /\ conn.pc = "ack" /\ conn.head = NoPosition => \A p \in published : Arrives(p)
                 /\ conn.pc \in Awaiting =>
                      \A p \in published : Arrives(p) \/ InReach(p)
      BY DEF Coverage, FarCovered
    <2>2. Far => /\ conn.pc = "ack" /\ conn.head = NoPosition => \A p \in published' : Arrives(p)'
                 /\ conn.pc \in Awaiting =>
                      \A p \in published' : Arrives(p)' \/ InReach(p)'
      BY <2>1
    <2> QED
      BY <1>2, <2>2 DEF FarCovered
  <1>4. PageCovered'
    <2>1. conn.pc = "page" =>
            \A p \in published : p.stream = conn.want.stream /\ p.serial > conn.target => Arrives(p)
      BY DEF Coverage, PageCovered
    <2>2. conn.pc = "page" =>
            \A p \in published' : p.stream = conn.want.stream /\ p.serial > conn.target => Arrives(p)'
      BY <2>1
    <2> QED
      BY <2>2 DEF PageCovered
  <1>5. AnswerCovered'
    <2>1. conn.pc = "answer" /\ ~conn.failed =>
            \A p \in published : p.stream = conn.want.stream /\ p.serial > conn.want.serial =>
               Arrives(p) \/ \E i \in DOMAIN conn.replay : conn.replay[i] = p
      BY DEF Coverage, AnswerCovered
    <2>2. conn.pc = "answer" /\ ~conn.failed =>
            \A p \in published' : p.stream = conn.want.stream /\ p.serial > conn.want.serial =>
               Arrives(p)' \/ \E i \in DOMAIN conn.replay : conn.replay[i] = p
      BY <2>1
    <2> QED
      BY <2>2 DEF AnswerCovered
  <1> QED
    BY <1>1, <1>3, <1>4, <1>5 DEF Coverage

(* With several nodes and no failed appends the stream is not degraded.    *)
LEMMA NotDegraded ==
  ASSUME Server, Coverage, Counted, Reliable, Next
  PROVE  Far => ~hist'.degraded
  <1>1. SUFFICES ASSUME Far PROVE ~hist'.degraded
    OBVIOUS
  <1>2. ~hist.degraded /\ hist \in HistoryState
    BY <1>1 DEF Coverage, FarCovered, Server, ServerTypes
  <1>3. ASSUME NEW n \in Nodes, AppendFails(n) PROVE FALSE
    <2>1. MaxFailures = 0 /\ faults["fail"] < MaxFailures /\ faults.fail \in Nat
      BY <1>1, <1>3 DEF AppendFails, Fault, Far, Reliable, Counted
    <2> QED
      BY <2>1
  <1>4. hist' = hist \/ hist' = EmptyHistory \/ hist'.degraded = hist.degraded
    <2>1. CASE \E n \in Nodes : Publish(n)
      <3>1. PICK n \in Nodes : Publish(n)
        BY <2>1
      <3>2. CASE Reserve(n)
        <4>1. CASE ReserveDurable(n, fresh')
          BY <1>2, <4>1 DEF ReserveDurable, HistoryState
        <4>2. CASE ReserveHot(n, fresh')
          BY <4>2 DEF ReserveHot
        <4> QED
          BY <3>2, <4>1, <4>2 DEF Reserve
      <3>3. CASE AppendHistory(n)
        BY <1>2, <3>3 DEF AppendHistory, HistoryState
      <3>4. CASE StoreHot(n) \/ StartFanout(n) \/ Forward(n)
        BY <3>4 DEF StoreHot, StartFanout, Forward
      <3> QED
        BY <1>3, <3>1, <3>2, <3>3, <3>4 DEF Publish
    <2>2. CASE \E n \in Nodes : Connect(n) \/ Restart(n) \/ ExpireHot(n)
      BY <2>2 DEF Connect, Restart, ExpireHot
    <2>3. CASE Disconnect \/ Fanout
      BY <2>3 DEF Disconnect, Fanout, Snapshot, Split, SendLive
    <2>4. CASE EvictRetained
      BY <1>2, <2>4 DEF EvictRetained, HistoryState
    <2>5. CASE Handler
      <3>1. CASE InspectStream
        BY <3>1, InspectServer
      <3>2. CASE ~InspectStream
        BY <2>5, <3>2 DEF Handler, HandlerOnly, Subscribe, CaptureHead, AckDurable, AckHot,
           UpdateState, DrainAttach, NothingToResume, StartResume, HotLookup, CheckState,
           FreezeHead, ReadPage, SendReplayed, SendResumeFailed, SendResumeSuccess, DrainResume
      <3> QED
        BY <3>1, <3>2
    <2> QED
      BY <2>1, <2>2, <2>3, <2>4, <2>5 DEF Next
  <1> QED
    BY <1>2, <1>4 DEF EmptyHistory

(* A step of a publish.                                                    *)
LEMMA PublishCoverage ==
  ASSUME Server, Session, Session', Coverage, Far => ~hist'.degraded,
         NEW n \in Nodes, Publish(n)
  PROVE  Coverage'
  <1>1. conn' = conn /\ backend' = backend
    BY DEF Publish, Reserve, StoreHot, AppendHistory, AppendFails, StartFanout, Forward
  <1>2. Far' = Far
    BY <1>1 DEF Far, HistoryEnabled, Solo
  <1>3. CASE ~Joined
    <2>1. ~Joined'
      BY <1>1, <1>3 DEF Joined
    <2> QED
      BY <1>2, <2>1, Unjoined
  <1>4. CASE Joined
    <2>1. /\ \A p : Arrives(p) => Arrives(p)'
          /\ \A p \in published' \ published : Arrives(p)'
      BY <1>4, PublishArrives
    <2>2. ASSUME Far, NEW p \in published, InReach(p)
          PROVE  InReach(p)'
      <3> DEFINE c == conn.node
      <3>1. /\ hist \in HistoryState /\ hot \in [Nodes -> Entry \cup {NoBuffer}] /\ c \in Nodes
            /\ pub \in [Nodes -> Publishing] /\ p.serial \in Nat
        BY DEF Server, ServerTypes, Session, SessionTypes, Connection, Position
      <3>2. hist.stream # NoStream
        <4>1. p.stream = hist.stream /\ p.stream \in Streams
          BY <2>2 DEF Server, OneStream, Far, ServerTypes, Position
        <4> QED
          BY <4>1, NoStreamAssumption
      <3>3. HistoryEnabled /\ hot[c] # NoBuffer /\ hot[c].stream = hist.stream /\ p.serial < hot[c].next
        BY <2>2 DEF Far, InReach
      <3>4. hist'.stream = hist.stream
        <4>1. Reserve(n) => ReserveDurable(n, fresh')
          BY <3>3 DEF Reserve
        <4>2. ReserveDurable(n, fresh') => hist'.stream = hist.stream
          BY <3>1, <3>2 DEF ReserveDurable, HistoryState
        <4>3. AppendHistory(n) => hist'.stream = hist.stream
          BY <3>1 DEF AppendHistory, HistoryState
        <4>4. AppendFails(n) => hist'.stream = hist.stream
          BY <3>1 DEF AppendFails, HistoryState
        <4>5. StoreHot(n) \/ StartFanout(n) \/ Forward(n) => hist' = hist
          BY DEF StoreHot, StartFanout, Forward
        <4> QED
          BY <4>1, <4>2, <4>3, <4>4, <4>5 DEF Publish
      <3>5. CASE StoreHot(n) /\ n = c
        <4> DEFINE b == hot[c]
                   q == pub[c].pos
                   d == StoreBuffer(b, q)
        <4>1. hot'[c] = d /\ q \in Position /\ q.stream = hist.stream
          BY <3>1, <3>3, <3>5 DEF StoreHot, Server, ServerTypes, Logged, Busy
        <4>2. b \in Entry /\ b # NoBuffer /\ b.next \in Nat
          BY <3>1, <3>3 DEF Entry
        <4>3. b \in Entry \cup {NoBuffer}
          BY <4>2
        <4> HIDE DEF b, q
        <4>4. d \in Entry /\ d.stream = q.stream /\ d.next >= b.next
          BY <4>1, <4>2, <4>3, StoreFacts
        <4>5. d # NoBuffer /\ d.next \in Nat
          <5> HIDE DEF d
          <5> QED
            BY <4>4, NoBufferAssumption DEF Entry
        <4> HIDE DEF d
        <4>6. p.serial < d.next
          BY <3>1, <3>3, <4>2, <4>4, <4>5 DEF b
        <4> QED
          BY <1>1, <3>4, <4>1, <4>4, <4>5, <4>6 DEF InReach
      <3>6. CASE ~(StoreHot(n) /\ n = c)
        <4>1. hot'[c] = hot[c]
          <5>1. CASE StoreHot(n)
            BY <3>1, <3>6, <5>1 DEF StoreHot
          <5>2. CASE ~StoreHot(n)
            <6>1. hot' = hot
              BY <3>3, <5>2 DEF Publish, Reserve, ReserveDurable, AppendHistory, AppendFails,
                                StartFanout, Forward
            <6> QED
              BY <6>1
          <5> QED
            BY <5>1, <5>2
        <4> QED
          BY <1>1, <3>3, <3>4, <4>1 DEF InReach
      <3> QED
        BY <3>5, <3>6
    <2> QED
      BY <1>1, <2>1, <2>2, CoverageKept
  <1> QED
    BY <1>3, <1>4

(* A step of fan-out.                                                      *)
LEMMA FanoutCoverage ==
  ASSUME Session, Session', Coverage, Fanout
  PROVE  Coverage'
  <1>1. PICK t \in tasks : Snapshot(t) \/ Split(t) \/ SendLive(t)
    BY DEF Fanout
  <1>2. /\ backend' = backend /\ hist' = hist /\ hot' = hot /\ published' = published
        /\ conn \in Connection
    BY <1>1 DEF Snapshot, Split, SendLive, Session, SessionTypes
  <1>3. Far' = Far
    BY <1>2 DEF Far, HistoryEnabled, Solo
  <1>4. Far => ~hist'.degraded
    BY <1>2 DEF Coverage, FarCovered
  <1>5. CASE ~Joined'
    BY <1>3, <1>4, <1>5, Unjoined
  <1>6. CASE Joined'
    <2>1. conn'.pc # "closed" /\ ~Hangup
      BY <1>6 DEF Joined, Hangup, NoConn
    <2>2. \/ conn' = conn
          \/ conn' = [conn EXCEPT !.held = Append(conn.held, t.pos)]
          \/ conn' = [conn EXCEPT !.wire = Append(conn.wire, Frame("live", t.pos))]
      BY <1>1, <2>1 DEF Snapshot, Split, SendLive
    <2>3. conn'.member = conn.member /\ conn'.filter = conn.filter /\ conn'.pc = conn.pc
      BY <1>2, <2>2 DEF Connection
    <2>4. Joined
      BY <1>6, <2>3 DEF Joined
    <2>5. /\ \A p : Arrives(p) => Arrives(p)'
          /\ conn'.pc = conn.pc /\ conn'.acked = conn.acked /\ conn'.resumed = conn.resumed
          /\ conn'.head = conn.head /\ conn'.want = conn.want /\ conn'.target = conn.target
          /\ conn'.failed = conn.failed /\ conn'.replay = conn.replay
          /\ conn'.node = conn.node
      BY <1>1, <2>1, <2>4, FanoutArrives
    <2>6. \A p : InReach(p) => InReach(p)'
      BY <1>2, <2>5 DEF InReach
    <2> QED
      BY <1>2, <1>4, <2>5, <2>6, CoverageKept
  <1> QED
    BY <1>5, <1>6

(* A crash, an expiry or an eviction.                                      *)
LEMMA FaultCoverage ==
  ASSUME Server, Session, Session', Coverage, Counted, Reliable, Far => ~hist'.degraded,
         (\E n \in Nodes : Restart(n) \/ ExpireHot(n)) \/ EvictRetained
  PROVE  Coverage'
  <1>1. backend' = backend /\ published' = published /\ hist \in HistoryState
    BY DEF Restart, ExpireHot, EvictRetained, Server, ServerTypes
  <1>2. Far' = Far
    BY <1>1 DEF Far, HistoryEnabled, Solo
  <1>3. CASE ~Joined'
    BY <1>2, <1>3, Unjoined
  <1>4. ASSUME conn' = conn, tasks' = tasks, pub' = pub
        PROVE  \A p : Arrives(p) => Arrives(p)'
    BY <1>4 DEF Arrives, Sent, OnItsWay
  <1>5. CASE Joined' /\ \E n \in Nodes : Restart(n)
    <2>1. PICK n \in Nodes : Restart(n)
      BY <1>5
    <2>2. conn'.pc # "closed" /\ ~Hangup
      BY <1>5 DEF Joined, Hangup, NoConn
    <2>3. conn' = conn /\ conn.node # n /\ conn.node \in Nodes
      BY <2>1, <2>2 DEF Restart, Session, SessionTypes, Connection
    <2>4. MaxRestarts = 0
      BY <2>1, <2>3 DEF Reliable, Solo
    <2>5. faults["restart"] < MaxRestarts /\ faults.restart \in Nat
      BY <2>1 DEF Restart, Fault, Counted
    <2> QED
      BY <2>4, <2>5
  <1>6. CASE Joined' /\ \E n \in Nodes : ExpireHot(n)
    <2>1. PICK n \in Nodes : ExpireHot(n)
      BY <1>6
    <2>2. conn' = conn /\ tasks' = tasks /\ pub' = pub /\ hist' = hist
      BY <2>1 DEF ExpireHot
    <2>3. conn.node \in Nodes /\ hot \in [Nodes -> Entry \cup {NoBuffer}]
      BY DEF Session, SessionTypes, Connection, Server, ServerTypes
    <2>4. conn.pc \in Awaiting => hot'[conn.node] = hot[conn.node]
      BY <2>1, <2>3 DEF ExpireHot, Untouched, Awaiting
    <2>5. conn.pc \in Awaiting =>
            \A p : InReach(p) => InReach(p)'
      BY <2>2, <2>4 DEF InReach
    <2> QED
      BY <1>1, <1>4, <2>2, <2>5, CoverageKept
  <1>7. CASE Joined' /\ EvictRetained
    <2>1. conn' = conn /\ tasks' = tasks /\ pub' = pub /\ hot' = hot /\ hist'.stream = hist.stream
      BY <1>1, <1>7 DEF EvictRetained, HistoryState
    <2>2. \A p : InReach(p) => InReach(p)'
      BY <2>1 DEF InReach
    <2> QED
      BY <1>1, <1>4, <2>1, <2>2, CoverageKept
  <1> QED
    BY <1>3, <1>5, <1>6, <1>7

(* A step of the handler that vouches for nothing new.                     *)
LEMMA QuietCoverage ==
  ASSUME Server, Session, Coverage, Handler, HandlerOnly,
         conn'.acked = conn.acked, conn'.resumed = conn.resumed, conn'.head = conn.head,
         HistoryEnabled => conn'.pc # "ack",
         HistoryEnabled /\ conn'.pc \in Awaiting => conn.pc \in Awaiting,
         PageCovered', AnswerCovered'
  PROVE  Coverage'
  <1>1. /\ \A p : Arrives(p) => Arrives(p)'
        /\ published' = published /\ backend' = backend /\ conn'.node = conn.node
    BY HandlerArrives DEF Growing
  <1>2. Vouched'
    BY <1>1, VouchedKept DEF Coverage
  <1>3. hist' = hist /\ hot' = hot
    BY DEF HandlerOnly
  <1>4. FarCovered'
    <2>1. Far' => Far /\ HistoryEnabled
      BY <1>1 DEF Far, HistoryEnabled, Solo
    <2>2. \A p : InReach(p) => InReach(p)'
      BY <1>1, <1>3 DEF InReach
    <2>3. Far => /\ ~hist.degraded
                 /\ conn.pc \in Awaiting => \A p \in published : Arrives(p) \/ InReach(p)
      BY DEF Coverage, FarCovered
    <2>4. Far' => /\ ~hist'.degraded
                  /\ conn'.pc # "ack"
                  /\ conn'.pc \in Awaiting => \A p \in published' : Arrives(p)' \/ InReach(p)'
      BY <1>1, <1>3, <2>1, <2>2, <2>3
    <2> QED
      BY <2>4 DEF FarCovered
  <1> QED
    BY <1>2, <1>4 DEF Coverage

(* The acknowledgement's checkpoint.                                       *)
LEMMA AckCoverage ==
  ASSUME Server, Session, Session', Coverage, AckDurable \/ AckHot, Far => ~hist'.degraded
  PROVE  Coverage'
  <1>1. /\ \A p : Arrives(p) => Arrives(p)'
        /\ published' = published /\ backend' = backend /\ conn'.node = conn.node
    BY HandlerArrives DEF Growing, Handler
  <1>2. /\ conn \in Connection /\ conn.node \in Nodes /\ conn.resumed = NoPosition
        /\ conn.pc = "ack" /\ hist' = hist
    BY DEF Session, SessionTypes, Conn, Control, Connection, AckDurable, AckHot
  <1>3. PICK c : /\ AckPosition(c)
                 /\ AckDurable => c = conn.head
                 /\ AckHot => c = HeadPosition(hot'[conn.node])
    BY DEF AckDurable, AckHot
  <1>4. /\ conn'.acked = c /\ conn'.resumed = NoPosition /\ conn'.head = NoPosition
        /\ conn'.pc = "update"
    BY <1>2, <1>3 DEF AckPosition, Connection
  <1>5. ASSUME HistoryEnabled PROVE Covered(c)'
    <2>1. CASE AckDurable
      <3>1. Covered(c)
        BY <1>3, <2>1 DEF Coverage, Vouched, Covered
      <3> QED
        BY <1>1, <3>1 DEF Covered, Arrives
    <2>2. CASE AckHot
      <3>1. CASE Far
        <4>1. \A p \in published : Arrives(p)
          BY <1>2, <2>2, <3>1 DEF AckHot, Coverage, FarCovered
        <4> QED
          BY <1>1, <4>1 DEF Covered, Arrives
      <3>2. CASE ~Far
        <4> DEFINE b == hot'[conn.node]
        <4>1. Server' /\ b \in Entry /\ b # NoBuffer /\ b.next \in Nat \ {0}
          BY <2>2, AckHotServer DEF Session
        <4>2. Solo'
          BY <1>5, <3>2 DEF Far, Solo
        <4>3. \A p \in published' : b.stream = p.stream => p.serial < b.next
          BY <1>2, <4>1, <4>2 DEF Server, BelowHead
        <4>4. \A p \in published' : p.serial \in Nat
          BY <4>1 DEF Server, ServerTypes, Position
        <4>5. c.stream = b.stream /\ c.serial = b.next - 1
          BY <1>3, <2>2 DEF HeadPosition
        <4> HIDE DEF b
        <4>6. \A p \in published' : p.stream = c.stream => ~(p.serial > c.serial)
          BY <4>1, <4>3, <4>4, <4>5
        <4> QED
          BY <4>6 DEF Covered
      <3> QED
        BY <3>1, <3>2
    <2> QED
      BY <2>1, <2>2
  <1>6. Vouched'
    <2>1. HistoryEnabled' => Covered(c)'
      BY <1>1, <1>5 DEF HistoryEnabled
    <2> QED
      BY <1>4, <2>1 DEF Vouched, Covered
  <1>7. FarCovered'
    <2>1. SUFFICES ASSUME Far', NEW p \in published' PROVE Arrives(p)' \/ InReach(p)'
      <3>1. Far' => ~hist'.degraded
        BY <1>1 DEF Far, HistoryEnabled, Solo
      <3> QED
        BY <1>4, <3>1 DEF FarCovered
    <2>2. Far /\ p \in published
      BY <1>1, <2>1 DEF Far, HistoryEnabled, Solo
    <2>3. CASE AckHot
      <3>1. Arrives(p)
        BY <1>2, <2>2, <2>3 DEF AckHot, Coverage, FarCovered
      <3> QED
        BY <1>1, <3>1
    <2>4. CASE AckDurable
      <3> DEFINE b == hot'[conn.node]
      <3>1. Server' /\ b # NoBuffer /\ b.next > c.serial /\ b.stream = c.stream
        BY <1>3, <2>2, <2>4, AckDurableServer DEF Session, Far
      <3>2. c # NoPosition /\ c.stream = hist.stream /\ c \in Position
        BY <1>2, <1>3, <2>4 DEF AckDurable, Session, HeadKnown, Connection, PositionOrNone
      <3>3. p.stream = hist.stream /\ p.serial \in Nat
        BY <2>2 DEF Server, OneStream, Far, ServerTypes, Position
      <3>4. CASE p.serial > c.serial
        <4>1. Arrives(p)
          BY <1>3, <2>2, <2>4, <3>2, <3>3, <3>4 DEF Coverage, Vouched, Covered, Arrives
        <4> QED
          BY <1>1, <4>1
      <3>5. CASE ~(p.serial > c.serial)
        <4>1. c.serial \in Nat /\ b.next \in Nat
          BY <1>2, <3>1, <3>2 DEF Position, Server, ServerTypes, Entry
        <4> HIDE DEF b
        <4>2. p.serial < b.next
          BY <3>1, <3>3, <3>5, <4>1
        <4>3. b.stream = hist'.stream
          BY <1>2, <3>1, <3>2
        <4> QED
          BY <1>1, <3>1, <4>2, <4>3 DEF InReach, b
      <3> QED
        BY <3>4, <3>5
    <2> QED
      BY <2>3, <2>4
  <1> QED
    BY <1>4, <1>6, <1>7 DEF Coverage, PageCovered, AnswerCovered

(* The inspection finds a head that covers what was published.             *)
LEMMA InspectCoverage ==
  ASSUME Server, Session, Coverage, InspectStream, Far => ~hist'.degraded
  PROVE  Coverage'
  <1>1. /\ \A p : Arrives(p) => Arrives(p)'
        /\ published' = published /\ backend' = backend /\ conn'.node = conn.node
    BY HandlerArrives DEF Growing, Handler
  <1>2. /\ conn \in Connection /\ HistoryEnabled /\ conn.pc = "inspect"
        /\ conn.acked = NoPosition /\ conn.resumed = NoPosition
    BY DEF Session, SessionTypes, Conn, Control, Connection, InspectStream
  <1>3. conn' = [conn EXCEPT !.pc = "ack", !.head = InspectedHead]
    BY InspectConn DEF Session
  <1> HIDE DEF InspectedHead
  <1>4. /\ conn'.pc = "ack" /\ conn'.head = InspectedHead
        /\ conn'.acked = NoPosition /\ conn'.resumed = NoPosition
    BY <1>2, <1>3 DEF Connection
  <1>5. /\ hist'.stream # hist.stream =>
             /\ Solo
             /\ \A p \in published : p.stream # hist'.stream
        /\ hist'.stream \in Streams \cup {NoStream}
        /\ hist'.degraded = hist.degraded
    BY InspectServer
  <1>6. PICK s, k : s = hist'.stream /\ k = NewestSerial
    OBVIOUS
  <1>7. InspectedHead = IF s # NoStream /\ ~hist.degraded THEN At(s, k) ELSE NoPosition
    BY <1>6 DEF InspectedHead
  <1>8. k \in Nat /\ \A p \in published : p.serial \in Nat /\ (p.stream = s => p.serial <= k)
    <2>1. /\ NewestSerial \in Nat
          /\ \A p \in published : p.stream = hist.stream => p.serial <= NewestSerial
      BY <1>2, NewestCovers
    <2>2. \A p \in published : p.serial \in Nat
      BY DEF Server, ServerTypes, Position
    <2> HIDE DEF NewestSerial
    <2> QED
      BY <1>5, <1>6, <2>1, <2>2
  <1>9. Vouched'
    <2>1. \A p \in published : p.stream = At(s, k).stream => ~(p.serial > At(s, k).serial)
      BY <1>8 DEF At
    <2> HIDE DEF At
    <2>2. Covered(conn.head)'
      BY <1>1, <1>4, <1>7, <2>1 DEF Covered
    <2> QED
      BY <1>4, <2>2 DEF Vouched, Covered
  <1>10. FarCovered'
    <2>1. SUFFICES ASSUME Far', conn'.head = NoPosition PROVE published' = {}
      <3>1. Far' => ~hist'.degraded
        BY <1>1 DEF Far, HistoryEnabled, Solo
      <3> QED
        BY <1>4, <3>1 DEF FarCovered, Awaiting
    <2>2. Far /\ ~hist.degraded
      BY <1>1, <1>5, <2>1 DEF Far, HistoryEnabled, Solo
    <2>3. s = NoStream
      <3>1. s # NoStream => At(s, k) \in Position
        BY <1>5, <1>6, <1>8 DEF At, Position
      <3> QED
        BY <1>4, <1>7, <2>1, <2>2, <3>1, NoPositionAssumption
    <2>4. hist.stream = NoStream
      BY <1>5, <1>6, <2>2, <2>3 DEF Far
    <2>5. \A p \in published : p.stream = hist.stream /\ p.stream \in Streams
      BY <2>2 DEF Server, OneStream, Far, ServerTypes, Position
    <2> QED
      BY <1>1, <2>4, <2>5, NoStreamAssumption
  <1> QED
    BY <1>4, <1>9, <1>10 DEF Coverage, PageCovered, AnswerCovered

(* The steps before and after the resume that only move the handler on.    *)
LEMMA MovingCoverage ==
  ASSUME Server, Session, Coverage,
         \/ Subscribe \/ CaptureHead \/ UpdateState \/ DrainAttach \/ NothingToResume
         \/ StartResume \/ CheckState \/ SendResumeFailed \/ DrainResume
  PROVE  Coverage'
  <1>1. conn \in Connection /\ Conn
    BY DEF Session, Conn
  <1>2. Handler /\ HandlerOnly
    BY DEF Handler, HandlerOnly, Subscribe, CaptureHead, UpdateState, DrainAttach,
           NothingToResume, StartResume, CheckState, SendResumeFailed, DrainResume
  <1> DEFINE Moved == /\ conn'.acked = conn.acked /\ conn'.resumed = conn.resumed
                      /\ conn'.head = conn.head
                      /\ HistoryEnabled => conn'.pc # "ack"
                      /\ HistoryEnabled /\ conn'.pc \in Awaiting => conn.pc \in Awaiting
                      /\ conn'.pc # "page" /\ (conn'.pc = "answer" => conn'.failed)
  <1>3. ASSUME Subscribe PROVE Moved
    BY <1>1, <1>3 DEF Subscribe, Connection, Awaiting
  <1>4. ASSUME CaptureHead PROVE Moved
    BY <1>1, <1>4 DEF CaptureHead, Connection, Awaiting
  <1>5. ASSUME UpdateState PROVE Moved
    BY <1>1, <1>5 DEF UpdateState, Connection, Awaiting
  <1>6. ASSUME NEW done, DrainRound(done),
               \/ conn.pc = "drain" /\ done = "subscribed"
               \/ conn.pc = "redrain" /\ done = "attached"
        PROVE  Moved
    <2>1. CASE conn.held = <<>>
      <3>1. conn' = [conn EXCEPT !.gate = FALSE, !.pc = done]
        BY <1>6, <2>1 DEF DrainRound
      <3> QED
        BY <1>1, <1>6, <3>1 DEF Connection, Awaiting
    <2>2. CASE conn.held # <<>>
      <3> DEFINE w == conn.wire \o [i \in DOMAIN conn.held |->
                                      Frame("live", BySerial(conn.held)[i])]
      <3>1. conn' = [conn EXCEPT !.held = <<>>, !.wire = w]
        BY <1>6, <2>2 DEF DrainRound
      <3> HIDE DEF w
      <3> QED
        BY <1>1, <1>6, <3>1 DEF Connection, Awaiting
    <2> QED
      BY <2>1, <2>2
  <1>7. ASSUME NothingToResume PROVE Moved
    BY <1>1, <1>7 DEF NothingToResume, Connection, Awaiting
  <1>8. ASSUME StartResume PROVE Moved
    BY <1>1, <1>8 DEF StartResume, Connection, Awaiting
  <1>9. ASSUME CheckState PROVE Moved
    <2>1. Fails \/ conn' = [conn EXCEPT !.pc = "freeze"]
      BY <1>9 DEF CheckState
    <2> QED
      BY <1>1, <2>1 DEF Fails, Connection, Awaiting
  <1>10. ASSUME SendResumeFailed PROVE Moved
    BY <1>1, <1>10 DEF SendResumeFailed, Connection, Awaiting
  <1>11. Moved
    BY <1>3, <1>4, <1>5, <1>6, <1>7, <1>8, <1>9, <1>10 DEF DrainAttach, DrainResume
  <1>12. PageCovered' /\ AnswerCovered'
    BY <1>11 DEF PageCovered, AnswerCovered
  <1> QED
    BY <1>2, <1>11, <1>12, QuietCoverage

(* A hot recovery replays what has not arrived.                            *)
LEMMA HotCoverage ==
  ASSUME Server, Session, Coverage, HotLookup
  PROVE  Coverage'
  <1>1. conn \in Connection /\ Conn /\ conn.pc = "hot" /\ conn.node \in Nodes /\ Handler /\ HandlerOnly
    BY DEF Session, Conn, Connection, HotLookup, Handler
  <1>2. /\ \A p : Arrives(p) => Arrives(p)'
        /\ published' = published
    BY <1>1, HandlerArrives
  <1>3. conn.want \in Position /\ conn.want.stream \in Streams /\ conn.want.serial \in Nat
    BY <1>1, Wanted DEF Resuming
  <1> DEFINE Moved == /\ conn'.acked = conn.acked /\ conn'.resumed = conn.resumed
                      /\ conn'.head = conn.head /\ conn'.want = conn.want
                      /\ conn'.pc \in {"answer", "state"}
  <1>4. Moved
    <2>1. Fails \/ (\E S : Replays(S)) \/ conn' = [conn EXCEPT !.pc = "state"]
      BY DEF HotLookup
    <2>2. Fails => Moved
      BY <1>1 DEF Fails, Connection
    <2>3. ASSUME NEW S, Replays(S) PROVE Moved
      BY <1>1, <2>3 DEF Replays, Connection
    <2>4. conn' = [conn EXCEPT !.pc = "state"] => Moved
      BY <1>1 DEF Connection
    <2> QED
      BY <2>1, <2>2, <2>3, <2>4
  <1>5. AnswerCovered'
    <2>1. SUFFICES ASSUME conn'.pc = "answer", ~conn'.failed, NEW p \in published,
                          p.stream = conn.want.stream, p.serial > conn.want.serial
                   PROVE  Arrives(p)' \/ \E i \in DOMAIN conn'.replay : conn'.replay[i] = p
      BY <1>2, <1>4 DEF AnswerCovered
    <2> DEFINE b == hot[conn.node]
    <2>2. /\ b # NoBuffer /\ b.stream = conn.want.stream /\ b.next \in Nat
          /\ \E r \in Seq(Position) :
               /\ conn' = [conn EXCEPT !.pc = "answer", !.replay = r]
               /\ \A k \in (conn.want.serial + 1)..(b.next - 1) :
                    \E i \in DOMAIN r : r[i] = At(conn.want.stream, k)
      BY <1>1, <2>1, HotLookupConn, Zenon
    <2>3. PICK r \in Seq(Position) :
               /\ conn' = [conn EXCEPT !.pc = "answer", !.replay = r]
               /\ \A k \in (conn.want.serial + 1)..(b.next - 1) :
                    \E i \in DOMAIN r : r[i] = At(conn.want.stream, k)
      BY <2>2, Zenon
    <2>4. conn'.replay = r
      BY <1>1, <2>3 DEF Connection
    <2>5. p.serial \in Nat /\ p = At(p.stream, p.serial)
      BY DEF Server, ServerTypes, Position, At
    <2>6. Arrives(p) \/ p.serial < b.next
      <3>1. CASE Far
        <4>1. Arrives(p) \/ InReach(p)
          BY <1>1, <3>1 DEF Coverage, FarCovered, Awaiting
        <4> QED
          BY <4>1 DEF InReach
      <3>2. CASE ~Far
        BY <1>1, <2>1, <2>2, <3>2 DEF Far, Server, BelowHead
      <3> QED
        BY <3>1, <3>2
    <2>7. CASE p.serial < b.next
      <3>1. p.serial \in (conn.want.serial + 1)..(b.next - 1)
        <4> HIDE DEF b
        <4> QED
          BY <1>3, <2>1, <2>2, <2>5, <2>7
      <3> QED
        BY <2>1, <2>3, <2>4, <2>5, <3>1
    <2> QED
      BY <1>2, <2>6, <2>7
  <1>6. PageCovered'
    BY <1>4 DEF PageCovered
  <1> QED
    BY <1>1, <1>4, <1>5, <1>6, QuietCoverage DEF Awaiting

(* The frozen head covers what was published, the pages what is below it.  *)
LEMMA DurableCoverage ==
  ASSUME Server, Session, Coverage, FreezeHead \/ ReadPage
  PROVE  Coverage'
  <1>1. /\ conn \in Connection /\ Conn /\ Paging /\ conn.pc \in {"freeze", "page"}
        /\ Handler /\ HandlerOnly
    BY DEF Session, Conn, FreezeHead, ReadPage, Handler
  <1>2. /\ \A p : Arrives(p) => Arrives(p)'
        /\ published' = published
    BY <1>1, HandlerArrives
  <1>3. conn.want \in Position /\ conn.want.stream \in Streams /\ conn.want.serial \in Nat
    BY <1>1, Wanted DEF Resuming
  <1>4. \A p \in published : p.serial \in Nat /\ p = At(p.stream, p.serial)
    BY DEF Server, ServerTypes, Position, At
  <1> DEFINE Moved == /\ conn'.acked = conn.acked /\ conn'.resumed = conn.resumed
                      /\ conn'.head = conn.head /\ conn'.want = conn.want
  <1>5. Fails => Moved
    BY <1>1 DEF Fails, Connection
  <1>6. CASE FreezeHead
    <2> DEFINE n == Max(hist.records)
    <2>1. Fails \/ Replays({}) \/ conn' = [conn EXCEPT !.pc = "page", !.target = n]
      BY <1>6 DEF FreezeHead
    <2> HIDE DEF n
    <2>2. Replays({}) => Moved
      BY <1>1 DEF Replays, Connection
    <2>3. conn' = [conn EXCEPT !.pc = "page", !.target = n] => Moved
      BY <1>1 DEF Connection
    <2>4. Moved
      BY <1>5, <2>1, <2>2, <2>3
    <2>5. /\ conn'.pc = "answer" /\ ~conn'.failed =>
               /\ conn.want.stream = hist.stream
               /\ \A p \in published : p.stream = hist.stream => p.serial <= conn.want.serial
          /\ conn'.pc = "page" =>
               \A p \in published : p.stream = hist.stream => p.serial <= conn'.target
          /\ conn'.pc \in {"answer", "page"} /\ Paging' /\ Conn'
      BY <1>1, <1>6, FreezeConn
    <2>6. AnswerCovered'
      BY <1>2, <1>3, <1>4, <2>4, <2>5 DEF AnswerCovered
    <2>7. PageCovered'
      <3>1. conn'.pc = "page" => conn'.want.stream = hist.stream
        BY <1>1, <2>5 DEF Paging, HandlerOnly
      <3>2. conn'.target \in Nat
        BY <2>5 DEF Conn, Connection
      <3> QED
        BY <1>2, <1>4, <2>5, <3>1, <3>2 DEF PageCovered
    <2> QED
      BY <1>1, <2>4, <2>5, <2>6, <2>7, QuietCoverage DEF Awaiting
  <1>7. CASE ReadPage
    <2> DEFINE from == conn.want.serial + Len(conn.replay) + 1
               pc == IF Page(from) # InBounds(from) THEN "page" ELSE "answer"
               r == conn.replay \o InOrder(hist.stream, Page(from))
    <2>1. Fails \/ conn' = [conn EXCEPT !.pc = pc, !.replay = r]
      BY <1>7 DEF ReadPage
    <2> HIDE DEF pc, r
    <2>2. conn' = [conn EXCEPT !.pc = pc, !.replay = r] => Moved
      BY <1>1 DEF Connection
    <2>3. Moved
      BY <1>5, <2>1, <2>2
    <2>4. /\ conn'.pc = "answer" /\ ~conn'.failed =>
               \A k \in (conn.want.serial + 1)..conn.target :
                  \E i \in DOMAIN conn'.replay : conn'.replay[i] = At(conn.want.stream, k)
          /\ conn'.pc \in {"answer", "page"}
          /\ conn'.target = conn.target
      BY <1>1, <1>7, ReadPageConn
    <2>5. \A p \in published : p.stream = conn.want.stream /\ p.serial > conn.target => Arrives(p)
      BY <1>7 DEF ReadPage, Coverage, PageCovered
    <2>6. conn.target \in Nat
      BY <1>1 DEF Connection
    <2>7. PageCovered'
      BY <1>2, <2>3, <2>4, <2>5 DEF PageCovered
    <2>8. AnswerCovered'
      <3>1. SUFFICES ASSUME conn'.pc = "answer", ~conn'.failed, NEW p \in published,
                            p.stream = conn.want.stream, p.serial > conn.want.serial
                     PROVE  Arrives(p)' \/ \E i \in DOMAIN conn'.replay : conn'.replay[i] = p
        BY <1>2, <2>3 DEF AnswerCovered
      <3>2. CASE p.serial > conn.target
        BY <1>2, <2>5, <3>1, <3>2
      <3>3. CASE ~(p.serial > conn.target)
        <4>1. p.serial \in (conn.want.serial + 1)..conn.target
          BY <1>3, <1>4, <2>6, <3>1, <3>3
        <4> QED
          BY <1>4, <2>4, <3>1, <4>1
      <3> QED
        BY <3>2, <3>3
    <2> QED
      BY <1>1, <2>3, <2>4, <2>7, <2>8, QuietCoverage DEF Awaiting
  <1> QED
    BY <1>6, <1>7

(* A replayed message has arrived; once all have, the resume is answered.  *)
LEMMA AnswerCoverage ==
  ASSUME Server, Session, Coverage, SendReplayed \/ SendResumeSuccess
  PROVE  Coverage'
  <1>1. conn \in Connection /\ Conn /\ Handler /\ HandlerOnly
    BY DEF Session, Conn, SendReplayed, SendResumeSuccess, Handler
  <1>2. /\ \A p : Arrives(p) => Arrives(p)'
        /\ published' = published /\ backend' = backend
    BY <1>1, HandlerArrives
  <1>3. CASE SendReplayed
    <2> DEFINE f == Frame("replay", Head(conn.replay))
    <2>1. /\ conn.replay \in Seq(Position) /\ conn.replay # <<>>
          /\ conn.pc = "answer" /\ ~conn.failed
          /\ conn' = [conn EXCEPT !.wire = Append(conn.wire, f), !.replay = Tail(conn.replay)]
          /\ Enqueued(<<f>>)
      BY <1>1, <1>3, SendReplayedConn
    <2>2. f.kind = "replay" /\ f.pos = conn.replay[1] /\ Len(<<f>>) = 1 /\ <<f>>[1] = f
      BY <2>1 DEF Frame
    <2> HIDE DEF f
    <2>3. /\ conn'.acked = conn.acked /\ conn'.resumed = conn.resumed /\ conn'.head = conn.head
          /\ conn'.want = conn.want /\ conn'.pc = "answer" /\ ~conn'.failed
          /\ conn'.replay = Tail(conn.replay)
      BY <1>1, <2>1 DEF Connection
    <2>4. PICK j : j = Len(conn.wire) + 1
      OBVIOUS
    <2>5. j \in DOMAIN conn'.wire /\ conn'.wire[j] = f
      <3>1. Len(conn.wire) \in Nat
        BY <1>1 DEF Connection
      <3> QED
        BY <2>1, <2>2, <2>4, <3>1 DEF Enqueued
    <2>6. ASSUME NEW p \in published, p.stream = conn.want.stream, p.serial > conn.want.serial
          PROVE  Arrives(p)' \/ \E i \in DOMAIN conn'.replay : conn'.replay[i] = p
      <3>1. Arrives(p) \/ \E i \in DOMAIN conn.replay : conn.replay[i] = p
        BY <2>1, <2>6 DEF Coverage, AnswerCovered
      <3>2. ASSUME NEW i \in DOMAIN conn.replay, conn.replay[i] = p
            PROVE  Arrives(p)' \/ \E k \in DOMAIN conn'.replay : conn'.replay[k] = p
        <4>1. CASE i = 1
          <5>1. f.pos = p
            BY <2>2, <3>2, <4>1
          <5> QED
            BY <2>2, <2>5, <5>1 DEF Arrives, Sent
        <4>2. CASE i # 1
          <5>1. i - 1 \in DOMAIN Tail(conn.replay) /\ Tail(conn.replay)[i - 1] = conn.replay[i]
            BY <2>1, <4>2
          <5> QED
            BY <2>3, <3>2, <5>1
        <4> QED
          BY <4>1, <4>2
      <3> QED
        BY <1>2, <3>1, <3>2
    <2>7. AnswerCovered'
      BY <1>2, <2>3, <2>6 DEF AnswerCovered
    <2>8. PageCovered'
      BY <2>3 DEF PageCovered
    <2> QED
      BY <1>1, <2>3, <2>7, <2>8, QuietCoverage DEF Awaiting
  <1>4. CASE SendResumeSuccess
    <2>1. PICK c : c = IF conn.failed THEN NoPosition ELSE conn.want
      OBVIOUS
    <2>2. /\ conn'.acked = conn.acked /\ conn'.head = conn.head /\ conn'.pc = "redrain"
          /\ conn'.resumed = c
      BY <1>1, <1>4, <2>1 DEF SendResumeSuccess, Connection
    <2>3. conn.pc \in {"answer", "success"} /\ (conn.pc = "answer" => conn.replay = <<>>)
          /\ (conn.pc = "success" => conn.failed)
      BY <1>4 DEF SendResumeSuccess, Session, Conn, Control
    <2>4. Covered(c)
      <3>1. CASE conn.failed
        BY <2>1, <3>1 DEF Covered
      <3>2. CASE ~conn.failed
        <4>1. conn.pc = "answer" /\ DOMAIN conn.replay = {}
          BY <2>3, <3>2
        <4>2. \A p \in published : p.stream = c.stream /\ p.serial > c.serial => Arrives(p)
          BY <2>1, <3>2, <4>1 DEF Coverage, AnswerCovered
        <4> QED
          BY <4>2 DEF Covered, Arrives
      <3> QED
        BY <3>1, <3>2
    <2>5. ASSUME NEW d, Covered(d) PROVE Covered(d)'
      BY <1>2, <2>5 DEF Covered, Arrives
    <2>6. Vouched'
      <3>1. PICK a, h : a = conn.acked /\ h = conn.head
        OBVIOUS
      <3>2. (HistoryEnabled => Covered(a)) /\ Covered(h)
        BY <3>1 DEF Coverage, Vouched
      <3>3. (HistoryEnabled' => Covered(a)') /\ Covered(h)' /\ Covered(c)'
        BY <1>2, <2>4, <2>5, <3>2 DEF HistoryEnabled
      <3>4. a = conn'.acked /\ h = conn'.head
        BY <2>2, <3>1
      <3> QED
        BY <2>2, <3>3, <3>4 DEF Vouched, Covered
    <2>7. FarCovered'
      <3>1. Far' => ~hist'.degraded
        BY <1>1, <1>2 DEF Far, HistoryEnabled, Solo, HandlerOnly, Coverage, FarCovered
      <3> QED
        BY <2>2, <3>1 DEF FarCovered, Awaiting
    <2> QED
      BY <2>2, <2>6, <2>7 DEF Coverage, PageCovered, AnswerCovered
  <1> QED
    BY <1>3, <1>4

(* Faults are counted.                                                     *)
LEMMA FaultsCounted ==
  ASSUME Server, Session, Counted, [Next]_vars
  PROVE  Counted'
  <1>1. \/ faults' = faults
        \/ \E k \in {"fail", "restart", "expiry", "eviction"} :
              faults' = [faults EXCEPT ![k] = faults[k] + 1]
    <2>1. CASE UNCHANGED vars
      BY <2>1 DEF vars
    <2>2. CASE \E n \in Nodes : Publish(n) \/ Connect(n) \/ Restart(n) \/ ExpireHot(n)
      BY <2>2 DEF Publish, Reserve, StoreHot, AppendHistory, AppendFails, StartFanout, Forward,
                  Connect, Restart, ExpireHot, Fault
    <2>3. CASE Fanout \/ Disconnect \/ EvictRetained
      BY <2>3 DEF Fanout, Snapshot, Split, SendLive, Disconnect, EvictRetained, Fault
    <2>4. CASE Handler
      BY <2>4, HandlerArrives
    <2> QED
      BY <2>1, <2>2, <2>3, <2>4 DEF Next
  <1> QED
    BY <1>1 DEF Counted

(* Coverage is kept by every step.                                         *)
LEMMA NextCoverage ==
  ASSUME Reliable, Server, Session, Counted, Coverage, [Next]_vars
  PROVE  Counted' /\ Coverage'
  <1>1. Server' /\ Session' /\ Counted'
    BY NextSession, FaultsCounted
  <1>2. CASE UNCHANGED vars
    <2>1. /\ conn' = conn /\ tasks' = tasks /\ pub' = pub /\ published' = published
          /\ hist' = hist /\ hot' = hot /\ backend' = backend
      BY <1>2 DEF vars
    <2>2. \A p : (Arrives(p) => Arrives(p)') /\ (InReach(p) => InReach(p)')
      BY <2>1 DEF Arrives, Sent, OnItsWay, InReach
    <2>3. Far => ~hist'.degraded
      BY <2>1 DEF Coverage, FarCovered
    <2> QED
      BY <1>1, <2>1, <2>2, <2>3, CoverageKept
  <1>3. CASE Next
    <2>1. Far => ~hist'.degraded
      BY <1>3, NotDegraded
    <2>2. CASE \E n \in Nodes : Publish(n)
      BY <1>1, <2>1, <2>2, PublishCoverage
    <2>3. CASE (\E n \in Nodes : Restart(n) \/ ExpireHot(n)) \/ EvictRetained
      BY <1>1, <2>1, <2>3, FaultCoverage
    <2>4. CASE Fanout
      BY <1>1, <2>4, FanoutCoverage
    <2>5. CASE Disconnect \/ \E n \in Nodes : Connect(n)
      <3>1. conn'.pc \in {"closed", "subscribe"} /\ backend' = backend
        <4>1. CASE Disconnect
          BY <4>1 DEF Disconnect, Hangup, NoConn
        <4>2. CASE \E n \in Nodes : Connect(n)
          <5>1. conn.id + 1 \in Nat
            BY DEF Session, SessionTypes, Connection
          <5>2. NoConn(conn.id + 1) \in Connection
            BY <5>1, NoConnType
          <5> QED
            BY <4>2, <5>2 DEF Connect, Connection
        <4> QED
          BY <2>5, <4>1, <4>2
      <3>2. ~Joined'
        BY <1>1, <3>1 DEF Joined, Session, Conn, Control
      <3>3. Far' => ~hist'.degraded
        BY <2>1, <3>1 DEF Far, HistoryEnabled, Solo
      <3> QED
        BY <1>1, <3>2, <3>3, Unjoined
    <2>6. CASE Handler
      BY <1>1, <2>1, <2>6, MovingCoverage, InspectCoverage, AckCoverage, HotCoverage,
         DurableCoverage, AnswerCoverage DEF Handler
    <2> QED
      BY <1>3, <2>2, <2>3, <2>4, <2>5, <2>6 DEF Next
  <1> QED
    BY <1>2, <1>3

(* The invariant with coverage.                                            *)
LEMMA CoverageInvariant ==
  ASSUME Reliable
  PROVE  Spec => [](Server /\ Session /\ Counted /\ Coverage)
  <1>1. Init => Server /\ Session /\ Counted /\ Coverage
    <2>1. Init => Server /\ Session
      BY InitSession
    <2>2. Init => Counted
      BY DEF Init, Counted
    <2>3. ASSUME Init PROVE Coverage
      <3>1. conn = NoConn(0) /\ published = {} /\ hist = EmptyHistory
        BY <2>3 DEF Init
      <3> QED
        BY <3>1 DEF Coverage, Vouched, Covered, FarCovered, PageCovered, AnswerCovered,
                    EmptyHistory
    <2> QED
      BY <2>1, <2>2, <2>3
  <1>2. /\ Server /\ Session /\ Counted /\ Coverage
        /\ [Next]_vars
        => (Server /\ Session /\ Counted /\ Coverage)'
    BY NextCoverage, NextSession
  <1> QED
    BY <1>1, <1>2, PTL DEF Spec

(* resume_success is never false on one node, whatever expires, is evicted, *)
(* fails or crashes, nor on several nodes without failed appends and       *)
(* crashes: every message published after the position the client resumed  *)
(* from is on the wire or on its way.                                      *)
THEOREM ResumesCover ==
  ASSUME Reliable
  PROVE  Spec => []ResumeCovers
  <1>1. Coverage => ResumeCovers
    BY DEF Coverage, Vouched, ResumeCovers
  <1> QED
    BY <1>1, CoverageInvariant, PTL

(* With history, and under the same conditions, the checkpoint of          *)
(* subscription_succeeded is a true starting point.                        *)
THEOREM CheckpointsCover ==
  ASSUME Reliable, "none" \notin Backends
  PROVE  Spec => []AckCovers
  <1>1. Server /\ Coverage => AckCovers
    BY DEF Server, ServerTypes, HistoryEnabled, Coverage, Vouched, AckCovers
  <1> QED
    BY <1>1, CoverageInvariant, PTL

-----------------------------------------------------------------------------
(* A single node without faults: resumes on a published stream succeed.    *)

(* A position that was handed out: its stream was drawn and, if it is the  *)
(* channel's, the replay buffer is on that stream and above the position.  *)
Known(p) ==
  /\ p.stream <= fresh
  /\ (HistoryEnabled => p.stream = hist.stream) =>
       \A n \in Nodes : /\ hot[n] # NoBuffer
                        /\ hot[n].stream = p.stream
                        /\ p.serial < hot[n].next

(* A publish has a serial that is not in the history yet.                  *)
Owed == \E n \in Nodes : pub[n].pc \in {"reserved", "stored"}

(* The history has every serial but the one that a publish still owes, and *)
(* the replay buffer is on its stream once something was stored in it.     *)
Complete ==
  HistoryEnabled =>
    /\ ~hist.degraded
    /\ hist.records = 1..(IF Owed THEN hist.next - 2 ELSE hist.next - 1)
    /\ \A p \in published : p.stream = hist.stream /\ p.serial \in hist.records
    /\ \A n \in Nodes : hot[n] # NoBuffer =>
         /\ hot[n].msgs # <<>> => hot[n].stream = hist.stream
         /\ hot[n].next <= hist.next
    /\ \A r \in hist.records, n \in Nodes :
         hot[n] # NoBuffer /\ hot[n].stream = hist.stream /\ r < hot[n].next

(* The serial that was stored last when nothing is lost.                   *)
LastStored(n) == IF pub[n].pc = "reserved" THEN hot[n].next - 2 ELSE hot[n].next - 1

(* Without history the queue holds the newest messages without a hole, as  *)
(* many as it has room for.                                                *)
Window ==
  ~HistoryEnabled =>
    /\ \A n \in Nodes : hot[n] # NoBuffer =>
         /\ Len(hot[n].msgs) =
              IF LastStored(n) < MaxBufferSize THEN LastStored(n) ELSE MaxBufferSize
         /\ \A i \in 1..Len(hot[n].msgs) :
              hot[n].msgs[i] = At(hot[n].stream, LastStored(n) - Len(hot[n].msgs) + i)
         /\ pub[n].pc = "reserved" => pub[n].pos = At(hot[n].stream, hot[n].next - 1)
    /\ \A p \in published : Known(p)

(* Every position on its way to the client, or that it holds, is known.    *)
Handed ==
  /\ client.pos # NoPosition => Known(client.pos)
  /\ conn.want # NoPosition => Known(conn.want)
  /\ \A i \in DOMAIN conn.wire : conn.wire[i].pos # NoPosition => Known(conn.wire[i].pos)
  /\ \A i \in DOMAIN conn.replay : Known(conn.replay[i])
  /\ \A i \in DOMAIN conn.held : conn.held[i] \in published
  /\ \A t \in tasks : t.pos \in published
  /\ conn.head # NoPosition => conn.head.serial < hist.next

(* What the handler has established when it looks for the messages: after  *)
(* the acknowledgement there is a buffer, and whoever asks the history     *)
(* wants more than the newest message, which the buffer would have told.   *)
Looking ==
  /\ conn.pc \in {"update", "drain", "subscribed", "hot", "state", "freeze", "page"} =>
       \A n \in Nodes : hot[n] # NoBuffer
  /\ conn.pc \in {"state", "freeze"} /\ conn.want.stream = hist.stream =>
       \A n \in Nodes : conn.want.serial + 1 < hot[n].next
  /\ conn.pc = "page" => conn.target \in hist.records

Calm == Complete /\ Window /\ Handed /\ Looking

(* Faults are counted and never taken back.                                *)
LEMMA FaultFree ==
  ASSUME Counted, Next, NoFault'
  PROVE  /\ NoFault
         /\ \A n \in Nodes : ~Restart(n) /\ ~ExpireHot(n) /\ ~AppendFails(n)
         /\ ~EvictRetained
  <1>1. /\ DOMAIN faults = {"fail", "restart", "expiry", "eviction"}
        /\ \A kind \in DOMAIN faults : faults[kind] \in Nat
    BY DEF Counted
  <1>2. ASSUME NEW kind \in {"fail", "restart", "expiry", "eviction"}, NEW bound,
               Fault(kind, bound)
        PROVE  FALSE
    <2>1. faults' = [faults EXCEPT ![kind] = faults[kind] + 1]
      BY <1>2 DEF Fault
    <2>2. kind \in DOMAIN faults' /\ faults'[kind] = faults[kind] + 1
      BY <1>1, <2>1 DEF Counted
    <2> QED
      BY <1>1, <2>2 DEF NoFault
  <1>3. /\ \A n \in Nodes : ~Restart(n) /\ ~ExpireHot(n) /\ ~AppendFails(n)
        /\ ~EvictRetained
    BY <1>2 DEF Restart, ExpireHot, AppendFails, EvictRetained
  <1>4. faults' = faults
    <2>1. CASE Fanout
      BY <2>1 DEF Fanout, Snapshot, Split, SendLive
    <2>2. CASE Handler
      BY <2>2 DEF Handler, HandlerOnly, Subscribe, CaptureHead, InspectStream, AckDurable,
                  AckHot, UpdateState, DrainAttach, NothingToResume, StartResume, HotLookup,
                  CheckState, FreezeHead, ReadPage, SendReplayed, SendResumeFailed,
                  SendResumeSuccess, DrainResume
    <2>3. CASE Disconnect
      BY <2>3 DEF Disconnect
    <2>4. ASSUME NEW n \in Nodes, Publish(n) \/ Connect(n)
          PROVE  faults' = faults
      BY <1>3, <2>4 DEF Publish, Connect, Reserve, StoreHot, AppendHistory, StartFanout, Forward
    <2> QED
      BY <1>3, <2>1, <2>2, <2>3, <2>4 DEF Next
  <1> QED
    BY <1>3, <1>4 DEF NoFault

(* How far the methods of the buffer raise its head.                       *)
LEMMA RaisedNext ==
  ASSUME NEW b \in Entry \cup {NoBuffer}, NEW p \in Position
  PROVE  LET top == IF b = NoBuffer \/ b.next < p.serial + 1 THEN p.serial + 1 ELSE b.next
         IN  AdoptPosition(b, p).next = top /\ StoreBuffer(b, p).next = top
  <1>1. p.serial \in Nat
    BY DEF Position
  <1>2. CASE b = NoBuffer
    BY <1>1, <1>2 DEF AdoptPosition, StoreBuffer, GetOrInsert, NewChannelBuffer, RaiseNextSerial
  <1>3. CASE b # NoBuffer
    <2>1. b \in Entry /\ b.next \in Nat
      BY <1>3 DEF Entry
    <2>2. AdoptPosition(b, p).next = IF b.next < p.serial + 1 THEN p.serial + 1 ELSE b.next
      BY <1>1, <1>3, <2>1 DEF AdoptPosition, GetOrInsert, RaiseNextSerial, Entry
    <2>3. StoreBuffer(b, p).next = IF b.next < p.serial + 1 THEN p.serial + 1 ELSE b.next
      BY <1>1, <1>3, <2>1 DEF StoreBuffer, GetOrInsert, RaiseNextSerial, Entry
    <2> QED
      BY <1>3, <2>2, <2>3
  <1> QED
    BY <1>2, <1>3

(* A message stored on the buffer's stream goes to the end of the queue,   *)
(* and the oldest goes when there is no room.                              *)
LEMMA StoredLast ==
  ASSUME NEW b \in Entry, NEW p \in Position, b.stream = p.stream,
         Len(b.msgs) <= MaxBufferSize
  PROVE  LET q == b.msgs
             r == StoreBuffer(b, p).msgs
         IN  /\ Len(r) = IF Len(q) < MaxBufferSize THEN Len(q) + 1 ELSE MaxBufferSize
             /\ r[Len(r)] = p
             /\ \A i \in 1..(Len(r) - 1) :
                  r[i] = IF Len(q) < MaxBufferSize THEN q[i] ELSE q[i + 1]
  <1> DEFINE q == b.msgs
             d == DropOldest(q)
  <1>1. /\ q \in Seq(Position) /\ Len(q) \in Nat /\ b # NoBuffer
        /\ MaxBufferSize \in Nat \ {0}
    BY MaxBufferSizeAssumption, NoBufferAssumption DEF Entry
  <1>2. StoreBuffer(b, p).msgs = Append(d, p)
    <2>1. GetOrInsert(b, p.stream, p.serial + 1) = b
      BY <1>1 DEF GetOrInsert
    <2>2. [b EXCEPT !.stream = p.stream, !.msgs = Append(d, p)].msgs = Append(d, p)
      BY DEF Entry
    <2>3. StoreBuffer(b, p) =
            RaiseNextSerial([b EXCEPT !.stream = p.stream, !.msgs = Append(d, p)], p.serial + 1)
      BY <2>1 DEF StoreBuffer
    <2>4. DOMAIN [b EXCEPT !.stream = p.stream, !.msgs = Append(d, p)] = {"stream", "next", "msgs"}
      BY DEF Entry
    <2> HIDE DEF d
    <2> QED
      BY <2>2, <2>3, <2>4 DEF RaiseNextSerial
  <1>3. d \in Seq(Position)
    BY <1>1, DropOldestFacts
  <1>4. CASE Len(q) < MaxBufferSize
    <2>1. d = q
      BY <1>4 DEF DropOldest
    <2> HIDE DEF d, q
    <2>2. Len(Append(d, p)) = Len(q) + 1 /\ Append(d, p)[Len(q) + 1] = p
          /\ \A i \in 1..Len(q) : Append(d, p)[i] = q[i]
      BY <1>1, <2>1
    <2> QED
      BY <1>1, <1>2, <1>4, <2>2 DEF q
  <1>5. CASE ~(Len(q) < MaxBufferSize)
    <2>1. Len(q) = MaxBufferSize
      BY <1>1, <1>5 DEF q
    <2>2. d = SubSeq(q, 2, Len(q))
      <3>1. Len(q) - MaxBufferSize + 2 = 2
        BY <1>1, <2>1
      <3> QED
        BY <1>5, <3>1 DEF DropOldest
    <2> HIDE DEF d, q
    <2>3. Len(d) = MaxBufferSize - 1 /\ \A i \in 1..(MaxBufferSize - 1) : d[i] = q[i + 1]
      BY <1>1, <2>1, <2>2
    <2>4. Len(Append(d, p)) = MaxBufferSize /\ Append(d, p)[MaxBufferSize] = p
          /\ \A i \in 1..(MaxBufferSize - 1) : Append(d, p)[i] = d[i]
      BY <1>1, <1>3, <2>3
    <2> QED
      BY <1>1, <1>2, <1>5, <2>1, <2>3, <2>4 DEF q
  <1> QED
    BY <1>4, <1>5

(* What was known stays known.                                             *)
LEMMA KnownStays ==
  ASSUME Server, backend' = backend, fresh' \in Nat, fresh <= fresh',
         hist'.stream = hist.stream \/ (hist'.stream \in Nat /\ hist'.stream > fresh),
         \A n \in Nodes :
           hot[n] # NoBuffer /\ (HistoryEnabled => hot[n].stream = hist.stream) =>
             /\ hot'[n] # NoBuffer /\ hot'[n].stream = hot[n].stream
             /\ hot'[n].next \in Nat /\ hot[n].next <= hot'[n].next
  PROVE  \A p \in Position : Known(p) => Known(p)'
  <1> SUFFICES ASSUME NEW p \in Position, Known(p) PROVE Known(p)'
    OBVIOUS
  <1>1. p.stream \in Nat /\ p.serial \in Nat /\ fresh \in Nat /\ p.stream <= fresh
    BY BoundsAssumption DEF Position, Server, ServerTypes, Known
  <1>2. HistoryEnabled' = HistoryEnabled
    BY DEF HistoryEnabled
  <1>3. ASSUME HistoryEnabled => p.stream = hist'.stream, NEW n \in Nodes
        PROVE  hot'[n] # NoBuffer /\ hot'[n].stream = p.stream /\ p.serial < hot'[n].next
    <2>1. HistoryEnabled => p.stream = hist.stream
      BY <1>1, <1>3
    <2>2. hot[n] # NoBuffer /\ hot[n].stream = p.stream /\ p.serial < hot[n].next
      BY <2>1 DEF Known
    <2>3. hot[n].next \in Nat
      BY <2>2 DEF Server, ServerTypes, Entry
    <2> QED
      BY <1>1, <2>1, <2>2, <2>3
  <1>4. p.stream <= fresh'
    BY <1>1
  <1> QED
    BY <1>2, <1>3, <1>4 DEF Known

(* The positions of a session.                                             *)
LEMMA Positions ==
  ASSUME SessionTypes
  PROVE  /\ client.pos \in PositionOrNone /\ conn.want \in PositionOrNone
         /\ conn.head \in PositionOrNone /\ conn.pc \in HandlerSteps /\ conn.node \in Nodes
         /\ \A i \in DOMAIN conn.wire : conn.wire[i] \in FrameOnWire
         /\ \A i \in DOMAIN conn.wire : conn.wire[i].pos \in PositionOrNone
         /\ \A i \in DOMAIN conn.replay : conn.replay[i] \in Position
         /\ \A i \in DOMAIN conn.held : conn.held[i] \in Position
  <1>1. /\ client.pos \in PositionOrNone /\ conn.want \in PositionOrNone
        /\ conn.head \in PositionOrNone /\ conn.pc \in HandlerSteps /\ conn.node \in Nodes
        /\ conn.wire \in Seq(FrameOnWire) /\ conn.replay \in Seq(Position)
        /\ conn.held \in Seq(Position)
    BY DEF SessionTypes, ClientState, Connection
  <1>2. \A i \in DOMAIN conn.wire : conn.wire[i] \in FrameOnWire
    BY <1>1
  <1>3. \A i \in DOMAIN conn.wire : conn.wire[i].pos \in PositionOrNone
    BY <1>2 DEF FrameOnWire
  <1> QED
    BY <1>1, <1>2, <1>3

(* A step that leaves the connection alone and moves the server forward.   *)
LEMMA ForwardCalm ==
  ASSUME Handed, Looking, Server, SessionTypes, Conn,
         UNCHANGED <<conn, client>>,
         \A p \in Position : Known(p) => Known(p)',
         hist'.stream = hist.stream \/ (hist'.stream \in Nat /\ hist'.stream > fresh),
         \A n \in Nodes : hot[n] # NoBuffer =>
           hot'[n] # NoBuffer /\ hot'[n].next \in Nat /\ hot[n].next <= hot'[n].next,
         hist'.next \in Nat, hist.next <= hist'.next, hist.records \subseteq hist'.records,
         published \subseteq published', \A t \in tasks' : t.pos \in published'
  PROVE  Handed' /\ Looking'
  <1>1. /\ conn \in Connection /\ client \in ClientState /\ conn' = conn /\ client' = client
        /\ hist.next \in Nat /\ fresh \in Nat
    BY DEF SessionTypes, Server, ServerTypes, HistoryState
  <1>2. /\ client.pos \in PositionOrNone /\ conn.want \in PositionOrNone
        /\ conn.head \in PositionOrNone /\ conn.pc \in HandlerSteps
        /\ \A i \in DOMAIN conn.wire : conn.wire[i].pos \in PositionOrNone
        /\ \A i \in DOMAIN conn.replay : conn.replay[i] \in Position
    BY Positions
  <1>3. client'.pos # NoPosition => Known(client.pos)'
    <2>1. PICK p : p = client.pos
      OBVIOUS
    <2>2. p = client'.pos
      BY <1>1, <2>1
    <2>3. p # NoPosition => Known(p) /\ p \in Position
      BY <1>2, <2>1 DEF Handed, PositionOrNone
    <2>4. p # NoPosition => Known(p)'
      BY <2>3
    <2> QED
      BY <2>2, <2>4
  <1>4. conn'.want # NoPosition => Known(conn.want)'
    <2>1. PICK p : p = conn.want
      OBVIOUS
    <2>2. p = conn'.want
      BY <1>1, <2>1
    <2>3. p # NoPosition => Known(p) /\ p \in Position
      BY <1>2, <2>1 DEF Handed, PositionOrNone
    <2>4. p # NoPosition => Known(p)'
      BY <2>3
    <2> QED
      BY <2>2, <2>4
  <1>5. ASSUME NEW i \in DOMAIN conn'.wire, conn'.wire[i].pos # NoPosition
        PROVE  Known(conn.wire[i].pos)'
    <2>1. PICK p : p = conn.wire[i].pos
      OBVIOUS
    <2>2. p = conn'.wire[i].pos
      BY <1>1, <2>1
    <2>3. Known(p) /\ p \in Position
      BY <1>1, <1>2, <1>5, <2>1 DEF Handed, PositionOrNone
    <2>4. Known(p)'
      BY <2>3
    <2> QED
      BY <2>2, <2>4
  <1>6. ASSUME NEW i \in DOMAIN conn'.replay
        PROVE  Known(conn.replay[i])'
    <2>1. PICK p : p = conn.replay[i]
      OBVIOUS
    <2>2. p = conn'.replay[i]
      BY <1>1, <2>1
    <2>3. Known(p) /\ p \in Position
      BY <1>1, <1>2, <1>6, <2>1 DEF Handed
    <2>4. Known(p)'
      BY <2>3
    <2> QED
      BY <2>2, <2>4
  <1>7. conn'.head # NoPosition => conn'.head.serial < hist'.next
    <2>1. conn.head # NoPosition => conn.head.serial < hist.next /\ conn.head.serial \in Nat
      BY <1>2 DEF Handed, PositionOrNone, Position
    <2> QED
      BY <1>1, <2>1
  <1>8. Handed'
    BY <1>1, <1>3, <1>4, <1>5, <1>6, <1>7 DEF Handed
  <1>9. ASSUME conn.pc \in {"state", "freeze"}, conn.want.stream = hist'.stream,
               NEW n \in Nodes
        PROVE  conn.want.serial + 1 < hot'[n].next
    <2>1. conn.want \in Position /\ conn.want # NoPosition /\ HistoryEnabled
      BY <1>2, <1>9 DEF Conn, Control, Resuming, PositionOrNone
    <2>2. Known(conn.want) /\ conn.want.stream \in Nat /\ conn.want.serial \in Nat
      BY <2>1, BoundsAssumption DEF Handed, Position
    <2>3. conn.want.stream = hist.stream
      BY <1>1, <1>9, <2>2 DEF Known
    <2>4. conn.want.serial + 1 < hot[n].next /\ hot[n] # NoBuffer
      BY <1>9, <2>3 DEF Looking
    <2>5. hot[n].next \in Nat /\ hot'[n].next \in Nat /\ hot[n].next <= hot'[n].next
      BY <2>4 DEF Server, ServerTypes, Entry
    <2> QED
      BY <2>2, <2>4, <2>5
  <1>10. Looking'
    BY <1>1, <1>9 DEF Looking
  <1> QED
    BY <1>8, <1>10

(* A durable reservation.                                                  *)
LEMMA ReserveDurableCalm ==
  ASSUME Solo, Server, Session, Calm, NEW n \in Nodes, Reserve(n), HistoryEnabled
  PROVE  Calm'
  <1>1. /\ ReserveDurable(n, fresh') /\ fresh' \in Streams \cup {0}
        /\ pub[n].pc = "idle"
        /\ UNCHANGED <<backend, published, hot, tasks, conn, client>>
    BY DEF Reserve, ReserveDurable
  <1>2. /\ ServerTypes /\ Drawn /\ fresh \in Nat /\ hist \in HistoryState
        /\ hist.next \in Nat \ {0} /\ hist.stream \in Streams \cup {NoStream}
        /\ hist.records \subseteq 1..MaxSerial
    BY DEF Server, ServerTypes, HistoryState
  <1>3. /\ hist.stream = NoStream => fresh' = fresh + 1 /\ fresh' \in Streams
        /\ hist.stream # NoStream => fresh' = fresh
    BY <1>1, <1>2 DEF ReserveDurable, Draw
  <1>4. /\ hist'.stream = (IF hist.stream = NoStream THEN fresh' ELSE hist.stream)
        /\ hist'.next = hist.next + 1
        /\ hist'.records = hist.records /\ hist'.degraded = hist.degraded
    BY <1>1, <1>2 DEF ReserveDurable, HistoryState
  <1>5. \A m \in Nodes : m = n /\ pub'[m].pc = "reserved" /\ pub[m].pc = "idle"
    BY <1>1, <1>2 DEF ReserveDurable, ServerTypes, Solo
  <1>6. Owed' /\ ~Owed /\ HistoryEnabled'
    BY <1>1, <1>5 DEF Owed, HistoryEnabled
  <1>7. \A m \in Nodes : hot[m] # NoBuffer =>
          hot[m].stream \in Streams /\ hot[m].stream \in Nat /\ hot[m].stream <= fresh
          /\ hot[m].next \in Nat
    BY <1>2, BoundsAssumption DEF ServerTypes, Entry, Drawn
  <1>8. hist'.stream = hist.stream \/ (hist'.stream \in Nat /\ hist'.stream > fresh)
    BY <1>2, <1>3, <1>4, BoundsAssumption
  <1>9. fresh' \in Nat /\ fresh <= fresh'
    BY <1>2, <1>3
  <1>10. Complete'
    <2>1. hist'.records = 1..(hist'.next - 2) /\ ~hist'.degraded
      <3>1. hist.records = 1..(hist.next - 1) /\ ~hist.degraded
        BY <1>6 DEF Calm, Complete
      <3>2. hist.next - 1 = hist'.next - 2
        BY <1>2, <1>4
      <3> QED
        BY <1>4, <3>1, <3>2
    <2>2. \A p \in published : p.stream = hist.stream /\ p.serial \in hist.records
                               /\ p.stream \in Streams
      BY <1>2 DEF Calm, Complete, ServerTypes, Position
    <2>3. \A p \in published' : p.stream = hist'.stream /\ p.serial \in hist'.records
      BY <1>1, <1>4, <2>2, NoStreamAssumption
    <2>4. \A m \in Nodes : hot[m] # NoBuffer =>
            /\ hot[m].msgs # <<>> => hot[m].stream = hist.stream
            /\ hot[m].next <= hist.next
      BY DEF Calm, Complete
    <2>5. \A m \in Nodes : hot[m] # NoBuffer =>
            /\ hot[m].msgs # <<>> => hot[m].stream = hist'.stream
            /\ hot[m].next <= hist'.next
      BY <1>2, <1>4, <1>7, <1>8, <2>4, NoStreamAssumption
    <2>6. \A r \in hist.records, m \in Nodes :
            hot[m] # NoBuffer /\ hot[m].stream = hist.stream /\ r < hot[m].next
      BY DEF Calm, Complete
    <2>7. \A r \in hist'.records, m \in Nodes :
            hot[m] # NoBuffer /\ hot[m].stream = hist'.stream /\ r < hot[m].next
      BY <1>4, <1>7, <2>6, NoStreamAssumption
    <2> QED
      BY <1>1, <1>6, <2>1, <2>3, <2>5, <2>7 DEF Complete
  <1>11. Window'
    BY <1>6 DEF Window
  <1>12. \A p \in Position : Known(p) => Known(p)'
    BY <1>1, <1>7, <1>8, <1>9, KnownStays
  <1>13. Handed' /\ Looking'
    <2>1. \A t \in tasks' : t.pos \in published'
      BY <1>1 DEF Calm, Handed
    <2>2. \A m \in Nodes : hot[m] # NoBuffer =>
           hot'[m] # NoBuffer /\ hot'[m].next \in Nat /\ hot[m].next <= hot'[m].next
      BY <1>1, <1>7
    <2>3. hist'.next \in Nat /\ hist.next <= hist'.next
      BY <1>2, <1>4
    <2> QED
      BY <1>1, <1>4, <1>8, <1>12, <2>1, <2>2, <2>3, ForwardCalm DEF Calm, Session
  <1> QED
    BY <1>10, <1>11, <1>13 DEF Calm

(* A reservation of the replay buffer.                                     *)
LEMMA ReserveHotCalm ==
  ASSUME Solo, Server, Session, Calm, NEW n \in Nodes, Reserve(n), ~HistoryEnabled
  PROVE  Calm'
  <1> DEFINE p == NextPositionOf(hot[n], fresh')
             b == NextPositionBuffer(hot[n], fresh')
  <1>1. /\ fresh' \in Streams \cup {0} /\ Draw(hot[n] = NoBuffer, fresh')
        /\ pub' = [pub EXCEPT ![n] = [pc |-> "reserved", pos |-> p]]
        /\ hot' = [hot EXCEPT ![n] = b]
        /\ pub[n].pc = "idle"
        /\ UNCHANGED <<backend, published, hist, tasks, conn, client>>
    BY DEF Reserve, ReserveHot
  <1>2. /\ ServerTypes /\ fresh \in Nat /\ hist.next \in Nat
        /\ hot[n] \in Entry \cup {NoBuffer} /\ hot \in [Nodes -> Entry \cup {NoBuffer}]
        /\ pub \in [Nodes -> Publishing]
        /\ hot[n] # NoBuffer => hot[n].next \in Nat /\ hot[n].next >= 1
    BY DEF Server, ServerTypes, HistoryState, Buffered, Bounded, Entry
  <1>3. /\ hot[n] = NoBuffer => fresh' = fresh + 1 /\ fresh' \in Streams
        /\ hot[n] # NoBuffer => fresh' = fresh
    BY <1>1, <1>2 DEF Draw
  <1>4. /\ b \in Entry /\ p \in Position
        /\ p = At(b.stream, b.next - 1)
        /\ hot[n] = NoBuffer => b.next = 2 /\ b.msgs = <<>>
        /\ hot[n] # NoBuffer => /\ b.stream = hot[n].stream
                                /\ b.next = hot[n].next + 1
                                /\ b.msgs = hot[n].msgs
    <2>1. PICK s \in Streams : hot[n] = NoBuffer => s = fresh'
      <3>1. hot[n] # NoBuffer => hot[n].stream \in Streams
        BY <1>2 DEF Entry
      <3> QED
        BY <1>3, <3>1
    <2>2. /\ NextPositionBuffer(hot[n], s) = b /\ NextPositionOf(hot[n], s) = p
      BY <2>1 DEF NextPositionBuffer, NextPositionOf, GetOrInsert
    <2> HIDE DEF b, p
    <2>3. LET c == NextPositionBuffer(hot[n], s)
              q == NextPositionOf(hot[n], s)
          IN  /\ c \in Entry
              /\ q \in Position
              /\ q.stream = c.stream
              /\ c.next = q.serial + 1
              /\ hot[n] = NoBuffer => q.stream = s /\ q.serial = 1 /\ c.msgs = <<>>
              /\ hot[n] # NoBuffer => /\ q.stream = hot[n].stream
                                      /\ q.serial = hot[n].next
                                      /\ c.msgs = hot[n].msgs
      BY <1>2, NextPositionFacts
    <2>4. /\ b \in Entry /\ p \in Position /\ p.stream = b.stream /\ b.next = p.serial + 1
          /\ hot[n] = NoBuffer => p.serial = 1 /\ b.msgs = <<>>
          /\ hot[n] # NoBuffer => /\ p.stream = hot[n].stream
                                  /\ p.serial = hot[n].next
                                  /\ b.msgs = hot[n].msgs
      BY <2>2, <2>3
    <2>5. p.serial \in Nat /\ p = [stream |-> p.stream, serial |-> p.serial]
      BY <2>4 DEF Position
    <2>6. b.next - 1 = p.serial
      BY <2>4, <2>5
    <2>7. p = At(b.stream, b.next - 1)
      BY <2>4, <2>5, <2>6 DEF At
    <2> QED
      BY <2>4, <2>5, <2>7
  <1> HIDE DEF b, p
  <1>5. b # NoBuffer /\ b.next \in Nat /\ b.msgs \in Seq(Position)
    BY <1>4, NoBufferAssumption DEF Entry
  <1>6. \A m \in Nodes : m = n
    BY DEF Solo
  <1>7. hot'[n] = b /\ pub'[n].pc = "reserved" /\ pub'[n].pos = p
    BY <1>1, <1>2
  <1>8. ~HistoryEnabled'
    BY <1>1 DEF HistoryEnabled
  <1>9. fresh' \in Nat /\ fresh <= fresh'
    BY <1>2, <1>3
  <1>10. \A q \in Position : Known(q) => Known(q)'
    <2>1. \A m \in Nodes : hot[m] # NoBuffer =>
             /\ hot'[m] # NoBuffer /\ hot'[m].stream = hot[m].stream
             /\ hot'[m].next \in Nat /\ hot[m].next <= hot'[m].next
      BY <1>2, <1>4, <1>5, <1>6, <1>7
    <2> QED
      BY <1>1, <1>9, <2>1, KnownStays
  <1>11. Complete'
    BY <1>8 DEF Complete
  <1>12. Window'
    <2>1. LastStored(n)' = b.next - 2 /\ b.next - 2 \in Nat
      BY <1>2, <1>4, <1>5, <1>7 DEF LastStored
    <2>2. /\ Len(b.msgs) = IF b.next - 2 < MaxBufferSize THEN b.next - 2 ELSE MaxBufferSize
          /\ \A i \in 1..Len(b.msgs) :
               b.msgs[i] = At(b.stream, b.next - 2 - Len(b.msgs) + i)
      <3>1. CASE hot[n] = NoBuffer
        <4>1. Len(b.msgs) = 0 /\ b.next - 2 = 0
          BY <1>4, <3>1
        <4> QED
          BY <4>1, MaxBufferSizeAssumption
      <3>2. CASE hot[n] # NoBuffer
        <4>1. LastStored(n) = hot[n].next - 1
          BY <1>1 DEF LastStored
        <4>2. b.next - 2 = hot[n].next - 1
          BY <1>2, <1>4, <3>2
        <4>3. /\ Len(hot[n].msgs) = IF LastStored(n) < MaxBufferSize THEN LastStored(n)
                                    ELSE MaxBufferSize
              /\ \A i \in 1..Len(hot[n].msgs) :
                   hot[n].msgs[i] = At(hot[n].stream, LastStored(n) - Len(hot[n].msgs) + i)
          BY <3>2 DEF Calm, Window
        <4> QED
          BY <1>4, <3>2, <4>1, <4>2, <4>3
      <3> QED
        BY <3>1, <3>2
    <2>3. ASSUME NEW q \in published' PROVE Known(q)'
      <3>1. q \in Position /\ Known(q)
        BY <1>1, <1>2, <2>3 DEF ServerTypes, Calm, Window
      <3> QED
        BY <1>10, <3>1
    <2>4. ASSUME NEW m \in Nodes
          PROVE  /\ Len(hot'[m].msgs) = IF LastStored(m)' < MaxBufferSize THEN LastStored(m)'
                                        ELSE MaxBufferSize
                 /\ \A i \in 1..Len(hot'[m].msgs) :
                      hot'[m].msgs[i] = At(hot'[m].stream, LastStored(m)' - Len(hot'[m].msgs) + i)
                 /\ pub'[m].pos = At(hot'[m].stream, hot'[m].next - 1)
      <3>1. m = n
        BY <1>6
      <3> QED
        BY <1>4, <1>7, <2>1, <2>2, <3>1
    <2> QED
      BY <2>3, <2>4 DEF Window, At
  <1>13. Handed' /\ Looking'
    <2>1. \A t \in tasks' : t.pos \in published'
      BY <1>1 DEF Calm, Handed
    <2>2. \A m \in Nodes : hot[m] # NoBuffer =>
           hot'[m] # NoBuffer /\ hot'[m].next \in Nat /\ hot[m].next <= hot'[m].next
      BY <1>2, <1>4, <1>5, <1>6, <1>7
    <2>3. hist'.next \in Nat /\ hist.next <= hist'.next
      BY <1>1, <1>2
    <2> QED
      BY <1>1, <1>10, <2>1, <2>2, <2>3, ForwardCalm DEF Calm, Session
  <1> QED
    BY <1>11, <1>12, <1>13 DEF Calm

(* The message goes into the replay buffer.                                *)
LEMMA StoreHotCalm ==
  ASSUME Solo, Server, Session, Calm, NEW n \in Nodes, StoreHot(n)
  PROVE  Calm'
  <1> DEFINE p == pub[n].pos
             b == StoreBuffer(hot[n], p)
             c == IF HistoryEnabled THEN "stored" ELSE "appended"
  <1>1. /\ pub[n].pc = "reserved"
        /\ pub' = [pub EXCEPT ![n].pc = c]
        /\ hot' = [hot EXCEPT ![n] = b]
        /\ UNCHANGED <<backend, published, hist, fresh, tasks, conn, client>>
    BY DEF StoreHot
  <1>2. /\ ServerTypes /\ OwnStreams /\ Buffered /\ Logged /\ fresh \in Nat
        /\ hist.next \in Nat
        /\ hot[n] \in Entry \cup {NoBuffer} /\ hot \in [Nodes -> Entry \cup {NoBuffer}]
        /\ pub \in [Nodes -> Publishing] /\ Busy(n) /\ p \in Position
        /\ p.stream \in Streams /\ p.serial \in Nat
        /\ hot[n] # NoBuffer => hot[n].next \in Nat /\ hot[n].next >= 1
                                /\ Len(hot[n].msgs) <= MaxBufferSize
    BY <1>1 DEF Server, ServerTypes, HistoryState, Busy, Position, Entry, Buffered, Bounded
  <1>3. /\ b \in Entry /\ b.stream = p.stream
        /\ b.next = IF hot[n] = NoBuffer \/ hot[n].next < p.serial + 1
                    THEN p.serial + 1 ELSE hot[n].next
    BY <1>2, StoreFacts, RaisedNext
  <1>4. b # NoBuffer /\ b.next \in Nat /\ b.msgs \in Seq(Position)
        /\ (hot[n] # NoBuffer => hot[n].next <= b.next)
    BY <1>2, <1>3, NoBufferAssumption DEF Entry
  <1>5. hot'[n] = b /\ pub'[n].pc = c /\ pub'[n].pos = p /\ \A m \in Nodes : m = n
    BY <1>1, <1>2 DEF Publishing, Solo
  <1>6. HistoryEnabled' = HistoryEnabled
    BY <1>1 DEF HistoryEnabled
  <1>7. HistoryEnabled => p.stream = hist.stream /\ p.serial < hist.next
    BY <1>2 DEF Logged
  <1>8. ~HistoryEnabled => /\ hot[n] # NoBuffer /\ hot[n].stream = p.stream
                           /\ p = At(hot[n].stream, hot[n].next - 1)
    BY <1>1, <1>2 DEF OwnStreams, Calm, Window
  <1>9. \A q \in Position : Known(q) => Known(q)'
    <2>1. \A m \in Nodes :
           hot[m] # NoBuffer /\ (HistoryEnabled => hot[m].stream = hist.stream) =>
             /\ hot'[m] # NoBuffer /\ hot'[m].stream = hot[m].stream
             /\ hot'[m].next \in Nat /\ hot[m].next <= hot'[m].next
      <3> HIDE DEF b, p
      <3> QED
        BY <1>3, <1>4, <1>5, <1>7, <1>8
    <2>2. fresh' \in Nat /\ fresh <= fresh' /\ hist'.stream = hist.stream /\ backend' = backend
      BY <1>1, <1>2
    <2> QED
      BY <2>1, <2>2, KnownStays
  <1>10. Complete'
    <2>1. SUFFICES ASSUME HistoryEnabled PROVE Complete'
      BY <1>6 DEF Complete
    <2>2. Owed' /\ Owed
      BY <1>1, <1>5, <2>1 DEF Owed
    <2>3. b.next <= hist.next
      <3>1. hot[n] # NoBuffer => hot[n].next <= hist.next
        BY <2>1 DEF Calm, Complete
      <3> HIDE DEF b, p
      <3> QED
        BY <1>2, <1>3, <1>7, <2>1, <3>1
    <2>4. /\ ~hist.degraded
          /\ hist.records = 1..(hist.next - 2)
          /\ \A q \in published : q.stream = hist.stream /\ q.serial \in hist.records
          /\ \A r \in hist.records :
               hot[n] # NoBuffer /\ hot[n].stream = hist.stream /\ r < hot[n].next
      BY <2>1, <2>2 DEF Calm, Complete
    <2>5. \A r \in hist.records : b # NoBuffer /\ b.stream = hist.stream /\ r < b.next
      <3>1. \A r \in hist.records : r \in Nat
        BY <1>2, <2>4
      <3> HIDE DEF b, p
      <3> QED
        BY <1>2, <1>3, <1>4, <1>7, <2>1, <2>4, <3>1
    <2>6. b.stream = hist.stream
      BY <1>3, <1>7, <2>1
    <2> HIDE DEF b, p, c
    <2> QED
      BY <1>1, <1>5, <2>2, <2>3, <2>4, <2>5, <2>6 DEF Complete
  <1>11. Window'
    <2>1. SUFFICES ASSUME ~HistoryEnabled PROVE Window'
      BY <1>6 DEF Window
    <2> DEFINE e == hot[n]
               top == e.next - 1
    <2>2. /\ e \in Entry /\ e.stream = p.stream /\ p = At(e.stream, top)
          /\ e.next \in Nat /\ e.next >= 1 /\ Len(e.msgs) <= MaxBufferSize
          /\ e.msgs \in Seq(Position) /\ Len(e.msgs) \in Nat /\ p.serial = top
      BY <1>2, <1>8, <2>1 DEF Entry, At
    <2>3. b.next = e.next /\ b.stream = e.stream
      <3> HIDE DEF b, p
      <3> QED
        BY <1>2, <1>3, <1>8, <2>1, <2>2
    <2>4. /\ Len(e.msgs) = IF top - 1 < MaxBufferSize THEN top - 1 ELSE MaxBufferSize
          /\ \A i \in 1..Len(e.msgs) : e.msgs[i] = At(e.stream, top - 1 - Len(e.msgs) + i)
      <3>1. LastStored(n) = top - 1
        BY <1>1, <2>2 DEF LastStored
      <3>2. e # NoBuffer
        BY <1>8, <2>1
      <3> QED
        BY <2>1, <3>1, <3>2 DEF Calm, Window
    <2>5. LET q == e.msgs
              r == b.msgs
          IN  /\ Len(r) = IF Len(q) < MaxBufferSize THEN Len(q) + 1 ELSE MaxBufferSize
              /\ r[Len(r)] = p
              /\ \A i \in 1..(Len(r) - 1) :
                   r[i] = IF Len(q) < MaxBufferSize THEN q[i] ELSE q[i + 1]
      <3> HIDE DEF p, e
      <3>1. p \in Position
        BY <1>2
      <3> QED
        BY <2>2, <3>1, StoredLast DEF e
    <2>6. LastStored(n)' = top
      BY <1>5, <2>1, <2>3 DEF LastStored
    <2> HIDE DEF b, p, e, top
    <2>7. top \in Nat /\ top >= 1
      <3>1. top \in Int
        BY <2>2 DEF top
      <3>2. Len(e.msgs) \in Nat /\ MaxBufferSize \in Nat \ {0}
        BY <2>2, MaxBufferSizeAssumption
      <3> QED
        BY <2>4, <3>1, <3>2
    <2>8. Len(b.msgs) = IF top < MaxBufferSize THEN top ELSE MaxBufferSize
      BY <2>2, <2>4, <2>5, <2>7, MaxBufferSizeAssumption
    <2>9. ASSUME NEW i \in 1..Len(b.msgs)
          PROVE  b.msgs[i] = At(b.stream, top - Len(b.msgs) + i)
      <3>1. Len(b.msgs) \in Nat
        BY <1>4
      <3>2. CASE i = Len(b.msgs)
        <4>1. top - Len(b.msgs) + i = top
          BY <2>7, <3>1, <3>2
        <4> QED
          BY <2>2, <2>3, <2>5, <3>2, <4>1
      <3>3. CASE i # Len(b.msgs)
        <4>1. i \in 1..(Len(b.msgs) - 1)
          BY <3>1, <3>3
        <4>2. CASE Len(e.msgs) < MaxBufferSize
          <5>1. /\ i \in 1..Len(e.msgs) /\ b.msgs[i] = e.msgs[i]
                /\ top - 1 - Len(e.msgs) + i = top - Len(b.msgs) + i
            BY <2>2, <2>5, <2>7, <4>1, <4>2
          <5> QED
            BY <2>3, <2>4, <5>1
        <4>3. CASE ~(Len(e.msgs) < MaxBufferSize)
          <5>1. Len(e.msgs) = MaxBufferSize /\ Len(b.msgs) = MaxBufferSize
            BY <2>2, <2>5, <4>3, MaxBufferSizeAssumption
          <5>2. /\ i + 1 \in 1..Len(e.msgs)
                /\ top - 1 - Len(e.msgs) + (i + 1) = top - Len(b.msgs) + i
            BY <2>7, <4>1, <5>1, MaxBufferSizeAssumption
          <5>3. b.msgs[i] = e.msgs[i + 1]
            BY <2>5, <4>1, <4>3
          <5> QED
            BY <2>3, <2>4, <5>2, <5>3
        <4> QED
          BY <4>2, <4>3
      <3> QED
        BY <3>2, <3>3
    <2>10. ASSUME NEW q \in published' PROVE Known(q)'
      <3>1. q \in Position /\ Known(q)
        BY <1>1, <1>2, <2>1, <2>10 DEF ServerTypes, Calm, Window
      <3> QED
        BY <1>9, <3>1
    <2>11. pub'[n].pc # "reserved"
      BY <1>5
    <2>12. ASSUME NEW m \in Nodes
          PROVE  /\ Len(hot'[m].msgs) = IF LastStored(m)' < MaxBufferSize THEN LastStored(m)'
                                        ELSE MaxBufferSize
                 /\ \A i \in 1..Len(hot'[m].msgs) :
                      hot'[m].msgs[i] = At(hot'[m].stream, LastStored(m)' - Len(hot'[m].msgs) + i)
                 /\ pub'[m].pc # "reserved"
      <3>1. m = n
        BY <1>5
      <3> HIDE DEF c
      <3> QED
        BY <1>5, <2>6, <2>8, <2>9, <2>11, <3>1
    <2> QED
      BY <2>10, <2>12 DEF Window, At
  <1>12. Handed' /\ Looking'
    <2>1. \A t \in tasks' : t.pos \in published'
      BY <1>1 DEF Calm, Handed
    <2> HIDE DEF b, p
    <2>2. \A m \in Nodes : hot[m] # NoBuffer =>
           hot'[m] # NoBuffer /\ hot'[m].next \in Nat /\ hot[m].next <= hot'[m].next
      BY <1>4, <1>5
    <2>3. hist'.next \in Nat /\ hist.next <= hist'.next
      BY <1>1, <1>2
    <2> QED
      BY <1>1, <1>9, <2>1, <2>2, <2>3, ForwardCalm DEF Calm, Session
  <1> QED
    BY <1>10, <1>11, <1>12 DEF Calm

(* The message goes into the history.                                      *)
LEMMA AppendCalm ==
  ASSUME Solo, Server, Session, Calm, NEW n \in Nodes, AppendHistory(n)
  PROVE  Calm'
  <1> DEFINE p == pub[n].pos
  <1>1. /\ pub[n].pc = "stored"
        /\ pub' = [pub EXCEPT ![n].pc = "appended"]
        /\ hist' = [hist EXCEPT !.records = hist.records \cup {p.serial}]
        /\ UNCHANGED <<backend, published, hot, fresh, tasks, conn, client>>
    BY DEF AppendHistory
  <1>2. /\ ServerTypes /\ hist \in HistoryState /\ hist.next \in Nat \ {0} /\ fresh \in Nat
        /\ pub \in [Nodes -> Publishing] /\ Busy(n) /\ p \in Position
    BY <1>1 DEF Server, ServerTypes, HistoryState, Busy
  <1>3. HistoryEnabled /\ HistoryEnabled'
    BY <1>1 DEF Server, Unlogged, HistoryEnabled
  <1>4. /\ p.stream = hist.stream /\ p.serial = hist.next - 1
        /\ hot[n] # NoBuffer /\ hot[n].stream = p.stream /\ p.serial < hot[n].next
    BY <1>1, <1>2, <1>3 DEF Server, Logged, Latest, StoredHot
  <1>5. /\ hist'.stream = hist.stream /\ hist'.next = hist.next
        /\ hist'.degraded = hist.degraded /\ hist'.records = hist.records \cup {p.serial}
    BY <1>1, <1>2 DEF HistoryState
  <1>6. \A m \in Nodes : m = n /\ pub'[m].pc = "appended"
    BY <1>1, <1>2 DEF Solo, Publishing
  <1>7. Owed /\ ~Owed'
    BY <1>1, <1>6 DEF Owed
  <1> HIDE DEF p
  <1>8. Complete'
    <2>1. /\ ~hist.degraded /\ hist.records = 1..(hist.next - 2)
          /\ \A q \in published : q.stream = hist.stream /\ q.serial \in hist.records
          /\ \A m \in Nodes : hot[m] # NoBuffer =>
               /\ hot[m].msgs # <<>> => hot[m].stream = hist.stream
               /\ hot[m].next <= hist.next
          /\ \A r \in hist.records, m \in Nodes :
               hot[m] # NoBuffer /\ hot[m].stream = hist.stream /\ r < hot[m].next
      BY <1>3, <1>7 DEF Calm, Complete
    <2>2. p.serial \in 1..(hist.next - 1)
      BY <1>2, <1>4, <1>1 DEF Server, ServerTypes, p
    <2>3. hist'.records = 1..(hist'.next - 1)
      BY <1>2, <1>4, <1>5, <2>1, <2>2
    <2>4. \A r \in hist'.records, m \in Nodes :
            hot[m] # NoBuffer /\ hot[m].stream = hist'.stream /\ r < hot[m].next
      BY <1>4, <1>5, <1>6, <2>1
    <2> QED
      BY <1>1, <1>5, <1>7, <2>1, <2>3, <2>4 DEF Complete
  <1>9. Window'
    BY <1>3 DEF Window
  <1>10. \A m \in Nodes : hot[m] # NoBuffer => hot[m].next \in Nat
    BY <1>2 DEF ServerTypes, Entry
  <1>11. \A q \in Position : Known(q) => Known(q)'
    <2>1. fresh' \in Nat /\ fresh <= fresh'
      BY <1>1, <1>2
    <2> QED
      BY <1>1, <1>5, <1>10, <2>1, KnownStays
  <1>12. Handed' /\ Looking'
    <2>1. \A t \in tasks' : t.pos \in published'
      BY <1>1 DEF Calm, Handed
    <2>2. \A m \in Nodes : hot[m] # NoBuffer =>
           hot'[m] # NoBuffer /\ hot'[m].next \in Nat /\ hot[m].next <= hot'[m].next
      BY <1>1, <1>10
    <2>3. hist'.next \in Nat /\ hist.next <= hist'.next /\ hist.records \subseteq hist'.records
      BY <1>2, <1>5
    <2> QED
      BY <1>1, <1>5, <1>11, <2>1, <2>2, <2>3, ForwardCalm DEF Calm, Session
  <1> QED
    BY <1>8, <1>9, <1>12 DEF Calm

(* The fan-out begins, or ends with the permit's release.                  *)
LEMMA SendingCalm ==
  ASSUME Solo, Server, Session, Calm, NEW n \in Nodes, StartFanout(n) \/ Forward(n)
  PROVE  Calm'
  <1> DEFINE p == pub[n].pos
  <1>1. /\ pub[n].pc \in {"appended", "sending"}
        /\ pub'[n].pc \in {"sending", "idle"}
        /\ published \subseteq published' /\ published' \subseteq published \cup {p}
        /\ \A t \in tasks' : t \in tasks \/ t.pos \in published'
        /\ UNCHANGED <<backend, hist, hot, fresh, conn, client>>
    <2>1. pub \in [Nodes -> Publishing]
      BY DEF Server, ServerTypes
    <2>2. CASE StartFanout(n)
      BY <2>1, <2>2 DEF StartFanout, Task, Publishing
    <2>3. CASE Forward(n)
      <3>1. /\ pub[n].pc = "sending" /\ pub' = [pub EXCEPT ![n] = Idle]
            /\ tasks' = tasks \cup {Task(m, p, "snapshot", 0) : m \in Nodes \ {n}}
            /\ UNCHANGED <<backend, hist, hot, fresh, conn, client, published>>
        BY <2>3 DEF Forward
      <3>2. Nodes \ {n} = {}
        BY DEF Solo
      <3>3. tasks' = tasks /\ pub'[n].pc = "idle"
        BY <2>1, <3>1, <3>2 DEF Idle
      <3> QED
        BY <3>1, <3>3
    <2> QED
      BY <2>2, <2>3
  <1>2. /\ ServerTypes /\ hist.next \in Nat /\ fresh \in Nat
        /\ Busy(n) /\ p \in Position /\ p.stream <= fresh
        /\ hot[n] # NoBuffer /\ hot[n].stream = p.stream /\ p.serial < hot[n].next
    BY <1>1 DEF Server, ServerTypes, HistoryState, Busy, Drawn, StoredHot
  <1>3. HistoryEnabled' = HistoryEnabled
    BY <1>1 DEF HistoryEnabled
  <1>4. \A m \in Nodes : m = n
    BY DEF Solo
  <1>5. ~Owed /\ ~Owed'
    BY <1>1, <1>4 DEF Owed
  <1>6. HistoryEnabled => p.stream = hist.stream /\ p.serial \in hist.records
    BY <1>1, <1>2 DEF Server, Logged
  <1>7. Known(p)
    BY <1>2, <1>4 DEF Known
  <1>8. \A q \in Position : Known(q) => Known(q)'
    BY <1>1, <1>3 DEF Known
  <1> HIDE DEF p
  <1>9. Complete'
    BY <1>1, <1>3, <1>5, <1>6 DEF Calm, Complete
  <1>10. Window'
    <2>1. SUFFICES ASSUME ~HistoryEnabled PROVE Window'
      BY <1>3 DEF Window
    <2>2. ASSUME NEW q \in published' PROVE Known(q)'
      <3>1. q \in Position /\ Known(q)
        BY <1>1, <1>2, <1>7, <2>1 DEF ServerTypes, Calm, Window
      <3> QED
        BY <1>8, <3>1
    <2>3. \A m \in Nodes : LastStored(m)' = LastStored(m) /\ pub'[m].pc # "reserved"
      BY <1>1, <1>4 DEF LastStored
    <2> QED
      BY <1>1, <2>1, <2>2, <2>3 DEF Calm, Window, At
  <1>11. Handed' /\ Looking'
    <2>1. \A t \in tasks' : t.pos \in published'
      BY <1>1 DEF Calm, Handed
    <2>2. \A m \in Nodes : hot[m] # NoBuffer =>
           hot'[m] # NoBuffer /\ hot'[m].next \in Nat /\ hot[m].next <= hot'[m].next
      BY <1>1, <1>2 DEF ServerTypes, Entry
    <2>3. hist'.next \in Nat /\ hist.next <= hist'.next /\ hist.records \subseteq hist'.records
          /\ hist'.stream = hist.stream
      BY <1>1, <1>2
    <2> QED
      BY <1>1, <1>8, <2>1, <2>2, <2>3, ForwardCalm DEF Calm, Session
  <1> QED
    BY <1>9, <1>10, <1>11 DEF Calm

(* A publish.                                                              *)
LEMMA PublishCalm ==
  ASSUME Solo, Server, Session, Calm, NEW n \in Nodes, Publish(n), ~AppendFails(n)
  PROVE  Calm'
  BY ReserveDurableCalm, ReserveHotCalm, StoreHotCalm, AppendCalm, SendingCalm DEF Publish

(* What is published is known.                                             *)
LEMMA PublishedKnown ==
  ASSUME Server, Calm
  PROVE  \A p \in published : Known(p)
  <1> SUFFICES ASSUME NEW p \in published PROVE Known(p)
    OBVIOUS
  <1>1. CASE HistoryEnabled
    <2>1. p.stream = hist.stream /\ p.serial \in hist.records
      BY <1>1 DEF Calm, Complete
    <2>2. \A n \in Nodes :
            hot[n] # NoBuffer /\ hot[n].stream = hist.stream /\ p.serial < hot[n].next
      BY <1>1, <2>1 DEF Calm, Complete
    <2>3. p.stream <= fresh
      BY DEF Server, Drawn
    <2> QED
      BY <2>1, <2>2, <2>3 DEF Known
  <1>2. CASE ~HistoryEnabled
    BY <1>2 DEF Calm, Window
  <1> QED
    BY <1>1, <1>2

(* A step of the session: what it puts on the wire or to be replayed is    *)
(* known, what it holds is published, and the handler's claims are backed. *)
LEMMA SessionCalm ==
  ASSUME Server, Calm, UNCHANGED serverVars,
         client'.pos # NoPosition => Known(client'.pos),
         conn'.want # NoPosition => Known(conn'.want),
         \A i \in DOMAIN conn'.wire :
           conn'.wire[i].pos # NoPosition => Known(conn'.wire[i].pos),
         \A i \in DOMAIN conn'.replay : Known(conn'.replay[i]),
         \A i \in DOMAIN conn'.held : conn'.held[i] \in published,
         \A t \in tasks' : t.pos \in published,
         conn'.head # NoPosition => conn'.head.serial < hist.next,
         conn'.pc \in {"update", "drain", "subscribed", "hot", "state", "freeze", "page"} =>
           \A n \in Nodes : hot[n] # NoBuffer,
         conn'.pc \in {"state", "freeze"} /\ conn'.want.stream = hist.stream =>
           \A n \in Nodes : conn'.want.serial + 1 < hot[n].next,
         conn'.pc = "page" => conn'.target \in hist.records
  PROVE  Calm'
  <1>1. /\ hist' = hist /\ hot' = hot /\ pub' = pub /\ published' = published
        /\ fresh' = fresh /\ backend' = backend
    BY DEF serverVars
  <1>2. HistoryEnabled' = HistoryEnabled /\ Owed' = Owed
        /\ \A n \in Nodes : LastStored(n)' = LastStored(n)
    BY <1>1 DEF HistoryEnabled, Owed, LastStored
  <1>3. Complete'
    BY <1>1, <1>2 DEF Calm, Complete
  <1>4. Window'
    <2>1. ASSUME NEW p \in published', ~HistoryEnabled PROVE Known(p)'
      <3>1. Known(p)
        BY <1>1, <2>1 DEF Calm, Window
      <3> QED
        BY <1>1, <1>2, <3>1 DEF Known
    <2> QED
      BY <1>1, <1>2, <2>1 DEF Calm, Window, At
  <1>5. Handed'
    <2>1. client'.pos # NoPosition => Known(client.pos)'
      BY <1>1, <1>2 DEF Known
    <2>2. conn'.want # NoPosition => Known(conn.want)'
      BY <1>1, <1>2 DEF Known
    <2>3. \A i \in DOMAIN conn'.wire : conn'.wire[i].pos # NoPosition => Known(conn.wire[i].pos)'
      BY <1>1, <1>2 DEF Known
    <2>4. \A i \in DOMAIN conn'.replay : Known(conn.replay[i])'
      BY <1>1, <1>2 DEF Known
    <2> QED
      BY <1>1, <2>1, <2>2, <2>3, <2>4 DEF Handed
  <1>6. Looking'
    BY <1>1 DEF Looking
  <1> QED
    BY <1>3, <1>4, <1>5, <1>6 DEF Calm

(* The frames on the wire are known when those that are added are.         *)
LEMMA EnqueuedKnown ==
  ASSUME SessionTypes, Handed, NEW g \in Seq(FrameOnWire), Enqueued(g),
         \A i \in 1..Len(g) : g[i].pos # NoPosition => Known(g[i].pos)
  PROVE  \A i \in DOMAIN conn'.wire :
           conn'.wire[i].pos # NoPosition => Known(conn'.wire[i].pos)
  <1>1. /\ Len(conn.wire) \in Nat /\ DOMAIN conn.wire = 1..Len(conn.wire) /\ Len(g) \in Nat
    BY DEF SessionTypes, Connection
  <1> SUFFICES ASSUME NEW i \in DOMAIN conn'.wire, conn'.wire[i].pos # NoPosition
               PROVE  Known(conn'.wire[i].pos)
    OBVIOUS
  <1>2. i \in 1..(Len(conn.wire) + Len(g))
    BY DEF Enqueued
  <1>3. CASE i <= Len(conn.wire)
    <2>1. i \in DOMAIN conn.wire /\ conn'.wire[i] = conn.wire[i]
      BY <1>1, <1>2, <1>3 DEF Enqueued
    <2>2. conn.wire[i].pos # NoPosition => Known(conn.wire[i].pos)
      BY <2>1 DEF Handed
    <2> QED
      BY <2>1, <2>2
  <1>4. CASE i > Len(conn.wire)
    <2>1. PICK j \in 1..Len(g) : i = Len(conn.wire) + j
      <3>1. i - Len(conn.wire) \in 1..Len(g) /\ i = Len(conn.wire) + (i - Len(conn.wire))
        BY <1>1, <1>2, <1>4
      <3> QED
        BY <3>1
    <2>2. conn'.wire[i] = g[j]
      BY <2>1 DEF Enqueued
    <2> QED
      BY <2>1, <2>2
  <1> QED
    BY <1>1, <1>2, <1>3, <1>4

(* A step of the handler that enqueues nothing new to the client.          *)
LEMMA QuietCalm ==
  ASSUME Server, SessionTypes, Calm, HandlerOnly,
         \/ conn'.wire = conn.wire
         \/ \E f \in FrameOnWire : /\ conn'.wire = Append(conn.wire, f)
                                   /\ f.pos # NoPosition => Known(f.pos),
         conn'.want = conn.want, conn'.held = conn.held \/ conn'.held = <<>>,
         conn'.replay = conn.replay \/ conn'.replay = <<>>,
         conn'.head = conn.head \/ conn'.head = NoPosition,
         conn'.pc \in {"update", "drain", "subscribed", "hot", "state", "freeze", "page"} =>
           \A n \in Nodes : hot[n] # NoBuffer,
         conn'.pc \in {"state", "freeze"} /\ conn'.want.stream = hist.stream =>
           \A n \in Nodes : conn'.want.serial + 1 < hot[n].next,
         conn'.pc = "page" => conn'.target \in hist.records
  PROVE  Calm'
  <1>1. UNCHANGED serverVars /\ client' = client /\ tasks' = tasks
    BY DEF HandlerOnly, serverVars
  <1>2. Handed
    BY DEF Calm
  <1>3. \A i \in DOMAIN conn'.wire :
          conn'.wire[i].pos # NoPosition => Known(conn'.wire[i].pos)
    <2>1. CASE conn'.wire = conn.wire
      BY <1>2, <2>1 DEF Handed
    <2>2. CASE \E f \in FrameOnWire : /\ conn'.wire = Append(conn.wire, f)
                                      /\ f.pos # NoPosition => Known(f.pos)
      <3>1. PICK f \in FrameOnWire : /\ conn'.wire = Append(conn.wire, f)
                                     /\ f.pos # NoPosition => Known(f.pos)
        BY <2>2
      <3>2. Enqueued(<<f>>)
        BY <3>1, EnqueuedOne DEF SessionTypes
      <3>3. <<f>> \in Seq(FrameOnWire) /\ \A i \in 1..Len(<<f>>) : <<f>>[i] = f
        OBVIOUS
      <3> QED
        BY <1>2, <3>1, <3>2, <3>3, EnqueuedKnown
    <2> QED
      BY <2>1, <2>2
  <1>4. client'.pos # NoPosition => Known(client'.pos)
    BY <1>1, <1>2 DEF Handed
  <1>5. conn'.want # NoPosition => Known(conn'.want)
    BY <1>2 DEF Handed
  <1>6. \A i \in DOMAIN conn'.replay : Known(conn'.replay[i])
    BY <1>2 DEF Handed
  <1>7. \A i \in DOMAIN conn'.held : conn'.held[i] \in published
    BY <1>2 DEF Handed
  <1>8. \A t \in tasks' : t.pos \in published
    BY <1>1, <1>2 DEF Handed
  <1>9. conn'.head # NoPosition => conn'.head.serial < hist.next
    BY <1>2 DEF Handed
  <1> QED
    BY <1>1, <1>3, <1>4, <1>5, <1>6, <1>7, <1>8, <1>9, SessionCalm

(* Steps of the handler that neither look for messages nor drain a gate.   *)
LEMMA PlainCalm ==
  ASSUME Server, Session, Calm,
         \/ Subscribe \/ CaptureHead \/ UpdateState \/ NothingToResume \/ StartResume
         \/ CheckState \/ SendResumeFailed
  PROVE  Calm'
  <1>1. SessionTypes /\ conn \in Connection /\ Looking
    BY DEF Session, SessionTypes, Calm
  <1>2. CASE Subscribe \/ CaptureHead \/ NothingToResume
    <2>1. /\ HandlerOnly /\ conn'.pc \in {"head", "ack", "inspect", "attached"}
          /\ conn'.wire = conn.wire /\ conn'.want = conn.want /\ conn'.held = conn.held
          /\ conn'.replay = conn.replay /\ conn'.head = conn.head
      BY <1>1, <1>2 DEF Subscribe, CaptureHead, NothingToResume, Connection
    <2> QED
      BY <1>1, <2>1, QuietCalm
  <1>3. CASE UpdateState \/ StartResume \/ CheckState
    <2>1. /\ HandlerOnly
          /\ conn.pc \in {"update", "subscribed", "state"}
          /\ conn'.pc \in {"drain", "subscribed", "hot", "answer", "freeze"}
          /\ conn'.pc = "freeze" => conn.pc = "state"
          /\ conn'.wire = conn.wire /\ conn'.want = conn.want /\ conn'.held = conn.held
          /\ conn'.replay = conn.replay \/ conn'.replay = <<>>
          /\ conn'.head = conn.head
      <3>1. CASE UpdateState
        BY <1>1, <3>1 DEF UpdateState, Connection
      <3>2. CASE StartResume
        BY <1>1, <3>2 DEF StartResume, Connection
      <3>3. CASE CheckState
        BY <1>1, <3>3 DEF CheckState, Fails, Connection
      <3> QED
        BY <1>3, <3>1, <3>2, <3>3
    <2>2. /\ \A n \in Nodes : hot[n] # NoBuffer
          /\ conn'.pc = "freeze" /\ conn'.want.stream = hist.stream =>
               \A n \in Nodes : conn'.want.serial + 1 < hot[n].next
      BY <1>1, <2>1 DEF Looking
    <2> QED
      BY <1>1, <2>1, <2>2, QuietCalm
  <1>4. CASE SendResumeFailed
    <2>1. /\ HandlerOnly /\ conn'.pc = "success"
          /\ conn'.wire = Append(conn.wire, Frame("failed", NoPosition))
          /\ conn'.want = conn.want /\ conn'.held = conn.held
          /\ conn'.replay = conn.replay /\ conn'.head = conn.head
      BY <1>1, <1>4 DEF SendResumeFailed, Connection
    <2>2. /\ Frame("failed", NoPosition) \in FrameOnWire
          /\ Frame("failed", NoPosition).pos = NoPosition
      BY DEF Frame, FrameOnWire, PositionOrNone
    <2> QED
      BY <1>1, <2>1, <2>2, QuietCalm
  <1> QED
    BY <1>2, <1>3, <1>4

(* The answer with the last position replayed.                             *)
LEMMA SuccessCalm ==
  ASSUME Server, Session, Calm, SendResumeSuccess
  PROVE  Calm'
  <1>1. SessionTypes /\ conn \in Connection /\ Handed /\ conn.wire \in Seq(FrameOnWire)
    BY DEF Session, SessionTypes, Calm, Connection
  <1>2. LastReplayed \in PositionOrNone /\ (LastReplayed # NoPosition => Known(LastReplayed))
    <2>1. CASE Replayed = {}
      BY <2>1 DEF LastReplayed, PositionOrNone
    <2>2. CASE Replayed # {}
      <3>1. Replayed \subseteq 1..Len(conn.wire) /\ Len(conn.wire) \in Nat
        BY <1>1, ReplayedFinite
      <3>2. Max(Replayed) \in Replayed
        BY <2>2, <3>1, Extremes
      <3>3. PICK i \in DOMAIN conn.wire : i = Max(Replayed)
        BY <3>2 DEF Replayed
      <3>4. LastReplayed = conn.wire[i].pos
        BY <2>2, <3>3 DEF LastReplayed
      <3>5. conn.wire[i].pos # NoPosition => Known(conn.wire[i].pos)
        BY <1>1 DEF Handed
      <3>6. conn.wire[i].pos \in PositionOrNone
        BY <1>1, Positions
      <3> QED
        BY <3>4, <3>5, <3>6
    <2> QED
      BY <2>1, <2>2
  <1>3. PICK p : p = LastReplayed
    OBVIOUS
  <1>4. /\ HandlerOnly /\ conn'.pc = "redrain"
        /\ conn'.wire = Append(conn.wire, Frame("resumed", p))
        /\ conn'.want = conn.want /\ conn'.held = conn.held
        /\ conn'.replay = conn.replay /\ conn'.head = conn.head
    BY <1>1, <1>3 DEF SendResumeSuccess, Connection
  <1>5. Frame("resumed", p) \in FrameOnWire /\ Frame("resumed", p).pos = p
    BY <1>2, <1>3 DEF Frame, FrameOnWire
  <1>6. p # NoPosition => Known(p)
    BY <1>2, <1>3
  <1> QED
    BY <1>1, <1>4, <1>5, <1>6, QuietCalm

(* One replayed message is sent.                                           *)
LEMMA ReplayedCalm ==
  ASSUME Server, Session, Calm, SendReplayed
  PROVE  Calm'
  <1>1. SessionTypes /\ conn \in Connection /\ Handed /\ conn.replay \in Seq(Position)
    BY DEF Session, SessionTypes, Calm, Connection
  <1> DEFINE r == conn.replay
             f == Frame("replay", Head(r))
  <1>2. /\ HandlerOnly /\ r # <<>>
        /\ conn' = [conn EXCEPT !.wire = Append(conn.wire, f), !.replay = Tail(r)]
        /\ conn.pc = "answer"
    BY DEF SendReplayed
  <1>3. /\ 1 \in DOMAIN r /\ Head(r) = r[1] /\ Head(r) \in Position
        /\ Tail(r) \in Seq(Position)
        /\ \A i \in DOMAIN Tail(r) : i + 1 \in DOMAIN r /\ Tail(r)[i] = r[i + 1]
    BY <1>1, <1>2
  <1>4. \A i \in DOMAIN r : Known(r[i])
    BY <1>1 DEF Handed
  <1>5. f \in FrameOnWire /\ f.pos = r[1] /\ Known(f.pos)
    BY <1>3, <1>4 DEF Frame, FrameOnWire, PositionOrNone
  <1> HIDE DEF f, r
  <1>6. /\ conn'.wire = Append(conn.wire, f) /\ conn'.replay = Tail(r)
        /\ conn'.want = conn.want /\ conn'.held = conn.held
        /\ conn'.head = conn.head /\ conn'.pc = "answer"
    BY <1>1, <1>2 DEF Connection
  <1>7. \A i \in DOMAIN conn'.wire : conn'.wire[i].pos # NoPosition => Known(conn'.wire[i].pos)
    <2>1. PICK g : g = f
      OBVIOUS
    <2>2. g \in FrameOnWire /\ conn'.wire = Append(conn.wire, g) /\ Known(g.pos)
      BY <1>5, <1>6, <2>1
    <2>3. Enqueued(<<g>>)
      BY <1>1, <2>2, EnqueuedOne
    <2>4. <<g>> \in Seq(FrameOnWire) /\ \A i \in 1..Len(<<g>>) : <<g>>[i] = g
      BY <2>2
    <2> QED
      BY <1>1, <2>2, <2>3, <2>4, EnqueuedKnown
  <1>8. \A i \in DOMAIN conn'.replay : Known(conn'.replay[i])
    BY <1>3, <1>4, <1>6
  <1>9. UNCHANGED serverVars /\ client' = client /\ tasks' = tasks
    BY <1>2 DEF HandlerOnly, serverVars
  <1>10. /\ client'.pos # NoPosition => Known(client'.pos)
         /\ conn'.want # NoPosition => Known(conn'.want)
         /\ \A i \in DOMAIN conn'.held : conn'.held[i] \in published
         /\ \A t \in tasks' : t.pos \in published
         /\ conn'.head # NoPosition => conn'.head.serial < hist.next
    BY <1>1, <1>6, <1>9 DEF Handed
  <1> QED
    BY <1>6, <1>7, <1>8, <1>9, <1>10, SessionCalm

(* A round of draining: what was held is published.                        *)
LEMMA DrainCalm ==
  ASSUME Server, Session, Calm, DrainAttach \/ DrainResume
  PROVE  Calm'
  <1>1. /\ SessionTypes /\ conn \in Connection /\ Handed /\ Looking
        /\ conn.held \in Seq(Position)
    BY DEF Session, SessionTypes, Calm, Connection
  <1>2. PICK done \in {"subscribed", "attached"} :
          /\ DrainRound(done) /\ HandlerOnly
          /\ conn.pc = IF done = "subscribed" THEN "drain" ELSE "redrain"
    BY DEF DrainAttach, DrainResume
  <1>3. done = "subscribed" => \A n \in Nodes : hot[n] # NoBuffer
    BY <1>1, <1>2 DEF Looking
  <1>4. CASE conn.held = <<>>
    <2>1. /\ conn'.pc = done /\ conn'.wire = conn.wire /\ conn'.want = conn.want
          /\ conn'.held = conn.held /\ conn'.replay = conn.replay /\ conn'.head = conn.head
      BY <1>1, <1>2, <1>4 DEF DrainRound, Connection
    <2> QED
      BY <1>1, <1>2, <1>3, <2>1, QuietCalm
  <1>5. CASE conn.held # <<>>
    <2>1. /\ Enqueued(Drained) /\ Drained \in Seq(FrameOnWire)
          /\ conn' = [conn EXCEPT !.held = <<>>, !.wire = conn.wire \o Drained]
      <3>1. Conn /\ backend' = backend
        BY <1>2 DEF Session, HandlerOnly
      <3>2. \/ conn.pc = "drain" /\ done = "subscribed"
            \/ conn.pc = "redrain" /\ done = "attached"
        BY <1>2
      <3> QED
        <4>1. conn.held # <<>> => /\ Enqueued(Drained)
                                  /\ Drained \in Seq(FrameOnWire)
                                  /\ conn' = [conn EXCEPT !.held = <<>>,
                                                          !.wire = conn.wire \o Drained]
          BY <1>2, <3>1, <3>2, DrainConn, Zenon
        <4> QED
          BY <1>5, <4>1, Zenon
    <2>2. ASSUME NEW i \in 1..Len(Drained)
          PROVE  Drained[i].pos \in published
      <3> DEFINE s == BySerial(conn.held)
      <3>1. /\ DOMAIN s = DOMAIN conn.held
            /\ \A k \in DOMAIN conn.held : \E j \in DOMAIN conn.held : s[k] = conn.held[j]
        BY <1>1, SortedHeld
      <3>2. DOMAIN Drained = DOMAIN conn.held /\ i \in DOMAIN Drained
        BY <2>1 DEF Drained
      <3>3. Drained[i].pos = s[i]
        BY <3>2 DEF Drained, Frame
      <3> QED
        BY <1>1, <3>1, <3>2, <3>3 DEF Handed
    <2>3. \A i \in DOMAIN conn'.wire : conn'.wire[i].pos # NoPosition => Known(conn'.wire[i].pos)
      <3>1. PICK g : g = Drained
        OBVIOUS
      <3>2. /\ g \in Seq(FrameOnWire) /\ Enqueued(g)
            /\ \A i \in 1..Len(g) : Known(g[i].pos)
        BY <2>1, <2>2, <3>1, PublishedKnown
      <3> QED
        BY <1>1, <3>2, EnqueuedKnown
    <2>4. /\ conn'.pc = conn.pc /\ conn'.held = <<>> /\ conn'.want = conn.want
          /\ conn'.replay = conn.replay /\ conn'.head = conn.head
      BY <1>1, <2>1 DEF Connection
    <2>5. UNCHANGED serverVars /\ client' = client /\ tasks' = tasks
      BY <1>2 DEF HandlerOnly, serverVars
    <2>6. /\ client'.pos # NoPosition => Known(client'.pos)
          /\ conn'.want # NoPosition => Known(conn'.want)
          /\ \A i \in DOMAIN conn'.replay : Known(conn'.replay[i])
          /\ \A i \in DOMAIN conn'.held : conn'.held[i] \in published
          /\ \A t \in tasks' : t.pos \in published
          /\ conn'.head # NoPosition => conn'.head.serial < hist.next
      BY <1>1, <2>4, <2>5 DEF Handed
    <2>7. conn'.pc \in {"drain", "redrain"} /\ (conn'.pc = "drain" => done = "subscribed")
      BY <1>2, <2>4
    <2> QED
      BY <1>3, <2>3, <2>5, <2>6, <2>7, SessionCalm
  <1> QED
    BY <1>4, <1>5

(* The positions of a run of serials below the buffer's head are known.    *)
LEMMA RunKnown ==
  ASSUME Server, SessionTypes, conn.want # NoPosition, Known(conn.want),
         NEW a \in Nat, NEW b \in Int,
         HistoryEnabled => conn.want.stream = hist.stream,
         \A n \in Nodes : b < hot[n].next
  PROVE  \A i \in DOMAIN InOrder(conn.want.stream, a..b) :
           Known(InOrder(conn.want.stream, a..b)[i])
  <1>1. PICK s \in Streams : s = conn.want.stream
    BY Positions DEF PositionOrNone, Position
  <1> DEFINE r == InOrder(s, a..b)
  <1>2. /\ r \in Seq(Position) /\ Len(r) = IF a > b THEN 0 ELSE b - a + 1
        /\ \A k \in DOMAIN r : r[k] = At(s, a + k - 1)
    BY InOrderRun
  <1> HIDE DEF r
  <1>3. ASSUME NEW i \in DOMAIN r PROVE Known(r[i])
    <2>1. i \in 1..Len(r) /\ r[i] = At(s, a + i - 1)
      BY <1>2, <1>3
    <2>2. r[i].stream = s /\ r[i].serial = a + i - 1
      BY <2>1 DEF At
    <2>3. r[i].serial \in Nat /\ r[i].serial <= b
      <3>1. Len(r) = IF a > b THEN 0 ELSE b - a + 1
        BY <1>2
      <3>2. CASE a > b
        BY <2>1, <3>1, <3>2
      <3>3. CASE ~(a > b)
        BY <2>1, <2>2, <3>1, <3>3
      <3> QED
        BY <3>2, <3>3
    <2>4. /\ s <= fresh
          /\ \A n \in Nodes : hot[n] # NoBuffer /\ hot[n].stream = s
      BY <1>1 DEF Known
    <2>5. \A n \in Nodes : hot[n].next \in Nat /\ r[i].serial < hot[n].next
      <3>1. \A n \in Nodes : hot[n].next \in Nat
        BY <2>4 DEF Server, ServerTypes, Entry
      <3> QED
        BY <2>3, <3>1
    <2> QED
      BY <2>2, <2>4, <2>5 DEF Known
  <1> QED
    BY <1>1, <1>3 DEF r

(* The handler adds to what is to be replayed.                             *)
Finding ==
  /\ conn'.wire = conn.wire /\ conn'.want = conn.want /\ conn'.held = conn.held
  /\ conn'.head = conn.head /\ conn'.target = conn.target
  /\ conn'.pc \in {"answer", "page"} /\ (conn'.pc = "page" => conn.pc = "page")

(* A step of the handler that finds what is to be replayed.                *)
LEMMA FoundCalm ==
  ASSUME Server, Calm, HandlerOnly, Finding,
         \A i \in DOMAIN conn'.replay : Known(conn'.replay[i])
  PROVE  Calm'
  <1>1. Handed /\ Looking
    BY DEF Calm
  <1>2. /\ conn'.wire = conn.wire /\ conn'.want = conn.want /\ conn'.held = conn.held
        /\ conn'.head = conn.head /\ conn'.target = conn.target
        /\ conn'.pc \in {"answer", "page"} /\ (conn'.pc = "page" => conn.pc = "page")
    BY DEF Finding
  <1>3. UNCHANGED serverVars /\ client' = client /\ tasks' = tasks
    BY DEF HandlerOnly, serverVars
  <1>4. /\ client'.pos # NoPosition => Known(client'.pos)
        /\ conn'.want # NoPosition => Known(conn'.want)
        /\ \A i \in DOMAIN conn'.wire : conn'.wire[i].pos # NoPosition => Known(conn'.wire[i].pos)
        /\ \A i \in DOMAIN conn'.held : conn'.held[i] \in published
        /\ \A t \in tasks' : t.pos \in published
        /\ conn'.head # NoPosition => conn'.head.serial < hist.next
    BY <1>1, <1>2, <1>3 DEF Handed
  <1>6. conn'.pc = "page" => /\ \A n \in Nodes : hot[n] # NoBuffer
                             /\ conn'.target \in hist.records
    BY <1>1, <1>2 DEF Looking
  <1> QED
    BY <1>2, <1>3, <1>4, <1>6, SessionCalm

(* The resume fails.                                                       *)
LEMMA FailsCalm ==
  ASSUME Server, SessionTypes, Calm, HandlerOnly, Fails
  PROVE  Calm'
  <1>1. /\ conn'.pc = "answer" /\ conn'.wire = conn.wire /\ conn'.want = conn.want
        /\ conn'.held = conn.held /\ conn'.replay = <<>> /\ conn'.head = conn.head
    BY DEF Fails, SessionTypes, Connection
  <1> QED
    BY <1>1, QuietCalm

(* The lookup in the replay buffer.                                        *)
LEMMA HotCalm ==
  ASSUME Solo, Server, Session, Calm, HotLookup
  PROVE  Calm'
  <1> DEFINE b == hot[conn.node]
             answer == Lookup(b, conn.want.stream, conn.want.serial)
  <1>1. /\ conn.pc = "hot" /\ HandlerOnly
        /\ \/ answer.kind = "Recovered" /\ Replays(answer.serials)
           \/ Fails
           \/ answer.kind # "Recovered" /\ HistoryEnabled
              /\ conn' = [conn EXCEPT !.pc = "state"]
    BY DEF HotLookup
  <1>2. /\ SessionTypes /\ conn \in Connection /\ conn.node \in Nodes
        /\ b \in Entry \cup {NoBuffer}
        /\ (b # NoBuffer => Bounded(b) /\ b.next \in Nat) /\ Conn /\ Handed /\ Looking
    BY DEF Session, SessionTypes, Connection, Server, ServerTypes, Buffered, Entry, Calm
  <1>3. /\ conn.want \in Position /\ conn.want.stream \in Streams /\ conn.want.serial \in Nat
        /\ conn.want # NoPosition /\ Known(conn.want)
    <2>1. conn.want \in Position /\ conn.want.stream \in Streams /\ conn.want.serial \in Nat
      BY <1>1, <1>2, Wanted DEF Resuming
    <2> QED
      BY <1>2, <2>1, NoPositionAssumption DEF Handed
  <1>4. \A n \in Nodes : hot[n] = b
    BY <1>2 DEF Solo
  <1> HIDE DEF b
  <1>5. CASE answer.kind = "Recovered" /\ Replays(answer.serials)
    <2>1. /\ b # NoBuffer /\ b.stream = conn.want.stream
          /\ answer.serials = (conn.want.serial + 1)..(b.next - 1)
      BY <1>2, <1>3, <1>5, LookupFacts
    <2> HIDE DEF answer
    <2> DEFINE r == InOrder(conn.want.stream, (conn.want.serial + 1)..(b.next - 1))
    <2>2. conn' = [conn EXCEPT !.pc = "answer", !.replay = r]
      BY <1>5, <2>1 DEF Replays
    <2>3. \A i \in DOMAIN r : Known(r[i])
      <3>1. CASE HistoryEnabled => conn.want.stream = hist.stream
        <4>1. PICK x \in Nat : x = conn.want.serial + 1
          BY <1>3
        <4>2. PICK y \in Int : y = b.next - 1
          BY <1>2, <2>1
        <4>3. \A n \in Nodes : y < hot[n].next
          BY <1>2, <1>4, <2>1, <4>2
        <4> QED
          BY <1>2, <1>3, <3>1, <4>1, <4>2, <4>3, RunKnown
      <3>2. CASE ~(HistoryEnabled => conn.want.stream = hist.stream)
        <4>1. PICK s \in Streams : s = conn.want.stream
          BY <1>3
        <4>2. PICK x \in Nat : x = conn.want.serial + 1
          BY <1>3
        <4>3. PICK y \in Int : y = b.next - 1
          BY <1>2, <2>1
        <4>4. \A k \in DOMAIN InOrder(s, x..y) : InOrder(s, x..y)[k] = At(s, x + k - 1)
          BY InOrderRun
        <4> HIDE DEF r
        <4>7. r = InOrder(s, x..y)
          BY <4>1, <4>2, <4>3 DEF r
        <4>8. \A k \in DOMAIN r : r[k] = At(s, x + k - 1)
          BY <4>4, <4>7
        <4>5. \A k \in DOMAIN r : r[k].stream = s
          BY <4>8 DEF At
        <4>6. s <= fresh
          BY <1>3, <4>1 DEF Known
        <4> QED
          BY <3>2, <4>1, <4>5, <4>6 DEF Known
      <3> QED
        BY <3>1, <3>2
    <2> HIDE DEF r
    <2>4. Finding /\ conn'.replay = r
      BY <1>2, <2>2 DEF Finding, Connection
    <2>5. \A i \in DOMAIN conn'.replay : Known(conn'.replay[i])
      BY <2>3, <2>4
    <2> QED
      BY <1>1, <1>2, <2>4, <2>5, FoundCalm
  <1>6. CASE Fails
    BY <1>1, <1>2, <1>6, FailsCalm
  <1>7. CASE answer.kind # "Recovered" /\ HistoryEnabled /\ conn' = [conn EXCEPT !.pc = "state"]
    <2>1. /\ conn'.pc = "state" /\ conn'.wire = conn.wire /\ conn'.want = conn.want
          /\ conn'.held = conn.held /\ conn'.replay = conn.replay /\ conn'.head = conn.head
      BY <1>2, <1>7 DEF Connection
    <2>2. \A n \in Nodes : hot[n] # NoBuffer
      BY <1>1, <1>2 DEF Looking
    <2>3. ASSUME conn.want.stream = hist.stream, NEW n \in Nodes
          PROVE  conn.want.serial + 1 < hot[n].next
      <3>1. b # NoBuffer /\ b.stream = conn.want.stream /\ conn.want.serial < b.next
        BY <1>3, <1>4, <2>3 DEF Known
      <3>2. conn.want.serial # b.next - 1
        <4>1. ASSUME conn.want.serial = b.next - 1 PROVE answer.kind = "Recovered"
          BY <1>2, <1>3, <3>1, <4>1 DEF Lookup
        <4> QED
          BY <1>7, <4>1
      <3> QED
        BY <1>2, <1>3, <1>4, <3>1, <3>2
    <2> HIDE DEF answer
    <2> QED
      BY <1>1, <1>2, <2>1, <2>2, <2>3, QuietCalm
  <1> QED
    BY <1>1, <1>5, <1>6, <1>7

(* The frozen head of the history.                                         *)
LEMMA FreezeCalm ==
  ASSUME Server, Session, Calm, FreezeHead
  PROVE  Calm'
  <1>1. /\ SessionTypes /\ conn \in Connection /\ Looking /\ HandlerOnly /\ conn.pc = "freeze"
        /\ hist.records \subseteq 1..MaxSerial /\ MaxSerial \in Nat
    BY BoundsAssumption
       DEF Session, SessionTypes, Calm, FreezeHead, Server, ServerTypes, HistoryState
  <1>2. \/ Fails
        \/ Replays({})
        \/ hist.records # {} /\ conn' = [conn EXCEPT !.pc = "page", !.target = Max(hist.records)]
    BY DEF FreezeHead
  <1>3. CASE Fails
    BY <1>1, <1>3, FailsCalm
  <1>4. CASE Replays({})
    <2>1. PICK q : q = InOrder(conn.want.stream, {})
      OBVIOUS
    <2>2. DOMAIN q = {}
      BY <2>1, FS_EmptySet DEF InOrder
    <2>3. conn' = [conn EXCEPT !.pc = "answer", !.replay = q]
      BY <1>4, <2>1 DEF Replays
    <2>4. Finding /\ conn'.replay = q
      BY <1>1, <2>3 DEF Finding, Connection
    <2> QED
      BY <1>1, <2>2, <2>4, FoundCalm
  <1>5. CASE hist.records # {} /\ conn' = [conn EXCEPT !.pc = "page", !.target = Max(hist.records)]
    <2>1. Max(hist.records) \in hist.records
      BY <1>1, <1>5, Extremes
    <2>2. /\ conn'.pc = "page" /\ conn'.target \in hist.records
          /\ conn'.wire = conn.wire /\ conn'.want = conn.want
          /\ conn'.held = conn.held /\ conn'.replay = conn.replay /\ conn'.head = conn.head
      BY <1>1, <1>5, <2>1 DEF Connection
    <2>3. \A n \in Nodes : hot[n] # NoBuffer
      BY <1>1 DEF Looking
    <2> QED
      BY <1>1, <2>2, <2>3, QuietCalm
  <1> QED
    BY <1>2, <1>3, <1>4, <1>5

(* A page of the history.                                                  *)
LEMMA PageCalm ==
  ASSUME Server, Session, Calm, ReadPage
  PROVE  Calm'
  <1> DEFINE from == conn.want.serial + Len(conn.replay) + 1
             page == Page(from)
             more == page # InBounds(from)
             r == InOrder(hist.stream, page)
  <1>1. /\ conn.pc = "page" /\ HandlerOnly
        /\ \/ Fails
           \/ /\ ExpectedSerials(page, from)
              /\ conn' = [conn EXCEPT !.pc = IF more THEN "page" ELSE "answer",
                                      !.replay = conn.replay \o r]
    BY DEF ReadPage
  <1>2. /\ SessionTypes /\ conn \in Connection /\ conn.replay \in Seq(Position)
        /\ Conn /\ Handed /\ Paging /\ Complete
    BY DEF Session, SessionTypes, Calm, Connection
  <1>3. /\ conn.want \in Position /\ conn.want.serial \in Nat /\ conn.want # NoPosition
        /\ Known(conn.want) /\ conn.want.stream = hist.stream /\ HistoryEnabled
        /\ hist.stream \in Streams
    <2>1. conn.want \in Position /\ conn.want.stream \in Streams /\ conn.want.serial \in Nat
      BY <1>1, <1>2, Wanted DEF Resuming
    <2> QED
      BY <1>1, <1>2, <2>1, NoPositionAssumption DEF Handed, Paging, Conn, Control
  <1>4. CASE Fails
    BY <1>1, <1>2, <1>4, FailsCalm
  <1>5. CASE /\ ExpectedSerials(page, from)
             /\ conn' = [conn EXCEPT !.pc = IF more THEN "page" ELSE "answer",
                                     !.replay = conn.replay \o r]
    <2>1. from \in Nat
      BY <1>2, <1>3
    <2>2. page \subseteq hist.records
      BY DEF Page, InBounds
    <2>3. PICK a \in Nat : a = from
      BY <2>1
    <2>4. hist.records \subseteq 1..MaxSerial /\ MaxSerial \in Nat
      BY BoundsAssumption DEF Server, ServerTypes, HistoryState
    <2>5. IsFiniteSet(page) /\ Cardinality(page) \in Nat
      <3>1. IsFiniteSet(1..MaxSerial)
        <4>1. 1 \in Int /\ MaxSerial \in Int
          BY <2>4
        <4> QED
          BY <4>1, FS_Interval
      <3>2. page \subseteq 1..MaxSerial
        BY <2>2, <2>4
      <3> HIDE DEF page
      <3>3. IsFiniteSet(page)
        BY <3>1, <3>2, FS_Subset
      <3> QED
        BY <3>3, FS_CardinalityType
    <2>6. PICK b \in Int : b = a + Cardinality(page) - 1
      BY <2>3, <2>5
    <2>7. page = a..b
      BY <1>5, <2>3, <2>6 DEF ExpectedSerials
    <2>8. PICK q : q = r
      OBVIOUS
    <2>9. PICK s \in Streams : s = hist.stream
      BY <1>3
    <2> HIDE DEF page, from, more
    <2>10. /\ q \in Seq(Position) /\ Len(q) = IF a > b THEN 0 ELSE b - a + 1
           /\ \A k \in DOMAIN q : q[k] = At(s, a + k - 1)
      BY <2>7, <2>8, <2>9, InOrderRun
    <2>11. \A k \in DOMAIN q : Known(q[k])
      <3>1. SUFFICES ASSUME NEW k \in DOMAIN q PROVE Known(q[k])
        OBVIOUS
      <3>7. q[k] = At(s, a + k - 1) /\ k \in 1..Len(q) /\ Len(q) \in Nat
        BY <2>10
      <3>2. q[k].stream = hist.stream /\ q[k].serial = a + k - 1
        BY <2>9, <3>7 DEF At
      <3>3. a + k - 1 \in a..b
        <4>1. Len(q) = IF a > b THEN 0 ELSE b - a + 1
          BY <2>10
        <4>2. CASE a > b
          BY <3>7, <4>1, <4>2
        <4>3. CASE ~(a > b)
          BY <3>7, <4>1, <4>3
        <4> QED
          BY <4>2, <4>3
      <3>4. q[k].serial \in hist.records
        BY <2>2, <2>7, <3>2, <3>3
      <3>5. \A n \in Nodes :
              hot[n] # NoBuffer /\ hot[n].stream = hist.stream /\ q[k].serial < hot[n].next
        BY <1>2, <1>3, <3>4 DEF Complete
      <3>6. hist.stream <= fresh
        BY <1>3 DEF Known
      <3> QED
        BY <3>2, <3>5, <3>6 DEF Known
    <2>12. PICK z : z = conn.replay \o q
      OBVIOUS
    <2>13. PICK old \in Seq(Position) : old = conn.replay
      BY <1>2
    <2>14. \A i \in DOMAIN old : Known(old[i])
      BY <1>2, <2>13 DEF Handed
    <2>15. \A i \in DOMAIN z : Known(z[i])
      <3>1. z = old \o q /\ Len(old) \in Nat /\ Len(q) \in Nat /\ DOMAIN old = 1..Len(old)
            /\ DOMAIN q = 1..Len(q)
        BY <2>10, <2>12, <2>13
      <3>2. DOMAIN z = 1..(Len(old) + Len(q))
            /\ \A i \in 1..(Len(old) + Len(q)) :
                 z[i] = IF i <= Len(old) THEN old[i] ELSE q[i - Len(old)]
        <4>1. old \in Seq(Position) /\ q \in Seq(Position)
          BY <2>10
        <4>2. /\ old \o q \in Seq(Position) /\ Len(old \o q) = Len(old) + Len(q)
              /\ \A i \in 1..(Len(old) + Len(q)) :
                   (old \o q)[i] = IF i <= Len(old) THEN old[i] ELSE q[i - Len(old)]
          BY <4>1, ConcatProperties
        <4>3. DOMAIN (old \o q) = 1..Len(old \o q)
          BY <4>2
        <4> QED
          BY <3>1, <4>2, <4>3
      <3>3. ASSUME NEW i \in DOMAIN z PROVE Known(z[i])
        <4>1. CASE i <= Len(old)
          BY <2>14, <3>1, <3>2, <4>1
        <4>2. CASE ~(i <= Len(old))
          <5>1. i - Len(old) \in DOMAIN q /\ z[i] = q[i - Len(old)]
            BY <3>1, <3>2, <4>2
          <5> QED
            BY <2>11, <5>1
        <4> QED
          BY <4>1, <4>2
      <3> QED
        BY <3>3
    <2> HIDE DEF r
    <2>16. Finding /\ conn'.replay = z
      BY <1>1, <1>2, <1>5, <2>8, <2>12 DEF Finding, Connection
    <2> QED
      BY <1>1, <1>2, <2>15, <2>16, FoundCalm
  <1> QED
    BY <1>1, <1>4, <1>5

(* A step of the handler that changes the server: what was known stays     *)
(* known, and what it puts on the wire is known afterwards.                *)
LEMMA MovedHanded ==
  ASSUME Handed, SessionTypes, UNCHANGED <<client, tasks, published>>,
         \A p \in Position : Known(p) => Known(p)',
         conn'.want = conn.want, conn'.held = conn.held, conn'.replay = conn.replay,
         NEW g \in Seq(FrameOnWire), Enqueued(g),
         \A i \in 1..Len(g) : g[i].pos # NoPosition => Known(g[i].pos)',
         conn'.head # NoPosition => conn'.head.serial < hist'.next
  PROVE  Handed'
  <1>1. /\ client.pos \in PositionOrNone /\ conn.want \in PositionOrNone
        /\ \A i \in DOMAIN conn.wire : conn.wire[i].pos \in PositionOrNone
        /\ \A i \in DOMAIN conn.replay : conn.replay[i] \in Position
    BY Positions
  <1>2. client'.pos # NoPosition => Known(client.pos)'
    <2>1. PICK p : p = client.pos
      OBVIOUS
    <2>2. p # NoPosition => Known(p) /\ p \in Position
      BY <1>1, <2>1 DEF Handed, PositionOrNone
    <2>3. p # NoPosition => Known(p)'
      BY <2>2
    <2>4. p = client'.pos
      BY <2>1
    <2> QED
      BY <2>3, <2>4
  <1>3. conn'.want # NoPosition => Known(conn.want)'
    <2>1. PICK p : p = conn.want
      OBVIOUS
    <2>2. p # NoPosition => Known(p) /\ p \in Position
      BY <1>1, <2>1 DEF Handed, PositionOrNone
    <2>3. p # NoPosition => Known(p)'
      BY <2>2
    <2>4. p = conn'.want
      BY <2>1
    <2> QED
      BY <2>3, <2>4
  <1>4. ASSUME NEW i \in DOMAIN conn'.replay
        PROVE  Known(conn.replay[i])'
    <2>1. PICK p : p = conn.replay[i]
      OBVIOUS
    <2>2. Known(p) /\ p \in Position
      BY <1>1, <1>4, <2>1 DEF Handed
    <2>3. Known(p)'
      BY <2>2
    <2>4. p = conn'.replay[i]
      BY <2>1
    <2> QED
      BY <2>3, <2>4
  <1>5. ASSUME NEW i \in DOMAIN conn'.wire, conn'.wire[i].pos # NoPosition
        PROVE  Known(conn.wire[i].pos)'
    <2>1. /\ Len(conn.wire) \in Nat /\ DOMAIN conn.wire = 1..Len(conn.wire) /\ Len(g) \in Nat
      BY DEF SessionTypes, Connection
    <2>2. i \in 1..(Len(conn.wire) + Len(g))
      BY <1>5 DEF Enqueued
    <2>3. CASE i <= Len(conn.wire)
      <3>1. i \in DOMAIN conn.wire /\ conn'.wire[i] = conn.wire[i]
        BY <2>1, <2>2, <2>3 DEF Enqueued
      <3>2. PICK p : p = conn.wire[i].pos
        OBVIOUS
      <3>3. Known(p) /\ p \in Position
        BY <1>1, <1>5, <3>1, <3>2 DEF Handed, PositionOrNone
      <3>4. Known(p)'
        BY <3>3
      <3>5. p = conn'.wire[i].pos
        BY <3>1, <3>2
      <3> QED
        BY <3>4, <3>5
    <2>4. CASE i > Len(conn.wire)
      <3>1. PICK j \in 1..Len(g) : i = Len(conn.wire) + j
        <4>1. PICK k \in Nat : k = Len(conn.wire)
          BY <2>1
        <4>2. PICK l \in Nat : l = Len(g)
          BY <2>1
        <4>3. i \in 1..(k + l) /\ i > k
          BY <2>2, <2>4, <4>1, <4>2
        <4>4. i - k \in 1..l /\ i = k + (i - k)
          BY <4>3
        <4> QED
          BY <4>1, <4>2, <4>4
      <3>2. conn'.wire[i] = g[j]
        BY <3>1 DEF Enqueued
      <3>3. Known(g[j].pos)'
        BY <1>5, <3>2
      <3> QED
        BY <3>2, <3>3
    <2> QED
      BY <2>1, <2>2, <2>3, <2>4
  <1>6. /\ \A i \in DOMAIN conn'.held : conn'.held[i] \in published'
        /\ \A t \in tasks' : t.pos \in published'
    BY DEF Handed
  <1> QED
    BY <1>2, <1>3, <1>4, <1>5, <1>6 DEF Handed

(* The inspection of the stream, which creates it in a memory store.       *)
LEMMA InspectCalm ==
  ASSUME Server, Session, Calm, InspectStream
  PROVE  Calm'
  <1>1. /\ conn.pc = "inspect" /\ fresh' \in Streams \cup {0}
        /\ Draw(backend = "memory" /\ hist.stream = NoStream, fresh')
        /\ hist' = IF fresh' = fresh THEN hist ELSE [hist EXCEPT !.stream = fresh']
        /\ UNCHANGED <<backend, hot, pub, tasks, published, client>>
    BY DEF InspectStream
  <1>2. /\ SessionTypes /\ Conn /\ conn \in Connection /\ Complete /\ Handed
        /\ hist \in HistoryState /\ fresh \in Nat /\ ServerTypes /\ hist.next \in Nat
    BY DEF Session, SessionTypes, Calm, Server, ServerTypes, HistoryState
  <1>3. /\ InspectedHead \in PositionOrNone
        /\ conn' = [conn EXCEPT !.pc = "ack", !.head = InspectedHead]
    BY <1>2, InspectConn
  <1>4. /\ hist'.records = hist.records /\ hist'.next = hist.next
        /\ hist'.degraded = hist.degraded
    BY InspectServer
  <1>5. /\ HistoryEnabled /\ HistoryEnabled'
        /\ Owed' = Owed
    BY <1>1, <1>2 DEF Conn, Control, HistoryEnabled, Owed
  <1>6. \/ hist'.stream = hist.stream /\ fresh' = fresh
        \/ hist.stream = NoStream /\ fresh' = fresh + 1 /\ hist'.stream = fresh + 1
    <2>1. CASE backend = "memory" /\ hist.stream = NoStream
      <3>1. fresh' = fresh + 1 /\ fresh' # fresh
        BY <1>1, <1>2, <2>1 DEF Draw
      <3> QED
        BY <1>1, <1>2, <2>1, <3>1 DEF HistoryState
    <2>2. CASE ~(backend = "memory" /\ hist.stream = NoStream)
      BY <1>1, <2>2 DEF Draw
    <2> QED
      BY <2>1, <2>2
  <1>7. hist'.stream # hist.stream =>
          /\ published = {} /\ hist.records = {}
          /\ \A n \in Nodes : hot[n] # NoBuffer => hot[n].msgs = <<>>
    <2> SUFFICES ASSUME hist.stream = NoStream
                 PROVE  /\ published = {} /\ hist.records = {}
                        /\ \A n \in Nodes : hot[n] # NoBuffer => hot[n].msgs = <<>>
      BY <1>6
    <2>1. \A n \in Nodes : hot[n] # NoBuffer => hot[n].stream # NoStream
      BY <1>2, NoStreamAssumption DEF ServerTypes, Entry
    <2>2. \A p \in published : p.stream # NoStream
      BY <1>2, NoStreamAssumption DEF ServerTypes, Position
    <2> QED
      BY <1>2, <1>5, <2>1, <2>2, NodesAssumption DEF Complete
  <1>8. Complete'
    BY <1>1, <1>2, <1>4, <1>5, <1>6, <1>7 DEF Complete
  <1>9. Window'
    BY <1>5 DEF Window
  <1>10. \A p \in Position : Known(p) => Known(p)'
    <2>1. \A n \in Nodes : hot[n] # NoBuffer => hot[n].next \in Nat
      BY <1>2 DEF ServerTypes, Entry
    <2>2. fresh' \in Nat /\ fresh <= fresh'
          /\ (hist'.stream = hist.stream \/ (hist'.stream \in Nat /\ hist'.stream > fresh))
      BY <1>2, <1>6
    <2>3. \A n \in Nodes :
            hot[n] # NoBuffer /\ (HistoryEnabled => hot[n].stream = hist.stream) =>
              /\ hot'[n] # NoBuffer /\ hot'[n].stream = hot[n].stream
              /\ hot'[n].next \in Nat /\ hot[n].next <= hot'[n].next
      BY <1>1, <2>1
    <2> QED
      BY <1>1, <2>2, <2>3, KnownStays
  <1>11. InspectedHead # NoPosition => InspectedHead.serial < hist'.next
    <2>1. NewestSerial < hist.next
      <3>1. CASE hist.records = {}
        BY <1>2, <3>1 DEF NewestSerial
      <3>2. CASE hist.records # {}
        <4>1. hist.records \subseteq 1..MaxSerial /\ MaxSerial \in Nat
          BY <1>2, BoundsAssumption DEF HistoryState
        <4>2. Max(hist.records) \in hist.records
          BY <3>2, <4>1, Extremes
        <4> QED
          BY <1>5, <3>2, <4>2 DEF NewestSerial, Server, Logged
      <3> QED
        BY <3>1, <3>2
    <2> HIDE DEF NewestSerial
    <2> QED
      BY <1>4, <2>1 DEF InspectedHead, At
  <1> HIDE DEF InspectedHead
  <1>12. /\ conn'.want = conn.want /\ conn'.held = conn.held /\ conn'.replay = conn.replay
         /\ conn'.wire = conn.wire /\ conn'.head = InspectedHead /\ conn'.pc = "ack"
    BY <1>2, <1>3 DEF Connection
  <1>13. Handed'
    <2>4. <<>> \in Seq(FrameOnWire) /\ Len(<<>>) = 0
      BY EmptySeq
    <2>1. PICK g \in Seq(FrameOnWire) : g = <<>>
      BY <2>4
    <2>2. Enqueued(g)
      <3>1. conn.wire \in Seq(FrameOnWire) /\ Len(conn.wire) \in Nat
        BY <1>2 DEF Connection
      <3> QED
        BY <1>12, <2>1, <3>1 DEF Enqueued
    <2>3. \A i \in 1..Len(g) : g[i].pos # NoPosition => Known(g[i].pos)'
      BY <2>1
    <2> QED
      BY <1>1, <1>2, <1>10, <1>11, <1>12, <2>2, <2>3, MovedHanded
  <1>14. Looking'
    BY <1>12 DEF Looking
  <1> QED
    BY <1>8, <1>9, <1>13, <1>14 DEF Calm

(* The replay buffer adopts the durable head, and it is acknowledged.      *)
LEMMA AckDurableCalm ==
  ASSUME Solo, Server, Session, Calm, AckDurable
  PROVE  Calm'
  <1>1. /\ conn.pc = "ack" /\ conn.head # NoPosition /\ AckPosition(conn.head)
        /\ hot' = [hot EXCEPT ![conn.node] = EnsurePositionBuffer(hot[conn.node], conn.head)]
        /\ UNCHANGED <<backend, hist, pub, tasks, published, client, fresh>>
    BY DEF AckDurable
  <1>2. /\ SessionTypes /\ Conn /\ conn \in Connection /\ Complete /\ Handed /\ HeadKnown
        /\ ServerTypes /\ hist.next \in Nat /\ fresh \in Nat /\ conn.node \in Nodes
    BY DEF Session, SessionTypes, Connection, Calm, Server, ServerTypes, HistoryState
  <1>3. PICK p \in Position : p = conn.head
    BY <1>1, <1>2, Positions DEF PositionOrNone
  <1>4. PICK n \in Nodes : n = conn.node
    BY <1>2
  <1>5. \A m \in Nodes : m = n
    BY DEF Solo
  <1>6. PICK b \in Entry \cup {NoBuffer} : b = hot[n]
    BY <1>2 DEF ServerTypes
  <1>7. PICK c : c = AdoptPosition(b, p)
    OBVIOUS
  <1>8. hot'[n] = c
    <2>1. hot' = [hot EXCEPT ![n] = AdoptPosition(hot[n], p)]
      BY <1>1, <1>3, <1>4 DEF EnsurePositionBuffer
    <2> QED
      BY <1>2, <1>6, <1>7, <2>1 DEF ServerTypes
  <1>9. /\ p.stream = hist.stream /\ p.serial < hist.next /\ HistoryEnabled
        /\ HistoryEnabled' /\ Owed' = Owed /\ p.serial \in Nat
    BY <1>1, <1>2, <1>3 DEF HeadKnown, Handed, HistoryEnabled, Owed, Position
  <1>10. /\ c \in Entry /\ c # NoBuffer /\ c.next \in Nat /\ c.next > p.serial
         /\ c.msgs = <<>> => c.stream = p.stream
         /\ b = NoBuffer => c.msgs = <<>>
         /\ b # NoBuffer => c.msgs = b.msgs /\ c.next >= b.next
         /\ b # NoBuffer /\ b.msgs # <<>> => c.stream = b.stream
         /\ c.next = IF b = NoBuffer \/ b.next < p.serial + 1 THEN p.serial + 1 ELSE b.next
    <2>1. /\ c \in Entry /\ c.next > p.serial
          /\ c.msgs = <<>> => c.stream = p.stream
          /\ b = NoBuffer => c.msgs = <<>>
          /\ b # NoBuffer => c.msgs = b.msgs /\ c.next >= b.next
          /\ b # NoBuffer => \A i \in DOMAIN b.msgs : c.stream = b.stream
      BY <1>7, AdoptFacts
    <2>2. c.next = IF b = NoBuffer \/ b.next < p.serial + 1 THEN p.serial + 1 ELSE b.next
      BY <1>7, RaisedNext
    <2>3. b # NoBuffer /\ b.msgs # <<>> => 1 \in DOMAIN b.msgs
      BY DEF Entry
    <2>4. c # NoBuffer /\ c.next \in Nat
      BY <2>1, NoBufferAssumption DEF Entry
    <2> QED
      BY <2>1, <2>2, <2>3, <2>4
  <1>11. c.stream = hist.stream
    <2>1. b # NoBuffer /\ b.msgs # <<>> => b.stream = hist.stream
      BY <1>2, <1>6, <1>9 DEF Complete
    <2> QED
      BY <1>9, <1>10, <2>1
  <1>12. b # NoBuffer => b.next \in Nat /\ b.next <= hist.next
    BY <1>2, <1>6, <1>9 DEF Complete, Entry
  <1>13. c.next <= hist.next
    BY <1>2, <1>9, <1>10, <1>12
  <1>14. Complete'
    <2>1. ASSUME NEW r \in hist.records PROVE r < c.next
      <3>1. b # NoBuffer /\ r < b.next
        BY <1>2, <1>6, <1>9, <2>1 DEF Complete
      <3>2. r \in Nat
        BY <1>2, <2>1 DEF ServerTypes, HistoryState
      <3> QED
        BY <1>10, <1>12, <3>1, <3>2
    <2>2. /\ \A m \in Nodes : hot'[m] # NoBuffer =>
               /\ hot'[m].msgs # <<>> => hot'[m].stream = hist.stream
               /\ hot'[m].next <= hist.next
          /\ \A r \in hist.records, m \in Nodes :
               hot'[m] # NoBuffer /\ hot'[m].stream = hist.stream /\ r < hot'[m].next
      BY <1>5, <1>8, <1>10, <1>11, <1>13, <2>1
    <2> QED
      BY <1>1, <1>2, <1>9, <2>2 DEF Complete
  <1>15. Window'
    BY <1>9 DEF Window
  <1>16. \A q \in Position : Known(q) => Known(q)'
    <2>1. \A m \in Nodes :
            hot[m] # NoBuffer /\ (HistoryEnabled => hot[m].stream = hist.stream) =>
              /\ hot'[m] # NoBuffer /\ hot'[m].stream = hot[m].stream
              /\ hot'[m].next \in Nat /\ hot[m].next <= hot'[m].next
      BY <1>5, <1>6, <1>8, <1>9, <1>10, <1>11, <1>12
    <2>2. hist' = hist /\ fresh' = fresh /\ backend' = backend
      BY <1>1
    <2> QED
      BY <1>2, <2>1, <2>2, KnownStays
  <1>17. Known(p)'
    <2>1. p.stream <= fresh'
      BY <1>1, <1>9, NoStreamAssumption DEF Server, Drawn, Position
    <2>2. \A m \in Nodes : hot'[m] # NoBuffer /\ hot'[m].stream = p.stream
                           /\ p.serial < hot'[m].next
      BY <1>5, <1>8, <1>9, <1>10, <1>11
    <2> QED
      BY <2>1, <2>2 DEF Known
  <1>18. /\ conn'.want = conn.want /\ conn'.held = conn.held /\ conn'.replay = conn.replay
         /\ conn'.head = NoPosition /\ conn'.pc = "update"
    BY <1>1, <1>2 DEF AckPosition, Connection
  <1>19. Handed'
    <2>1. PICK g : g = <<Frame("ack", p)>>
      OBVIOUS
    <2>2. /\ g \in Seq(FrameOnWire) /\ Len(g) = 1 /\ g[1].pos = p
      <3>1. Frame("ack", p) \in FrameOnWire /\ Frame("ack", p).pos = p
        BY DEF Frame, FrameOnWire, PositionOrNone
      <3> QED
        BY <2>1, <3>1
    <2>3. Enqueued(g)
      <3>1. AckPosition(p)
        BY <1>1, <1>3
      <3> QED
        BY <1>1, <1>2, <2>1, <3>1, AckConn
    <2>4. \A i \in 1..Len(g) : g[i].pos # NoPosition => Known(g[i].pos)'
      <3>1. \A i \in 1..Len(g) : g[i].pos = p
        BY <2>2
      <3> QED
        BY <1>17, <3>1
    <2> QED
      BY <1>1, <1>2, <1>16, <1>18, <2>2, <2>3, <2>4, MovedHanded
  <1>20. Looking'
    BY <1>5, <1>8, <1>10, <1>18 DEF Looking
  <1> QED
    BY <1>14, <1>15, <1>19, <1>20 DEF Calm

(* The acknowledgement of the replay buffer's position.                    *)
LEMMA AckHotCalm ==
  ASSUME Solo, Server, Session, Calm, AckHot
  PROVE  Calm'
  <1>1. /\ conn.pc = "ack" /\ fresh' \in Streams \cup {0}
        /\ Draw(hot[conn.node] = NoBuffer, fresh')
        /\ hot' = [hot EXCEPT ![conn.node] = CurrentPositionBuffer(hot[conn.node], fresh')]
        /\ AckPosition(HeadPosition(hot'[conn.node]))
        /\ UNCHANGED <<backend, hist, pub, tasks, published, client>>
    BY DEF AckHot
  <1>2. /\ SessionTypes /\ Conn /\ conn \in Connection /\ Complete /\ Handed /\ Window
        /\ ServerTypes /\ hist.next \in Nat \ {0} /\ fresh \in Nat /\ conn.node \in Nodes
    BY DEF Session, SessionTypes, Connection, Calm, Server, ServerTypes, HistoryState
  <1>3. PICK n \in Nodes : n = conn.node
    BY <1>2
  <1>4. \A m \in Nodes : m = n
    BY DEF Solo
  <1>5. PICK b \in Entry \cup {NoBuffer} : b = hot[n]
    BY <1>2 DEF ServerTypes
  <1>6. PICK c : c = hot'[n]
    OBVIOUS
  <1>7. c \in Entry /\ c # NoBuffer /\ c.next \in Nat \ {0}
    BY <1>2, <1>3, <1>6, AckHotServer
  <1>8. /\ b # NoBuffer => c = b /\ fresh' = fresh
        /\ b = NoBuffer => /\ c = NewChannelBuffer(fresh', 1)
                           /\ fresh' = fresh + 1
    <2>1. c = CurrentPositionBuffer(b, fresh')
      BY <1>1, <1>2, <1>3, <1>5, <1>6 DEF ServerTypes
    <2> QED
      BY <1>1, <1>3, <1>5, <2>1 DEF CurrentPositionBuffer, GetOrInsert, Draw
  <1>9. PICK p \in Position : p = At(c.stream, c.next - 1)
    <2>1. c.stream \in Streams /\ c.next - 1 \in Nat
      BY <1>7 DEF Entry
    <2>2. At(c.stream, c.next - 1) \in Position
      BY <2>1 DEF At, Position
    <2> QED
      BY <2>2
  <1>10. p.stream = c.stream /\ p.serial < c.next /\ p.serial \in Nat
    BY <1>7, <1>9 DEF At
  <1>11. AckPosition(p)
    BY <1>1, <1>3, <1>6, <1>9 DEF HeadPosition, At
  <1>12. b = NoBuffer => /\ c.msgs = <<>> /\ c.stream = fresh + 1 /\ c.next = 1
    BY <1>8 DEF NewChannelBuffer
  <1>13. HistoryEnabled' = HistoryEnabled /\ Owed' = Owed
    BY <1>1 DEF HistoryEnabled, Owed
  <1>14. Complete'
    <2> SUFFICES ASSUME HistoryEnabled PROVE Complete'
      BY <1>13 DEF Complete
    <2>1. b = NoBuffer => hist.records = {}
      BY <1>2, <1>5 DEF Complete
    <2>2. /\ \A m \in Nodes : hot'[m] # NoBuffer =>
               /\ hot'[m].msgs # <<>> => hot'[m].stream = hist.stream
               /\ hot'[m].next <= hist.next
          /\ \A r \in hist.records, m \in Nodes :
               hot'[m] # NoBuffer /\ hot'[m].stream = hist.stream /\ r < hot'[m].next
      <3>1. CASE b # NoBuffer
        BY <1>2, <1>4, <1>5, <1>6, <1>8, <3>1 DEF Complete
      <3>2. CASE b = NoBuffer
        BY <1>2, <1>4, <1>6, <1>12, <2>1, <3>2
      <3> QED
        BY <3>1, <3>2
    <2> QED
      BY <1>1, <1>2, <1>13, <2>2 DEF Complete
  <1>15. \A q \in Position : Known(q) => Known(q)'
    <2>1. \A m \in Nodes :
            hot[m] # NoBuffer /\ (HistoryEnabled => hot[m].stream = hist.stream) =>
              /\ hot'[m] # NoBuffer /\ hot'[m].stream = hot[m].stream
              /\ hot'[m].next \in Nat /\ hot[m].next <= hot'[m].next
      BY <1>4, <1>5, <1>6, <1>7, <1>8
    <2>2. hist' = hist /\ backend' = backend /\ fresh' \in Nat /\ fresh <= fresh'
      BY <1>1, <1>2, <1>8
    <2> QED
      BY <2>1, <2>2, KnownStays
  <1>16. Window'
    <2> SUFFICES ASSUME ~HistoryEnabled PROVE Window'
      BY <1>13 DEF Window
    <2>1. \A q \in published : Known(q)'
      <3>1. \A q \in published : Known(q) /\ q \in Position
        BY <1>2 DEF Window, ServerTypes
      <3> QED
        BY <1>15, <3>1
    <2>2. \A m \in Nodes : hot'[m] = c
      BY <1>4, <1>6
    <2>3. /\ Len(c.msgs) = IF LastStored(n)' < MaxBufferSize THEN LastStored(n)' ELSE MaxBufferSize
          /\ \A i \in 1..Len(c.msgs) :
               c.msgs[i] = At(c.stream, LastStored(n)' - Len(c.msgs) + i)
          /\ pub[n].pc = "reserved" => pub[n].pos = At(c.stream, c.next - 1)
      <3>1. CASE b # NoBuffer
        <4>1. LastStored(n)' = LastStored(n)
          BY <1>1, <1>5, <1>6, <1>8, <3>1 DEF LastStored
        <4> QED
          BY <1>2, <1>5, <1>8, <3>1, <4>1 DEF Window
      <3>2. CASE b = NoBuffer
        <4>1. ~Busy(n)
          BY <1>5, <3>2 DEF Server, OwnStreams
        <4>2. LastStored(n)' = 0
          BY <1>1, <1>6, <1>12, <3>2, <4>1 DEF LastStored, Busy
        <4>3. Len(c.msgs) = 0 /\ pub[n].pc = "idle" /\ MaxBufferSize \in Nat \ {0}
          BY <1>12, <3>2, <4>1, MaxBufferSizeAssumption DEF Busy
        <4> QED
          BY <4>2, <4>3
      <3> QED
        BY <3>1, <3>2
    <2>4. \A m \in Nodes : hot'[m] # NoBuffer =>
            /\ Len(hot'[m].msgs) =
                 IF LastStored(m)' < MaxBufferSize THEN LastStored(m)' ELSE MaxBufferSize
            /\ \A i \in 1..Len(hot'[m].msgs) :
                 hot'[m].msgs[i] = At(hot'[m].stream, LastStored(m)' - Len(hot'[m].msgs) + i)
            /\ pub'[m].pc = "reserved" => pub'[m].pos = At(hot'[m].stream, hot'[m].next - 1)
      <3> HIDE DEF LastStored
      <3>1. SUFFICES ASSUME NEW m \in Nodes
            PROVE  /\ Len(hot'[m].msgs) =
                        IF LastStored(m)' < MaxBufferSize THEN LastStored(m)' ELSE MaxBufferSize
                   /\ \A i \in 1..Len(hot'[m].msgs) :
                        hot'[m].msgs[i] = At(hot'[m].stream, LastStored(m)' - Len(hot'[m].msgs) + i)
                   /\ pub'[m].pc = "reserved" => pub'[m].pos = At(hot'[m].stream, hot'[m].next - 1)
        OBVIOUS
      <3>2. m = n /\ pub' = pub /\ hot'[n] = c
        BY <1>1, <1>4, <2>2
      <3> QED
        BY <2>3, <3>2
    <2> QED
      BY <1>1, <2>1, <2>4 DEF Window, At
  <1>17. Known(p)'
    <2>1. p.stream <= fresh'
      BY <1>1, <1>2, <1>5, <1>8, <1>10, <1>12 DEF Server, Drawn
    <2>2. \A m \in Nodes : hot'[m] # NoBuffer /\ hot'[m].stream = p.stream
                           /\ p.serial < hot'[m].next
      BY <1>4, <1>6, <1>7, <1>10
    <2> QED
      BY <2>1, <2>2 DEF Known
  <1>18. /\ conn'.want = conn.want /\ conn'.held = conn.held /\ conn'.replay = conn.replay
         /\ conn'.head = NoPosition /\ conn'.pc = "update"
    BY <1>2, <1>11 DEF AckPosition, Connection
  <1>19. Handed'
    <2>1. PICK g : g = <<Frame("ack", p)>>
      OBVIOUS
    <2>2. /\ g \in Seq(FrameOnWire) /\ Len(g) = 1 /\ g[1].pos = p
      <3>1. Frame("ack", p) \in FrameOnWire /\ Frame("ack", p).pos = p
        BY DEF Frame, FrameOnWire, PositionOrNone
      <3> QED
        BY <2>1, <3>1
    <2>3. Enqueued(g)
      BY <1>1, <1>2, <1>11, <2>1, AckConn
    <2>4. \A i \in 1..Len(g) : g[i].pos # NoPosition => Known(g[i].pos)'
      <3>1. \A i \in 1..Len(g) : g[i].pos = p
        BY <2>2
      <3> QED
        BY <1>17, <3>1
    <2> QED
      BY <1>1, <1>2, <1>15, <1>18, <2>2, <2>3, <2>4, MovedHanded
  <1>20. Looking'
    BY <1>4, <1>6, <1>7, <1>18 DEF Looking
  <1> QED
    BY <1>14, <1>16, <1>19, <1>20 DEF Calm

(* A frame leaves the client its position, takes it away or brings its own. *)
LEMMA OnFramePosition ==
  ASSUME NEW c \in ClientState, NEW f \in FrameOnWire
  PROVE  OnFrame(c, f).pos \in {c.pos, NoPosition, f.pos}
  <1>1. CASE f.kind \in {"live", "replay"} /\ f.pos \in c.got
    BY <1>1 DEF OnFrame
  <1>2. CASE ~(f.kind \in {"live", "replay"} /\ f.pos \in c.got) /\ f.kind = "failed"
    BY <1>2 DEF OnFrame, ClientState
  <1>3. CASE ~(f.kind \in {"live", "replay"} /\ f.pos \in c.got) /\ f.kind # "failed"
    BY <1>3 DEF OnFrame
  <1> QED
    BY <1>1, <1>2, <1>3

(* What the client holds when the connection goes away is known.           *)
LEMMA HangupKnown ==
  ASSUME SessionTypes, Handed, Hangup
  PROVE  client'.pos # NoPosition => Known(client'.pos)
  <1>1. conn.wire \in Seq(FrameOnWire) /\ Len(conn.wire) \in Nat
    BY DEF SessionTypes, Connection
  <1> DEFINE S == {k \in 0..Len(conn.wire) :
                     /\ ClientAfter[k] \in ClientState
                     /\ ClientAfter[k].pos # NoPosition => Known(ClientAfter[k].pos)}
  <1>2. 0 \in S
    <2>1. ClientAfter[0] = client
      BY <1>1, ClientRuns
    <2> QED
      BY <1>1, <2>1 DEF SessionTypes, Handed
  <1>3. ASSUME NEW k \in 1..Len(conn.wire), k - 1 \in S
        PROVE  k \in S
    <2>1. conn.wire[k] \in FrameOnWire /\ k \in DOMAIN conn.wire
      BY <1>1
    <2>2. conn.wire[k].pos # NoPosition => Known(conn.wire[k].pos)
      BY <2>1 DEF Handed
    <2>3. ClientAfter[k] = OnFrame(ClientAfter[k - 1], conn.wire[k])
      BY <1>1, ClientRuns
    <2>4. /\ ClientAfter[k - 1] \in ClientState
          /\ ClientAfter[k - 1].pos # NoPosition => Known(ClientAfter[k - 1].pos)
      BY <1>3
    <2>5. ClientAfter[k] \in ClientState
      BY <2>1, <2>3, <2>4, OnFrameType
    <2>6. ClientAfter[k].pos \in {ClientAfter[k - 1].pos, NoPosition, conn.wire[k].pos}
      BY <2>1, <2>3, <2>4, OnFramePosition
    <2>7. ClientAfter[k].pos # NoPosition => Known(ClientAfter[k].pos)
      BY <2>2, <2>4, <2>6
    <2> QED
      BY <1>1, <2>5, <2>7
  <1> HIDE DEF S
  <1>4. 0..Len(conn.wire) \subseteq S
    BY <1>1, <1>2, <1>3, Rounds
  <1>5. \E k \in 0..Len(conn.wire) : client' = ClientAfter[k]
    BY DEF Hangup
  <1> QED
    BY <1>4, <1>5 DEF S

(* The connection goes away.                                               *)
LEMMA HangupCalm ==
  ASSUME Server, Session, Calm, Hangup, UNCHANGED serverVars, tasks' \subseteq tasks
  PROVE  Calm'
  <1>1. SessionTypes /\ Handed
    BY DEF Session, Calm
  <1>2. client'.pos # NoPosition => Known(client'.pos)
    BY <1>1, HangupKnown
  <1>3. /\ conn'.pc = "closed" /\ conn'.want = NoPosition /\ conn'.wire = <<>>
        /\ conn'.replay = <<>> /\ conn'.held = <<>> /\ conn'.head = NoPosition
    BY DEF Hangup, NoConn
  <1>4. DOMAIN conn'.wire = {} /\ DOMAIN conn'.replay = {} /\ DOMAIN conn'.held = {}
    BY <1>3
  <1>5. \A t \in tasks' : t.pos \in published
    BY <1>1 DEF Handed
  <1> QED
    BY <1>2, <1>3, <1>4, <1>5, SessionCalm

(* A new connection asks for the position that the client holds.           *)
LEMMA ConnectCalm ==
  ASSUME Server, Session, Calm, NEW n \in Nodes, Connect(n)
  PROVE  Calm'
  <1>1. /\ UNCHANGED serverVars /\ client' = client /\ tasks' = tasks
        /\ conn' = [NoConn(conn.id + 1) EXCEPT !.node = n, !.pc = "subscribe",
                                               !.want = client.pos]
    BY DEF Connect, serverVars
  <1>2. /\ conn'.pc = "subscribe" /\ conn'.want = client.pos /\ conn'.wire = <<>>
        /\ conn'.replay = <<>> /\ conn'.held = <<>> /\ conn'.head = NoPosition
    BY <1>1 DEF NoConn
  <1>3. DOMAIN conn'.wire = {} /\ DOMAIN conn'.replay = {} /\ DOMAIN conn'.held = {}
    BY <1>2
  <1>4. /\ client'.pos # NoPosition => Known(client'.pos)
        /\ \A t \in tasks' : t.pos \in published
    BY <1>1 DEF Calm, Handed
  <1>5. conn'.want # NoPosition => Known(conn'.want)
    BY <1>1, <1>2, <1>4
  <1> QED
    BY <1>1, <1>2, <1>3, <1>4, <1>5, SessionCalm

(* Fan-out holds or sends what is published.                               *)
LEMMA FanoutCalm ==
  ASSUME Server, Session, Calm, Fanout
  PROVE  Calm'
  <1>1. PICK t \in tasks : Snapshot(t) \/ Split(t) \/ SendLive(t)
    BY DEF Fanout
  <1>2. /\ SessionTypes /\ conn \in Connection /\ Handed /\ Looking /\ t \in FanoutTask
        /\ t.pos \in published /\ t.pos \in Position /\ Known(t.pos)
    BY PublishedKnown DEF Session, SessionTypes, Calm, Handed, Server, ServerTypes, FanoutTask
  <1>3. /\ UNCHANGED serverVars
        /\ \A u \in tasks' : u.pos \in published
    <2>1. CASE Snapshot(t)
      BY <1>2, <2>1 DEF Snapshot, Task, serverVars, Handed
    <2>2. CASE Split(t)
      <3>1. \A u \in tasks' : u \in tasks \/ u = [t EXCEPT !.step = "send"]
        BY <2>2 DEF Split
      <3>2. [t EXCEPT !.step = "send"].pos = t.pos
        BY <1>2 DEF FanoutTask
      <3> QED
        BY <1>2, <2>2, <3>1, <3>2 DEF Split, serverVars, Handed
    <2>3. CASE SendLive(t)
      BY <1>2, <2>3 DEF SendLive, serverVars, Handed
    <2> QED
      BY <1>1, <2>1, <2>2, <2>3
  <1>4. CASE Hangup /\ tasks' \subseteq tasks
    BY <1>3, <1>4, HangupCalm
  <1>5. CASE /\ client' = client
             /\ conn'.want = conn.want /\ conn'.replay = conn.replay /\ conn'.head = conn.head
             /\ conn'.pc = conn.pc /\ conn'.target = conn.target
             /\ conn'.held = conn.held \/ conn'.held = Append(conn.held, t.pos)
             /\ conn'.wire = conn.wire \/ conn'.wire = Append(conn.wire, Frame("live", t.pos))
    <2>1. \A i \in DOMAIN conn'.held : conn'.held[i] \in published
      <3>1. CASE conn'.held = conn.held
        BY <1>2, <3>1 DEF Handed
      <3>2. CASE conn'.held = Append(conn.held, t.pos)
        <4>1. conn.held \in Seq(Position) /\ Len(conn.held) \in Nat
          BY <1>2 DEF Connection
        <4>2. /\ DOMAIN conn'.held = 1..(Len(conn.held) + 1)
              /\ conn'.held[Len(conn.held) + 1] = t.pos
              /\ \A i \in 1..Len(conn.held) : conn'.held[i] = conn.held[i]
          BY <1>2, <3>2, <4>1
        <4>3. \A i \in 1..Len(conn.held) : conn.held[i] \in published
          BY <1>2, <4>1 DEF Handed
        <4>4. ASSUME NEW i \in 1..(Len(conn.held) + 1) PROVE conn'.held[i] \in published
          <5>1. CASE i = Len(conn.held) + 1
            BY <1>2, <4>2, <5>1
          <5>2. CASE i # Len(conn.held) + 1
            <6>1. i \in 1..Len(conn.held)
              BY <4>1, <5>2
            <6> QED
              BY <4>2, <4>3, <6>1
          <5> QED
            BY <5>1, <5>2
        <4> QED
          BY <4>2, <4>4
      <3> QED
        BY <1>5, <3>1, <3>2
    <2>2. \A i \in DOMAIN conn'.wire :
            conn'.wire[i].pos # NoPosition => Known(conn'.wire[i].pos)
      <3>1. CASE conn'.wire = conn.wire
        BY <1>2, <3>1 DEF Handed
      <3>2. CASE conn'.wire = Append(conn.wire, Frame("live", t.pos))
        <4>1. PICK f \in FrameOnWire : f = Frame("live", t.pos)
          <5>1. Frame("live", t.pos) \in FrameOnWire
            BY <1>2 DEF Frame, FrameOnWire, PositionOrNone
          <5> QED
            BY <5>1
        <4>2. f.pos = t.pos
          BY <4>1 DEF Frame
        <4>3. Enqueued(<<f>>)
          BY <1>2, <3>2, <4>1, EnqueuedOne
        <4>4. <<f>> \in Seq(FrameOnWire) /\ \A i \in 1..Len(<<f>>) : <<f>>[i] = f
          OBVIOUS
        <4> QED
          BY <1>2, <4>2, <4>3, <4>4, EnqueuedKnown
      <3> QED
        BY <1>5, <3>1, <3>2
    <2>3. /\ client'.pos # NoPosition => Known(client'.pos)
          /\ conn'.want # NoPosition => Known(conn'.want)
          /\ \A i \in DOMAIN conn'.replay : Known(conn'.replay[i])
          /\ conn'.head # NoPosition => conn'.head.serial < hist.next
      BY <1>2, <1>5 DEF Handed
    <2>4. /\ conn'.pc \in {"update", "drain", "subscribed", "hot", "state", "freeze", "page"} =>
               \A n \in Nodes : hot[n] # NoBuffer
          /\ conn'.pc \in {"state", "freeze"} /\ conn'.want.stream = hist.stream =>
               \A n \in Nodes : conn'.want.serial + 1 < hot[n].next
          /\ conn'.pc = "page" => conn'.target \in hist.records
      BY <1>2, <1>5 DEF Looking
    <2> QED
      BY <1>3, <2>1, <2>2, <2>3, <2>4, SessionCalm
  <1>6. \/ Hangup /\ tasks' \subseteq tasks
        \/ /\ client' = client
           /\ conn'.want = conn.want /\ conn'.replay = conn.replay /\ conn'.head = conn.head
           /\ conn'.pc = conn.pc /\ conn'.target = conn.target
           /\ conn'.held = conn.held \/ conn'.held = Append(conn.held, t.pos)
           /\ conn'.wire = conn.wire \/ conn'.wire = Append(conn.wire, Frame("live", t.pos))
    <2>1. CASE Snapshot(t)
      BY <2>1 DEF Snapshot
    <2>2. CASE Split(t)
      <3>1. \/ conn' = [conn EXCEPT !.held = Append(conn.held, t.pos)] /\ client' = client
            \/ Hangup /\ tasks' = tasks \ {t}
            \/ conn' = conn /\ client' = client
        BY <2>2 DEF Split
      <3>2. CASE conn' = [conn EXCEPT !.held = Append(conn.held, t.pos)] /\ client' = client
        BY <1>2, <3>2 DEF Connection
      <3> QED
        BY <3>1, <3>2
    <2>3. CASE SendLive(t)
      <3>1. \/ conn' = [conn EXCEPT !.wire = Append(conn.wire, Frame("live", t.pos))]
               /\ client' = client
            \/ conn' = conn /\ client' = client
        BY <2>3 DEF SendLive
      <3>2. CASE conn' = [conn EXCEPT !.wire = Append(conn.wire, Frame("live", t.pos))]
                 /\ client' = client
        BY <1>2, <3>2 DEF Connection
      <3> QED
        BY <3>1, <3>2
    <2> QED
      BY <1>1, <2>1, <2>2, <2>3
  <1> QED
    BY <1>4, <1>5, <1>6

(* A queue without a hole below its head answers every position it reaches. *)
LEMMA WindowLookup ==
  ASSUME NEW b \in Entry, NEW last \in Nat, last < b.next,
         Len(b.msgs) = IF b.next - 1 < MaxBufferSize THEN b.next - 1 ELSE MaxBufferSize,
         \A i \in 1..Len(b.msgs) : b.msgs[i] = At(b.stream, b.next - 1 - Len(b.msgs) + i),
         b.next - last <= MaxBufferSize + 1
  PROVE  Lookup(b, b.stream, last).kind = "Recovered"
  <1>1. PICK l \in Nat : l = Len(b.msgs)
    BY DEF Entry
  <1>2. PICK x \in Nat : x = b.next
    BY DEF Entry
  <1>3. /\ b # NoBuffer /\ DOMAIN b.msgs = 1..l /\ MaxBufferSize \in Nat \ {0}
        /\ last < x /\ x - last <= MaxBufferSize + 1
        /\ l = IF x - 1 < MaxBufferSize THEN x - 1 ELSE MaxBufferSize
    BY <1>1, <1>2, NoBufferAssumption, MaxBufferSizeAssumption DEF Entry
  <1>4. \A i \in 1..l : b.msgs[i].stream = b.stream /\ b.msgs[i].serial = x - 1 - l + i
    <2>1. \A i \in 1..l : b.msgs[i] = At(b.stream, x - 1 - l + i)
      BY <1>1, <1>2
    <2>2. \A k : At(b.stream, k).stream = b.stream /\ At(b.stream, k).serial = k
      BY DEF At
    <2> QED
      BY <2>1, <2>2
  <1>5. CASE last = x - 1
    BY <1>2, <1>3, <1>5 DEF Lookup
  <1>6. CASE last # x - 1
    <2>1. last + 1 <= x - 1 /\ x - l <= last + 1 /\ l >= 1
      BY <1>3, <1>6
    <2>2. \A i : i \in Candidates(b, last) <=> i \in 1..l /\ x - 1 - l + i > last
      BY <1>3, <1>4 DEF Candidates
    <2>3. ~\A i \in DOMAIN b.msgs : last + 1 < b.msgs[i].serial
      <3>1. 1 \in DOMAIN b.msgs /\ b.msgs[1].serial = x - 1 - l + 1
        BY <1>3, <1>4, <2>1
      <3>2. ~(last + 1 < x - 1 - l + 1)
        BY <2>1
      <3> QED
        BY <3>1, <3>2
    <2>4. ASSUME NEW k \in (last + 1)..(x - 1)
          PROVE  \E j \in Candidates(b, last) : b.msgs[j].serial = k
      <3>1. PICK j \in 1..l : k = x - 1 - l + j
        <4>1. k - (x - 1 - l) \in 1..l /\ k = x - 1 - l + (k - (x - 1 - l))
          BY <2>1, <2>4
        <4> QED
          BY <4>1
      <3>2. j \in Candidates(b, last) /\ b.msgs[j].serial = k
        BY <1>4, <2>2, <2>4, <3>1
      <3> QED
        BY <3>2
    <2>5. Contiguous(b, last)
      <3>1. ASSUME NEW i \in Candidates(b, last)
            PROVE  /\ b.msgs[i].stream = b.stream
                   /\ \A j \in Candidates(b, last) :
                        b.msgs[i].serial = b.msgs[j].serial => i = j
                   /\ \A k \in (last + 1)..b.msgs[i].serial :
                        \E j \in Candidates(b, last) : b.msgs[j].serial = k
        <4>1. i \in 1..l /\ b.msgs[i].stream = b.stream /\ b.msgs[i].serial = x - 1 - l + i
          BY <1>4, <2>2, <3>1
        <4>2. ASSUME NEW j \in Candidates(b, last), b.msgs[i].serial = b.msgs[j].serial
              PROVE  i = j
          <5>1. j \in 1..l /\ b.msgs[j].serial = x - 1 - l + j
            BY <1>4, <2>2
          <5> QED
            BY <4>1, <4>2, <5>1
        <4>3. \A k \in (last + 1)..b.msgs[i].serial : k \in (last + 1)..(x - 1)
          BY <4>1
        <4> QED
          BY <2>4, <4>1, <4>2, <4>3
      <3> QED
        BY <3>1 DEF Contiguous
    <2>6. ReachesHead(b, last)
      <3>1. \A k \in (last + 1)..(x - 1) :
              \E i \in Candidates(b, last) : b.msgs[i].serial >= k
        <4> SUFFICES ASSUME NEW k \in (last + 1)..(x - 1)
                     PROVE  \E i \in Candidates(b, last) : b.msgs[i].serial >= k
          OBVIOUS
        <4>1. PICK i \in Candidates(b, last) : b.msgs[i].serial = k
          BY <2>4
        <4> QED
          BY <4>1
      <3> QED
        BY <1>2, <3>1 DEF ReachesHead
    <2>7. ~(last > b.next - 1) /\ last # b.next - 1
      BY <1>2, <1>3, <1>6
    <2> QED
      BY <1>3, <2>3, <2>5, <2>6, <2>7 DEF Lookup
  <1> QED
    BY <1>5, <1>6

(* A resume that the replay buffer refuses for good.                       *)
LEMMA HotFails ==
  ASSUME Solo, Server, Session, Calm, HotLookup, conn'.failed,
         \E p \in published : p.stream = conn.want.stream,
         \A n \in Nodes : pub[n].pc # "reserved",
         hot[conn.node].next - conn.want.serial <= MaxBufferSize + 1
  PROVE  FALSE
  <1> DEFINE b == hot[conn.node]
             answer == Lookup(b, conn.want.stream, conn.want.serial)
  <1>1. /\ conn.pc = "hot"
        /\ \/ answer.kind = "Recovered" /\ Replays(answer.serials)
           \/ answer.kind = "StreamReset" /\ Fails
           \/ /\ answer.kind \in {"Expired", "Ahead", "ContinuityGap"}
              /\ IF HistoryEnabled
                 THEN conn' = [conn EXCEPT !.pc = "state"]
                 ELSE Fails
    BY DEF HotLookup
  <1>2. /\ SessionTypes /\ conn \in Connection /\ conn.node \in Nodes
        /\ b \in Entry \cup {NoBuffer} /\ Conn /\ Handed /\ Complete /\ Window
    BY DEF Session, SessionTypes, Connection, Server, ServerTypes, Calm
  <1>3. /\ conn.want \in Position /\ conn.want.stream \in Streams /\ conn.want.serial \in Nat
        /\ conn.want # NoPosition /\ Known(conn.want) /\ ~conn.failed
    <2>1. conn.want \in Position /\ conn.want.stream \in Streams /\ conn.want.serial \in Nat
      BY <1>1, <1>2, Wanted DEF Resuming
    <2> QED
      BY <1>1, <1>2, <2>1, NoPositionAssumption DEF Handed, Conn, Control
  <1>4. HistoryEnabled => conn.want.stream = hist.stream
    BY <1>2 DEF Complete
  <1>5. /\ b # NoBuffer /\ b \in Entry /\ b.stream = conn.want.stream
        /\ conn.want.serial < b.next
    BY <1>2, <1>3, <1>4 DEF Known
  <1>6. answer.kind # "StreamReset"
    BY <1>5 DEF Lookup, Refused
  <1>7. CASE HistoryEnabled
    <2>1. \/ Replays(answer.serials)
          \/ conn' = [conn EXCEPT !.pc = "state"]
      BY <1>1, <1>6, <1>7
    <2> HIDE DEF answer
    <2>2. conn'.failed = conn.failed
      BY <1>2, <2>1 DEF Replays, Connection
    <2> QED
      BY <1>3, <2>2
  <1>8. CASE ~HistoryEnabled
    <2>1. pub[conn.node].pc # "reserved" /\ LastStored(conn.node) = b.next - 1
      BY <1>2 DEF LastStored
    <2>2. /\ Len(b.msgs) = IF b.next - 1 < MaxBufferSize THEN b.next - 1 ELSE MaxBufferSize
          /\ \A i \in 1..Len(b.msgs) : b.msgs[i] = At(b.stream, b.next - 1 - Len(b.msgs) + i)
      BY <1>2, <1>5, <1>8, <2>1 DEF Window
    <2> HIDE DEF b
    <2>3. b.next - conn.want.serial <= MaxBufferSize + 1
      BY DEF b
    <2>4. answer.kind = "Recovered"
      BY <1>3, <1>5, <2>2, <2>3, WindowLookup
    <2>5. Replays(answer.serials)
      BY <1>1, <2>4
    <2> HIDE DEF answer
    <2>6. conn'.failed = conn.failed
      BY <1>2, <2>5 DEF Replays, Connection
    <2> QED
      BY <1>3, <2>6
  <1> QED
    BY <1>7, <1>8

(* A resume that the frozen head of the history refuses.                   *)
LEMMA FreezeFails ==
  ASSUME Solo, Server, Session, Calm, FreezeHead, conn'.failed,
         \E p \in published : p.stream = conn.want.stream,
         \A n \in Nodes : pub[n].pc # "reserved",
         hot[conn.node].next - conn.want.serial <= MaxBufferSize + 1
  PROVE  FALSE
  <1> DEFINE last == conn.want.serial
             newest == Max(hist.records)
             oldest == Min(hist.records)
  <1>1. /\ conn.pc = "freeze"
        /\ IF conn.want.stream # hist.stream THEN Fails
           ELSE IF hist.records = {}
           THEN IF last + 1 = hist.next THEN Replays({}) ELSE Fails
           ELSE IF last > newest \/ last + 1 < oldest THEN Fails
           ELSE IF last = newest THEN Replays({})
           ELSE IF newest - last > MaxBufferSize THEN Fails
           ELSE conn' = [conn EXCEPT !.pc = "page", !.target = newest]
    BY DEF FreezeHead
  <1>2. /\ SessionTypes /\ conn \in Connection /\ conn.node \in Nodes /\ Conn
        /\ Complete /\ Looking /\ HistoryEnabled /\ ~conn.failed
        /\ hist.records \subseteq 1..MaxSerial /\ MaxSerial \in Nat /\ hist.next \in Nat
    BY <1>1, BoundsAssumption
       DEF Session, SessionTypes, Connection, Server, ServerTypes, HistoryState, Calm,
           Conn, Control
  <1>3. last \in Nat
    BY <1>1, <1>2, Wanted DEF Resuming
  <1>4. PICK p \in published : p.stream = conn.want.stream
    OBVIOUS
  <1>5. conn.want.stream = hist.stream /\ p.serial \in hist.records
    BY <1>2, <1>4 DEF Complete
  <1>6. PICK n \in Nodes : n = conn.node
    BY <1>2
  <1>7. /\ hot[n] # NoBuffer /\ hot[n].next \in Nat /\ hot[n].next <= hist.next
        /\ last + 1 < hot[n].next /\ hot[n].next - last <= MaxBufferSize + 1
    <2>1. hot[n] # NoBuffer /\ last + 1 < hot[n].next
      BY <1>1, <1>2, <1>5 DEF Looking
    <2>2. hot[n].next \in Nat /\ hot[n].next <= hist.next
      BY <1>2, <2>1 DEF Server, ServerTypes, Entry, Complete
    <2> QED
      BY <1>6, <2>1, <2>2
  <1>8. PICK c \in Int : hist.records = 1..c /\ c >= hist.next - 2
    <2>1. CASE Owed
      BY <1>2, <2>1 DEF Complete
    <2>2. CASE ~Owed
      BY <1>2, <2>2 DEF Complete
    <2> QED
      BY <2>1, <2>2
  <1>9. /\ newest \in hist.records /\ \A r \in hist.records : r <= newest
        /\ oldest \in hist.records /\ \A r \in hist.records : oldest <= r
    BY <1>2, <1>5, Extremes
  <1>10. newest < hot[n].next
    BY <1>2, <1>9 DEF Complete
  <1> HIDE DEF last, newest, oldest
  <1>11. /\ newest \in 1..c /\ \A r \in 1..c : r <= newest
         /\ oldest \in 1..c /\ \A r \in 1..c : oldest <= r
    BY <1>8, <1>9
  <1>12. newest = c /\ oldest = 1 /\ c \in Nat
    BY <1>11
  <1>13. ~(last > newest) /\ ~(last + 1 < oldest) /\ ~(newest - last > MaxBufferSize)
    <2>1. MaxBufferSize \in Nat
      BY MaxBufferSizeAssumption
    <2>2. ~(last > newest)
      BY <1>2, <1>3, <1>7, <1>8, <1>12
    <2>3. ~(last + 1 < oldest)
      BY <1>3, <1>12
    <2>4. ~(newest - last > MaxBufferSize)
      BY <1>3, <1>7, <1>10, <1>12, <2>1
    <2> QED
      BY <2>2, <2>3, <2>4
  <1>14. \/ Replays({})
         \/ conn' = [conn EXCEPT !.pc = "page", !.target = newest]
    BY <1>1, <1>5, <1>13
  <1>15. conn'.failed = conn.failed
    BY <1>2, <1>14 DEF Replays, Connection
  <1> QED
    BY <1>2, <1>15

(* A page of a history without a hole is the run it was asked for, and the *)
(* last one reaches the frozen head.                                       *)
LEMMA PageFails ==
  ASSUME Server, Session, Calm, ReadPage, conn'.failed
  PROVE  FALSE
  <1> DEFINE from == conn.want.serial + Len(conn.replay) + 1
             page == Page(from)
             more == page # InBounds(from)
  <1>1. /\ conn.pc = "page"
        /\ IF \/ conn.replay # <<>> /\ Retired(from - 1)
              \/ (conn.replay = <<>> \/ ~more) /\ Retired(conn.want.serial + 1)
              \/ ~ExpectedSerials(page, from)
              \/ ~more /\ from + Cardinality(page) <= conn.target
           THEN Fails
           ELSE conn' = [conn EXCEPT !.pc = IF more THEN "page" ELSE "answer",
                                     !.replay = conn.replay \o InOrder(hist.stream, page)]
    BY DEF ReadPage
  <1>2. /\ SessionTypes /\ conn \in Connection /\ Conn /\ Paging /\ Complete /\ Looking
        /\ HistoryEnabled /\ ~conn.failed /\ conn.target \in Nat
        /\ Len(conn.replay) \in Nat /\ hist.next \in Nat
    BY <1>1 DEF Session, SessionTypes, Connection, Calm, Conn, Control, Server, ServerTypes,
                HistoryState
  <1>3. conn.want.serial \in Nat
    BY <1>1, <1>2, Wanted DEF Resuming
  <1>4. PICK a \in Nat : a = from
    BY <1>2, <1>3
  <1>5. PICK t \in Nat : t = conn.target
    BY <1>2
  <1>6. a >= 1 /\ a <= t + 1
    BY <1>1, <1>2, <1>3, <1>4, <1>5 DEF Paging
  <1>7. PICK c \in Int : hist.records = 1..c /\ t <= c
    <2>1. t \in hist.records
      BY <1>1, <1>2, <1>5 DEF Looking
    <2>2. PICK c \in Int : hist.records = 1..c
      BY <1>2 DEF Complete
    <2> QED
      BY <2>1, <2>2
  <1>8. InBounds(a) = a..t
    <2>1. \A r : r \in InBounds(a) <=> r \in 1..c /\ r >= a /\ r <= t
      BY <1>5, <1>7 DEF InBounds
    <2>2. \A r : r \in a..t <=> r \in 1..c /\ r >= a /\ r <= t
      BY <1>6, <1>7
    <2> QED
      BY <2>1, <2>2
  <1>9. PICK z \in Int : /\ z = IF t < a + PageSize - 1 THEN t ELSE a + PageSize - 1
                         /\ PageSize \in Nat \ {0} /\ z >= a - 1 /\ z <= t
    BY <1>6, BoundsAssumption
  <1>10. Page(a) = a..z
    <2>1. ASSUME NEW r \in a..t PROVE Cardinality({q \in InBounds(a) : q < r}) = r - a
      <3>1. {q \in InBounds(a) : q < r} = a..(r - 1)
        BY <1>8, <2>1
      <3>2. a \in Int /\ r - 1 \in Int
        BY <2>1
      <3>3. Cardinality(a..(r - 1)) = IF a > r - 1 THEN 0 ELSE (r - 1) - a + 1
        BY <3>2, FS_Interval
      <3>4. Cardinality(a..(r - 1)) = r - a
        BY <2>1, <3>3
      <3> QED
        BY <3>1, <3>4
    <2>2. ASSUME NEW r PROVE r \in Page(a) <=> r \in a..z
      <3>1. r \in Page(a) <=> r \in a..t /\ Cardinality({q \in InBounds(a) : q < r}) < PageSize
        BY <1>8 DEF Page
      <3>2. r \in a..t => (r \in Page(a) <=> r - a < PageSize)
        BY <2>1, <3>1
      <3>3. r \in Page(a) => r \in a..t
        BY <3>1
      <3>4. r \in a..z <=> r \in a..t /\ r - a < PageSize
        BY <1>9
      <3> QED
        BY <3>2, <3>3, <3>4
    <2> QED
      BY <2>2
  <1>11. Cardinality(Page(a)) = z - a + 1
    <2>1. Cardinality(a..z) = IF a > z THEN 0 ELSE z - a + 1
      <3>1. a \in Int
        OBVIOUS
      <3> QED
        BY <3>1, FS_Interval
    <2> QED
      BY <1>9, <1>10, <2>1
  <1>12. ExpectedSerials(Page(a), a)
    <2>1. a + Cardinality(Page(a)) - 1 = z
      BY <1>9, <1>11
    <2> QED
      BY <1>10, <2>1 DEF ExpectedSerials
  <1>13. Page(a) = InBounds(a) => ~(a + Cardinality(Page(a)) <= t)
    <2> SUFFICES ASSUME a..z = a..t PROVE ~(a + (z - a + 1) <= t)
      BY <1>8, <1>10, <1>11
    <2>1. CASE t >= a
      <3>1. t \in a..z
        BY <2>1
      <3> QED
        BY <1>9, <3>1
    <2>2. CASE ~(t >= a)
      BY <1>6, <1>9, <2>2
    <2> QED
      BY <2>1, <2>2
  <1>14. /\ ExpectedSerials(page, from)
         /\ ~more => ~(from + Cardinality(page) <= conn.target)
    BY <1>4, <1>5, <1>12, <1>13
  <1>15. ~Retired(conn.want.serial + 1) /\ (conn.replay # <<>> => ~Retired(from - 1))
    <2>1. 1 \in hist.records
      <3>1. t \in hist.records
        BY <1>1, <1>2, <1>5 DEF Looking
      <3> QED
        BY <1>7, <3>1
    <2>2. conn.replay # <<>> => Len(conn.replay) >= 1
      BY <1>2, EmptySeq DEF Connection
    <2>3. ~(1 > conn.want.serial + 1) /\ (conn.replay # <<>> => ~(1 > from - 1))
      BY <1>2, <1>3, <2>2
    <2> QED
      BY <2>1, <2>3 DEF Retired
  <1> HIDE DEF from, page, more
  <1>16. conn' = [conn EXCEPT !.pc = IF more THEN "page" ELSE "answer",
                              !.replay = conn.replay \o InOrder(hist.stream, page)]
    BY <1>1, <1>14, <1>15
  <1>17. conn'.failed = conn.failed
    BY <1>2, <1>16 DEF Connection
  <1> QED
    BY <1>2, <1>17

(* The resume fails in these steps only.                                   *)
LEMMA FailingStep ==
  ASSUME Session, [Next]_vars, conn'.failed, ~conn.failed
  PROVE  HotLookup \/ (CheckState /\ hist.degraded) \/ FreezeHead \/ ReadPage
  <1>1. conn \in Connection
    BY DEF Session, SessionTypes
  <1>2. \A id : ~NoConn(id).failed
    BY DEF NoConn
  <1>3. CASE UNCHANGED vars
    BY <1>3 DEF vars
  <1>4. CASE EvictRetained \/ \E n \in Nodes : Publish(n) \/ Restart(n) \/ ExpireHot(n)
    <2>1. conn' = conn \/ conn' = NoConn(conn.id)
      BY <1>4 DEF EvictRetained, Publish, Reserve, StoreHot, AppendHistory, AppendFails,
                  StartFanout, Forward, Restart, ExpireHot, Hangup
    <2> QED
      BY <1>2, <2>1
  <1>5. CASE Disconnect
    BY <1>2, <1>5 DEF Disconnect, Hangup
  <1>6. CASE \E n \in Nodes : Connect(n)
    BY <1>6 DEF Connect, NoConn
  <1>7. CASE Fanout
    <2>1. PICK t \in tasks : Snapshot(t) \/ Split(t) \/ SendLive(t)
      BY <1>7 DEF Fanout
    <2>2. \/ conn' = conn \/ conn' = NoConn(conn.id)
          \/ conn' = [conn EXCEPT !.held = Append(conn.held, t.pos)]
          \/ conn' = [conn EXCEPT !.wire = Append(conn.wire, Frame("live", t.pos))]
      BY <2>1 DEF Snapshot, Split, SendLive, Hangup
    <2> QED
      BY <1>1, <1>2, <2>2 DEF Connection
  <1>8. CASE Subscribe \/ CaptureHead \/ UpdateState \/ NothingToResume \/ StartResume
    BY <1>1, <1>8 DEF Subscribe, CaptureHead, UpdateState, NothingToResume, StartResume, Connection
  <1>9. CASE InspectStream \/ AckDurable \/ AckHot
    BY <1>1, <1>9 DEF InspectStream, AckDurable, AckHot, AckPosition, Connection
  <1>10. CASE DrainAttach \/ DrainResume
    BY <1>1, <1>10 DEF DrainAttach, DrainResume, DrainRound, Connection
  <1>11. CASE SendReplayed \/ SendResumeFailed \/ SendResumeSuccess
    BY <1>1, <1>11 DEF SendReplayed, SendResumeFailed, SendResumeSuccess, Connection
  <1>12. CASE CheckState
    BY <1>1, <1>12 DEF CheckState, Connection
  <1> QED
    BY <1>3, <1>4, <1>5, <1>6, <1>7, <1>8, <1>9, <1>10, <1>11, <1>12 DEF Next, Handler

(* What holds without faults on one node is kept while there are none.     *)
LEMMA NextCalm ==
  ASSUME Solo, Server, Session, Counted, NoFault => Calm, [Next]_vars
  PROVE  (NoFault => Calm)'
  <1> SUFFICES ASSUME NoFault' PROVE Calm'
    OBVIOUS
  <1>1. CASE UNCHANGED vars
    <2>1. Calm
      BY <1>1 DEF vars, NoFault
    <2> QED
      BY <1>1, <2>1 DEF vars, Calm, Complete, Window, Handed, Looking, Known, Owed, LastStored,
                        HistoryEnabled
  <1>2. CASE Next
    <2>1. /\ Calm /\ \A n \in Nodes : ~Restart(n) /\ ~ExpireHot(n) /\ ~AppendFails(n)
          /\ ~EvictRetained
      BY <1>2, FaultFree
    <2>2. ASSUME NEW n \in Nodes, Publish(n) PROVE Calm'
      BY <2>1, <2>2, PublishCalm
    <2>3. ASSUME NEW n \in Nodes, Connect(n) PROVE Calm'
      BY <2>1, <2>3, ConnectCalm
    <2>4. CASE Fanout
      BY <2>1, <2>4, FanoutCalm
    <2>5. CASE Disconnect
      <3>1. Hangup /\ UNCHANGED serverVars /\ tasks' \subseteq tasks
        BY <2>5 DEF Disconnect, serverVars
      <3> QED
        BY <2>1, <3>1, HangupCalm
    <2>6. CASE Handler
      BY <2>1, <2>6, PlainCalm, InspectCalm, AckDurableCalm, AckHotCalm, DrainCalm, HotCalm,
         FreezeCalm, PageCalm, ReplayedCalm, SuccessCalm DEF Handler
    <2> QED
      BY <1>2, <2>1, <2>2, <2>3, <2>4, <2>5, <2>6 DEF Next
  <1> QED
    BY <1>1, <1>2

(* Nothing is handed out at the start.                                     *)
LEMMA InitCalm ==
  ASSUME Init
  PROVE  Calm
  <1>1. /\ hist = EmptyHistory /\ hot = [n \in Nodes |-> NoBuffer]
        /\ pub = [n \in Nodes |-> Idle] /\ tasks = {} /\ published = {}
        /\ conn = NoConn(0) /\ client.pos = NoPosition
    BY DEF Init
  <1>2. /\ conn.pc = "closed" /\ conn.want = NoPosition /\ conn.wire = <<>>
        /\ conn.replay = <<>> /\ conn.held = <<>> /\ conn.head = NoPosition
    BY <1>1 DEF NoConn
  <1>3. ~Owed /\ hist.next = 1 /\ hist.records = {} /\ ~hist.degraded
    BY <1>1 DEF Owed, Idle, EmptyHistory
  <1>4. hist.records = 1..(IF Owed THEN hist.next - 2 ELSE hist.next - 1)
    BY <1>3
  <1>5. Complete
    BY <1>1, <1>3, <1>4 DEF Complete
  <1>6. Window
    BY <1>1 DEF Window
  <1>7. Handed
    BY <1>1, <1>2 DEF Handed
  <1>8. Looking
    BY <1>2 DEF Looking
  <1> QED
    BY <1>5, <1>6, <1>7, <1>8 DEF Calm

(* Resuming succeeds: on a single node with nothing expired, evicted,      *)
(* failed or restarted, a resume on a stream that messages were published  *)
(* on and that is within the recovery window does not fail, for every      *)
(* size of buffer, page and gate, unless a publish stands between          *)
(* reserving its serial and storing its message at that moment.            *)
THEOREM ResumesSucceed ==
  ASSUME Solo
  PROVE  Spec => StreamResumes
  <1> DEFINE Inv == Server /\ Session /\ Counted /\ (NoFault => Calm)
             Good == /\ NoFault
                     /\ conn'.failed /\ ~conn.failed
                     /\ \E p \in published : p.stream = conn.want.stream
                     => \/ \E n \in Nodes : pub[n].pc = "reserved"
                        \/ hot[conn.node].next - conn.want.serial > MaxBufferSize + 1
  <1>1. Init => Inv
    BY InitSession, InitCalm DEF Init, Counted
  <1>2. Inv /\ [Next]_vars => Inv'
    BY NextSession, FaultsCounted, NextCalm
  <1>3. Inv /\ [Next]_vars => [Good]_vars
    <2> SUFFICES ASSUME Server, Session, Calm, [Next]_vars,
                        conn'.failed, ~conn.failed,
                        \E p \in published : p.stream = conn.want.stream,
                        ~\E n \in Nodes : pub[n].pc = "reserved",
                        ~(hot[conn.node].next - conn.want.serial > MaxBufferSize + 1)
                 PROVE  FALSE
      OBVIOUS
    <2>1. \A n \in Nodes : pub[n].pc # "reserved"
      OBVIOUS
    <2>2. CASE CheckState /\ hist.degraded
      BY <2>2 DEF CheckState, Session, Conn, Control, Calm, Complete
    <2>3. CASE ReadPage
      BY <2>3, PageFails
    <2>4. CASE HotLookup \/ FreezeHead
      <3>1. conn.node \in Nodes /\ Conn /\ Looking /\ conn.pc \in {"hot", "freeze"}
        BY <2>4 DEF Session, SessionTypes, Connection, Calm, HotLookup, FreezeHead
      <3>2. hot[conn.node] # NoBuffer /\ conn.want.serial \in Nat
        BY <3>1, Wanted DEF Looking, Resuming
      <3>3. hot[conn.node].next \in Nat /\ MaxBufferSize \in Nat
        BY <3>1, <3>2, MaxBufferSizeAssumption DEF Server, ServerTypes, Entry
      <3>4. hot[conn.node].next - conn.want.serial <= MaxBufferSize + 1
        BY <3>2, <3>3
      <3> QED
        BY <2>1, <2>4, <3>4, HotFails, FreezeFails
    <2> QED
      BY <2>2, <2>3, <2>4, FailingStep
  <1>4. StreamResumes <=> [][Good]_vars
    BY DEF StreamResumes
  <1> HIDE DEF Inv, Good
  <1> QED
    BY <1>1, <1>2, <1>3, <1>4, PTL DEF Spec
=============================================================================
