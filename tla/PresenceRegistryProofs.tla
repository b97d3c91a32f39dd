----------------------- MODULE PresenceRegistryProofs -----------------------
(***************************************************************************)
(* No order of joins, leaves, disconnects, supersessions and pruning       *)
(* leaves a member unreachable or the capacity account wrong, for every    *)
(* finite number of threads, connections and capacity shards.              *)
(***************************************************************************)
EXTENDS PresenceRegistry, FiniteSetTheorems, TLAPS

(* Program counters under the mutex of the connection's shard, and those   *)
(* of a join that has found its connection.                                *)
LockedPCs == PCs \ {"idle", "lock", "list"}
JoinPCs == {"get", "prune", "insert", "link", "enter", "reclaim"}

(* The types of what the callers and the maps hold, the counters apart.    *)
Types ==
  /\ conns \subseteq Conns
  /\ channels \in [Channels -> Nat]
  /\ link \in [Conns -> [Channels -> Nat]]
  /\ members \subseteq Member
  /\ IsFiniteSet(members)
  /\ lock \in [{ConnShard[c] : c \in Conns} -> Threads \union {None}]
  /\ thread \in [Threads -> Call]

(* A caller in its critical section holds the mutex of its connection.     *)
Holds(t) ==
  /\ thread[t].pc \in LockedPCs \union {"lock"} => thread[t].conn \in Conns
  /\ thread[t].pc \in LockedPCs => lock[ConnShard[thread[t].conn]] = t

(* What a join has established, step by step.                              *)
Joins(t) ==
  LET r == thread[t] IN
  /\ r.pc \in JoinPCs \union {"find"} \/ (r.pc = "lock" /\ r.op = "enter") =>
       r.ch \in Channels /\ r.client \in Clients
  /\ r.pc \in JoinPCs => r.conn \in conns
  /\ r.pc = "link" => r.arc # 0 /\ channels[r.ch] = r.arc
  /\ r.pc \in {"enter", "reclaim"} => r.arc # 0 /\ link[r.conn][r.ch] = r.arc
  /\ r.pc = "reclaim" => Record(r) \notin members
  /\ r.pc = "release" => r.shard \in Shards

(* A detach and an unregister have every member they are to remove on      *)
(* their list; a detach has a channel, and only a supersession lists.      *)
Leaves(t) ==
  LET r == thread[t] IN
  /\ r.pc = "list" => r.op = "supersede"
  /\ r.pc \in {"lock", "remove", "release"} /\ r.op = "detach" => r.ch \in Channels
  /\ r.pc \in {"remove", "release"} =>
       /\ r.op = "detach" => \A m \in members : m.conn = r.conn /\ m.ch = r.ch => m \in r.todo
       /\ r.op = "unregister" => \A m \in members : m.conn = r.conn => m \in r.todo

(* A connection refers to the state that the channel map refers to.        *)
LinkCurrent ==
  \A c \in Conns, ch \in Channels : link[c][ch] # 0 => channels[ch] = link[c][ch]

Control ==
  /\ Types
  /\ \A t \in Threads : Holds(t) /\ Joins(t) /\ Leaves(t)
  /\ LinkCurrent
  /\ Reachable

-----------------------------------------------------------------------------
(* Lemmas about the operators.                                             *)

(* What a function maps a finite set onto is finite.                       *)
LEMMA FiniteOnto ==
  ASSUME NEW S, IsFiniteSet(S), NEW T, NEW f \in [S -> T],
         \A y \in T : \E x \in S : f[x] = y
  PROVE  IsFiniteSet(T)
  <1>1. f \in Surjection(S, T)
    BY DEF Surjection
  <1> QED
    BY <1>1, FS_Surjection

(* A finite set leaves one of any larger number of positive numbers free.  *)
LEMMA FreeNumber ==
  ASSUME NEW U, IsFiniteSet(U)
  PROVE  \E n \in 1..(Cardinality(U) + 1) : n \notin U
  <1> SUFFICES ASSUME 1..(Cardinality(U) + 1) \in SUBSET U PROVE FALSE
    OBVIOUS
  <1>1. Cardinality(U) \in Nat
    BY FS_CardinalityType
  <1>2. Cardinality(1..(Cardinality(U) + 1)) = Cardinality(U) + 1
    BY <1>1, FS_Interval
  <1>3. Cardinality(1..(Cardinality(U) + 1)) <= Cardinality(U)
    BY FS_Subset
  <1> QED
    BY <1>1, <1>2, <1>3

(* A new state's reference is a positive number.                           *)
LEMMA FreshArcType ==
  ASSUME Types, NEW ch \in Channels
  PROVE  FreshArc(ch) \in Nat \ {0}
  <1> DEFINE f == [c \in Conns |-> link[c][ch]]
             g == [t \in Threads |-> thread[t].arc]
             h == [m \in members |-> m.arc]
             A == {link[c][ch] : c \in Conns}
             B == {thread[t].arc : t \in Threads}
             C == {m.arc : m \in members}
             used == {channels[ch]} \union A \union B \union C
  <1>1. f \in [Conns -> A] /\ \A y \in A : \E c \in Conns : f[c] = y
    OBVIOUS
  <1>2. g \in [Threads -> B] /\ \A y \in B : \E t \in Threads : g[t] = y
    OBVIOUS
  <1>3. h \in [members -> C] /\ \A y \in C : \E m \in members : h[m] = y
    OBVIOUS
  <1> HIDE DEF A, B, C, f, g, h
  <1>0. IsFiniteSet(members)
    BY DEF Types
  <1>4. IsFiniteSet(A) /\ IsFiniteSet(B) /\ IsFiniteSet(C)
    BY <1>0, <1>1, <1>2, <1>3, FiniteOnto, RegistryAssumption
  <1>5. IsFiniteSet({channels[ch]} \union A)
    BY <1>4, FS_Singleton, FS_Union
  <1>6. IsFiniteSet({channels[ch]} \union A \union B)
    BY <1>4, <1>5, FS_Union
  <1>7. IsFiniteSet(used)
    BY <1>4, <1>6, FS_Union
  <1>8. FreshArc(ch) = CHOOSE arc \in 1..(Cardinality(used) + 1) : arc \notin used
    BY DEF FreshArc, A, B, C
  <1> HIDE DEF used
  <1>9. FreshArc(ch) \in 1..(Cardinality(used) + 1)
    BY <1>7, <1>8, FreeNumber
  <1> QED
    BY <1>7, <1>9, FS_CardinalityType

(* A cached state that may be pruned is referred to by the map alone.      *)
LEMMA PrunableAlone ==
  ASSUME Types, NEW ch \in Channels, Prunable(ch)
  PROVE  /\ \A c \in Conns : link[c][ch] # channels[ch]
         /\ \A t \in Threads : At(t, "link") /\ thread[t].ch = ch => thread[t].arc # channels[ch]
         /\ \A m \in members : m.ch = ch => m.arc # channels[ch]
  <1> DEFINE arc == channels[ch]
             A == {c \in Conns : link[c][ch] = arc}
             B == {t \in Threads : At(t, "link") /\ thread[t].ch = ch /\ thread[t].arc = arc}
  <1>1. IsFiniteSet(A) /\ IsFiniteSet(B)
    BY FS_Subset, RegistryAssumption
  <1>2. Cardinality(A) \in Nat /\ Cardinality(B) \in Nat
    BY <1>1, FS_CardinalityType
  <1>3. Cardinality(A) + Cardinality(B) + 1 = 1
    BY DEF Prunable, References
  <1> HIDE DEF A, B
  <1>4. Cardinality(A) = 0 /\ Cardinality(B) = 0
    BY <1>2, <1>3
  <1>5. A = {} /\ B = {}
    BY <1>1, <1>4, FS_EmptySet
  <1> QED
    BY <1>5 DEF Prunable, A, B

-----------------------------------------------------------------------------
(* Reachability.                                                           *)

(* The empty registry satisfies the invariant.                             *)
LEMMA InitControl == Init => Control
  <1> SUFFICES ASSUME Init PROVE Control
    OBVIOUS
  <1>1. Types
    BY RegistryAssumption, FS_CardinalityType, FS_EmptySet DEF Init, Types, Idle, Call, PCs
  <1> QED
    BY <1>1
    DEF Init, Control, Holds, Joins, Leaves, LinkCurrent, Reachable, Idle, LockedPCs, JoinPCs

(* The fields of a call, and of a call that moved on.                      *)
LEMMA CallFields ==
  ASSUME NEW r \in Call
  PROVE  /\ r.pc \in PCs
         /\ r.arc \in Nat
         /\ r.todo \subseteq Member
         /\ r.shard \in 0..Cardinality(Shards)
  BY DEF Call

(* Two callers in their critical sections work for different connections.  *)
LEMMA Exclusive ==
  ASSUME NEW t \in Threads, NEW u \in Threads, t # u, Holds(t), Holds(u),
         thread[t].pc \in LockedPCs, thread[u].pc \in LockedPCs
  PROVE  thread[t].conn # thread[u].conn
  BY DEF Holds

(* A step of one caller keeps what the others rely on, if it only changes  *)
(* what the mutex of its connection protects: that connection's entry and  *)
(* links, members of it, and channel entries no other caller is linking.   *)
LEMMA Frame ==
  ASSUME Control, NEW t \in Threads,
         \A u \in Threads \ {t} :
           /\ thread'[u] = thread[u]
           /\ thread[u].pc \in LockedPCs => lock'[ConnShard[thread[u].conn]] = u
           /\ thread[u].pc = "link" => channels'[thread[u].ch] = channels[thread[u].ch],
         \/ UNCHANGED <<conns, link, members>>
         \/ /\ thread[t].pc \in LockedPCs
            /\ \A c \in Conns \ {thread[t].conn} : /\ c \in conns => c \in conns'
                                                   /\ link'[c] = link[c]
            /\ \A m \in members' \ members : m.conn = thread[t].conn
  PROVE  \A u \in Threads \ {t} : Holds(u)' /\ Joins(u)' /\ Leaves(u)'
  <1> SUFFICES ASSUME NEW u \in Threads, u # t PROVE Holds(u)' /\ Joins(u)' /\ Leaves(u)'
    OBVIOUS
  <1>1. /\ thread'[u] = thread[u]
        /\ thread[u].pc \in LockedPCs => lock'[ConnShard[thread[u].conn]] = u
        /\ thread[u].pc = "link" => channels'[thread[u].ch] = channels[thread[u].ch]
    OBVIOUS
  <1>2. Holds(t) /\ Holds(u) /\ Joins(u) /\ Leaves(u)
    BY DEF Control
  <1>3. Holds(u)'
    BY <1>1, <1>2 DEF Holds
  <1>4. CASE UNCHANGED <<conns, link, members>>
    <2>1. Joins(u)'
      BY <1>1, <1>2, <1>4 DEF Joins, Record
    <2>2. Leaves(u)'
      BY <1>1, <1>2, <1>4 DEF Leaves
    <2> QED
      BY <1>3, <2>1, <2>2
  <1>5. CASE /\ thread[t].pc \in LockedPCs
             /\ \A c \in Conns \ {thread[t].conn} : /\ c \in conns => c \in conns'
                                                    /\ link'[c] = link[c]
             /\ \A m \in members' \ members : m.conn = thread[t].conn
    <2>1. CASE thread[u].pc \in LockedPCs
      <3>1. thread[u].conn \in Conns \ {thread[t].conn}
        BY <1>2, <1>5, <2>1, Exclusive DEF Holds
      <3>2. Joins(u)'
        BY <1>1, <1>2, <1>5, <3>1 DEF Joins, Record, JoinPCs
      <3>3. Leaves(u)'
        BY <1>1, <1>2, <1>5, <3>1 DEF Leaves
      <3> QED
        BY <1>3, <3>2, <3>3
    <2>2. CASE thread[u].pc \notin LockedPCs
      <3>1. thread[u].pc \in {"idle", "lock", "list"}
        BY <2>2, CallFields DEF Control, Types, LockedPCs
      <3> QED
        BY <1>1, <1>2, <1>3, <3>1 DEF Joins, Leaves, JoinPCs
    <2> QED
      BY <2>1, <2>2
  <1> QED
    BY <1>4, <1>5

(* A new call of an idle thread starts with what its first step needs.     *)
LEMMA StartControl ==
  ASSUME Control, NEW t \in Threads, NEW op \in Ops, NEW c, NEW ch, NEW cl, NEW pc,
         Start(t, op, c, ch, cl, pc),
         ch \in Channels \union {None}, cl \in Clients \union {None},
         \/ pc = "lock" /\ c \in Conns
         \/ pc = "list" /\ c \in Keepers /\ op = "supersede",
         op = "enter" => ch \in Channels /\ cl \in Clients,
         op = "detach" => ch \in Channels
  PROVE  Control'
  <1> DEFINE q == [Idle EXCEPT !.pc = pc, !.op = op, !.conn = c, !.ch = ch, !.client = cl]
  <1>8. Idle \in Call
    BY RegistryAssumption, FS_CardinalityType DEF Idle, Call, PCs
  <1>9. pc \in PCs
    BY DEF PCs
  <1>1. /\ q \in Call
        /\ q.pc = pc /\ q.op = op /\ q.conn = c /\ q.ch = ch /\ q.client = cl
    BY <1>8, <1>9 DEF Call
  <1>2. /\ thread \in [Threads -> Call]
        /\ thread' = [thread EXCEPT ![t] = q]
        /\ UNCHANGED <<conns, channels, link, members, lock>>
    BY DEF Start, Control, Types
  <1> HIDE DEF q
  <1>3. Types'
    BY <1>1, <1>2 DEF Control, Types
  <1>4. thread'[t] = q /\ \A u \in Threads \ {t} : thread'[u] = thread[u]
    BY <1>2
  <1>5. \A u \in Threads \ {t} : Holds(u)' /\ Joins(u)' /\ Leaves(u)'
    BY <1>2, <1>4, Frame DEF Control, Holds
  <1>6. Holds(t)' /\ Joins(t)' /\ Leaves(t)'
    BY <1>1, <1>4 DEF Holds, Joins, Leaves, LockedPCs, JoinPCs
  <1>7. LinkCurrent' /\ Reachable'
    BY <1>2 DEF Control, LinkCurrent, Reachable
  <1> QED
    BY <1>3, <1>5, <1>6, <1>7 DEF Control

(* A call that returns drops its mutex and leaves the others as they were. *)
LEMMA ReturnFrame ==
  ASSUME Control, NEW t \in Threads, thread[t].pc \in LockedPCs, Return(t),
         \A u \in Threads \ {t} :
           thread[u].pc = "link" => channels'[thread[u].ch] = channels[thread[u].ch],
         \A c \in Conns \ {thread[t].conn} : /\ c \in conns => c \in conns'
                                             /\ link'[c] = link[c],
         \A m \in members' \ members : m.conn = thread[t].conn
  PROVE  /\ thread' \in [Threads -> Call]
         /\ lock' \in [{ConnShard[c] : c \in Conns} -> Threads \union {None}]
         /\ \A u \in Threads : Holds(u)' /\ Joins(u)' /\ Leaves(u)'
  <1>1. /\ thread \in [Threads -> Call]
        /\ lock \in [{ConnShard[c] : c \in Conns} -> Threads \union {None}]
        /\ thread' = [thread EXCEPT ![t] = Idle]
        /\ lock' = [lock EXCEPT ![ConnShard[thread[t].conn]] = None]
        /\ \A u \in Threads : Holds(u)
    BY DEF Control, Types, Return, Unlock, MyLock
  <1>2. Idle \in Call /\ Idle.pc = "idle"
    BY RegistryAssumption, FS_CardinalityType DEF Idle, Call, PCs
  <1>3. thread'[t] = Idle /\ \A u \in Threads \ {t} : thread'[u] = thread[u]
    BY <1>1
  <1>4. \A u \in Threads \ {t} :
          thread[u].pc \in LockedPCs => lock'[ConnShard[thread[u].conn]] = u
    BY <1>1 DEF Holds
  <1>5. \A u \in Threads \ {t} : Holds(u)' /\ Joins(u)' /\ Leaves(u)'
    BY <1>3, <1>4, Frame
  <1>6. Holds(t)' /\ Joins(t)' /\ Leaves(t)'
    BY <1>2, <1>3 DEF Holds, Joins, Leaves, LockedPCs, JoinPCs
  <1> QED
    BY <1>1, <1>2, <1>5, <1>6

(* No step of a call breaks the invariant.                                 *)
LEMMA StepControl == Control /\ [Next]_vars => Control'
  <1> SUFFICES ASSUME Control, [Next]_vars PROVE Control'
    OBVIOUS
  <1>1. CASE UNCHANGED vars
    BY <1>1 DEF vars, Control, Types, Holds, Joins, Leaves, LinkCurrent, Reachable, Record
  <1>2. ASSUME NEW t \in Threads, Register(t) PROVE Control'
    <2>1. /\ UNCHANGED <<channels, link, members, lock, thread>>
          /\ conns \subseteq conns' /\ conns' \subseteq Conns
      BY <1>2 DEF Register, Control, Types
    <2> QED
      BY <2>1 DEF Control, Types, Holds, Joins, Leaves, LinkCurrent, Reachable, Record
  <1>3. ASSUME NEW t \in Threads,
               \/ CallEnter(t) \/ CallLeave(t) \/ CallDetach(t) \/ CallUnregister(t)
               \/ CallSupersede(t)
        PROVE  Control'
    <2>1. CASE CallEnter(t)
      BY <2>1, StartControl DEF CallEnter, Start
    <2>2. CASE CallLeave(t)
      BY <2>2, StartControl DEF CallLeave, Start
    <2>3. CASE CallDetach(t)
      BY <2>3, StartControl DEF CallDetach, Start
    <2>4. CASE CallUnregister(t)
      BY <2>4, StartControl DEF CallUnregister, Start
    <2>5. CASE CallSupersede(t)
      BY <2>5, StartControl DEF CallSupersede, Start
    <2> QED
      BY <1>3, <2>1, <2>2, <2>3, <2>4, <2>5
  <1>4. ASSUME NEW t \in Threads, Acquire(t) PROVE Control'
    <2> DEFINE r == thread[t]
               p == IF r.op = "enter" THEN "find" ELSE "remove"
    <2>1. /\ Types /\ r \in Call /\ r.conn \in Conns /\ r.pc = "lock"
          /\ Holds(t) /\ Joins(t) /\ Leaves(t)
      BY <1>4 DEF Acquire, At, Control, Types, Holds
    <2>2. Listed(r) \subseteq Member
      BY <2>1, CallFields DEF Types, Listed, Owned
    <2>3. /\ thread' = [thread EXCEPT ![t].pc = p, ![t].todo = Listed(r)]
          /\ lock[ConnShard[r.conn]] = None
          /\ lock' = [lock EXCEPT ![ConnShard[r.conn]] = t]
          /\ UNCHANGED <<conns, channels, link, members>>
      BY <1>4 DEF Acquire, MyLock
    <2>4. /\ r.op = "detach" => \A m \in members : m.conn = r.conn /\ m.ch = r.ch => m \in Listed(r)
          /\ r.op = "unregister" => \A m \in members : m.conn = r.conn => m \in Listed(r)
      BY DEF Control, Types, Member, Reachable, Listed, Owned
    <2>5. p \in {"find", "remove"} /\ (p = "find" => r.op = "enter")
      OBVIOUS
    <2> HIDE DEF p
    <2>6. /\ thread' \in [Threads -> Call]
          /\ \A u \in Threads \ {t} : thread'[u] = thread[u]
          /\ thread'[t].pc = p /\ thread'[t].op = r.op /\ thread'[t].conn = r.conn
          /\ thread'[t].ch = r.ch /\ thread'[t].client = r.client
          /\ thread'[t].todo = Listed(r)
      <3>1. p \in PCs
        BY <2>5 DEF PCs
      <3> QED
        BY <2>1, <2>2, <2>3, <3>1 DEF Types, Call
    <2> HIDE DEF r
    <2>7. Types'
      BY <2>1, <2>3, <2>6 DEF Types
    <2>8. \A u \in Threads \ {t} : Holds(u)' /\ Joins(u)' /\ Leaves(u)'
      <3>1. \A u \in Threads \ {t} :
              thread[u].pc \in LockedPCs => lock'[ConnShard[thread[u].conn]] = u
        BY <2>1, <2>3, RegistryAssumption DEF Control, Types, Holds
      <3> QED
        BY <2>3, <2>6, <3>1, Frame
    <2>9. Holds(t)' /\ Joins(t)' /\ Leaves(t)'
      <3>1. Holds(t)'
        BY <2>1, <2>3, <2>6 DEF Holds, Types
      <3>2. Joins(t)'
        BY <2>1, <2>5, <2>6 DEF Joins, JoinPCs, r
      <3>3. Leaves(t)'
        BY <2>1, <2>3, <2>4, <2>5, <2>6 DEF Leaves, r
      <3> QED
        BY <3>1, <3>2, <3>3
    <2>10. LinkCurrent' /\ Reachable'
      BY <2>3 DEF Control, LinkCurrent, Reachable
    <2> QED
      BY <2>7, <2>8, <2>9, <2>10 DEF Control
  <1>5. ASSUME NEW t \in Threads, NotFound(t) PROVE Control'
    <2>1. /\ thread[t].pc \in LockedPCs
          /\ Return(t)
          /\ UNCHANGED <<conns, channels, link, members>>
      BY <1>5 DEF NotFound, At, LockedPCs, PCs
    <2>2. /\ thread' \in [Threads -> Call]
          /\ lock' \in [{ConnShard[c] : c \in Conns} -> Threads \union {None}]
          /\ \A u \in Threads : Holds(u)' /\ Joins(u)' /\ Leaves(u)'
      BY <2>1, ReturnFrame
    <2> QED
      BY <2>1, <2>2 DEF Control, Types, LinkCurrent, Reachable
  <1>6. ASSUME NEW t \in Threads, Find(t) PROVE Control'
    <2> DEFINE r == thread[t]
    <2>1. /\ Types /\ r \in Call /\ r.conn \in Conns /\ r.conn \in conns /\ r.pc = "find"
          /\ r.pc \in LockedPCs /\ r.ch \in Channels /\ r.client \in Clients
          /\ Holds(t) /\ lock[ConnShard[r.conn]] = t
          /\ UNCHANGED <<conns, channels, members, lock>>
      BY <1>6 DEF Find, At, Control, Types, Holds, Joins, LockedPCs, PCs
    <2>2. CASE /\ link[r.conn][r.ch] # 0
               /\ thread' = [thread EXCEPT ![t].pc = "enter", ![t].arc = link[r.conn][r.ch]]
               /\ UNCHANGED link
      <3>1. link[r.conn][r.ch] \in Nat
        BY <2>1 DEF Types
      <3>2. /\ thread' \in [Threads -> Call]
            /\ \A u \in Threads \ {t} : thread'[u] = thread[u]
            /\ thread'[t].pc = "enter" /\ thread'[t].conn = r.conn /\ thread'[t].ch = r.ch
            /\ thread'[t].client = r.client /\ thread'[t].arc = link[r.conn][r.ch]
        BY <2>1, <2>2, <3>1 DEF Types, Call, PCs
      <3> HIDE DEF r
      <3>3. Types'
        BY <2>1, <2>2, <3>2 DEF Types
      <3>4. \A u \in Threads \ {t} : Holds(u)' /\ Joins(u)' /\ Leaves(u)'
        BY <2>1, <2>2, <3>2, Frame DEF Control, Holds
      <3>5. Holds(t)' /\ Joins(t)' /\ Leaves(t)'
        BY <2>1, <2>2, <3>2 DEF Holds, Joins, Leaves, JoinPCs, LockedPCs
      <3>6. LinkCurrent' /\ Reachable'
        BY <2>1, <2>2 DEF Control, LinkCurrent, Reachable
      <3> QED
        BY <3>3, <3>4, <3>5, <3>6 DEF Control
    <2>3. CASE (\E S \in PruneChoices(r.conn) : link' = PruneLinks(r.conn, S)) /\ Goto(t, "get")
      <3>1. /\ thread' \in [Threads -> Call]
            /\ \A u \in Threads \ {t} : thread'[u] = thread[u]
            /\ thread'[t].pc = "get" /\ thread'[t].conn = r.conn /\ thread'[t].ch = r.ch
            /\ thread'[t].client = r.client
        BY <2>1, <2>3 DEF Types, Goto, Call, PCs
      <3> HIDE DEF r
      <3>2. /\ link' \in [Conns -> [Channels -> Nat]]
            /\ \A c \in Conns \ {r.conn} : link'[c] = link[c]
            /\ \A c \in Conns, ch \in Channels :
                 link'[c][ch] = link[c][ch]
                   \/ (c = r.conn /\ link'[c][ch] = 0 /\ Owned(c, ch, link[c][ch]) = {})
        <4>1. PICK S \in PruneChoices(r.conn) : link' = PruneLinks(r.conn, S)
          BY <2>3
        <4>2. S \subseteq Unowned(r.conn)
          BY DEF PruneChoices
        <4> QED
          BY <2>1, <4>1, <4>2 DEF Types, PruneLinks, Unowned
      <3>3. Types'
        BY <2>1, <3>1, <3>2 DEF Types
      <3>4. \A u \in Threads \ {t} : Holds(u)' /\ Joins(u)' /\ Leaves(u)'
        BY <2>1, <3>1, <3>2, Frame DEF Control, Holds, r
      <3>5. Holds(t)' /\ Joins(t)' /\ Leaves(t)'
        BY <2>1, <3>1 DEF Holds, Joins, Leaves, JoinPCs, LockedPCs
      <3>6. LinkCurrent'
        BY <2>1, <3>2 DEF Control, LinkCurrent
      <3>7. Reachable'
        BY <2>1, <3>2 DEF Control, Types, Member, Reachable, Owned
      <3> QED
        BY <3>3, <3>4, <3>5, <3>6, <3>7 DEF Control
    <2> QED
      BY <1>6, <2>2, <2>3 DEF Find
  <1>7. ASSUME NEW t \in Threads, Get(t) PROVE Control'
    <2> DEFINE r == thread[t]
               q == thread'[t]
    <2>1. /\ Types /\ r \in Call /\ r.conn \in Conns /\ r.conn \in conns /\ r.pc = "get"
          /\ r.pc \in LockedPCs /\ r.ch \in Channels /\ r.client \in Clients
          /\ Holds(t) /\ lock[ConnShard[r.conn]] = t
          /\ UNCHANGED <<conns, channels, link, members, lock>>
      BY <1>7 DEF Get, At, Control, Types, Holds, Joins, LockedPCs, JoinPCs, PCs
    <2>2. channels[r.ch] \in Nat
      BY <2>1 DEF Types
    <2>3. \/ /\ channels[r.ch] # 0
             /\ thread' = [thread EXCEPT ![t] = [@ EXCEPT !.pc = "link", !.arc = channels[r.ch]]]
          \/ thread' = [thread EXCEPT ![t] = [@ EXCEPT !.pc = "prune"]]
          \/ thread' = [thread EXCEPT ![t] = [@ EXCEPT !.pc = "insert"]]
      BY <1>7 DEF Get
    <2>4. /\ thread' \in [Threads -> Call]
          /\ \A u \in Threads \ {t} : thread'[u] = thread[u]
          /\ q.pc \in {"link", "prune", "insert"} /\ q.conn = r.conn /\ q.ch = r.ch
          /\ q.client = r.client /\ (q.pc = "link" => q.arc = channels[r.ch] /\ q.arc # 0)
      <3>1. CASE /\ channels[r.ch] # 0
                 /\ thread' = [thread EXCEPT ![t] = [@ EXCEPT !.pc = "link", !.arc = channels[r.ch]]]
        BY <2>1, <2>2, <3>1 DEF Types, Call, PCs
      <3>2. CASE thread' = [thread EXCEPT ![t] = [@ EXCEPT !.pc = "prune"]]
        BY <2>1, <3>2 DEF Types, Call, PCs
      <3>3. CASE thread' = [thread EXCEPT ![t] = [@ EXCEPT !.pc = "insert"]]
        BY <2>1, <3>3 DEF Types, Call, PCs
      <3> QED
        BY <2>3, <3>1, <3>2, <3>3
    <2> HIDE DEF q, r
    <2>5. Types'
      BY <2>1, <2>4 DEF Types
    <2>6. \A u \in Threads \ {t} : Holds(u)' /\ Joins(u)' /\ Leaves(u)'
      BY <2>1, <2>4, Frame DEF Control, Holds
    <2>7. Holds(t)' /\ Joins(t)' /\ Leaves(t)'
      BY <2>1, <2>4 DEF Holds, Joins, Leaves, JoinPCs, LockedPCs, q
    <2>8. LinkCurrent' /\ Reachable'
      BY <2>1 DEF Control, LinkCurrent, Reachable
    <2> QED
      BY <2>5, <2>6, <2>7, <2>8 DEF Control
  <1>8. ASSUME NEW t \in Threads, Prune(t) PROVE Control'
    <2> DEFINE r == thread[t]
    <2>1. /\ Types /\ r \in Call /\ r.conn \in Conns /\ r.conn \in conns /\ r.pc = "prune"
          /\ r.pc \in LockedPCs /\ r.ch \in Channels /\ r.client \in Clients
          /\ Holds(t) /\ lock[ConnShard[r.conn]] = t
          /\ UNCHANGED <<conns, link, members, lock>>
      BY <1>8 DEF Prune, At, Control, Types, Holds, Joins, LockedPCs, JoinPCs, PCs
    <2>2. ASSUME NEW ch \in Channels, Prunable(ch), channels' = [channels EXCEPT ![ch] = 0],
                 UNCHANGED thread
          PROVE  Control'
      <3>1. /\ \A c \in Conns : link[c][ch] # channels[ch]
            /\ \A u \in Threads : At(u, "link") /\ thread[u].ch = ch => thread[u].arc # channels[ch]
            /\ \A m \in members : m.ch = ch => m.arc # channels[ch]
        BY <2>1, <2>2, PrunableAlone
      <3>2. channels' \in [Channels -> Nat] /\ \A d \in Channels \ {ch} : channels'[d] = channels[d]
        BY <2>1, <2>2 DEF Types
      <3>3. Types'
        BY <2>1, <2>2, <3>2 DEF Types
      <3>4. \A u \in Threads : Holds(u)' /\ Leaves(u)'
        BY <2>1, <2>2 DEF Control, Holds, Leaves
      <3>5. \A u \in Threads : thread[u].pc = "link" => channels'[thread[u].ch] = thread[u].arc
        BY <3>1, <3>2 DEF Control, Joins, At, JoinPCs
      <3>6. \A u \in Threads : Joins(u)'
        BY <2>1, <2>2, <3>5 DEF Control, Joins, Record
      <3>7. LinkCurrent'
        BY <2>1, <2>2, <3>1, <3>2 DEF Control, LinkCurrent
      <3>8. Reachable'
        BY <2>1, <2>2, <3>1, <3>2 DEF Control, Types, Member, Reachable
      <3> QED
        BY <3>3, <3>4, <3>6, <3>7, <3>8 DEF Control
    <2>3. CASE Goto(t, "insert") /\ UNCHANGED channels
      <3>1. /\ thread' \in [Threads -> Call]
            /\ \A u \in Threads \ {t} : thread'[u] = thread[u]
            /\ thread'[t].pc = "insert" /\ thread'[t].conn = r.conn /\ thread'[t].ch = r.ch
            /\ thread'[t].client = r.client
        BY <2>1, <2>3 DEF Types, Goto, Call, PCs
      <3> HIDE DEF r
      <3>2. Types'
        BY <2>1, <2>3, <3>1 DEF Types
      <3>3. \A u \in Threads \ {t} : Holds(u)' /\ Joins(u)' /\ Leaves(u)'
        BY <2>1, <2>3, <3>1, Frame DEF Control, Holds
      <3>4. Holds(t)' /\ Joins(t)' /\ Leaves(t)'
        BY <2>1, <3>1 DEF Holds, Joins, Leaves, JoinPCs, LockedPCs
      <3>5. LinkCurrent' /\ Reachable'
        BY <2>1, <2>3 DEF Control, LinkCurrent, Reachable
      <3> QED
        BY <3>2, <3>3, <3>4, <3>5 DEF Control
    <2> QED
      BY <1>8, <2>2, <2>3 DEF Prune
  <1>9. ASSUME NEW t \in Threads, Insert(t) PROVE Control'
    <2> DEFINE r == thread[t]
               arc == IF channels[r.ch] # 0 THEN channels[r.ch] ELSE FreshArc(r.ch)
    <2>1. /\ Types /\ r \in Call /\ r.conn \in Conns /\ r.conn \in conns /\ r.pc = "insert"
          /\ r.pc \in LockedPCs /\ r.ch \in Channels /\ r.client \in Clients
          /\ Holds(t) /\ lock[ConnShard[r.conn]] = t
          /\ UNCHANGED <<conns, link, members, lock>>
      BY <1>9 DEF Insert, At, Control, Types, Holds, Joins, LockedPCs, JoinPCs, PCs
    <2>2. arc \in Nat \ {0} /\ (channels[r.ch] # 0 => arc = channels[r.ch])
      BY <2>1, FreshArcType DEF Types
    <2>3. /\ channels' = [channels EXCEPT ![r.ch] = arc]
          /\ thread' = [thread EXCEPT ![t].pc = "link", ![t].arc = arc]
      BY <1>9 DEF Insert
    <2> HIDE DEF arc
    <2>4. /\ thread' \in [Threads -> Call]
          /\ \A u \in Threads \ {t} : thread'[u] = thread[u]
          /\ thread'[t].pc = "link" /\ thread'[t].conn = r.conn /\ thread'[t].ch = r.ch
          /\ thread'[t].client = r.client /\ thread'[t].arc = arc
      BY <2>1, <2>2, <2>3 DEF Types, Call, PCs
    <2> HIDE DEF r
    <2>5. /\ channels' \in [Channels -> Nat] /\ channels'[r.ch] = arc
          /\ \A ch \in Channels : channels[ch] # 0 => channels'[ch] = channels[ch]
      BY <2>1, <2>2, <2>3 DEF Types
    <2>6. Types'
      BY <2>1, <2>4, <2>5 DEF Types
    <2>7. \A u \in Threads \ {t} : Holds(u)' /\ Joins(u)' /\ Leaves(u)'
      <3>1. \A u \in Threads \ {t} :
              /\ thread[u].pc \in LockedPCs => lock'[ConnShard[thread[u].conn]] = u
              /\ thread[u].pc = "link" => channels'[thread[u].ch] = channels[thread[u].ch]
        BY <2>1, <2>5 DEF Control, Holds, Joins, JoinPCs
      <3> QED
        BY <2>1, <2>4, <3>1, Frame
    <2>8. Holds(t)' /\ Joins(t)' /\ Leaves(t)'
      BY <2>1, <2>2, <2>4, <2>5 DEF Holds, Joins, Leaves, JoinPCs, LockedPCs
    <2>9. LinkCurrent'
      BY <2>1, <2>5 DEF Control, Types, LinkCurrent
    <2>10. Reachable'
      BY <2>1, <2>5 DEF Control, Types, Member, Reachable
    <2> QED
      BY <2>6, <2>7, <2>8, <2>9, <2>10 DEF Control
  <1>10. ASSUME NEW t \in Threads, Link(t) PROVE Control'
    <2> DEFINE r == thread[t]
    <2>1. /\ Types /\ r \in Call /\ r.conn \in Conns /\ r.conn \in conns /\ r.pc = "link"
          /\ r.pc \in LockedPCs /\ r.ch \in Channels /\ r.client \in Clients
          /\ r.arc \in Nat \ {0} /\ channels[r.ch] = r.arc
          /\ Holds(t) /\ lock[ConnShard[r.conn]] = t
          /\ UNCHANGED <<conns, channels, members, lock>>
      BY <1>10, CallFields DEF Link, At, Control, Types, Holds, Joins, LockedPCs, JoinPCs, PCs
    <2>2. /\ link' = [link EXCEPT ![r.conn][r.ch] = IF @ = 0 THEN r.arc ELSE @]
          /\ thread' = [thread EXCEPT ![t].pc = "find", ![t].arc = 0]
      BY <1>10 DEF Link
    <2>3. /\ thread' \in [Threads -> Call]
          /\ \A u \in Threads \ {t} : thread'[u] = thread[u]
          /\ thread'[t].pc = "find" /\ thread'[t].conn = r.conn /\ thread'[t].ch = r.ch
          /\ thread'[t].client = r.client
      BY <2>1, <2>2 DEF Types, Call, PCs
    <2> HIDE DEF r
    <2>4. /\ link' \in [Conns -> [Channels -> Nat]]
          /\ \A c \in Conns \ {r.conn} : link'[c] = link[c]
          /\ \A c \in Conns, ch \in Channels :
               link'[c][ch] = link[c][ch]
                 \/ (link[c][ch] = 0 /\ c = r.conn /\ ch = r.ch /\ link'[c][ch] = r.arc)
      BY <2>1, <2>2 DEF Types
    <2>5. Types'
      BY <2>1, <2>3, <2>4 DEF Types
    <2>6. \A u \in Threads \ {t} : Holds(u)' /\ Joins(u)' /\ Leaves(u)'
      BY <2>1, <2>3, <2>4, Frame DEF Control, Holds, r
    <2>7. Holds(t)' /\ Joins(t)' /\ Leaves(t)'
      BY <2>1, <2>3 DEF Holds, Joins, Leaves, JoinPCs, LockedPCs
    <2>8. LinkCurrent'
      BY <2>1, <2>4 DEF Control, LinkCurrent
    <2>9. Reachable'
      BY <2>1, <2>4 DEF Control, Types, Member, Reachable
    <2> QED
      BY <2>5, <2>6, <2>7, <2>8, <2>9 DEF Control
  <1>11. ASSUME NEW t \in Threads, Enter(t) \/ Retry(t) PROVE Control'
    <2> DEFINE r == thread[t]
    <2>1. /\ Types /\ r \in Call /\ r.conn \in Conns /\ r.conn \in conns
          /\ r.pc \in {"enter", "reclaim"} /\ r.pc \in LockedPCs
          /\ r.ch \in Channels /\ r.client \in Clients
          /\ r.arc \in Nat \ {0} /\ link[r.conn][r.ch] = r.arc
          /\ Holds(t) /\ lock[ConnShard[r.conn]] = t
          /\ UNCHANGED <<conns, channels, link>>
      BY <1>11, CallFields
      DEF Enter, Retry, At, Control, Types, Holds, Joins, LockedPCs, JoinPCs, PCs
    <2>2. CASE Return(t) /\ UNCHANGED members
      <3>1. /\ thread' \in [Threads -> Call]
            /\ lock' \in [{ConnShard[c] : c \in Conns} -> Threads \union {None}]
            /\ \A u \in Threads : Holds(u)' /\ Joins(u)' /\ Leaves(u)'
        BY <2>1, <2>2, ReturnFrame
      <3> QED
        BY <2>1, <2>2, <3>1 DEF Control, Types, LinkCurrent, Reachable
    <2>3. CASE Reserve(t)
      <3>1. members' = members \union {Record(r)} /\ Return(t)
        BY <2>3 DEF Reserve
      <3>2. Record(r) \in Member /\ Record(r).conn = r.conn /\ Record(r).ch = r.ch /\ Record(r).arc = r.arc
        BY <2>1 DEF Record, Member
      <3>3. members' \subseteq Member /\ IsFiniteSet(members')
        BY <2>1, <3>1, <3>2, FS_AddElement DEF Types
      <3>4. /\ thread' \in [Threads -> Call]
            /\ lock' \in [{ConnShard[c] : c \in Conns} -> Threads \union {None}]
            /\ \A u \in Threads : Holds(u)' /\ Joins(u)' /\ Leaves(u)'
        BY <2>1, <3>1, <3>2, ReturnFrame
      <3>5. Types' /\ LinkCurrent'
        BY <2>1, <3>3, <3>4 DEF Control, Types, LinkCurrent
      <3>6. Reachable'
        <4> SUFFICES ASSUME NEW m \in members'
                     PROVE  m.conn \in conns /\ link[m.conn][m.ch] = m.arc /\ channels[m.ch] = m.arc
          BY <2>1 DEF Reachable
        <4>1. CASE m \in members
          BY <4>1 DEF Control, Reachable
        <4>2. CASE m = Record(r)
          BY <2>1, <3>2, <4>2 DEF Control, LinkCurrent
        <4> QED
          BY <3>1, <4>1, <4>2
      <3> QED
        BY <3>4, <3>5, <3>6 DEF Control
    <2>4. CASE /\ Record(r) \notin members
               /\ thread' = [thread EXCEPT ![t].pc = "reclaim", ![t].shard = 1]
               /\ UNCHANGED <<members, lock>>
      <3>1. 1 \in 0..Cardinality(Shards)
        <4>1. CapShard[<<r.ch, r.client>>] \in Shards
          BY <2>1, RegistryAssumption
        <4> QED
          BY <4>1, RegistryAssumption, FS_CardinalityType
      <3>2. /\ thread' \in [Threads -> Call]
            /\ \A u \in Threads \ {t} : thread'[u] = thread[u]
            /\ thread'[t].pc = "reclaim" /\ thread'[t].conn = r.conn /\ thread'[t].ch = r.ch
            /\ thread'[t].client = r.client /\ thread'[t].arc = r.arc
        BY <2>1, <2>4, <3>1 DEF Types, Call, PCs
      <3>3. Record(thread'[t]) = Record(r)
        BY <3>2 DEF Record
      <3> HIDE DEF r
      <3>4. Types'
        BY <2>1, <2>4, <3>2 DEF Types
      <3>5. \A u \in Threads \ {t} : Holds(u)' /\ Joins(u)' /\ Leaves(u)'
        BY <2>1, <2>4, <3>2, Frame DEF Control, Holds
      <3>6. Holds(t)' /\ Joins(t)' /\ Leaves(t)'
        BY <2>1, <2>4, <3>2, <3>3 DEF Holds, Joins, Leaves, JoinPCs, LockedPCs
      <3>7. LinkCurrent' /\ Reachable'
        BY <2>1, <2>4 DEF Control, LinkCurrent, Reachable
      <3> QED
        BY <3>4, <3>5, <3>6, <3>7 DEF Control
    <2> QED
      BY <1>11, <2>2, <2>3, <2>4 DEF Enter, Retry
  <1>12. ASSUME NEW t \in Threads, Reclaim(t) PROVE Control'
    <2> DEFINE r == thread[t]
               s == IF r.shard = Cardinality(Shards) THEN 0 ELSE r.shard + 1
    <2>1. /\ Types /\ r \in Call /\ r.pc = "reclaim" /\ r.pc \in LockedPCs
          /\ Holds(t) /\ Joins(t) /\ r.shard \in Shards
          /\ thread' = [thread EXCEPT ![t].shard = s]
          /\ UNCHANGED <<conns, channels, link, members, lock>>
      BY <1>12 DEF Reclaim, At, Control, Types, LockedPCs, PCs
    <2>2. s \in 0..Cardinality(Shards)
      BY <2>1, RegistryAssumption, FS_CardinalityType
    <2> HIDE DEF s
    <2>3. /\ thread' \in [Threads -> Call]
          /\ \A u \in Threads \ {t} : thread'[u] = thread[u]
          /\ thread'[t].pc = r.pc /\ thread'[t].conn = r.conn /\ thread'[t].ch = r.ch
          /\ thread'[t].client = r.client /\ thread'[t].arc = r.arc
      BY <2>1, <2>2 DEF Types, Call, PCs
    <2>4. Record(thread'[t]) = Record(r)
      BY <2>3 DEF Record
    <2>5. Types'
      BY <2>1, <2>3 DEF Types
    <2>6. \A u \in Threads \ {t} : Holds(u)' /\ Joins(u)' /\ Leaves(u)'
      BY <2>1, <2>3, Frame DEF Control, Holds
    <2>7. Holds(t)' /\ Joins(t)' /\ Leaves(t)'
      BY <2>1, <2>3, <2>4 DEF Holds, Joins, Leaves, JoinPCs, LockedPCs
    <2>8. LinkCurrent' /\ Reachable'
      BY <2>1 DEF Control, LinkCurrent, Reachable
    <2> QED
      BY <2>5, <2>6, <2>7, <2>8 DEF Control
  <1>13. ASSUME NEW t \in Threads, List(t) PROVE Control'
    <2> DEFINE r == thread[t]
               listed == {m \in members : /\ m.ch = r.ch /\ m.arc = channels[r.ch]
                                          /\ m.client = r.client /\ m.conn # r.conn}
               c == (CHOOSE m \in listed : TRUE).conn
               q == thread'[t]
    <2>1. /\ Types /\ r \in Call /\ r.pc = "list"
          /\ thread' = [thread EXCEPT
               ![t] = IF listed = {} THEN Idle
                      ELSE [@ EXCEPT !.pc = "lock", !.todo = listed, !.conn = c]]
          /\ UNCHANGED <<conns, channels, link, members, lock>>
      BY <1>13 DEF List, At, Control, Types
    <2>2. listed \subseteq Member /\ (listed # {} => c \in Conns)
      BY <2>1 DEF Types, Member
    <2> HIDE DEF listed, c
    <2>3. /\ thread' \in [Threads -> Call]
          /\ \A u \in Threads \ {t} : thread'[u] = thread[u]
          /\ \/ q.pc = "idle"
             \/ q.pc = "lock" /\ q.op = r.op /\ q.conn \in Conns /\ q.ch = r.ch /\ q.client = r.client
      <3>1. CASE listed = {}
        <4>1. thread' = [thread EXCEPT ![t] = Idle]
          BY <2>1, <3>1
        <4>2. Idle \in Call /\ Idle.pc = "idle"
          BY RegistryAssumption, FS_CardinalityType DEF Idle, Call, PCs
        <4> QED
          BY <2>1, <4>1, <4>2 DEF Types
      <3>2. CASE listed # {}
        <4> DEFINE p == [r EXCEPT !.pc = "lock", !.todo = listed, !.conn = c]
        <4>1. thread' = [thread EXCEPT ![t] = p]
          BY <2>1, <3>2
        <4>2. /\ p \in Call /\ p.pc = "lock" /\ p.op = r.op /\ p.conn = c
              /\ p.ch = r.ch /\ p.client = r.client
          BY <2>1, <2>2, <3>2 DEF Call, PCs
        <4> HIDE DEF p
        <4> QED
          BY <2>1, <2>2, <3>2, <4>1, <4>2 DEF Types
      <3> QED
        BY <3>1, <3>2
    <2> HIDE DEF q
    <2>4. Types'
      BY <2>1, <2>3 DEF Types
    <2>5. \A u \in Threads \ {t} : Holds(u)' /\ Joins(u)' /\ Leaves(u)'
      BY <2>1, <2>3, Frame DEF Control, Holds
    <2>6. Holds(t)' /\ Joins(t)' /\ Leaves(t)'
      <3>1. r.op = "supersede"
        BY <2>1 DEF Control, Leaves
      <3> HIDE DEF r
      <3> QED
        BY <2>1, <2>3, <3>1 DEF Holds, Joins, Leaves, JoinPCs, LockedPCs, q
    <2>7. LinkCurrent' /\ Reachable'
      BY <2>1 DEF Control, LinkCurrent, Reachable
    <2> QED
      BY <2>4, <2>5, <2>6, <2>7 DEF Control
  <1>14. ASSUME NEW t \in Threads, Remove(t) PROVE Control'
    <2> DEFINE r == thread[t]
               q == thread'[t]
    <2>1. PICK l \in r.todo :
            LET m == [l EXCEPT !.arc = link[l.conn][l.ch]] IN
            /\ m.conn = r.conn
            /\ members' = members \ {m}
            /\ thread' = [thread EXCEPT
                 ![t].todo = @ \ {l},
                 ![t].pc = IF m \in members THEN "release" ELSE @,
                 ![t].shard = IF m \in members THEN CapShard[<<m.ch, m.client>>] ELSE 0]
            /\ UNCHANGED <<conns, channels, link, lock>>
      BY <1>14 DEF Remove
    <2> DEFINE m == [l EXCEPT !.arc = link[l.conn][l.ch]]
               p == IF m \in members THEN "release" ELSE r.pc
               s == IF m \in members THEN CapShard[<<m.ch, m.client>>] ELSE 0
    <2>2. /\ Types /\ r \in Call /\ r.pc = "remove" /\ r.pc \in LockedPCs
          /\ Holds(t) /\ Leaves(t)
      BY <1>14 DEF Remove, At, Control, Types, LockedPCs, PCs
    <2>3. l \in Member /\ l.conn \in Conns /\ l.ch \in Channels
      BY <2>2, CallFields DEF Member
    <2>4. m.conn = l.conn /\ m.ch = l.ch /\ m.client = l.client
      BY <2>3 DEF Member
    <2>5. l \in members => m = l
      BY <2>3 DEF Control, Reachable, Member
    <2>6. /\ p \in {"release", "remove"}
          /\ s \in 0..Cardinality(Shards)
          /\ p = "release" => s \in Shards
      <3>1. CapShard[<<m.ch, m.client>>] \in Shards
        BY <2>3, <2>4, RegistryAssumption DEF Member
      <3>2. Cardinality(Shards) \in Nat
        BY RegistryAssumption, FS_CardinalityType
      <3> HIDE DEF m
      <3> QED
        BY <2>2, <3>1, <3>2, RegistryAssumption
    <2>7. thread' = [thread EXCEPT ![t].todo = r.todo \ {l}, ![t].pc = p, ![t].shard = s]
      BY <2>1, <2>2 DEF Types
    <2>8. members' = members \ {m} /\ UNCHANGED <<conns, channels, link, lock>>
      BY <2>1
    <2> HIDE DEF m, p, s
    <2>9. /\ thread' \in [Threads -> Call]
          /\ \A u \in Threads \ {t} : thread'[u] = thread[u]
          /\ q.pc = p /\ q.op = r.op /\ q.conn = r.conn /\ q.ch = r.ch
          /\ q.todo = r.todo \ {l} /\ q.shard = s
      BY <2>2, <2>6, <2>7 DEF Types, Call, PCs
    <2> HIDE DEF q, r
    <2>10. members' \subseteq members /\ IsFiniteSet(members')
      BY <2>2, <2>8, FS_Subset DEF Types
    <2>11. Types'
      BY <2>2, <2>8, <2>9, <2>10 DEF Types
    <2>12. \A u \in Threads \ {t} : Holds(u)' /\ Joins(u)' /\ Leaves(u)'
      BY <2>2, <2>8, <2>9, <2>10, Frame DEF Control, Holds, r
    <2>13. Holds(t)' /\ Joins(t)' /\ Leaves(t)'
      <3>1. Holds(t)' /\ Joins(t)'
        BY <2>2, <2>6, <2>8, <2>9 DEF Holds, Joins, JoinPCs, LockedPCs, PCs, q, r
      <3>2. \A n \in members' : n # l
        BY <2>5, <2>8
      <3>3. Leaves(t)'
        BY <2>2, <2>6, <2>9, <2>10, <3>2 DEF Leaves, q, r
      <3> QED
        BY <3>1, <3>3
    <2>14. LinkCurrent' /\ Reachable'
      BY <2>8, <2>10 DEF Control, LinkCurrent, Reachable
    <2> QED
      BY <2>11, <2>12, <2>13, <2>14 DEF Control
  <1>15. ASSUME NEW t \in Threads, Release(t) PROVE Control'
    <2> DEFINE r == thread[t]
    <2>1. /\ Types /\ r \in Call /\ r.pc = "release" /\ r.pc \in LockedPCs
          /\ Holds(t) /\ Leaves(t)
          /\ thread' = [thread EXCEPT ![t].pc = "remove", ![t].shard = 0]
          /\ UNCHANGED <<conns, channels, link, members, lock>>
      BY <1>15 DEF Release, At, Control, Types, LockedPCs, PCs
    <2>2. 0 \in 0..Cardinality(Shards)
      BY RegistryAssumption, FS_CardinalityType
    <2>3. /\ thread' \in [Threads -> Call]
          /\ \A u \in Threads \ {t} : thread'[u] = thread[u]
          /\ thread'[t].pc = "remove" /\ thread'[t].op = r.op /\ thread'[t].conn = r.conn
          /\ thread'[t].ch = r.ch /\ thread'[t].todo = r.todo
      BY <2>1, <2>2 DEF Types, Call, PCs
    <2>4. Types'
      BY <2>1, <2>3 DEF Types
    <2>5. \A u \in Threads \ {t} : Holds(u)' /\ Joins(u)' /\ Leaves(u)'
      BY <2>1, <2>3, Frame DEF Control, Holds
    <2>6. Holds(t)' /\ Joins(t)' /\ Leaves(t)'
      BY <2>1, <2>3 DEF Holds, Joins, Leaves, JoinPCs, LockedPCs
    <2>7. LinkCurrent' /\ Reachable'
      BY <2>1 DEF Control, LinkCurrent, Reachable
    <2> QED
      BY <2>4, <2>5, <2>6, <2>7 DEF Control
  <1>16. ASSUME NEW t \in Threads, NextConnection(t) PROVE Control'
    <2> DEFINE r == thread[t]
    <2>1. /\ Types /\ r \in Call /\ r.pc = "remove" /\ r.pc \in LockedPCs
          /\ Holds(t) /\ Leaves(t) /\ r.op = "supersede" /\ r.conn \in Conns
          /\ lock' = [lock EXCEPT ![ConnShard[r.conn]] = None]
          /\ UNCHANGED <<conns, channels, link, members>>
      BY <1>16 DEF NextConnection, Unlock, MyLock, At, Control, Types, LockedPCs, PCs, Holds
    <2>2. PICK m \in r.todo : thread' = [thread EXCEPT ![t].pc = "lock", ![t].conn = m.conn]
      BY <1>16 DEF NextConnection
    <2>3. m.conn \in Conns
      BY <2>1, CallFields DEF Member
    <2>4. /\ thread' \in [Threads -> Call]
          /\ \A u \in Threads \ {t} : thread'[u] = thread[u]
          /\ thread'[t].pc = "lock" /\ thread'[t].op = r.op /\ thread'[t].conn \in Conns
      BY <2>1, <2>2, <2>3 DEF Types, Call, PCs
    <2>5. Types'
      BY <2>1, <2>4 DEF Types
    <2>6. \A u \in Threads \ {t} : Holds(u)' /\ Joins(u)' /\ Leaves(u)'
      <3>1. \A u \in Threads \ {t} :
              thread[u].pc \in LockedPCs => lock'[ConnShard[thread[u].conn]] = u
        BY <2>1 DEF Control, Types, Holds
      <3> QED
        BY <2>1, <2>4, <3>1, Frame
    <2>7. Holds(t)' /\ Joins(t)' /\ Leaves(t)'
      BY <2>1, <2>4 DEF Holds, Joins, Leaves, JoinPCs, LockedPCs
    <2>8. LinkCurrent' /\ Reachable'
      BY <2>1 DEF Control, LinkCurrent, Reachable
    <2> QED
      BY <2>5, <2>6, <2>7, <2>8 DEF Control
  <1>17. ASSUME NEW t \in Threads, Finish(t) PROVE Control'
    <2> DEFINE r == thread[t]
    <2>1. /\ Types /\ r \in Call /\ r.pc = "remove" /\ r.pc \in LockedPCs /\ r.todo = {}
          /\ Leaves(t) /\ r.conn \in Conns
          /\ conns' = IF r.op = "unregister" THEN conns \ {r.conn} ELSE conns
          /\ Return(t)
          /\ UNCHANGED <<channels, members>>
      BY <1>17 DEF Finish, At, Control, Types, LockedPCs, PCs, Holds
    <2>2. /\ link' \in [Conns -> [Channels -> Nat]]
          /\ \A c \in Conns \ {r.conn} : link'[c] = link[c]
          /\ \A c \in Conns, ch \in Channels :
               \/ link'[c][ch] = link[c][ch]
               \/ /\ c = r.conn /\ link'[c][ch] = 0
                  /\ r.op = "unregister" \/ (r.op = "detach" /\ ch = r.ch)
      <3>1. CASE r.op = "detach"
        <4>1. link' = [link EXCEPT ![r.conn][r.ch] = 0] /\ r.ch \in Channels
          BY <1>17, <2>1, <3>1 DEF Finish, Leaves
        <4> QED
          BY <2>1, <3>1, <4>1 DEF Types
      <3>2. CASE r.op = "unregister"
        <4>1. link' = [link EXCEPT ![r.conn] = [ch \in Channels |-> 0]]
          BY <1>17, <3>2 DEF Finish
        <4> QED
          BY <2>1, <3>2, <4>1 DEF Types
      <3>3. CASE r.op # "detach" /\ r.op # "unregister"
        <4>1. link' = link
          BY <1>17, <3>3 DEF Finish
        <4> QED
          BY <2>1, <3>3, <4>1 DEF Types
      <3> QED
        BY <3>1, <3>2, <3>3
    <2>3. /\ thread' \in [Threads -> Call]
          /\ lock' \in [{ConnShard[c] : c \in Conns} -> Threads \union {None}]
          /\ \A u \in Threads : Holds(u)' /\ Joins(u)' /\ Leaves(u)'
      BY <2>1, <2>2, ReturnFrame
    <2>4. Types'
      BY <2>1, <2>2, <2>3 DEF Types
    <2>5. LinkCurrent'
      BY <2>1, <2>2 DEF Control, LinkCurrent
    <2>6. Reachable'
      BY <2>1, <2>2 DEF Control, Types, Member, Reachable, Leaves
    <2> QED
      BY <2>3, <2>4, <2>5, <2>6 DEF Control
  <1> QED
    BY <1>1, <1>2, <1>3, <1>4, <1>5, <1>6, <1>7, <1>8, <1>9, <1>10, <1>11, <1>12, <1>13, <1>14,
       <1>15, <1>16, <1>17
    DEF Next, Step

(* Spec keeps the invariant.                                               *)
LEMMA AlwaysControl == Spec => []Control
  BY InitControl, StepControl, PTL DEF Spec

(* Every member of the registry belongs to a registered connection, and    *)
(* its connection's own map and the channel map both lead to it: whatever  *)
(* joins, leaves, detaches, disconnects, supersessions and prunings        *)
(* interleave, presence.rs leaves no member that cannot be seen or cannot  *)
(* be removed, for any number of threads, connections and channels.        *)
THEOREM MembersReachable == Spec => []Reachable
  <1>1. Control => Reachable
    BY DEF Control
  <1> QED
    BY <1>1, AlwaysControl, PTL

-----------------------------------------------------------------------------
(* The capacity account.                                                   *)

(* The slots of the shards, the threads about to return a slot of a shard  *)
(* and the members of a shard, as functions of the state.                  *)
Slots(f) == UNION {{s} \X (1..f[s]) : s \in Shards}
Releasers(th, s) == {t \in Threads : th[t].pc = "release" /\ th[t].shard = s}
InShard(M, s) == {m \in M : CapShard[<<m.ch, m.client>>] = s}
Own(r, s) == IF r.pc = "release" /\ r.shard = s THEN 1 ELSE 0

Account ==
  /\ active \in [Shards -> Nat]
  /\ reserved \in [Shards -> Nat]
  /\ total \in 0..MaxMembers
  /\ total = Cardinality(Slots(reserved))
  /\ \A s \in Shards :
       /\ active[s] <= reserved[s]
       /\ active[s] = Cardinality(Releasers(thread, s)) + Cardinality(InShard(members, s))

(* One shard's slots.                                                      *)
LEMMA ShardSlots ==
  ASSUME NEW s, NEW n \in Nat
  PROVE  IsFiniteSet({s} \X (1..n)) /\ Cardinality({s} \X (1..n)) = n
  <1>1. IsFiniteSet(1..n) /\ Cardinality(1..n) = n
    BY FS_Interval
  <1>2. IsFiniteSet({s}) /\ Cardinality({s}) = 1
    BY FS_Singleton
  <1>3. /\ IsFiniteSet({s} \X (1..n))
        /\ Cardinality({s} \X (1..n)) = Cardinality({s}) * Cardinality(1..n)
    BY <1>1, <1>2, FS_Product
  <1> QED
    BY <1>1, <1>2, <1>3

(* The slots are finitely many.                                            *)
LEMMA SlotsFinite ==
  ASSUME NEW f \in [Shards -> Nat], NEW S \in SUBSET Shards
  PROVE  IsFiniteSet(UNION {{s} \X (1..f[s]) : s \in S})
  <1> DEFINE P == {{s} \X (1..f[s]) : s \in S}
             g == [s \in S |-> {s} \X (1..f[s])]
  <1>1. IsFiniteSet(S)
    BY RegistryAssumption, FS_Subset
  <1>2. g \in [S -> P] /\ \A y \in P : \E s \in S : g[s] = y
    OBVIOUS
  <1>3. \A T \in P : IsFiniteSet(T)
    <2>1. \A s \in S : IsFiniteSet({s} \X (1..f[s]))
      BY ShardSlots
    <2> QED
      BY <2>1
  <1> HIDE DEF P, g
  <1>4. IsFiniteSet(P)
    BY <1>1, <1>2, FiniteOnto
  <1>5. IsFiniteSet(UNION P)
    BY <1>3, <1>4, FS_UNION
  <1> QED
    BY <1>5 DEF P

(* When one shard's reservation changes, the number of slots changes by as *)
(* much.                                                                   *)
LEMMA SlotsChange ==
  ASSUME NEW f \in [Shards -> Nat], NEW s \in Shards, NEW n \in Nat
  PROVE  /\ Cardinality(Slots(f)) \in Nat
         /\ f[s] <= Cardinality(Slots(f))
         /\ Cardinality(Slots([f EXCEPT ![s] = n])) = Cardinality(Slots(f)) - f[s] + n
  <1> DEFINE Rest == UNION {{x} \X (1..f[x]) : x \in Shards \ {s}}
             A == {s} \X (1..f[s])
             B == {s} \X (1..n)
             g == [f EXCEPT ![s] = n]
  <1>1. IsFiniteSet(Rest)
    BY SlotsFinite
  <1>2. /\ IsFiniteSet(A) /\ Cardinality(A) = f[s]
        /\ IsFiniteSet(B) /\ Cardinality(B) = n
    BY ShardSlots
  <1>3. Slots(f) = Rest \union A /\ Rest \intersect A = {}
    BY DEF Slots
  <1>4. Slots(g) = Rest \union B /\ Rest \intersect B = {}
    <2>1. \A x \in Shards \ {s} : g[x] = f[x]
      OBVIOUS
    <2>2. g[s] = n
      OBVIOUS
    <2> HIDE DEF g
    <2> QED
      BY <2>1, <2>2 DEF Slots
  <1> HIDE DEF Rest, A, B
  <1>5. Cardinality(Rest \union A) = Cardinality(Rest) + Cardinality(A) - Cardinality({})
    BY <1>1, <1>2, <1>3, FS_Union
  <1>6. Cardinality(Rest \union B) = Cardinality(Rest) + Cardinality(B) - Cardinality({})
    BY <1>1, <1>2, <1>4, FS_Union
  <1>7. Cardinality(Rest) \in Nat /\ Cardinality({}) = 0 /\ f[s] \in Nat
    BY <1>1, FS_CardinalityType, FS_EmptySet
  <1> HIDE DEF g
  <1>8. /\ Cardinality(Slots(f)) = Cardinality(Rest) + f[s]
        /\ Cardinality(Slots(g)) = Cardinality(Rest) + n
    BY <1>2, <1>3, <1>4, <1>5, <1>6, <1>7
  <1>9. /\ Cardinality(Slots(f)) \in Nat
        /\ f[s] <= Cardinality(Slots(f))
        /\ Cardinality(Slots(g)) = Cardinality(Slots(f)) - f[s] + n
    BY <1>7, <1>8
  <1> QED
    BY <1>9 DEF g

(* A step of one thread changes the number of threads about to return a    *)
(* slot by its own.                                                        *)
LEMMA ReleasersStep ==
  ASSUME NEW t \in Threads, NEW s,
         \A u \in Threads \ {t} : thread'[u] = thread[u]
  PROVE  /\ Cardinality(Releasers(thread, s)) \in Nat
         /\ Cardinality(Releasers(thread, s)) >= Own(thread[t], s)
         /\ Cardinality(Releasers(thread', s)) = Cardinality(Releasers(thread, s)) - Own(thread[t], s) + Own(thread'[t], s)
  <1> DEFINE Rest == Releasers(thread, s) \ {t}
  <1>1. IsFiniteSet(Releasers(thread, s)) /\ IsFiniteSet(Rest)
    BY RegistryAssumption, FS_Subset DEF Releasers
  <1>2. Cardinality(Releasers(thread, s)) \in Nat /\ Cardinality(Rest) \in Nat
    BY <1>1, FS_CardinalityType
  <1>3. Cardinality(Releasers(thread, s)) = Cardinality(Rest) + Own(thread[t], s)
    <2>1. t \in Releasers(thread, s) <=> thread[t].pc = "release" /\ thread[t].shard = s
      BY DEF Releasers
    <2> QED
      BY <1>1, <1>2, <2>1, FS_RemoveElement DEF Own
  <1>4. Cardinality(Releasers(thread', s)) = Cardinality(Rest) + Own(thread'[t], s)
    <2>1. CASE thread'[t].pc = "release" /\ thread'[t].shard = s
      <3>1. Releasers(thread', s) = Rest \union {t} /\ t \notin Rest
        BY <2>1 DEF Releasers
      <3> HIDE DEF Rest
      <3> QED
        BY <1>1, <2>1, <3>1, FS_AddElement DEF Own
    <2>2. CASE ~(thread'[t].pc = "release" /\ thread'[t].shard = s)
      <3>1. Releasers(thread', s) = Rest
        BY <2>2 DEF Releasers
      <3> HIDE DEF Rest
      <3> QED
        BY <1>2, <2>2, <3>1 DEF Own
    <2> QED
      BY <2>1, <2>2
  <1>5. Own(thread[t], s) \in Nat /\ Own(thread'[t], s) \in Nat
    BY DEF Own
  <1> QED
    BY <1>2, <1>3, <1>4, <1>5

(* A member more or less changes the number of its own shard's members.    *)
LEMMA ShardMembers ==
  ASSUME NEW M, IsFiniteSet(M), NEW m, NEW s
  PROVE  LET own == IF CapShard[<<m.ch, m.client>>] = s THEN 1 ELSE 0 IN
         /\ Cardinality(InShard(M, s)) \in Nat
         /\ m \notin M => Cardinality(InShard(M \union {m}, s)) = Cardinality(InShard(M, s)) + own
         /\ m \in M => Cardinality(InShard(M \ {m}, s)) = Cardinality(InShard(M, s)) - own
  <1>1. IsFiniteSet(InShard(M, s))
    BY FS_Subset DEF InShard
  <1>2. Cardinality(InShard(M, s)) \in Nat
    BY <1>1, FS_CardinalityType
  <1>3. CASE CapShard[<<m.ch, m.client>>] = s
    <2>1. InShard(M \union {m}, s) = InShard(M, s) \union {m}
      BY <1>3 DEF InShard
    <2>2. InShard(M \ {m}, s) = InShard(M, s) \ {m}
      BY <1>3 DEF InShard
    <2>3. m \in InShard(M, s) <=> m \in M
      BY <1>3 DEF InShard
    <2>4. m \notin M => Cardinality(InShard(M, s) \union {m}) = Cardinality(InShard(M, s)) + 1
      BY <1>1, <2>3, FS_AddElement
    <2>5. m \in M => Cardinality(InShard(M, s) \ {m}) = Cardinality(InShard(M, s)) - 1
      BY <1>1, <2>3, FS_RemoveElement
    <2> QED
      BY <1>2, <1>3, <2>1, <2>2, <2>4, <2>5
  <1>4. CASE CapShard[<<m.ch, m.client>>] # s
    <2>1. InShard(M \union {m}, s) = InShard(M, s) /\ InShard(M \ {m}, s) = InShard(M, s)
      BY <1>4 DEF InShard
    <2> QED
      BY <1>2, <1>4, <2>1
  <1> QED
    BY <1>3, <1>4

(* A grant never exceeds what is left.                                     *)
LEMMA GrantBound ==
  ASSUME Account, NEW s \in Shards
  PROVE  /\ Grant(s) \in Nat
         /\ total + Grant(s) <= MaxMembers
         /\ CanReserve(s) => active[s] + 1 <= reserved[s] + Grant(s)
  <1> DEFINE left == MaxMembers - total
  <1>1. left \in Nat /\ Batch \in Nat \ {0} /\ total \in Nat /\ MaxMembers \in Nat
    BY RegistryAssumption DEF Account
  <1>2. active[s] \in Nat /\ reserved[s] \in Nat /\ active[s] <= reserved[s]
    BY DEF Account
  <1>3. /\ Min({left, Batch}) \in {left, Batch}
        /\ Min({left, Batch}) <= left
    <2>1. \E x \in {left, Batch} : \A y \in {left, Batch} : x <= y
      BY <1>1
    <2> HIDE DEF left
    <2> QED
      BY <1>1, <2>1 DEF Min
  <1>4. CASE active[s] < reserved[s]
    BY <1>1, <1>2, <1>4 DEF Grant
  <1>5. CASE ~(active[s] < reserved[s])
    <2>1. Grant(s) = Min({left, Batch})
      BY <1>5 DEF Grant
    <2>2. CanReserve(s) => Grant(s) >= 1
      BY <1>1, <1>3, <1>5, <2>1 DEF CanReserve
    <2>3. Grant(s) \in Nat /\ total + Grant(s) <= MaxMembers
      BY <1>1, <1>3, <2>1
    <2> QED
      BY <1>2, <2>2, <2>3
  <1> QED
    BY <1>4, <1>5

(* The account as the run states it, and the bounds of the counters.       *)
LEMMA AccountExact ==
  ASSUME Account
  PROVE  /\ CapacityExact
         /\ active \in [Shards -> 0..MaxMembers]
         /\ reserved \in [Shards -> 0..MaxMembers]
  <1>1. ReservedSlots = Slots(reserved)
    BY DEF ReservedSlots, Slots
  <1>2. \A s \in Shards : /\ Releasing(s) = Cardinality(Releasers(thread, s))
                          /\ {m \in members : CapShard[<<m.ch, m.client>>] = s} = InShard(members, s)
    BY DEF Releasing, Releasers, InShard, At
  <1>3. CapacityExact
    BY <1>1, <1>2 DEF Account, CapacityExact
  <1>4. MaxMembers \in Nat
    BY RegistryAssumption
  <1>5. \A s \in Shards : reserved[s] \in Nat /\ active[s] \in Nat /\ active[s] <= reserved[s]
    BY DEF Account
  <1>6. \A s \in Shards : reserved[s] <= total
    BY SlotsChange DEF Account
  <1>7. total \in 0..MaxMembers
    BY DEF Account
  <1>8. \A s \in Shards : reserved[s] \in 0..MaxMembers /\ active[s] \in 0..MaxMembers
    BY <1>4, <1>5, <1>6, <1>7
  <1> QED
    BY <1>3, <1>8 DEF Account

(* The empty registry has an exact account.                                *)
LEMMA InitAccount == Init => Account
  <1> SUFFICES ASSUME Init PROVE Account
    OBVIOUS
  <1>1. Slots(reserved) = {}
    BY DEF Init, Slots
  <1>2. \A s \in Shards : Releasers(thread, s) = {} /\ InShard(members, s) = {}
    BY DEF Init, Releasers, InShard, Idle
  <1>3. MaxMembers \in Nat
    BY RegistryAssumption
  <1>4. active = [s \in Shards |-> 0] /\ reserved = [s \in Shards |-> 0] /\ total = 0
    BY DEF Init
  <1> QED
    BY <1>1, <1>2, <1>3, <1>4, FS_EmptySet DEF Account

(* A step that neither takes nor returns a slot keeps the account.         *)
LEMMA Quiet ==
  ASSUME Account, Control, NEW t \in Threads,
         \A u \in Threads \ {t} : thread'[u] = thread[u],
         \A s \in Shards : Own(thread'[t], s) = Own(thread[t], s),
         UNCHANGED <<members, active, reserved, total>>
  PROVE  Account'
  <1>1. \A s \in Shards : Cardinality(Releasers(thread', s)) = Cardinality(Releasers(thread, s))
    <2> SUFFICES ASSUME NEW s \in Shards
                 PROVE  Cardinality(Releasers(thread', s)) = Cardinality(Releasers(thread, s))
      OBVIOUS
    <2>1. /\ Cardinality(Releasers(thread, s)) \in Nat
          /\ Cardinality(Releasers(thread', s))
               = Cardinality(Releasers(thread, s)) - Own(thread[t], s) + Own(thread'[t], s)
      BY ReleasersStep
    <2>2. Own(thread[t], s) \in Nat
      BY DEF Own
    <2> QED
      BY <2>1, <2>2
  <1> QED
    BY <1>1 DEF Account

(* A slot is reserved together with the member it is for.                  *)
LEMMA ReserveAccount ==
  ASSUME Account, Control, NEW t \in Threads, Reserve(t),
         thread[t].pc \in {"enter", "reclaim"}, Record(thread[t]) \notin members
  PROVE  Account'
  <1> DEFINE r == thread[t]
             s == CapShard[<<r.ch, r.client>>]
             n == reserved[s] + Grant(s)
  <1>1. r.ch \in Channels /\ r.client \in Clients
    BY DEF Control, Joins, JoinPCs
  <1>2. s \in Shards
    BY <1>1, RegistryAssumption
  <1>3. /\ CanReserve(s)
        /\ active' = [active EXCEPT ![s] = @ + 1]
        /\ reserved' = [reserved EXCEPT ![s] = @ + Grant(s)]
        /\ total' = total + Grant(s)
        /\ members' = members \union {Record(r)}
        /\ thread' = [thread EXCEPT ![t] = Idle]
    BY DEF Reserve, Return
  <1>4. /\ active \in [Shards -> Nat] /\ reserved \in [Shards -> Nat] /\ total \in Nat
        /\ total = Cardinality(Slots(reserved)) /\ MaxMembers \in Nat
        /\ IsFiniteSet(members) /\ thread \in [Threads -> Call]
    BY RegistryAssumption DEF Account, Control, Types
  <1>5. /\ Grant(s) \in Nat /\ total + Grant(s) <= MaxMembers
        /\ active[s] + 1 <= reserved[s] + Grant(s)
    BY <1>2, <1>3, GrantBound
  <1>6. CapShard[<<Record(r).ch, Record(r).client>>] = s
    BY DEF Record
  <1>7. /\ \A u \in Threads \ {t} : thread'[u] = thread[u]
        /\ \A x \in Shards : Own(thread[t], x) = 0 /\ Own(thread'[t], x) = 0
    BY <1>3, <1>4 DEF Own, Idle
  <1> HIDE DEF s
  <1>8. total' = Cardinality(Slots(reserved'))
    <2>1. n \in Nat /\ reserved' = [reserved EXCEPT ![s] = n] /\ reserved[s] \in Nat
      BY <1>2, <1>3, <1>4, <1>5
    <2>2. Cardinality(Slots([reserved EXCEPT ![s] = n])) = Cardinality(Slots(reserved)) - reserved[s] + n
      BY <1>2, <1>4, <2>1, SlotsChange
    <2> QED
      BY <1>3, <1>4, <1>5, <2>1, <2>2
  <1>9. ASSUME NEW x \in Shards
        PROVE  /\ active'[x] <= reserved'[x]
               /\ active'[x] = Cardinality(Releasers(thread', x)) + Cardinality(InShard(members', x))
    <2>1. /\ Cardinality(Releasers(thread, x)) \in Nat
          /\ Cardinality(Releasers(thread', x))
               = Cardinality(Releasers(thread, x)) - Own(thread[t], x) + Own(thread'[t], x)
      BY <1>7, ReleasersStep
    <2>2. /\ Cardinality(InShard(members, x)) \in Nat
          /\ Cardinality(InShard(members', x))
               = Cardinality(InShard(members, x)) + IF s = x THEN 1 ELSE 0
      BY <1>3, <1>4, <1>6, ShardMembers
    <2>3. /\ active[x] <= reserved[x]
          /\ active[x] = Cardinality(Releasers(thread, x)) + Cardinality(InShard(members, x))
      BY DEF Account
    <2>4. CASE x = s
      BY <1>2, <1>3, <1>4, <1>5, <1>7, <2>1, <2>2, <2>3, <2>4
    <2>5. CASE x # s
      BY <1>2, <1>3, <1>4, <1>7, <2>1, <2>2, <2>3, <2>5
    <2> QED
      BY <2>4, <2>5
  <1>10. /\ active' \in [Shards -> Nat] /\ reserved' \in [Shards -> Nat]
         /\ total' \in 0..MaxMembers
    BY <1>2, <1>3, <1>4, <1>5
  <1> QED
    BY <1>8, <1>9, <1>10 DEF Account

(* Unused slots of one shard are given back.                               *)
LEMMA ReclaimAccount ==
  ASSUME Account, Control, NEW t \in Threads, Reclaim(t)
  PROVE  Account'
  <1> DEFINE s == thread[t].shard
  <1>1. /\ s \in Shards /\ thread[t].pc = "reclaim"
        /\ reserved' = [reserved EXCEPT ![s] = active[s]]
        /\ total' = total - (reserved[s] - active[s])
        /\ thread' = [thread EXCEPT ![t].shard = IF s = Cardinality(Shards) THEN 0 ELSE s + 1]
        /\ UNCHANGED <<members, active>>
    BY DEF Reclaim, At
  <1>2. /\ active \in [Shards -> Nat] /\ reserved \in [Shards -> Nat] /\ total \in 0..MaxMembers
        /\ total = Cardinality(Slots(reserved)) /\ MaxMembers \in Nat
        /\ thread \in [Threads -> Call] /\ active[s] <= reserved[s]
    BY <1>1, RegistryAssumption DEF Account, Control, Types
  <1>3. /\ \A u \in Threads \ {t} : thread'[u] = thread[u]
        /\ \A x \in Shards : Own(thread[t], x) = 0 /\ Own(thread'[t], x) = 0
    <2>1. thread'[t].pc = "reclaim"
      BY <1>1, <1>2 DEF Call
    <2> QED
      BY <1>1, <1>2, <2>1 DEF Own
  <1> HIDE DEF s
  <1>4. /\ Cardinality(Slots(reserved')) = Cardinality(Slots(reserved)) - reserved[s] + active[s]
        /\ reserved[s] <= Cardinality(Slots(reserved))
    BY <1>1, <1>2, SlotsChange
  <1>5. total' = Cardinality(Slots(reserved')) /\ total' \in 0..MaxMembers
    BY <1>1, <1>2, <1>4
  <1>6. ASSUME NEW x \in Shards
        PROVE  /\ active'[x] <= reserved'[x]
               /\ active'[x] = Cardinality(Releasers(thread', x)) + Cardinality(InShard(members', x))
    <2>1. /\ Cardinality(Releasers(thread, x)) \in Nat
          /\ Cardinality(Releasers(thread', x))
               = Cardinality(Releasers(thread, x)) - Own(thread[t], x) + Own(thread'[t], x)
      <3>1. \A u \in Threads \ {t} : thread'[u] = thread[u]
        BY <1>3
      <3> QED
        BY <3>1, ReleasersStep
    <2>2. /\ active[x] <= reserved[x]
          /\ active[x] = Cardinality(Releasers(thread, x)) + Cardinality(InShard(members, x))
      BY DEF Account
    <2> QED
      BY <1>1, <1>2, <1>3, <2>1, <2>2
  <1>7. active' \in [Shards -> Nat] /\ reserved' \in [Shards -> Nat]
    BY <1>1, <1>2
  <1> QED
    BY <1>5, <1>6, <1>7 DEF Account

(* A removed member's slot is on its way back; a member that was already   *)
(* gone returns none.                                                      *)
LEMMA RemoveAccount ==
  ASSUME Account, Control, NEW t \in Threads, Remove(t)
  PROVE  Account'
  <1> DEFINE r == thread[t]
  <1>1. PICK l \in r.todo :
          LET m == [l EXCEPT !.arc = link[l.conn][l.ch]] IN
          /\ members' = members \ {m}
          /\ thread' = [thread EXCEPT
               ![t].todo = @ \ {l},
               ![t].pc = IF m \in members THEN "release" ELSE @,
               ![t].shard = IF m \in members THEN CapShard[<<m.ch, m.client>>] ELSE 0]
          /\ UNCHANGED <<active, reserved, total>>
    BY DEF Remove
  <1> DEFINE m == [l EXCEPT !.arc = link[l.conn][l.ch]]
             p == IF m \in members THEN "release" ELSE r.pc
             s == IF m \in members THEN CapShard[<<m.ch, m.client>>] ELSE 0
  <1>2. /\ thread \in [Threads -> Call] /\ IsFiniteSet(members) /\ r.pc = "remove"
        /\ active \in [Shards -> Nat]
    BY DEF Remove, At, Control, Types, Account
  <1>3. /\ thread' = [thread EXCEPT ![t].todo = r.todo \ {l}, ![t].pc = p, ![t].shard = s]
        /\ members' = members \ {m}
        /\ UNCHANGED <<active, reserved, total>>
    BY <1>1, <1>2
  <1>4. /\ p = IF m \in members THEN "release" ELSE "remove"
        /\ m \in members => s = CapShard[<<m.ch, m.client>>]
    BY <1>2
  <1> HIDE DEF m, p, s
  <1>5. /\ \A u \in Threads \ {t} : thread'[u] = thread[u]
        /\ thread'[t].pc = p /\ thread'[t].shard = s
    BY <1>2, <1>3 DEF Call
  <1>6. CASE m \notin members
    <2>1. members' = members /\ \A x \in Shards : Own(thread'[t], x) = Own(thread[t], x)
      BY <1>2, <1>3, <1>4, <1>5, <1>6 DEF Own
    <2> QED
      BY <1>3, <1>5, <2>1, Quiet
  <1>7. CASE m \in members
    <2>1. ASSUME NEW x \in Shards
          PROVE  active'[x] = Cardinality(Releasers(thread', x)) + Cardinality(InShard(members', x))
      <3>1. /\ Cardinality(Releasers(thread, x)) \in Nat
            /\ Cardinality(Releasers(thread', x))
                 = Cardinality(Releasers(thread, x)) - Own(thread[t], x) + Own(thread'[t], x)
        BY <1>5, ReleasersStep
      <3>2. Own(thread[t], x) = 0 /\ Own(thread'[t], x) = IF s = x THEN 1 ELSE 0
        BY <1>2, <1>4, <1>5, <1>7 DEF Own
      <3>3. /\ Cardinality(InShard(members, x)) \in Nat
            /\ Cardinality(InShard(members', x))
                 = Cardinality(InShard(members, x)) - IF s = x THEN 1 ELSE 0
        <4>1. /\ Cardinality(InShard(members, x)) \in Nat
              /\ Cardinality(InShard(members \ {m}, x)) = Cardinality(InShard(members, x))
                   - IF CapShard[<<m.ch, m.client>>] = x THEN 1 ELSE 0
          BY <1>2, <1>7, ShardMembers
        <4> QED
          BY <1>3, <1>4, <1>7, <4>1
      <3>4. active[x] = Cardinality(Releasers(thread, x)) + Cardinality(InShard(members, x))
        BY DEF Account
      <3> QED
        BY <1>2, <1>3, <3>1, <3>2, <3>3, <3>4
    <2> QED
      BY <1>3, <2>1 DEF Account
  <1> QED
    BY <1>6, <1>7

(* release_member returns the slot of a removed member, and the whole      *)
(* reservation of a shard without active slots if the limit is small.      *)
LEMMA ReleaseAccount ==
  ASSUME Account, Control, NEW t \in Threads, Release(t)
  PROVE  Account'
  <1> DEFINE s == thread[t].shard
             idle == ReleaseIdle /\ active[s] = 1
             n == IF idle THEN 0 ELSE reserved[s]
  <1>1. /\ s \in Shards /\ thread[t].pc = "release"
        /\ active' = [active EXCEPT ![s] = @ - 1]
        /\ reserved' = [reserved EXCEPT ![s] = IF idle THEN 0 ELSE @]
        /\ total' = IF idle THEN total - reserved[s] ELSE total
        /\ thread' = [thread EXCEPT ![t].pc = "remove", ![t].shard = 0]
        /\ UNCHANGED members
    BY DEF Release, At, Control, Joins
  <1>2. /\ active \in [Shards -> Nat] /\ reserved \in [Shards -> Nat] /\ total \in 0..MaxMembers
        /\ total = Cardinality(Slots(reserved)) /\ MaxMembers \in Nat
        /\ thread \in [Threads -> Call] /\ active[s] <= reserved[s] /\ IsFiniteSet(members)
    BY <1>1, RegistryAssumption DEF Account, Control, Types
  <1>3. /\ \A u \in Threads \ {t} : thread'[u] = thread[u]
        /\ \A x \in Shards : Own(thread[t], x) = (IF x = s THEN 1 ELSE 0) /\ Own(thread'[t], x) = 0
    <2>1. thread'[t].pc = "remove"
      BY <1>1, <1>2 DEF Call
    <2> QED
      BY <1>1, <1>2, <2>1 DEF Own
  <1>4. n \in Nat /\ n <= reserved[s] /\ reserved' = [reserved EXCEPT ![s] = n]
        /\ total' = total - reserved[s] + n
        /\ (active[s] # 1 => n = reserved[s])
    BY <1>1, <1>2
  <1>5. reserved[s] \in Nat /\ active[s] \in Nat
    BY <1>1, <1>2
  <1> HIDE DEF s, n
  <1>6. /\ Cardinality(Slots(reserved')) = Cardinality(Slots(reserved)) - reserved[s] + n
        /\ reserved[s] <= Cardinality(Slots(reserved))
    <2>1. s \in Shards /\ n \in Nat /\ reserved \in [Shards -> Nat]
      BY <1>1, <1>2, <1>4
    <2>2. /\ Cardinality(Slots([reserved EXCEPT ![s] = n])) = Cardinality(Slots(reserved)) - reserved[s] + n
          /\ reserved[s] <= Cardinality(Slots(reserved))
      BY <2>1, SlotsChange
    <2> QED
      BY <1>4, <2>2
  <1>7. total' = Cardinality(Slots(reserved')) /\ total' \in 0..MaxMembers
    BY <1>2, <1>4, <1>5, <1>6
  <1>8. ASSUME NEW x \in Shards
        PROVE  /\ active'[x] \in Nat /\ active'[x] <= reserved'[x]
               /\ active'[x] = Cardinality(Releasers(thread', x)) + Cardinality(InShard(members', x))
    <2>1. /\ Cardinality(Releasers(thread, x)) \in Nat
          /\ Cardinality(Releasers(thread, x)) >= Own(thread[t], x)
          /\ Cardinality(Releasers(thread', x))
               = Cardinality(Releasers(thread, x)) - Own(thread[t], x) + Own(thread'[t], x)
      <3>1. \A u \in Threads \ {t} : thread'[u] = thread[u]
        BY <1>3
      <3> QED
        BY <3>1, ReleasersStep
    <2>2. Cardinality(InShard(members, x)) \in Nat
      BY <1>2, ShardMembers
    <2>3. /\ active[x] <= reserved[x] /\ active[x] \in Nat /\ reserved[x] \in Nat
          /\ active[x] = Cardinality(Releasers(thread, x)) + Cardinality(InShard(members, x))
      BY DEF Account
    <2>4. CASE x = s
      <3>1. active'[x] = active[x] - 1 /\ reserved'[x] = n /\ members' = members
        BY <1>1, <1>2, <1>4, <2>4
      <3>2. Own(thread[t], x) = 1 /\ Own(thread'[t], x) = 0
        BY <1>3, <2>4
      <3> QED
        BY <1>4, <1>5, <2>1, <2>2, <2>3, <2>4, <3>1, <3>2
    <2>5. CASE x # s
      <3>1. active'[x] = active[x] /\ reserved'[x] = reserved[x] /\ members' = members
        BY <1>1, <1>2, <1>4, <2>5
      <3>2. Own(thread[t], x) = 0 /\ Own(thread'[t], x) = 0
        BY <1>3, <2>5
      <3> QED
        BY <2>1, <2>2, <2>3, <3>1, <3>2
    <2> QED
      BY <2>4, <2>5
  <1>9. active' \in [Shards -> Nat] /\ reserved' \in [Shards -> Nat]
    <2>1. DOMAIN active' = Shards /\ active' = [x \in Shards |-> active'[x]]
      BY <1>1, <1>2
    <2> QED
      BY <1>1, <1>2, <1>4, <1>8, <2>1
  <1> QED
    BY <1>7, <1>8, <1>9 DEF Account

(* No step of a call breaks the account.                                   *)
LEMMA StepAccount == Account /\ Control /\ [Next]_vars => Account'
  <1> SUFFICES ASSUME Account, Control, [Next]_vars PROVE Account'
    OBVIOUS
  <1>0. thread \in [Threads -> Call] /\ members \subseteq Member
    BY DEF Control, Types
  <1>1. CASE UNCHANGED vars
    BY <1>1 DEF vars, Account
  <1>2. ASSUME NEW t \in Threads, thread[t].pc # "release", thread'[t].pc # "release",
               \A u \in Threads \ {t} : thread'[u] = thread[u],
               UNCHANGED <<members, active, reserved, total>>
        PROVE  Account'
    <2>1. \A s \in Shards : Own(thread'[t], s) = Own(thread[t], s)
      BY <1>2 DEF Own
    <2> QED
      BY <1>2, <2>1, Quiet
  <1>3. ASSUME NEW t \in Threads, Register(t) PROVE Account'
    BY <1>3 DEF Register, Account
  <1>4. ASSUME NEW t \in Threads, NEW op, NEW c, NEW ch, NEW cl, NEW pc \in {"lock", "list"},
               Start(t, op, c, ch, cl, pc)
        PROVE  Account'
    <2> DEFINE q == [Idle EXCEPT !.pc = pc, !.op = op, !.conn = c, !.ch = ch, !.client = cl]
    <2>1. q.pc = pc
      BY DEF Idle
    <2>2. thread[t].pc = "idle" /\ thread' = [thread EXCEPT ![t] = q]
          /\ UNCHANGED <<members, active, reserved, total>>
      BY <1>4 DEF Start, At
    <2> HIDE DEF q
    <2> QED
      BY <1>0, <1>2, <1>4, <2>1, <2>2
  <1>5. ASSUME NEW t \in Threads,
               \/ CallEnter(t) \/ CallLeave(t) \/ CallDetach(t) \/ CallUnregister(t)
               \/ CallSupersede(t)
        PROVE  Account'
    BY <1>4, <1>5 DEF CallEnter, CallLeave, CallDetach, CallUnregister, CallSupersede
  <1>6. ASSUME NEW t \in Threads, Acquire(t) PROVE Account'
    <2>1. /\ thread[t].pc # "release" /\ thread'[t].pc # "release"
          /\ \A u \in Threads \ {t} : thread'[u] = thread[u]
          /\ UNCHANGED <<members, active, reserved, total>>
      BY <1>0, <1>6 DEF Acquire, At, Call
    <2> QED
      BY <1>2, <2>1
  <1>7. ASSUME NEW t \in Threads, Return(t), thread[t].pc # "release",
               UNCHANGED <<members, active, reserved, total>>
        PROVE  Account'
    <2>1. /\ thread'[t].pc # "release"
          /\ \A u \in Threads \ {t} : thread'[u] = thread[u]
      BY <1>0, <1>7 DEF Return, Idle
    <2> QED
      BY <1>2, <1>7, <2>1
  <1>8. ASSUME NEW t \in Threads, NotFound(t) \/ Finish(t) PROVE Account'
    BY <1>7, <1>8 DEF NotFound, Finish, At
  <1>9. ASSUME NEW t \in Threads, Find(t) PROVE Account'
    <2>1. /\ thread[t].pc # "release" /\ thread'[t].pc # "release"
          /\ \A u \in Threads \ {t} : thread'[u] = thread[u]
          /\ UNCHANGED <<members, active, reserved, total>>
      BY <1>0, <1>9 DEF Find, Goto, At, Call
    <2> QED
      BY <1>2, <2>1
  <1>10. ASSUME NEW t \in Threads, Get(t) PROVE Account'
    <2>1. PICK p \in {"link", "prune", "insert"}, a \in Nat :
            thread' = [thread EXCEPT ![t] = [@ EXCEPT !.pc = p, !.arc = a]]
                \/ thread' = [thread EXCEPT ![t] = [@ EXCEPT !.pc = p]]
      BY <1>10 DEF Get, Control, Types, Joins, JoinPCs, At
    <2>2. /\ thread[t].pc # "release" /\ thread'[t].pc # "release"
          /\ \A u \in Threads \ {t} : thread'[u] = thread[u]
          /\ UNCHANGED <<members, active, reserved, total>>
      BY <1>0, <1>10, <2>1 DEF Get, At, Call
    <2> QED
      BY <1>2, <2>2
  <1>11. ASSUME NEW t \in Threads, Prune(t) PROVE Account'
    <2>1. CASE UNCHANGED thread
      BY <1>11, <2>1 DEF Prune, Account
    <2>2. CASE Goto(t, "insert")
      <3>1. /\ thread[t].pc # "release" /\ thread'[t].pc # "release"
            /\ \A u \in Threads \ {t} : thread'[u] = thread[u]
            /\ UNCHANGED <<members, active, reserved, total>>
        BY <1>0, <1>11, <2>2 DEF Prune, Goto, At, Call
      <3> QED
        BY <1>2, <3>1
    <2> QED
      BY <1>11, <2>1, <2>2 DEF Prune
  <1>12. ASSUME NEW t \in Threads, Insert(t) \/ Link(t) PROVE Account'
    <2>1. PICK p, a : /\ p \in {"link", "find"}
                      /\ thread' = [thread EXCEPT ![t].pc = p, ![t].arc = a]
      BY <1>12 DEF Insert, Link
    <2>2. /\ thread[t].pc # "release" /\ thread'[t].pc # "release"
          /\ \A u \in Threads \ {t} : thread'[u] = thread[u]
          /\ UNCHANGED <<members, active, reserved, total>>
      BY <1>0, <1>12, <2>1 DEF Insert, Link, At, Call
    <2> QED
      BY <1>2, <2>2
  <1>13. ASSUME NEW t \in Threads, Enter(t) PROVE Account'
    <2>1. thread[t].pc = "enter"
      BY <1>13 DEF Enter, At
    <2>2. CASE Return(t) /\ UNCHANGED <<members, active, reserved, total>>
      BY <1>7, <2>1, <2>2
    <2>3. CASE Record(thread[t]) \notin members /\ Reserve(t)
      BY <2>1, <2>3, ReserveAccount
    <2>4. CASE /\ thread' = [thread EXCEPT ![t].pc = "reclaim", ![t].shard = 1]
               /\ UNCHANGED <<members, active, reserved, total>>
      <3>1. thread'[t].pc # "release" /\ \A u \in Threads \ {t} : thread'[u] = thread[u]
        BY <1>0, <2>4 DEF Call
      <3> QED
        BY <1>2, <2>1, <2>4, <3>1
    <2> QED
      BY <1>13, <2>2, <2>3, <2>4 DEF Enter
  <1>14. ASSUME NEW t \in Threads, Retry(t) PROVE Account'
    <2>1. thread[t].pc = "reclaim" /\ Record(thread[t]) \notin members
      BY <1>14 DEF Retry, At, Control, Joins
    <2>2. CASE Reserve(t)
      BY <2>1, <2>2, ReserveAccount
    <2>3. CASE Return(t) /\ UNCHANGED <<members, active, reserved, total>>
      BY <1>7, <2>1, <2>3
    <2> QED
      BY <1>14, <2>2, <2>3 DEF Retry
  <1>15. ASSUME NEW t \in Threads, List(t) PROVE Account'
    <2>1. PICK q : /\ thread' = [thread EXCEPT ![t] = q]
                   /\ q = Idle \/ \E T, c : q = [thread[t] EXCEPT !.pc = "lock", !.todo = T, !.conn = c]
      BY <1>0, <1>15 DEF List
    <2>2. q.pc # "release"
      <3>1. CASE q = Idle
        BY <3>1 DEF Idle
      <3>2. ASSUME NEW T, NEW c, q = [thread[t] EXCEPT !.pc = "lock", !.todo = T, !.conn = c]
            PROVE  q.pc # "release"
        BY <1>0, <3>2 DEF Call
      <3> QED
        BY <2>1, <3>1, <3>2
    <2>3. /\ thread[t].pc # "release" /\ thread'[t].pc # "release"
          /\ \A u \in Threads \ {t} : thread'[u] = thread[u]
          /\ UNCHANGED <<members, active, reserved, total>>
      BY <1>0, <1>15, <2>1, <2>2 DEF List, At
    <2> QED
      BY <1>2, <2>3
  <1>16. ASSUME NEW t \in Threads, NextConnection(t) PROVE Account'
    <2>1. PICK c : thread' = [thread EXCEPT ![t].pc = "lock", ![t].conn = c]
      BY <1>16 DEF NextConnection
    <2>2. /\ thread[t].pc # "release" /\ thread'[t].pc # "release"
          /\ \A u \in Threads \ {t} : thread'[u] = thread[u]
          /\ UNCHANGED <<members, active, reserved, total>>
      BY <1>0, <1>16, <2>1 DEF NextConnection, At, Call
    <2> QED
      BY <1>2, <2>2
  <1> QED
    BY <1>1, <1>3, <1>5, <1>6, <1>8, <1>9, <1>10, <1>11, <1>12, <1>13, <1>14, <1>15, <1>16,
       ReclaimAccount, RemoveAccount, ReleaseAccount
    DEF Next, Step

(* Spec keeps the account.                                                 *)
LEMMA AlwaysAccount == Spec => []Account
  BY InitAccount, StepAccount, AlwaysControl, PTL DEF Spec

(* No interleaving of joins, leaves and reclaims loses or doubles a slot:  *)
(* reserved_capacity is the sum of the shards' reservations, and a shard's *)
(* active slots are its members and the slots about to be returned, for    *)
(* any number of threads and shards, any batch and any limit.              *)
THEOREM CapacityAccount == Spec => []CapacityExact
  <1>1. Account => CapacityExact
    BY AccountExact
  <1> QED
    BY <1>1, AlwaysAccount, PTL

(* The registry's maps, counters, mutexes and callers keep their types; in *)
(* particular no shard and no sum of shards ever exceeds max_members.      *)
THEOREM TypeCorrect == Spec => []TypeOK
  <1>1. Control /\ Account => TypeOK
    BY AccountExact DEF Control, Types, Account, TypeOK
  <1> QED
    BY <1>1, AlwaysControl, AlwaysAccount, PTL

=============================================================================
